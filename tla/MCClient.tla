------------------------------ MODULE MCClient ------------------------------
(***************************************************************************)
(* Model-checking instance of Client: the protocol constants of           *)
(* ykhsmauth.h and internal.h, and input domains that straddle every      *)
(* bound the handlers check or encode.                                    *)
(***************************************************************************)
EXTENDS Client

MC_SW_SUCCESS == 36864                \* 0x9000
MC_SW_AUTHENTICATION_FAILED == 25536  \* 0x63c0
MC_SW_FILE_FULL == 27268              \* 0x6a84
MC_SW_FILE_NOT_FOUND == 27266         \* 0x6a82
MC_SW_WRONG_DATA == 27264             \* 0x6a80
MC_SW_MEMORY_ERROR == 25985           \* 0x6581
MC_SW_SECURITY_STATUS_NOT_SATISFIED == 27010  \* 0x6982
MC_SW_FILE_INVALID == 27011           \* 0x6983
MC_SW_DATA_INVALID == 27012           \* 0x6984
MC_SW_INS_NOT_SUPPORTED == 27904      \* 0x6d00

\* Every mapped status word, 63c0, 63c3 and 63cf, the words just outside
\* the 63cX class, an unmapped one (6700) and 0.
MC_StatusWords ==
    {MC_SW_SUCCESS, 25536, 25539, 25551, 25535, 25552, MC_SW_FILE_FULL,
     MC_SW_FILE_NOT_FOUND, MC_SW_WRONG_DATA, MC_SW_MEMORY_ERROR,
     MC_SW_SECURITY_STATUS_NOT_SATISFIED, MC_SW_FILE_INVALID,
     MC_SW_DATA_INVALID, MC_SW_INS_NOT_SUPPORTED, 26368, 0}

\* Reply lengths (status word included): none, one byte, a bare status
\* word, one byte of payload, a version, three session keys and one byte
\* either side, and a 66-byte blob.
MC_RawLens == {0, 1, 2, 3, 5, 49, 50, 51, 68}

\* Input domains: each straddles the bound the code checks.
MC_LabelLens   == {0, 1, 64, 65}
MC_MgmkeyLens  == {15, 16}
MC_KeyLens     == {0, 31, 32, 33}
MC_PwLens      == {0, 16, 17}
MC_Algos       == {38, 39, 0}       \* AES128, EC P-256, an unknown byte
MC_ContextLens == {0, 16, 127, 128, 130, 131}
MC_PubkeyLens  == {0, 65, 66}
MC_CryptoLens  == {8, 9, 16, 17}
MC_CapLens     == {64, 65}
MC_VersionLens == {0, 5, 6}
=============================================================================
