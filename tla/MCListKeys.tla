----------------------------- MODULE MCListKeys -----------------------------
(***************************************************************************)
(* Model-checking instance of ListKeys: reply payloads built from records *)
(* whose labels sit at every bound of the entry's 65-byte label field,    *)
(* together with the malformed shapes the parser must reject.             *)
(***************************************************************************)
EXTENDS ListKeys

MC_SW_SUCCESS == 36864                \* 0x9000
MC_SW_AUTHENTICATION_FAILED == 25536  \* 0x63c0
MC_SW_FILE_FULL == 27268
MC_SW_FILE_NOT_FOUND == 27266
MC_SW_WRONG_DATA == 27264
MC_SW_MEMORY_ERROR == 25985
MC_SW_SECURITY_STATUS_NOT_SATISFIED == 27010
MC_SW_FILE_INVALID == 27011
MC_SW_DATA_INVALID == 27012
MC_SW_INS_NOT_SUPPORTED == 27904
MC_StatusWords == {MC_SW_SUCCESS, 25539, MC_SW_INS_NOT_SUPPORTED, 26368}

LIST == 114   \* YKHSMAUTH_TAG_LABEL_LIST

\* A well-formed record: AES-128 credential, touch on, counter 5, a label of
\* n 'a' characters.
Rec(n) == <<LIST, n + 3, 38, 1>> \o [k \in 1..n |-> 97] \o <<5>>

MC_Payloads ==
    { <<>>,                              \* no credentials
      Rec(1), Rec(64),                   \* shortest and longest labels
      Rec(0),                            \* empty label (len = 3)
      Rec(65),                           \* label fills the whole field
      Rec(66),                           \* label one past the field
      Rec(1) \o Rec(64),                 \* two records
      Rec(1) \o <<LIST>>,                \* one trailing byte
      Rec(1) \o <<LIST, 10, 38, 1>>,     \* last record truncated
      <<LIST, 2, 38, 1>>,                \* len < 3
      <<LIST, 0>>,                       \* len = 0
      <<113, 4, 38, 1, 97, 5>>,          \* wrong tag
      Rec(1) \o <<113, 4, 38, 1, 97, 5>> \* wrong tag after a good record
    }

\* The payloads on which counting and filling agree on the record format:
\* all but those with len < 3 or a label longer than the field, where only
\* filling checks the record's length.
MC_AgreedPayloads == MC_Payloads \ {Rec(66), <<LIST, 2, 38, 1>>, <<LIST, 0>>}
=============================================================================
