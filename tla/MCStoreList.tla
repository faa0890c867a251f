---------------------------- MODULE MCStoreList ----------------------------
(***************************************************************************)
(* Model-checking instance of StoreList: three labels (1, 2 and 64        *)
(* bytes) of AES credentials, a card with two slots and two retries per   *)
(* credential, put storing a 16-byte password and calculate trying a 15- *)
(* or 16-byte one, and list calls with one and two entries of room,       *)
(* filling or counting.                                                   *)
(***************************************************************************)
EXTENDS StoreList, MCClient

\* Status words of a refused command: wrong management key (63c3), no
\* room, no such label, bad frame, and an unmapped word (6700).
MC_Store_StatusWords ==
    {MC_SW_SUCCESS, 25539, MC_SW_FILE_FULL, MC_SW_FILE_NOT_FOUND,
     MC_SW_WRONG_DATA, 26368}

\* Malformed listings: a record too short for algo, touch and ctr followed
\* by a lone tag byte, and a record of the wrong tag.
MC_Garbage == {<<114, 2, 38, 1, 114>>, <<113, 4, 38, 1, 97, 5>>}

MC_Store_LabelLens == {1, 2, 64}
MC_Store_Algos     == {38}
MC_Unused          == {0}
=============================================================================
