----------------------------- MODULE MCSession -----------------------------
(* Model-checking instance of Session: three card handle values and up to *)
(* two readers, so that one select can fail before another succeeds.     *)
EXTENDS Session

MC_Handles == {1, 2, 3}
=============================================================================
