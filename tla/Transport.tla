----------------------------- MODULE Transport -----------------------------
(***************************************************************************)
(* send_data (ykhsmauth.c 148-183) and the tail every handler runs on its *)
(* result.  A reply of the card is a record: ok = FALSE when SCardTransmit *)
(* fails, else raw bytes were received, the last two being the status     *)
(* word sw; the payload itself is kept by the modules that read it.       *)
(***************************************************************************)
EXTENDS Integers, Status

NoWrite == -1         \* an output the call left untouched
NoReply == [ok |-> FALSE, raw |-> -1, sw |-> 0]

\* send_data: rc, the status word and recv_len after the split.
SendData(r) ==
    IF ~r.ok THEN [rc |-> "PCSC_ERROR", sw |-> 0, len |-> 0]
    ELSE IF r.raw >= 2 THEN [rc |-> "SUCCESS", sw |-> r.sw, len |-> r.raw - 2]
    ELSE [rc |-> "SUCCESS", sw |-> 0, len |-> r.raw]

\* The common tail: transport error, else translate_error for sw != 9000.
Outcome(sd) ==
    IF sd.rc # "SUCCESS" THEN sd.rc
    ELSE IF sd.sw # SW_SUCCESS THEN TranslateError(sd.sw)
    ELSE "SUCCESS"

\* What translate_error(sw, retries) leaves in *retries after the tail.
RetriesOut(sd) ==
    IF sd.rc = "SUCCESS" /\ sd.sw # SW_SUCCESS
    THEN TranslateRetries(sd.sw, NoWrite) ELSE NoWrite

\* The replies that end a call before its payload is read: SCardTransmit
\* failing, fewer than two bytes (sw is then 0), or a bare status word
\* other than 9000.
ErrorReplies(sws) ==
    {[ok |-> FALSE, raw |-> 0, sw |-> 0]}
    \cup {[ok |-> TRUE, raw |-> r, sw |-> 0] : r \in {0, 1}}
    \cup {[ok |-> TRUE, raw |-> 2, sw |-> s] : s \in sws \ {SW_SUCCESS}}
=============================================================================
