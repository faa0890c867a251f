---------------------------- MODULE ListKeysSpec ----------------------------
(***************************************************************************)
(* What listing the credentials promises (spec sections 4.3 and 6), as    *)
(* one atomic step from the reply to the result.  The payload is a        *)
(* sequence of records [LIST][len][algo][touch][label...][ctr] with       *)
(* len = 3 + label length and the label no longer than the entry's label  *)
(* field; the whole payload must be consumed.  A well-formed list that    *)
(* fits the caller's capacity is returned entry for entry; one that does  *)
(* not fit is a MEMORY_ERROR; anything malformed is an error; and a call *)
(* that fails leaves at most capacity entries, the leading well-formed   *)
(* records of the reply.                                                  *)
(***************************************************************************)
EXTENDS Integers, Sequences, Transport

CONSTANTS TAG_LABEL_LIST, LabelCap, Payloads, Caps, ListNullModes, StatusWords

VARIABLES phase, listNull, reply, buf, entries, items, rc

vars == <<phase, listNull, reply, buf, entries, items, rc>>

Byte == 0..255
Entry == [algo : Byte, touch : Byte, label : Seq(Byte), ctr : Byte]

\* A record at the head of b that the promise accepts.
GoodHead(b) ==
    /\ Len(b) >= 2 /\ b[1] = TAG_LABEL_LIST
    /\ b[2] >= 3 /\ b[2] - 3 <= LabelCap /\ 2 + b[2] <= Len(b)

RECURSIVE WellFormed(_)
WellFormed(b) ==
    \/ b = <<>>
    \/ GoodHead(b) /\ WellFormed(SubSeq(b, 3 + b[2], Len(b)))

\* The records of b up to the first malformed one, labels without padding.
RECURSIVE Records(_)
Records(b) ==
    IF ~GoodHead(b) THEN <<>>
    ELSE <<[algo |-> b[3], touch |-> b[4], label |-> SubSeq(b, 5, 1 + b[2]),
            ctr |-> b[2 + b[2]]]>>
         \o Records(SubSeq(b, 3 + b[2], Len(b)))

Init ==
    /\ phase = "idle" /\ listNull = FALSE /\ reply = NoReply /\ buf = <<>>
    /\ entries = <<>> /\ items = 0 /\ rc = "SUCCESS"

Call ==
    /\ phase = "idle"
    /\ \E nul \in BOOLEAN, ln \in ListNullModes, cap \in Caps :
         /\ listNull' = ln /\ items' = cap /\ entries' = <<>>
         /\ \/ /\ nul
               /\ phase' = "done" /\ rc' = "INVALID_PARAMS"
               /\ reply' = NoReply /\ buf' = <<>>
            \/ /\ ~nul
               /\ \E r \in ErrorReplies(StatusWords) :
                    /\ phase' = "done" /\ rc' = Outcome(SendData(r))
                    /\ reply' = r /\ buf' = <<>>
            \/ /\ ~nul
               /\ \E p \in Payloads :
                    /\ phase' = "busy" /\ rc' = "SUCCESS"
                    /\ reply' = [ok |-> TRUE, raw |-> Len(p) + 2, sw |-> SW_SUCCESS]
                    /\ buf' = p

\* Counting (list == NULL) writes no entry; a failed count leaves some
\* number in *list_items, at most one per two bytes of the reply.
Count ==
    /\ phase = "busy" /\ listNull
    /\ IF WellFormed(buf)
       THEN rc' = "SUCCESS" /\ items' = Len(Records(buf))
       ELSE rc' = "GENERIC_ERROR" /\ items' \in 0..(Len(buf) \div 2)
    /\ entries' = <<>>
    /\ phase' = "done"
    /\ UNCHANGED <<listNull, reply, buf>>

Fill ==
    /\ phase = "busy" /\ ~listNull
    /\ IF WellFormed(buf) /\ Len(Records(buf)) <= items
       THEN /\ rc' = "SUCCESS" /\ entries' = Records(buf)
            /\ items' = Len(Records(buf))
       ELSE /\ rc' \in IF WellFormed(buf) THEN {"MEMORY_ERROR"}
                       ELSE {"GENERIC_ERROR", "MEMORY_ERROR"}
            /\ \E n \in 0..items :
                  entries' = SubSeq(Records(buf), 1, IF n < Len(Records(buf)) THEN n ELSE Len(Records(buf)))
            /\ items' \in 0..items
    /\ phase' = "done"
    /\ UNCHANGED <<listNull, reply, buf>>

Return ==
    /\ phase = "done"
    /\ phase' = "idle" /\ listNull' = FALSE /\ reply' = NoReply /\ buf' = <<>>
    /\ entries' = <<>> /\ items' = 0 /\ rc' = "SUCCESS"

Next == Call \/ Count \/ Fill \/ Return

\* A listing that has started completes.
Spec == Init /\ [][Next]_vars /\ WF_vars(Count \/ Fill)
=============================================================================
