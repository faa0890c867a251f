------------------------------ MODULE ListKeys ------------------------------
(***************************************************************************)
(* ykhsmauth_list_keys (ykhsmauth.c 532-602), one iteration of its parse  *)
(* loop per step.  `buf' is the reply payload data[0 .. recv_len - 1]     *)
(* (buf[k + 1] is data[k]); `i' and `element' are the C variables of the  *)
(* same name; `entries' holds list[0 .. element - 1] as written; `items'  *)
(* is the caller's *list_items, its capacity on entry.  With `listNull'   *)
(* the caller passed list == NULL to count the credentials.               *)
(***************************************************************************)
EXTENDS Integers, Sequences, Transport

CONSTANTS
    TAG_LABEL_LIST,   \* YKHSMAUTH_TAG_LABEL_LIST
    LabelCap,         \* sizeof(ykhsmauth_list_entry.label)
    Payloads,         \* reply payloads the card may send on success
    Caps,             \* capacities the caller may pass in *list_items
    ListNullModes,    \* whether the caller passes list == NULL
    StatusWords

VARIABLES
    phase,     \* "idle", "loop" (inside the while loop) or "done"
    listNull,  \* list == NULL
    reply,     \* the card's reply envelope
    buf,       \* its payload
    i,         \* the parse cursor (a 0-based C index into data)
    element,   \* records parsed so far
    entries,   \* list[0 .. element - 1]
    items,     \* *list_items
    rc,        \* the result, once phase = "done"
    readTo     \* history: one past the highest data[] index read

vars == <<phase, listNull, reply, buf, i, element, entries, items, rc, readTo>>

\* data[k] for a 0-based index k: the payload, then the two status word
\* bytes SCardTransmit left after it (9000 here), then untouched zeros.
Data(k) ==
    IF k < Len(buf) THEN buf[k + 1]
    ELSE IF k = Len(buf) THEN 144
    ELSE 0

\* Mutation variant of LabelField: one byte too many copied.
LabelFieldLong(at, n) == [j \in 1..LabelCap |-> IF j <= n + 1 THEN Data(at + j - 1) ELSE 0]

\* The label field: memset to 0, then len - 3 bytes copied from data + at.
LabelField(at, n) == [j \in 1..LabelCap |-> IF j <= n THEN Data(at + j - 1) ELSE 0]

\* Mutation variant of Entry: ctr read one byte past the record.
EntryCtrAfter(at, len) ==
    [algo  |-> Data(at), touch |-> Data(at + 1),
     label |-> LabelField(at + 2, len - 3), ctr |-> Data(at + len)]

\* list[element] for the record body at data[at], len bytes long: algo,
\* touch, the label field and ctr.
Entry(at, len) ==
    [algo  |-> Data(at), touch |-> Data(at + 1),
     label |-> LabelField(at + 2, len - 3), ctr |-> Data(at + len - 1)]

\* Mutation variant of Full: capacity exhausted one entry late.
FullLate == element > items

\* element >= *list_items: no slot left in list[].
Full == element >= items

Init ==
    /\ phase = "idle" /\ listNull = FALSE /\ reply = NoReply /\ buf = <<>>
    /\ i = 0 /\ element = 0 /\ entries = <<>> /\ items = 0 /\ rc = "SUCCESS"
    /\ readTo = 0

\* The call up to the loop: list_items == NULL is rejected; a transport
\* failure or a status word other than 9000 returns at once; otherwise the
\* payload p, one of ps, is parsed.
CallWith(ps) ==
    /\ phase = "idle"
    /\ \E nul \in BOOLEAN, ln \in ListNullModes, cap \in Caps :
         /\ listNull' = ln /\ items' = cap
         /\ i' = 0 /\ element' = 0 /\ entries' = <<>> /\ readTo' = 0
         /\ \/ /\ nul
               /\ phase' = "done" /\ rc' = "INVALID_PARAMS"
               /\ reply' = NoReply /\ buf' = <<>>
            \/ /\ ~nul
               /\ \E r \in ErrorReplies(StatusWords) :
                    /\ phase' = "done" /\ rc' = Outcome(SendData(r))
                    /\ reply' = r /\ buf' = <<>>
            \/ /\ ~nul
               /\ \E p \in ps :
                    /\ phase' = "loop" /\ rc' = "SUCCESS"
                    /\ reply' = [ok |-> TRUE, raw |-> Len(p) + 2, sw |-> SW_SUCCESS]
                    /\ buf' = p

Call == CallWith(Payloads)

\* Loop guard: i + 1 < recv_len, so data[i] and data[i + 1] can be read.
InLoop == phase = "loop" /\ i + 1 < Len(buf)

\* Mutation variant of LengthOk: the record is not checked against recv_len.
LengthOkUnbounded(at, len) == ~(len < 3 \/ len - 3 > LabelCap)

\* The record body data[at .. at + len - 1] lies within the reply and
\* holds algo, touch, a label that fits the field, and ctr.
LengthOk(at, len) == ~(at + len > Len(buf) \/ len < 3 \/ len - 3 > LabelCap)

\* The tag is not YKHSMAUTH_TAG_LABEL_LIST.
BadTag ==
    /\ InLoop /\ Data(i) # TAG_LABEL_LIST
    /\ phase' = "done" /\ rc' = "GENERIC_ERROR" /\ readTo' = i + 1
    /\ UNCHANGED <<listNull, reply, buf, i, element, entries, items>>

\* list != NULL and element >= *list_items.
ListFull ==
    /\ InLoop /\ Data(i) = TAG_LABEL_LIST /\ ~listNull /\ Full
    /\ phase' = "done" /\ rc' = "MEMORY_ERROR" /\ readTo' = i + 2
    /\ UNCHANGED <<listNull, reply, buf, i, element, entries, items>>

\* list != NULL and the record's length byte is inconsistent.
BadLength ==
    /\ InLoop /\ Data(i) = TAG_LABEL_LIST /\ ~listNull /\ ~Full
    /\ ~LengthOk(i + 2, Data(i + 1))
    /\ phase' = "done" /\ rc' = "GENERIC_ERROR" /\ readTo' = i + 2
    /\ UNCHANGED <<listNull, reply, buf, i, element, entries, items>>

\* list != NULL: algo, touch, the label and ctr are copied to list[element].
StoreEntry ==
    /\ InLoop /\ Data(i) = TAG_LABEL_LIST /\ ~listNull /\ ~Full
    /\ LET len == Data(i + 1)
           at  == i + 2
       IN  /\ LengthOk(at, len)
           /\ entries' = Append(entries, Entry(at, len))
           /\ i' = at + len
           /\ readTo' = at + len
    /\ element' = element + 1
    /\ UNCHANGED <<phase, listNull, reply, buf, items, rc>>

\* list == NULL: the record is skipped, len unchecked.
CountEntry ==
    /\ InLoop /\ Data(i) = TAG_LABEL_LIST /\ listNull
    /\ i' = i + 2 + Data(i + 1)
    /\ element' = element + 1
    /\ readTo' = i + 2
    /\ UNCHANGED <<phase, listNull, reply, buf, entries, items, rc>>

\* After the loop: *list_items = element, and any cursor other than
\* recv_len is a GENERIC_ERROR.
LoopEnd ==
    /\ phase = "loop" /\ ~(i + 1 < Len(buf))
    /\ items' = element
    /\ rc' = IF i # Len(buf) THEN "GENERIC_ERROR" ELSE "SUCCESS"
    /\ phase' = "done"
    /\ UNCHANGED <<listNull, reply, buf, i, element, entries, readTo>>

\* The caller takes the result.
Return ==
    /\ phase = "done"
    /\ phase' = "idle" /\ listNull' = FALSE /\ reply' = NoReply /\ buf' = <<>>
    /\ i' = 0 /\ element' = 0 /\ entries' = <<>> /\ items' = 0 /\ rc' = "SUCCESS"
    /\ readTo' = 0

Next ==
    \/ Call \/ BadTag \/ ListFull \/ BadLength \/ StoreEntry \/ CountEntry
    \/ LoopEnd \/ Return

Spec == Init /\ [][Next]_vars

\* The loop runs on its own thread of control until it returns.
LoopStep == BadTag \/ ListFull \/ BadLength \/ StoreEntry \/ CountEntry \/ LoopEnd
FairSpec == Spec /\ WF_vars(LoopStep)

-----------------------------------------------------------------------------
(* The parse never reads data[] at or past recv_len: the loop guard covers *)
(* the tag and length bytes, the length check the record's body.          *)
ReadsWithinReply == readTo <= Len(buf)

\* The C string a caller reads from a label field: up to the first NUL.
CString(f) ==
    LET z == {k \in DOMAIN f : f[k] = 0}
    IN  IF z = {} THEN f ELSE SubSeq(f, 1, (CHOOSE k \in z : \A j \in z : k <= j) - 1)

(* ListKeysSpec under the mapping that hides the loop: the call is busy  *)
(* while it loops, and the caller sees list[] (labels as C strings) and   *)
(* *list_items once it returns.                                           *)
Abs == INSTANCE ListKeysSpec
         WITH phase   <- IF phase = "loop" THEN "busy" ELSE phase,
              entries <- IF phase = "done"
                         THEN [k \in DOMAIN entries |->
                                 [entries[k] EXCEPT !.label = CString(@)]]
                         ELSE <<>>
ListKeysRefines == Abs!Spec

(* Every label list_keys hands out is a NUL-terminated C string within    *)
(* its field, of at most YKHSMAUTH_MAX_LABEL_LEN characters (the label    *)
(* bound of spec section 3), so strlen on it stays inside the entry.      *)
LabelTerminated ==
    \A k \in DOMAIN entries : \E j \in DOMAIN entries[k].label : entries[k].label[j] = 0
=============================================================================
