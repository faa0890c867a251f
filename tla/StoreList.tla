----------------------------- MODULE StoreList -----------------------------
(***************************************************************************)
(* ykhsmauth_put, _delete, _calculate and _reset (Client) composed with    *)
(* ykhsmauth_list_keys (ListKeys) against one card.  The card is the       *)
(* environment: it keeps `card', a sequence of credentials, decodes the    *)
(* frames put and delete send, and answers list_keys with the listing of   *)
(* what it holds (or with one of a few malformed payloads).  A reply the   *)
(* card sends after it changed `card' may be lost or truncated on the way  *)
(* back.  The calls of one ykhsmauth_state run one at a time, so a list    *)
(* call only starts when no other call is in flight and vice versa.        *)
(* calculate checks a credential's password and moves its retry counter,  *)
(* and reset wipes the card.  `must', `may' and `known' record what the   *)
(* host may conclude from the results it was given: the credentials      *)
(* certainly stored, those possibly so, and each label's retry counter.  *)
(***************************************************************************)
EXTENDS Client

LOCAL INSTANCE SequencesExt

CONSTANTS
    TAG_LABEL_LIST, LabelCap, Caps, ListNullModes,   \* as in ListKeys
    Garbage,     \* malformed list payloads the card may answer with
    MaxCreds,    \* credential slots on the card
    Retries,     \* the retry counter of a new credential (below 16)
    PutPwLens    \* the password lengths a put stores, a subset of PwLens

VARIABLES
    card,        \* the card's credentials, in creation order
    must,        \* credentials the host was told were stored and not deleted
    may,         \* credentials the host cannot rule out being stored
    known,       \* label -> retry counter the host was last told, or Unknown
    lkPhase, lkListNull, lkReply, lkBuf, lkI, lkElement, lkEntries,
    lkItems, lkRc, lkReadTo        \* the variables of ListKeys

clientVars == <<op, phase, args, apdu, reply, rc, out>>
lkVars == <<lkPhase, lkListNull, lkReply, lkBuf, lkI, lkElement, lkEntries,
            lkItems, lkRc, lkReadTo>>
envVars == <<card, must, may, known>>
allVars == <<clientVars, lkVars, envVars>>

(* The card's side ------------------------------------------------------- *)

\* The value of the first record with tag t in a decoded frame.
Field(recs, t) == recs[CHOOSE k \in DOMAIN recs : recs[k][1] = t
                           /\ \A j \in 1..k - 1 : recs[j][1] # t][2]

\* The credential a put frame asks the card to create, with its (padded)
\* password and a full retry counter.
Requested(recs) ==
    [label |-> Field(recs, TAG_LABEL), algo |-> Field(recs, TAG_ALGO)[1],
     touch |-> Field(recs, TAG_TOUCH)[1], pw |-> Field(recs, TAG_PW),
     ctr |-> Retries]

Labels == {card[k].label : k \in DOMAIN card}

\* The card's answer to LIST: one TAG_LABEL_LIST record per credential.
ListRecord(c) ==
    <<TAG_LABEL_LIST, Len(c.label) + 3, c.algo, c.touch>> \o c.label \o <<c.ctr>>
Listing(crd) == FlattenSeq([k \in DOMAIN crd |-> ListRecord(crd[k])])

\* Replies that reach the host after the card executed the command: the
\* status word, or a reply lost or cut short on the way back.
Garbled == {[ok |-> FALSE, raw |-> 0, sw |-> 0], [ok |-> TRUE, raw |-> 1, sw |-> 0]}
Answered(sw, n) == {[ok |-> TRUE, raw |-> n + 2, sw |-> sw]} \cup Garbled
AfterDone == Answered(SW_SUCCESS, 0)

\* The results that leave the host unsure whether the command was done.
Unsure == {"PCSC_ERROR", "GENERIC_ERROR"}

LK == INSTANCE ListKeys
        WITH phase <- lkPhase, listNull <- lkListNull, reply <- lkReply,
             buf <- lkBuf, i <- lkI, element <- lkElement,
             entries <- lkEntries, items <- lkItems, rc <- lkRc,
             readTo <- lkReadTo, Payloads <- Garbage

Unknown == -1
HostLabels == {Label(n) : n \in LabelLens}

StoreInit ==
    /\ Init /\ LK!Init /\ card = <<>> /\ must = {} /\ may = {}
    /\ known = [l \in HostLabels |-> Unknown]

(* The host's calls ------------------------------------------------------ *)

\* ykhsmauth_put or ykhsmauth_delete sends its frame (or rejects its
\* arguments) while no list_keys call is running; put stores one of the
\* passwords PutPwLens allows.
HostPut ==
    /\ lkPhase = "idle" /\ Put /\ args'.cpwLen \in PutPwLens
    /\ UNCHANGED <<lkVars, envVars>>
HostDelete == lkPhase = "idle" /\ Delete /\ UNCHANGED <<lkVars, envVars>>
HostReturn == Return /\ UNCHANGED <<lkVars, envVars>>

\* The card executes a put frame: it stores the credential when the label
\* is new and a slot is free, and then answers 9000 (which may not
\* arrive); it refuses any frame with an error reply, changing nothing.
PutExchange ==
    /\ phase = "sent" /\ op = "put"
    /\ LET recs == DecodeRecords(WireData(apdu))
           c    == Requested(recs)
           cred == [label |-> Label(args.labelLen), algo |-> args.algo,
                    touch |-> args.touch]
       IN  \/ /\ Len(card) < MaxCreds /\ c.label \notin Labels
              /\ card' = Append(card, c)
              /\ \E r \in AfterDone :
                   LET res == Outcome(SendData(r)) IN
                   /\ TailAnswer("put", r)
                   /\ must' = IF res = "SUCCESS" THEN must \cup {cred} ELSE must
                   /\ may' = IF res \in Unsure \cup {"SUCCESS"}
                             THEN may \cup {cred} ELSE may
                   /\ known' = [known EXCEPT ![cred.label] =
                                   IF res = "SUCCESS" THEN Retries ELSE Unknown]
           \/ /\ \E r \in ErrorReplies(StatusWords) :
                   LET res == Outcome(SendData(r)) IN
                   /\ TailAnswer("put", r)
                   /\ may' = IF res \in Unsure THEN may \cup {cred} ELSE may
                   /\ known' = IF res \in Unsure
                              THEN [known EXCEPT ![cred.label] = Unknown] ELSE known
              /\ UNCHANGED <<card, must>>
    /\ UNCHANGED lkVars

\* The card executes a delete frame for a label it holds, or refuses it.
DeleteExchange ==
    /\ phase = "sent" /\ op = "delete"
    /\ LET l    == Field(DecodeRecords(WireData(apdu)), TAG_LABEL)
           gone(s) == {c \in s : c.label # Label(args.labelLen)}
       IN  \/ /\ l \in Labels
              /\ card' = SelectSeq(card, LAMBDA c : c.label # l)
              /\ \E r \in AfterDone :
                   LET res == Outcome(SendData(r)) IN
                   /\ TailAnswer("delete", r)
                   /\ must' = IF res \in Unsure \cup {"SUCCESS"}
                              THEN gone(must) ELSE must
                   /\ may' = IF res = "SUCCESS" THEN gone(may) ELSE may
           \/ /\ \E r \in ErrorReplies(StatusWords) :
                   LET res == Outcome(SendData(r)) IN
                   /\ TailAnswer("delete", r)
                   /\ must' = IF res \in Unsure THEN gone(must) ELSE must
              /\ UNCHANGED <<card, may>>
    /\ UNCHANGED <<known, lkVars>>

\* ykhsmauth_calculate, without the public key and cryptogram (which the
\* card's password check ignores), and ykhsmauth_reset.
HostCalculate ==
    /\ lkPhase = "idle" /\ Calculate
    /\ ~args'.pubkeyPtr /\ ~args'.cryptoPtr /\ ~args'.nul
    /\ UNCHANGED <<lkVars, envVars>>
HostReset == lkPhase = "idle" /\ Reset /\ UNCHANGED <<lkVars, envVars>>

\* The card executes a calculate frame for a credential it holds whose
\* counter is not 0: the right password restores the counter and yields
\* three session keys; a wrong one costs a retry and is answered 63cX with
\* the retries left.  A blocked credential is answered 63c0.  Any reply
\* may be lost or cut short.  A label the card lacks is refused (6a82),
\* and the frame may be lost before the card sees it.
CalculateExchange ==
    /\ phase = "sent" /\ op = "calculate"
    /\ LET recs == DecodeRecords(WireData(apdu))
           held == {k \in DOMAIN card : card[k].label = Field(recs, TAG_LABEL)}
           lbl  == Label(args.labelLen)
       IN  \/ \E k \in held :
                LET ok  == card[k].ctr > 0 /\ card[k].pw = Field(recs, TAG_PW)
                    ctr == IF ok THEN Retries ELSE IF card[k].ctr > 0
                                                   THEN card[k].ctr - 1 ELSE 0
                IN  /\ card' = [card EXCEPT ![k].ctr = ctr]
                    /\ \E r \in IF ok THEN Answered(SW_SUCCESS, 3 * SESSION_KEY_LEN)
                                 ELSE Answered(SW_AUTHENTICATION_FAILED + ctr, 0) :
                         /\ CalcAnswer(r)
                         /\ known' = [known EXCEPT ![lbl] =
                                 CASE rc' = "SUCCESS" -> Retries
                                   [] rc' = "WRONG_PW" -> out'.retries
                                   [] OTHER -> Unknown]
           \/ /\ \E r \in ErrorReplies({SW_FILE_NOT_FOUND}) :
                   /\ held = {} \/ r.sw # SW_FILE_NOT_FOUND
                   /\ CalcAnswer(r)
                   /\ known' = IF rc' \in Unsure
                              THEN [known EXCEPT ![lbl] = Unknown] ELSE known
              /\ UNCHANGED card
    /\ UNCHANGED <<must, may, lkVars>>

\* The card executes a reset: it wipes every credential and answers 9000
\* (which may not arrive), or refuses with an error reply.
ResetExchange ==
    /\ phase = "sent" /\ op = "reset"
    /\ \/ /\ card' = <<>>
          /\ \E r \in AfterDone :
               /\ ResetAnswer(r)
               /\ must' = {}
               /\ may' = IF rc' = "SUCCESS" THEN {} ELSE may
       \/ /\ \E r \in ErrorReplies(StatusWords) :
               /\ ResetAnswer(r)
               /\ must' = IF rc' \in Unsure THEN {} ELSE must
          /\ UNCHANGED <<card, may>>
    /\ UNCHANGED <<known, lkVars>>

\* ykhsmauth_list_keys, while no put or delete is running.
ListCall ==
    /\ phase = "idle" /\ LK!CallWith(Garbage \cup {Listing(card)})
    /\ UNCHANGED <<clientVars, envVars>>
ListStep ==
    /\ \/ LK!BadTag \/ LK!ListFull \/ LK!BadLength \/ LK!StoreEntry
       \/ LK!CountEntry \/ LK!LoopEnd \/ LK!Return
    /\ UNCHANGED <<clientVars, envVars>>

StoreNext ==
    \/ HostPut \/ HostDelete \/ PutExchange \/ DeleteExchange \/ HostReturn
    \/ HostCalculate \/ CalculateExchange \/ HostReset \/ ResetExchange
    \/ ListCall \/ ListStep

StoreSpec == StoreInit /\ [][StoreNext]_allVars

-----------------------------------------------------------------------------
\* The credentials a returned list shows, labels read as C strings.
Listed == {[label |-> LK!CString(e.label), algo |-> e.algo, touch |-> e.touch]
             : e \in ToSet(lkEntries)}

(* Spec section 8: a credential put with SUCCESS is listed by a later     *)
(* list_keys that succeeds on the card's true listing, with its algorithm *)
(* and touch flag, until a delete of its label; a credential is listed    *)
(* only if a put of it was not known to fail, and its delete did not      *)
(* return SUCCESS.  A count-only call (list == NULL) reports a number     *)
(* between the two.  This holds across lost and truncated replies only   *)
(* because put, delete, reset and list_keys report them as errors.        *)
StoredListed ==
    lkPhase = "done" /\ lkRc = "SUCCESS" /\ lkBuf = Listing(card) =>
        IF lkListNull
        THEN Cardinality(must) <= lkItems /\ lkItems <= Cardinality(may)
        ELSE must \subseteq Listed /\ Listed \subseteq may

(* Spec sections 4.2 and 4.3: calculate's WRONG_PW hands the caller the  *)
(* retries left on the credential (the low nibble of 63cX, translate_error) *)
(* and a derivation that succeeds restores them; list_keys reports the    *)
(* same counter in the last byte of each record.  So when list_keys fills *)
(* a list from the card's listing, every listed credential whose counter *)
(* the host was last told by put or calculate shows that counter, across *)
(* lost replies, deletes and resets in between.                           *)
RetriesAgree ==
    lkPhase = "done" /\ lkRc = "SUCCESS" /\ lkBuf = Listing(card) /\ ~lkListNull =>
        \A k \in DOMAIN lkEntries :
            LET l == LK!CString(lkEntries[k].label)
            IN  l \in HostLabels /\ known[l] # Unknown => lkEntries[k].ctr = known[l]

=============================================================================
