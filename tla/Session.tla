------------------------------ MODULE Session ------------------------------
(***************************************************************************)
(* The session handle of ykhsmauth.c: ykhsmauth_init, _done, _disconnect, *)
(* _list_readers and _connect (ykhsmauth.c 91-146, 185-323), with the     *)
(* PC/SC resource manager as the environment.  `ctxValid' and `card' are  *)
(* state->context (valid or SCARD_E_INVALID_HANDLE) and state->card;      *)
(* `open' is the set of card handles the resource manager holds open for  *)
(* that context.  Releasing a context closes every card handle opened on  *)
(* it.  connect's loop over the reader list takes one step per reader.    *)
(***************************************************************************)
EXTENDS Integers, Status

CONSTANTS
    Handles,      \* card handle values SCardConnect may return (not 0)
    MaxReaders    \* most readers SCardListReaders reports

NoCard == 0       \* state->card after memset, or after a disconnect

VARIABLES
    alive,      \* the ykhsmauth_state is allocated (init done, not freed)
    ctxValid,   \* SCardIsValidContext(state->context) == SCARD_S_SUCCESS
    card,       \* state->card
    open,       \* card handles open in the resource manager on the context
    phase,      \* "idle", or "connecting" inside connect's reader loop
    left,       \* readers connect has still to try
    wanted,     \* connect was given a reader filter
    op,         \* the latest call
    rc          \* its result

vars == <<alive, ctxValid, card, open, phase, left, wanted, op, rc>>

Init ==
    /\ alive = FALSE /\ ctxValid = FALSE /\ card = NoCard /\ open = {}
    /\ phase = "idle" /\ left = 0 /\ wanted = FALSE /\ op = "none"
    /\ rc = "SUCCESS"

\* ykhsmauth_init: malloc may fail; the new state is zeroed, with an
\* invalid context.
InitState ==
    /\ phase = "idle" /\ ~alive
    /\ \/ /\ alive' = TRUE /\ ctxValid' = FALSE /\ card' = NoCard
          /\ rc' = "SUCCESS"
       \/ /\ rc' = "MEMORY_ERROR"
          /\ UNCHANGED <<alive, ctxValid, card>>
    /\ op' = "init"
    /\ UNCHANGED <<open, phase, left, wanted>>

\* Mutation variant of AfterRelease: the context is never released.
AfterReleaseNever(o) == o

\* SCardReleaseContext when the context is valid: its handles close.
AfterRelease(o) == IF ctxValid THEN {} ELSE o

\* ykhsmauth_disconnect: SCardDisconnect(state->card) if it is set, then
\* SCardReleaseContext if the context is valid.
DisconnectEffect ==
    /\ card' = NoCard
    /\ open' = AfterRelease(open \ {card})
    /\ ctxValid' = FALSE

Disconnect ==
    /\ phase = "idle" /\ alive
    /\ DisconnectEffect
    /\ op' = "disconnect" /\ rc' = "SUCCESS"
    /\ UNCHANGED <<alive, phase, left, wanted>>

\* ykhsmauth_done: disconnect, then free the state.
Done ==
    /\ phase = "idle" /\ alive
    /\ DisconnectEffect
    /\ alive' = FALSE
    /\ op' = "done" /\ rc' = "SUCCESS"
    /\ UNCHANGED <<phase, left, wanted>>

(* The outcomes of ykhsmauth_list_readers on the current state: the       *)
(* context is established if it is not valid (which may fail), then       *)
(* SCardListReaders is called twice, for the size and for the names.      *)
(* Either call may fail (the second also when the list grew in between),  *)
(* and a failure releases the context.  On success n readers are listed.  *)
ListReadersOutcomes ==
    LET established == {[rc |-> "PCSC_ERROR", ctx |-> FALSE, open |-> open, n |-> 0]}
        listFailed  == {[rc |-> "PCSC_ERROR", ctx |-> FALSE, open |-> {}, n |-> 0]}
        listed      == {[rc |-> "SUCCESS", ctx |-> TRUE, open |-> open, n |-> k]
                          : k \in 1..MaxReaders}
    IN  (IF ctxValid THEN {} ELSE established) \cup listFailed \cup listed

\* ykhsmauth_list_readers called by the application.
ListReaders ==
    /\ phase = "idle" /\ alive
    /\ \E o \in ListReadersOutcomes :
         /\ ctxValid' = o.ctx /\ open' = o.open /\ rc' = o.rc
    /\ op' = "list_readers"
    /\ UNCHANGED <<alive, card, phase, left, wanted>>

\* ykhsmauth_connect up to its reader loop: list_readers, whose failure
\* is returned as is.
Connect ==
    /\ phase = "idle" /\ alive
    /\ \E o \in ListReadersOutcomes, w \in BOOLEAN :
         /\ ctxValid' = o.ctx /\ open' = o.open /\ rc' = o.rc
         /\ phase' = IF o.rc = "SUCCESS" THEN "connecting" ELSE "idle"
         /\ left' = o.n /\ wanted' = w
    /\ op' = "connect"
    /\ UNCHANGED <<alive, card>>

\* A reader whose name does not contain the filter is skipped.
SkipReader ==
    /\ phase = "connecting" /\ left > 0 /\ wanted
    /\ left' = left - 1
    /\ UNCHANGED <<alive, ctxValid, card, open, phase, wanted, op, rc>>

\* SCardConnect fails; whether it zeroes *phCard first is up to the PC/SC
\* implementation.
ConnectFail ==
    /\ phase = "connecting" /\ left > 0
    /\ card' \in {card, NoCard}
    /\ left' = left - 1
    /\ UNCHANGED <<alive, ctxValid, open, phase, wanted, op, rc>>

\* SCardConnect stores a new handle in state->card; selecting the applet
\* then fails (transport error, or a status word other than 9000) and the
\* loop goes on to the next reader.
SelectFail ==
    /\ phase = "connecting" /\ left > 0
    /\ \E h \in Handles \ open : card' = h /\ open' = open \cup {h}
    /\ left' = left - 1
    /\ UNCHANGED <<alive, ctxValid, phase, wanted, op, rc>>

\* Mutation variant of SelectOk: the handle is not kept in state->card.
SelectOkUnstored ==
    /\ phase = "connecting" /\ left > 0
    /\ \E h \in Handles \ open : open' = open \cup {h}
    /\ phase' = "idle" /\ rc' = "SUCCESS"
    /\ UNCHANGED <<alive, ctxValid, card, left, wanted, op>>

\* The applet is selected: connect returns SUCCESS.
SelectOk ==
    /\ phase = "connecting" /\ left > 0
    /\ \E h \in Handles \ open : card' = h /\ open' = open \cup {h}
    /\ phase' = "idle" /\ rc' = "SUCCESS"
    /\ UNCHANGED <<alive, ctxValid, left, wanted, op>>

\* Mutation variant of NoReader: the context is not released.
NoReaderNoRelease ==
    /\ phase = "connecting" /\ left = 0
    /\ phase' = "idle" /\ rc' = "PCSC_ERROR"
    /\ UNCHANGED <<alive, ctxValid, card, open, left, wanted, op>>

\* The list is exhausted: the context is released and connect returns
\* PCSC_ERROR (the GENERIC_ERROR after it is unreachable).
NoReader ==
    /\ phase = "connecting" /\ left = 0
    /\ open' = AfterRelease(open) /\ ctxValid' = FALSE
    /\ phase' = "idle" /\ rc' = "PCSC_ERROR"
    /\ UNCHANGED <<alive, card, left, wanted, op>>

Next ==
    \/ InitState \/ Disconnect \/ Done \/ ListReaders \/ Connect
    \/ SkipReader \/ ConnectFail \/ SelectFail \/ SelectOk \/ NoReader

Spec == Init /\ [][Next]_vars

-----------------------------------------------------------------------------
(* ykhsmauth_disconnect and ykhsmauth_done leave no card handle of the    *)
(* session open in the resource manager, whatever connects, failed        *)
(* selects and list_readers calls came before.                            *)
DisconnectReleasesAll ==
    phase = "idle" /\ op \in {"disconnect", "done"} => open = {}

(* A connect that fails, at list_readers or after trying every reader,  *)
(* leaves no card handle open: neither those of readers whose select      *)
(* failed nor a connection the session held before the call.  A caller   *)
(* that gets an error from connect has to connect again.                  *)
FailedConnectReleasesAll ==
    phase = "idle" /\ op = "connect" /\ rc # "SUCCESS" => open = {}

(* SessionSpec under the mapping that reads the session as connected     *)
(* when state->card names a handle the resource manager holds open (and  *)
(* as unconnected while connect tries readers): a connection appears     *)
(* only through a connect that returns SUCCESS, and it ends only by       *)
(* disconnect, done, or a call that reports an error.                     *)
Abs == INSTANCE SessionSpec
         WITH connected <- phase = "idle" /\ card # NoCard /\ card \in open
SessionRefines == Abs!Spec

=============================================================================
