---------------------------- MODULE SessionSpec ----------------------------
(***************************************************************************)
(* What a session promises its caller (spec sections 4.3 and 5): the host *)
(* holds one piece of state, whether the transport is connected.  Connect *)
(* is busy while it tries readers and then either connects (SUCCESS) or   *)
(* reports an error and leaves the session unconnected.  Disconnect and  *)
(* done end the connection.  Listing the readers keeps the connection    *)
(* when it succeeds and may lose it only when it reports an error.  No  *)
(* step loses a connection without telling the caller.                  *)
(***************************************************************************)
VARIABLES alive, connected, phase, op, rc

vars == <<alive, connected, phase, op, rc>>

Errors == {"PCSC_ERROR", "MEMORY_ERROR", "GENERIC_ERROR"}

Init ==
    /\ alive = FALSE /\ connected = FALSE /\ phase = "idle" /\ op = "none"
    /\ rc = "SUCCESS"

\* A session is created, or its allocation fails.
Create ==
    /\ phase = "idle" /\ ~alive
    /\ \/ alive' = TRUE /\ rc' = "SUCCESS"
       \/ UNCHANGED alive /\ rc' = "MEMORY_ERROR"
    /\ op' = "init"
    /\ UNCHANGED <<connected, phase>>

Disconnect ==
    /\ phase = "idle" /\ alive
    /\ connected' = FALSE /\ op' = "disconnect" /\ rc' = "SUCCESS"
    /\ UNCHANGED <<alive, phase>>

Done ==
    /\ phase = "idle" /\ alive
    /\ alive' = FALSE /\ connected' = FALSE /\ op' = "done" /\ rc' = "SUCCESS"
    /\ UNCHANGED phase

\* Listing the readers: on an error the connection may be gone.
ListReaders ==
    /\ phase = "idle" /\ alive
    /\ \/ rc' = "SUCCESS" /\ UNCHANGED connected
       \/ rc' \in Errors /\ connected' \in {connected, FALSE}
    /\ op' = "list_readers"
    /\ UNCHANGED <<alive, phase>>

\* Connect fails before it tries a reader, or starts trying them.
ConnectStart ==
    /\ phase = "idle" /\ alive
    /\ connected' = FALSE
    /\ \/ rc' \in Errors /\ UNCHANGED phase
       \/ rc' = "SUCCESS" /\ phase' = "connecting"
    /\ op' = "connect"
    /\ UNCHANGED alive

\* Connect ends: connected with SUCCESS, or unconnected with an error.
ConnectEnd ==
    /\ phase = "connecting"
    /\ phase' = "idle"
    /\ \/ rc' = "SUCCESS" /\ connected' = TRUE
       \/ rc' \in Errors /\ connected' = FALSE
    /\ UNCHANGED <<alive, op>>

Next == Create \/ Disconnect \/ Done \/ ListReaders \/ ConnectStart \/ ConnectEnd

Spec == Init /\ [][Next]_vars
=============================================================================
