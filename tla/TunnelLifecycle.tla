---------------------------- MODULE TunnelLifecycle ----------------------------
(***************************************************************************)
(* What lifecycle.rs promises of every tunnel handle, whoever writes its   *)
(* state: a state changes only along the arrows of the table.  This is the *)
(* abstract specification the tunnel manager and its keepalive tasks are   *)
(* shown to implement.                                                     *)
(***************************************************************************)
EXTENDS TunnelState

CONSTANT Handles       \* the identities of tunnel handles

VARIABLE state         \* the state of each handle

Init == state \in [Handles -> TunnelStates]

Transition(h, from, to) ==
    /\ IsValidTransition(from, to)
    /\ state[h] = from
    /\ state' = [state EXCEPT ![h] = to]

Next == \E h \in Handles : \E from, to \in TunnelStates : Transition(h, from, to)

Spec == Init /\ [][Next]_state

================================================================================
