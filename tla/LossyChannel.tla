----------------------------- MODULE LossyChannel -----------------------------
(***************************************************************************)
(* What a receive ring promises: packets may be dropped when they arrive,  *)
(* but those that were taken in come out once, in their order, and none    *)
(* stays inside while the channel is open.                                 *)
(***************************************************************************)
EXTENDS Naturals

VARIABLES
    sent,            \* packets that have arrived, numbered from 1
    inside,          \* numbers of those inside
    got,             \* number of the last one that came out
    closed           \* nobody takes packets out any more

vars == <<sent, inside, got, closed>>

Init == sent = 0 /\ inside = {} /\ got = 0 /\ closed \in BOOLEAN

Arrive ==
    /\ sent' = sent + 1
    /\ inside' \in {inside, inside \cup {sent + 1}}
    /\ UNCHANGED <<got, closed>>

Take ==
    /\ ~closed
    /\ \E n \in inside :
          /\ \A m \in inside : n <= m
          /\ got' = n
          /\ inside' = inside \ {n}
    /\ UNCHANGED <<sent, closed>>

Close == ~closed /\ closed' = TRUE /\ UNCHANGED <<sent, inside, got>>

Next == Arrive \/ Take \/ Close

Spec == Init /\ [][Next]_vars

FairSpec == Spec /\ WF_vars(Take)
================================================================================
