--------------------------- MODULE MCTunnelManager ----------------------------
(* Values for model-checking TunnelManager. *)
EXTENDS TunnelManager, TLC

CONSTANTS h1, h2, h3, h4, t1, t2, t3, p1, p2, w1, w2, w3

Nothing == [key |-> <<>>, last |-> NoRequest]
OneTunnel == [key |-> h1 :> <<t1, p1>>, last |-> h1]
TwoTunnels == [key |-> (h1 :> <<t1, p1>>) @@ (h2 :> <<t2, p1>>), last |-> h2]

MCHost(v4, v6, tapFails, exitMode, dies) ==
    [v4 |-> v4, v6 |-> v6, tapFails |-> tapFails, exitMode |-> exitMode, dies |-> dies]

Dual == MCHost(TRUE, TRUE, TRUE, FALSE, TRUE)          \* both address families
DualExit == MCHost(TRUE, TRUE, TRUE, TRUE, TRUE)       \* the same, --mode exit
NoV6 == MCHost(TRUE, FALSE, TRUE, FALSE, TRUE)         \* IPv6 disabled
Steady == MCHost(TRUE, TRUE, FALSE, FALSE, FALSE)      \* nothing fails
SteadyNoV6 == MCHost(TRUE, FALSE, FALSE, FALSE, FALSE) \* nothing fails, no IPv6

MostHosts == {Dual, DualExit, NoV6}
OnlyDual == {Dual}
OnlySteady == {Steady}
OnlySteadyNoV6 == {SteadyNoV6}
NothingOrOne == {Nothing, OneTunnel}
JustOne == {OneTunnel}
JustTwo == {TwoTunnels}

(* The handles not used at startup, and the workers, are interchangeable. *)
Symmetry == Permutations(Workers) \cup Permutations(Requests \ {h1})
================================================================================
