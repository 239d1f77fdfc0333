------------------------------- MODULE MCPathMtu -------------------------------
(* Values for model-checking PathMtu: an Ethernet host, one behind a small  *)
(* tunnel, one whose address is on two interfaces, one that reaches the     *)
(* peer from the loopback, a stray address, no socket and no route.         *)
EXTENDS PathMtu, TLC

CONSTANTS h1, h2

Ethernet == [ifs |-> << [addr |-> 1, mtu |-> 1500] >>, source |-> 1,
             route |-> TRUE, pings |-> TRUE]

TwoWays == << [addr |-> 2, mtu |-> 65536], [addr |-> 1, mtu |-> 1280], [addr |-> 1, mtu |-> 9000] >>

SomeNetworks ==
    {Ethernet,
     [Ethernet EXCEPT !.ifs[1].mtu = 572],
     [Ethernet EXCEPT !.ifs = TwoWays],
     [Ethernet EXCEPT !.ifs = TwoWays, !.source = 2],
     [Ethernet EXCEPT !.ifs[1].mtu = 9000, !.source = 3],
     [Ethernet EXCEPT !.ifs[1].mtu = 9000, !.pings = FALSE],
     [Ethernet EXCEPT !.route = FALSE]}

SomeRequests ==
    {[from |-> f, mtu |-> 0, ipsec |-> i, v6 |-> FALSE] : f \in {"file", "call"}, i \in BOOLEAN}
    \cup {[from |-> "file", mtu |-> -1, ipsec |-> FALSE, v6 |-> FALSE],
          [from |-> "call", mtu |-> 65536, ipsec |-> FALSE, v6 |-> FALSE],
          [from |-> "call", mtu |-> 1400, ipsec |-> TRUE, v6 |-> FALSE],
          [from |-> "call", mtu |-> 0, ipsec |-> TRUE, v6 |-> TRUE]}
================================================================================
