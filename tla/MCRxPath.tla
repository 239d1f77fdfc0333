-------------------------------- MODULE MCRxPath --------------------------------
(* Values for model-checking RxPath: two IPv4 tunnels to one peer, two IPv6 *)
(* ones, one of them with an id of the others, and every kind of datagram,  *)
(* two at a time.                                                           *)
EXTENDS RxPath

CONSTANTS p1, p2, p3

SomeIds == {0, 258, 513, 300}
Keys == {[id |-> 258, peer |-> p1], [id |-> 513, peer |-> p1], [id |-> 300, peer |-> p2],
         [id |-> 258, peer |-> p2]}

Zeros == <<0, 0, 0, 0, 0, 0, 0, 0>>

(* 258 and 513 are each other's bytes in the wrong order. *)
Eoip(id, len) ==
    [family |-> "v4", peer |-> p1, proto |-> PROTO_GRE, esp |-> FALSE, expectedPort |-> FALSE,
     bytes |-> Encoded("v4", id, len), more |-> len, rest |-> Zeros,
     meant |-> [id |-> id, len |-> len]]
EoipV6(id, len) ==
    [family |-> "v6", peer |-> p2, proto |-> PROTO_ETHERIP, esp |-> FALSE, expectedPort |-> FALSE,
     bytes |-> Encoded("v6", id, len), more |-> len, rest |-> Zeros,
     meant |-> [id |-> id, len |-> len]]
InUdp(d, type) ==
    [d EXCEPT !.proto = PROTO_UDP, !.bytes = EncodeUdpShim(type) \o @, !.expectedPort = TRUE]

Frame == Eoip(258, 60)
Swapped == Eoip(513, 60)
Short == Eoip(258, 14)
Runt == Eoip(513, 10)
Keepalive == Eoip(513, 0)
Long == Eoip(258, 1514)
Jumbo == [Eoip(513, 1600) EXCEPT !.rest = EncodeEoip(258, 120)]
Unknown == [Eoip(258, 60) EXCEPT !.peer = p3, !.meant.len = 60]
V6Frame == EoipV6(300, 60)
V6Keepalive == EoipV6(300, 0)
V6SameId == EoipV6(258, 60)
V6Short == EoipV6(300, 10)
V6TooLarge == EoipV6(4396, 60)
Encrypted == [Eoip(513, 60) EXCEPT !.esp = TRUE]
Gre == [Eoip(258, 40) EXCEPT !.bytes = <<0, 0, 8, 0, 0, 0, 0, 0>>, !.meant = Nothing]
Tcp == [Eoip(258, 1600) EXCEPT !.proto = 6, !.rest = EncodeEoip(513, 14), !.meant = Nothing]

SomeTraffics ==
    {{Frame, Swapped}, {Short, Keepalive}, {Long, Frame}, {Jumbo, Encrypted}, {Runt, Tcp},
     {V6Frame, V6Keepalive}, {V6TooLarge, V6Frame}, {Unknown, Gre},
     {InUdp(Frame, UDP_INNER_TYPE_EOIP), InUdp(V6Frame, UDP_INNER_TYPE_EOIPV6)},
     {InUdp(Gre, UDP_INNER_TYPE_EOIP), InUdp(Keepalive, UDP_INNER_TYPE_EOIP)},
     {InUdp(V6Short, UDP_INNER_TYPE_EOIPV6), [InUdp(Frame, UDP_INNER_TYPE_EOIP) EXCEPT !.expectedPort = FALSE]},
     {Frame, V6SameId}}

RingHost ==
    [ipsec |-> FALSE, afPacket |-> TRUE, ringWorks |-> TRUE, raw |-> {"v4", "v6"}, workers |-> 1,
     recvmmsg |-> TRUE, readFails |-> FALSE, link |-> "ETHERNET", filter |-> NoFilter]

SomeHosts ==
    {RingHost,
     [RingHost EXCEPT !.ringWorks = FALSE, !.filter = 258],
     [RingHost EXCEPT !.ipsec = TRUE, !.workers = 2, !.link = "RAW"],
     [RingHost EXCEPT !.afPacket = FALSE, !.workers = 0, !.readFails = TRUE, !.link = "other"],
     [RingHost EXCEPT !.afPacket = FALSE, !.raw = {"v4"}, !.recvmmsg = FALSE, !.filter = 513]}
================================================================================
