-------------------------------- MODULE RxPath --------------------------------
(***************************************************************************)
(* From the wire to a tunnel: which receive threads the daemon starts      *)
(* (main.rs, rx.rs), what each of them gets to read (the AF_PACKET ring    *)
(* behind its filter, or a raw socket behind the kernel's reassembly and   *)
(* decryption), and which tunnel a frame is handed to.  eoip-analyzer      *)
(* reads the same wire.                                                    *)
(*                                                                         *)
(* A datagram that is longer than the link allows travels as two packets.  *)
(* What happens to a frame after the demultiplexer is in DataPath.         *)
(***************************************************************************)
EXTENDS PacketRing, Analyzer, FiniteSets

CONSTANTS
    Hosts,           \* what startup finds, and how the analyzer is called
    Traffics,        \* the sets of datagrams a behaviour draws from
    Registered,      \* DemuxKeys of the registry: [id, peer]
    Batch,           \* RECV_BATCH: 32
    SockCap,         \* packets that fit into a receive buffer (4 MB)
    MaxPackets       \* bound on the packets that reach the host

LINK_MTU == 1500
IP_HEADER == 20
MIN_LINK_PAYLOAD == 46     \* a shorter packet is padded on Ethernet

(* ipsec: the configuration file has a tunnel with IPsec; afPacket,        *)
(* ringWorks: the AF_PACKET socket and its ring can be had; raw: the raw   *)
(* sockets the helper sent; recvmmsg: the kernel has it; readFails: a read *)
(* may fail; link, filter: of the analyzer.                                *)
Host == [ipsec : BOOLEAN, afPacket : BOOLEAN, ringWorks : BOOLEAN, raw : SUBSET {"v4", "v6"},
         workers : Nat, recvmmsg : BOOLEAN, readFails : BOOLEAN, link : LinkTypes, filter : Int]

(* A datagram: its sender, its protocol and whether it travels encrypted;  *)
(* the buffer behind its IP (and UDP) header; what is read where a header  *)
(* should be in a later fragment of it or in its ciphertext, which may be  *)
(* anything; and what its sender meant: a frame of a tunnel, or no tunnel. *)
Meant == [id : U16, len : U16]
Nothing == [id |-> -1, len |-> 0]
PROTO_ESP == 50
Datagrams == UNION Traffics
Peers == {d.peer : d \in Datagrams}
Datagram == [family : {"v4", "v6"}, peer : Peers, proto : Nat, esp : BOOLEAN, expectedPort : BOOLEAN,
             bytes : Seq(Nat), more : Nat, rest : [1 .. EOIP_HEADER_LEN -> Byte],
             meant : Meant \cup {Nothing}]

(* A sender's frame is behind the header that tells of it; what is no      *)
(* frame of a tunnel does not read as one.                                 *)
HoldsEoip(buf, meant) ==
    IF meant = Nothing THEN Size(buf) >= 4 /\ SubSeq(buf.bytes, 1, 4) # EOIP_MAGIC
    ELSE buf.bytes = EncodeEoip(meant.id, meant.len) /\ buf.more = meant.len
HoldsEoipV6(buf, meant) ==
    IF meant = Nothing THEN ~DecodeEoipV6Header(buf).ok
    ELSE buf.bytes = EncodeEoipV6(meant.id) /\ buf.more = meant.len
HoldsUdp(buf, meant) ==
    IF ~IsUdpShim(buf) THEN meant = Nothing
    ELSE /\ buf.bytes[4] = 0
         /\ IF buf.bytes[3] = UDP_INNER_TYPE_EOIP THEN HoldsEoip(From(buf, UDP_SHIM_HEADER_LEN), meant)
            ELSE /\ HoldsEoipV6(From(buf, UDP_SHIM_HEADER_LEN), meant)
                 /\ meant # Nothing => EncodesEoipV6(meant.id)
WellFormed(d) ==
    CASE d.proto = PROTO_GRE     -> d.family = "v4" /\ HoldsEoip(d, d.meant)
      [] d.proto = PROTO_ETHERIP -> d.family = "v6" /\ HoldsEoipV6(d, d.meant)
      [] d.proto = PROTO_UDP     -> HoldsUdp(d, d.meant)
      [] OTHER                   -> d.meant = Nothing

ASSUME RxPathAssumption ==
    /\ Hosts \subseteq Host
    /\ \A d \in Datagrams :
          /\ d \in Datagram /\ WellFormed(d)
          /\ d.proto = PROTO_UDP => IP_HEADER + 8 + Size(d) <= LINK_MTU
    /\ \A d, e \in Datagrams : d.peer = e.peer => d.family = e.family
    /\ {Batch, SockCap, MaxPackets} \subseteq Nat \ {0}
    /\ \A h \in Hosts : h.workers <= 2

VARIABLES
    host,
    traffic,         \* the datagrams of this behaviour
    sent,            \* the packets that reached the host, in order
    inFlight,        \* those of the last datagram still under way
    broken,          \* one of its packets was lost
    ringOpen,        \* the ring is set up
    sock,            \* receive queues of the raw sockets
    thread,          \* where each receive thread is
    batch,           \* what it has read and not processed
    ringGot,         \* the last packet the ring's reader was given
    out,             \* the frames handed to a tunnel
    stats,           \* SessionStats of an analyzer on the same link
    stopping         \* the shutdown token

fixedVars == <<host, traffic>>
wireVars == <<sent, inFlight, broken, stats>>
vars == <<fixedVars, wireVars, ringVars, ringOpen, sock, thread, batch, ringGot, out, stopping>>

Workers == {<<"v4", i>> : i \in 1 .. 2}
V6Thread == <<"v6", 1>>
RingThread == <<"ring", 1>>
Readers == Workers \cup {V6Thread}
Threads == Readers \cup {RingThread}
Family(t) == t[1]

TypeOK ==
    /\ RingTypeOK
    /\ host \in Hosts /\ traffic \in Traffics
    /\ Len(sent) <= MaxPackets
    /\ \A b \in BlockIds : \A i \in DOMAIN blocks[b] : blocks[b][i] \in DOMAIN sent
    /\ {broken, ringOpen, stopping} \subseteq BOOLEAN
    /\ \A f \in {"v4", "v6"} : Len(sock[f]) <= SockCap
    /\ thread \in [Threads -> {"none", "starting", "batching", "single", "ended"}]
    /\ \A t \in Readers : Len(batch[t]) <= Batch
    /\ ringGot \in 0 .. Len(sent)
    /\ Len(out) <= Len(sent)

--------------------------------------------------------------------------------
(* The wire. *)

(* read_and_encode: the header that goes before a frame of len bytes; the  *)
(* reader of a TAP ends on an id that EtherIP has no room for.             *)
Encoded(family, id, len) == IF family = "v4" THEN EncodeEoip(id, len) ELSE EncodeEoipV6(id)
Sends(family, id) == family = "v6" => EncodesEoipV6(id)

FirstPart == LINK_MTU - IP_HEADER

WireProto(d) == IF d.esp THEN PROTO_ESP ELSE d.proto

Fragments(d) ==
    IF d.family = "v4" /\ IP_HEADER + Size(d) > LINK_MTU THEN <<"first", "later">> ELSE <<"whole">>

(* On the wire short packets are padded. *)
Padded(buf) ==
    IF IP_HEADER + Size(buf) >= MIN_LINK_PAYLOAD THEN buf
    ELSE [buf EXCEPT !.more = MIN_LINK_PAYLOAD - IP_HEADER - Len(buf.bytes)]

(* total is the length that the IP header gives.                           *)
IpPacket(d, bytes, total) ==
    [bytes |-> bytes, more |-> total - Len(bytes), total |-> total,
     proto |-> WireProto(d), expectedPort |-> d.expectedPort]

OnWire(p) ==
    LET d == p.datagram
        bytes == IF d.esp THEN d.rest ELSE d.bytes
    IN  Padded(CASE p.part = "whole" -> IpPacket(d, bytes, Size(d))
                 [] p.part = "first" -> IpPacket(d, bytes, FirstPart)
                 [] p.part = "later" -> IpPacket(d, d.rest, Size(d) - FirstPart))

(* The filter of the AF_PACKET socket, on bytes 23 and 20 of the frame.    *)
PassesFilter(p) ==
    /\ p.datagram.family = "v4"
    /\ WireProto(p.datagram) = PROTO_GRE \/ p.part = "later"

(* The raw sockets get whole datagrams, after IPsec.                       *)
ToRaw(p) ==
    /\ p.part # "first" /\ ~broken
    /\ <<p.datagram.family, p.datagram.proto>> \in {<<"v4", PROTO_GRE>>, <<"v6", PROTO_ETHERIP>>}
    /\ p.datagram.family \in host.raw

Send ==
    /\ inFlight = <<>>
    /\ \E d \in traffic :
          /\ d.meant # Nothing /\ d.proto # PROTO_UDP => Sends(d.family, d.meant.id)
          /\ Len(sent) + Len(Fragments(d)) <= MaxPackets
          /\ inFlight' = [i \in DOMAIN Fragments(d) |-> [datagram |-> d, part |-> Fragments(d)[i]]]
    /\ broken' = FALSE
    /\ UNCHANGED <<fixedVars, sent, stats, ringVars, ringOpen, sock, thread, batch, ringGot, out, stopping>>

(* A packet reaches the host: the analyzer's capture, the ring, and a raw  *)
(* socket, whose queue may be full.                                        *)
Arrive ==
    /\ inFlight # <<>>
    /\ LET p == Head(inFlight)
           f == p.datagram.family
       IN  /\ sent' = Append(sent, p)
           /\ stats' = Analyze(stats, OnWire(p), host.link, host.filter)
           /\ IF ringOpen /\ PassesFilter(p) THEN KernelPuts(Len(sent'))
                                             ELSE UNCHANGED kernelVars
           /\ sock' = IF ToRaw(p) /\ Len(sock[f]) < SockCap
                      THEN [sock EXCEPT ![f] = Append(@, Len(sent'))] ELSE sock
    /\ inFlight' = Tail(inFlight)
    /\ UNCHANGED <<fixedVars, broken, readerVars, ringOpen, thread, batch, ringGot, out, stopping>>

Lose ==
    /\ inFlight # <<>>
    /\ inFlight' = Tail(inFlight)
    /\ broken' = TRUE
    /\ UNCHANGED <<fixedVars, sent, stats, ringVars, ringOpen, sock, thread, batch, ringGot, out, stopping>>

--------------------------------------------------------------------------------
(* What a thread makes of a packet. *)

(* A frame for the tunnel with this key, of so many bytes; Nothing for a   *)
(* keepalive, an unknown key or no header.                                 *)
Handed(n, id, peer, bytes) == <<[n |-> n, id |-> id, peer |-> peer, bytes |-> bytes]>>
Least(a, b) == IF a <= b THEN a ELSE b

(* process_v4_packet, whose buffer ends where the kernel says, not where   *)
(* the IP header says.                                                     *)
ProcessV4(n, peer, buf) ==
    LET header == DecodeEoipHeader(buf)
        frame  == Size(buf) - EOIP_HEADER_LEN
    IN  IF header.ok /\ [id |-> header.id, peer |-> peer] \in Registered /\ header.len # 0 /\ frame # 0
        THEN Handed(n, header.id, peer, Least(frame, MAX_FRAME_SIZE)) ELSE <<>>

ProcessV6(n, peer, buf) ==
    LET header == DecodeEoipV6Header(buf)
    IN  IF header.ok /\ [id |-> header.id, peer |-> peer] \in Registered /\ header.len # 0
        THEN Handed(n, header.id, peer, Least(header.len, MAX_FRAME_SIZE)) ELSE <<>>

FromRing(n) == ProcessV4(n, sent[n].datagram.peer, OnWire(sent[n]))
FromRaw(n) ==
    LET d == sent[n].datagram
    IN  IF d.family = "v4" THEN ProcessV4(n, d.peer, d) ELSE ProcessV6(n, d.peer, d)

--------------------------------------------------------------------------------
(* The ring thread. *)

(* Without a ring it ends, and nobody takes its place.                     *)
RingSetUp ==
    /\ thread[RingThread] = "starting"
    /\ ringOpen' = host.ringWorks
    /\ thread' = [thread EXCEPT ![RingThread] = IF host.ringWorks THEN "batching" ELSE "ended"]
    /\ UNCHANGED <<fixedVars, wireVars, ringVars, sock, batch, ringGot, out, stopping>>

KernelGives ==
    /\ KernelRetires
    /\ UNCHANGED <<fixedVars, wireVars, ringOpen, sock, thread, batch, ringGot, out, stopping>>

(* One block of process_block, packet by packet. *)
WalkRing ==
    /\ thread[RingThread] = "batching"
    /\ \/ /\ ~stopping /\ BlockReady
          /\ UNCHANGED <<ringGot, out>>
       \/ /\ AtPacket /\ WalkOn
          /\ ringGot' = PacketHere
          /\ out' = out \o FromRing(PacketHere)
       \/ /\ ReleaseBlock
          /\ UNCHANGED <<ringGot, out>>
    /\ UNCHANGED <<fixedVars, wireVars, ringOpen, sock, thread, batch, stopping>>

--------------------------------------------------------------------------------
(* The threads of the raw sockets. *)

(* One call of recvmmsg finds out whether the kernel has it, and takes a   *)
(* waiting packet with it that nobody processes.                           *)
TestRecvmmsg(t) ==
    /\ thread[t] = "starting"
    /\ thread' = [thread EXCEPT ![t] = IF host.recvmmsg THEN "batching" ELSE "single"]
    /\ sock' = IF host.recvmmsg /\ sock[Family(t)] # <<>>
               THEN [sock EXCEPT ![Family(t)] = Tail(@)] ELSE sock
    /\ UNCHANGED <<fixedVars, wireVars, ringVars, ringOpen, batch, ringGot, out, stopping>>

Takes(t, k) ==
    /\ ~stopping /\ batch[t] = <<>>
    /\ k \in 1 .. Len(sock[Family(t)])
    /\ batch' = [batch EXCEPT ![t] = SubSeq(sock[Family(t)], 1, k)]
    /\ sock' = [sock EXCEPT ![Family(t)] = SubSeq(@, k + 1, Len(@))]
    /\ UNCHANGED <<fixedVars, wireVars, ringVars, ringOpen, thread, ringGot, out, stopping>>

(* Mutant: a batch is all there is, however few buffers there are.         *)
ReceiveBatchAll(t) == thread[t] = "batching" /\ Takes(t, Len(sock[Family(t)]))

(* MSG_WAITFORONE: what is there, up to RECV_BATCH. *)
ReceiveBatch(t) == thread[t] = "batching" /\ Takes(t, Least(Batch, Len(sock[Family(t)])))

(* read or recvfrom *)
ReceiveOne(t) == thread[t] = "single" /\ Takes(t, 1)

ProcessNext(t) ==
    /\ batch[t] # <<>>
    /\ out' = out \o FromRaw(Head(batch[t]))
    /\ batch' = [batch EXCEPT ![t] = Tail(@)]
    /\ UNCHANGED <<fixedVars, wireVars, ringVars, ringOpen, sock, thread, ringGot, stopping>>

(* A read that fails with anything but EINTR or EAGAIN ends the thread, and*)
(* so does the token, which is looked at before each read.                 *)
ThreadEnds(t) ==
    /\ thread[t] \in {"batching", "single"}
    /\ \/ stopping
       \/ t # RingThread /\ host.readFails
    /\ IF t = RingThread THEN ~walking ELSE batch[t] = <<>>
    /\ thread' = [thread EXCEPT ![t] = "ended"]
    /\ UNCHANGED <<fixedVars, wireVars, ringVars, ringOpen, sock, batch, ringGot, out, stopping>>

Stop ==
    /\ ~stopping
    /\ stopping' = TRUE
    /\ UNCHANGED <<fixedVars, wireVars, ringVars, ringOpen, sock, thread, batch, ringGot, out>>

--------------------------------------------------------------------------------
(* The choice at startup: the ring, or the raw socket with rx_workers      *)
(* threads, and one thread for IPv6.                                       *)
RingChosen(h) == h.afPacket /\ ~h.ipsec
WorkersOf(h) ==
    IF RingChosen(h) \/ "v4" \notin h.raw THEN {} ELSE {t \in Workers : t[2] <= (IF h.workers = 0 THEN 1 ELSE h.workers)}

StartThreads(h) ==
    WorkersOf(h) \cup (IF RingChosen(h) THEN {RingThread} ELSE {})
                 \cup (IF "v6" \in h.raw THEN {V6Thread} ELSE {})

Init ==
    /\ host \in Hosts
    /\ traffic \in Traffics
    /\ sent = <<>> /\ inFlight = <<>> /\ broken = FALSE
    /\ RingInit /\ ringOpen = FALSE
    /\ sock = [f \in {"v4", "v6"} |-> <<>>]
    /\ thread = [t \in Threads |-> IF t \in StartThreads(host) THEN "starting" ELSE "none"]
    /\ batch = [t \in Readers |-> <<>>]
    /\ ringGot = 0
    /\ out = <<>>
    /\ stats = NoStats
    /\ stopping = FALSE

Reads(t) == TestRecvmmsg(t) \/ ReceiveBatch(t) \/ ReceiveOne(t) \/ ProcessNext(t)

Next ==
    \/ Send \/ Arrive \/ Lose
    \/ RingSetUp \/ KernelGives \/ WalkRing
    \/ \E t \in Readers : Reads(t)
    \/ \E t \in Threads : ThreadEnds(t)
    \/ Stop

Spec == Init /\ [][Next]_vars

(* The kernel's timer fires and the ring's thread runs, to its end.        *)
FairSpec ==
    /\ Spec
    /\ WF_vars(RingSetUp) /\ WF_vars(KernelGives) /\ WF_vars(WalkRing)
    /\ WF_vars(ThreadEnds(RingThread))

--------------------------------------------------------------------------------
(* Properties. *)

(* The ring drops packets only when they arrive, and gives the others to   *)
(* the reader once and in order, through however many turns of the blocks, *)
(* blocks given half full, and a reader that holds one too long            *)
(* (packet_mmap.rs:226).                                                   *)
Channel == INSTANCE LossyChannel WITH
    sent <- Len(sent), inside <- RingContents, got <- ringGot,
    closed <- thread[RingThread] \notin {"starting", "batching"}

RingIsFifo == Channel!FairSpec

(* A packet is handed over once, and behind those of its tunnel that came  *)
(* before it unless several workers share the socket; to a tunnel with its *)
(* sender; and as a frame that was sent in that tunnel (rx.rs:244, 264;    *)
(* rawsock.rs:180).  This goes for all but the later fragments that the    *)
(* ring lets through, which may begin like a header by chance.             *)
(*                                                                         *)
(* The bytes are those of the frame where docs/design/protocol.md (lines   *)
(* 299, 300, 304, 365) and security.md (checks 3, 6) would have it         *)
(* handed over at all.  The code also hands over what they drop or mend,   *)
(* and nothing is said of its bytes here: frames below 14 bytes, those cut *)
(* off at MAX_FRAME_SIZE or with their first fragment, the padding.  Check *)
(* 7 drops what is above the MTU of its tunnel too; the code looks at no   *)
(* MTU here and hands such a frame over whole, which the formula demands.  *)
ByChance(p) == RingChosen(host) /\ p.part = "later"
AsPromised(p) ==
    /\ p.datagram.meant.len \in MIN_ETHERNET_FRAME .. MAX_FRAME_SIZE
    /\ (RingChosen(host) /\ p.datagram.family = "v4")
          => p.part = "whole" /\ IP_HEADER + Size(p.datagram) >= MIN_LINK_PAYLOAD

FrameIntact ==
    \A i \in DOMAIN out :
        LET p == sent[out[i].n]
        IN  /\ p.datagram.peer = out[i].peer
            /\ ~ByChance(p) => /\ p.datagram.meant # Nothing
                               /\ p.datagram.meant.id = out[i].id /\ p.datagram.meant.len # 0
                               /\ AsPromised(p) => out[i].bytes = p.datagram.meant.len
            /\ \A j \in 1 .. i - 1 :
                   /\ out[j].n # out[i].n
                   /\ (out[j].id = out[i].id /\ out[j].peer = out[i].peer /\ Cardinality(WorkersOf(host)) <= 1)
                       => out[j].n < out[i].n

(* The analyzer sees what the daemon sees.  Of the packets of a capture it *)
(* can read, it counts under a tunnel its frames and keepalives, each once *)
(* and the UDP ones too, among them every frame the daemon handed to that  *)
(* tunnel from the wire as it was; and a packet deviates if it is a        *)
(* fragment, too short or another kind of GRE, as long as no later fragment*)
(* begins like a header.  Its classes always add up to its total           *)
(* (decode.rs:66, stats.rs:55, main.rs:75).                                *)
Reported(i) == host.filter \in {NoFilter, i} /\ host.link # "other"
Of(i) ==
    {n \in DOMAIN sent : /\ sent[n].part # "later" /\ ~sent[n].datagram.esp
                         /\ sent[n].datagram.meant # Nothing
                         /\ sent[n].datagram.proto = PROTO_UDP => sent[n].datagram.expectedPort
                         /\ sent[n].datagram.meant.id = i}
HandedFromWire(i) ==
    {out[j].n : j \in {k \in DOMAIN out : out[k].id = i /\ sent[out[k].n].part # "later"
                                          /\ ~sent[out[k].n].datagram.esp}}
Odd(p) ==
    /\ \/ WireProto(p.datagram) = PROTO_GRE
       \/ /\ WireProto(p.datagram) = PROTO_UDP /\ p.datagram.expectedPort
          /\ IsUdpShim(p.datagram) /\ p.datagram.bytes[3] = UDP_INNER_TYPE_EOIP
    /\ p.part = "later" => Size(p.datagram) - FirstPart >= 4
    /\ p.part # "whole" \/ p.datagram.meant = Nothing \/ p.datagram.meant.len \in 1 .. MIN_ETHERNET_FRAME - 1

Mistaken(p) ==
    p.part = "later" /\ WireProto(p.datagram) = PROTO_GRE /\ SubSeq(p.datagram.rest, 1, 4) = EOIP_MAGIC

AnalyzerAgrees ==
    /\ stats.total = Len(sent)
    /\ stats.total = stats.class["eoip"] + stats.class["eoipv6"] + stats.class["udp"]
                     + stats.class["gre"] + stats.class["other"] + stats.class["error"]
    /\ \A i \in Ids \ {0} : HandedFromWire(i) \subseteq Of(i)
    /\ (\A n \in DOMAIN sent : ~Mistaken(sent[n])) =>
          /\ \A i \in Ids \ {0} : stats.tunnel[i] = IF Reported(i) THEN Cardinality(Of(i)) ELSE 0
          /\ Reported(NoFilter) => stats.deviations = Cardinality({n \in DOMAIN sent : Odd(sent[n])})
================================================================================
