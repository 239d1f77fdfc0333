------------------------------- MODULE Analyzer -------------------------------
(***************************************************************************)
(* eoip-analyzer: what it makes of one captured packet (pcap_reader.rs,    *)
(* ip.rs, decode.rs, deviation.rs) and of a capture (stats.rs, main.rs).   *)
(* It counts on its own; the headers it reads with the decoders of Codec.  *)
(***************************************************************************)
EXTENDS Codec, Integers

CONSTANT Ids         \* tunnel ids that can appear in a capture

PROTO_GRE == 47
PROTO_ETHERIP == 97
PROTO_UDP == 17

(* What a packet was taken for; deviations says how many, and tunnel is 0  *)
(* where there is none.                                                    *)
Decoded(class, tunnel, keepalive, deviations) ==
    [class |-> class, tunnel |-> tunnel, keepalive |-> keepalive, deviations |-> deviations]
DecodeError == Decoded("error", 0, FALSE, 0)

(* check_eoip_deviations *)
EoipDeviations(len, remaining) ==
    (IF len > 0 /\ len # remaining THEN 1 ELSE 0) + (IF len \in 1 .. MIN_ETHERNET_FRAME - 1 THEN 1 ELSE 0)

DecodeEoip(b) ==
    IF Size(b) < 4 THEN DecodeError
    ELSE IF SubSeq(b.bytes, 1, 4) # EOIP_MAGIC THEN Decoded("gre", 0, FALSE, 1)
    ELSE IF Size(b) < EOIP_HEADER_LEN THEN DecodeError
    ELSE LET header == DecodeEoipHeader(b)
         IN  Decoded("eoip", header.id, header.len = 0,
                     EoipDeviations(header.len, Size(b) - EOIP_HEADER_LEN))

(* A wrong version is noted and then refused, so it never shows.           *)
DecodeEoipV6(b) ==
    LET header == DecodeEoipV6Header(b)
    IN  IF ~header.ok THEN DecodeError
        ELSE Decoded("eoipv6", header.id, header.len = 0, 0)

(* Whatever is inside the shim, standard GRE too, counts as encapsulated.  *)
DecodeUdp(b, expectedPort) ==
    IF ~expectedPort \/ ~IsUdpShim(b) THEN Decoded("other", 0, FALSE, 0)
    ELSE LET rest  == From(b, UDP_SHIM_HEADER_LEN)
             inner == IF b.bytes[3] = UDP_INNER_TYPE_EOIP THEN DecodeEoip(rest) ELSE DecodeEoipV6(rest)
         IN  IF inner.class = "error" THEN DecodeError
             ELSE [inner EXCEPT !.class = "udp",
                                !.deviations = @ + IF b.bytes[4] # 0 THEN 1 ELSE 0]

(* strip_link_layer knows these; behind them it looks for an IP header.    *)
LinkTypes == {"ETHERNET", "RAW", "LINUX_SLL", "LINUX_SLL2", "other"}
Strips(link) == link # "other"

(* parse_ip_header: the payload ends where the IP header says (total), or  *)
(* where the capture does, so that the padding of a short frame is not seen.*)
IpPayload(p) == IF Size(p) > p.total THEN [p EXCEPT !.more = p.total - Len(p.bytes)] ELSE p

DecodePacket(p, link) ==
    IF ~Strips(link) THEN DecodeError
    ELSE CASE p.proto = PROTO_GRE     -> DecodeEoip(IpPayload(p))
           [] p.proto = PROTO_ETHERIP -> DecodeEoipV6(IpPayload(p))
           [] p.proto = PROTO_UDP     -> DecodeUdp(IpPayload(p), p.expectedPort)
           [] OTHER                   -> Decoded("other", 0, FALSE, 0)

--------------------------------------------------------------------------------
(* SessionStats *)

Classes == {"eoip", "eoipv6", "udp", "gre", "other", "error"}
NoStats == [total |-> 0, deviations |-> 0, keepalives |-> 0,
            class |-> [c \in Classes |-> 0], tunnel |-> [i \in Ids |-> 0]]

(* Mutant: UDP-encapsulated packets are left out.                          *)
CountsPlain(d) == d.class \in {"eoip", "eoipv6"}

Counts(d) == d.class \in {"eoip", "eoipv6", "udp"}
One(condition) == IF condition THEN 1 ELSE 0

Record(stats, d) ==
    [total      |-> stats.total + 1,
     deviations |-> stats.deviations + d.deviations,
     keepalives |-> stats.keepalives + One(Counts(d) /\ d.keepalive),
     class      |-> [stats.class EXCEPT ![d.class] = @ + 1],
     tunnel     |-> [i \in Ids |-> stats.tunnel[i] + One(Counts(d) /\ d.tunnel = i)]]

RecordSkipped(stats) == [stats EXCEPT !.total = @ + 1, !.class["other"] = @ + 1]

(* The loop of main: --tunnel-id hides the packets of other tunnels, but   *)
(* not errors.                                                             *)
NoFilter == -1
Analyze(stats, p, link, filter) ==
    LET d == DecodePacket(p, link)
    IN  IF filter # NoFilter /\ d.class # "error" /\ d.tunnel # filter
        THEN RecordSkipped(stats) ELSE Record(stats, d)
================================================================================
