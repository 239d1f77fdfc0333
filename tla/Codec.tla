--------------------------------- MODULE Codec ---------------------------------
(***************************************************************************)
(* The headers of eoip-proto: EoIP in GRE (gre.rs), EtherIP (etherip.rs)   *)
(* and the UDP shim (udp_shim.rs), with the checks of lib.rs.              *)
(*                                                                         *)
(* A buffer is [bytes, more]: the bytes that a header may be read from and *)
(* the number of bytes after them, at which nobody looks.                  *)
(***************************************************************************)
EXTENDS Naturals, Sequences

EOIP_MAGIC == <<32, 1, 100, 0>>
EOIP_HEADER_LEN == 8
ETHERIP_VERSION == 3
ETHERIP_HEADER_LEN == 2
MAX_EOIPV6_TUNNEL_ID == 4095
UDP_SHIM_MAGIC == <<69, 79>>
UDP_SHIM_HEADER_LEN == 4
UDP_INNER_TYPE_EOIP == 4
UDP_INNER_TYPE_EOIPV6 == 6
MIN_ETHERNET_FRAME == 14
MAX_FRAME_SIZE == 1522

Byte == 0 .. 255
U16 == {n \in Nat : n <= 65535}
Size(b) == Len(b.bytes) + b.more
From(b, n) == [b EXCEPT !.bytes = SubSeq(@, n + 1, Len(@))]

(* A header that was read: the tunnel, the length it gives, its own.       *)
Header(id, len, hdr) == [ok |-> TRUE, id |-> id, len |-> len, hdr |-> hdr]
NoHeader == [ok |-> FALSE, id |-> 0, len |-> 0, hdr |-> 0]

(* to_be_bytes and to_le_bytes of a u16, and back *)
BigEndian(n) == <<n \div 256, n % 256>>
LittleEndian(n) == <<n % 256, n \div 256>>
FromBigEndian(hi, lo) == 256 * hi + lo

(* The length is big-endian, the tunnel id little-endian. *)
EncodeEoip(id, len) == EOIP_MAGIC \o BigEndian(len) \o LittleEndian(id)

(* Mutant: the tunnel id in network byte order.                            *)
DecodeEoipHeaderBigEndian(b) ==
    IF Size(b) < EOIP_HEADER_LEN \/ SubSeq(b.bytes, 1, 4) # EOIP_MAGIC THEN NoHeader
    ELSE Header(FromBigEndian(b.bytes[7], b.bytes[8]),
                FromBigEndian(b.bytes[5], b.bytes[6]), EOIP_HEADER_LEN)

DecodeEoipHeader(b) ==
    IF Size(b) < EOIP_HEADER_LEN \/ SubSeq(b.bytes, 1, 4) # EOIP_MAGIC THEN NoHeader
    ELSE Header(FromBigEndian(b.bytes[8], b.bytes[7]),
                FromBigEndian(b.bytes[5], b.bytes[6]), EOIP_HEADER_LEN)

(* Four bits of the id, the version, eight bits of the id.                 *)
EncodesEoipV6(id) == id <= MAX_EOIPV6_TUNNEL_ID
EncodeEoipV6(id) == <<16 * (id \div 256) + ETHERIP_VERSION, id % 256>>

DecodeEoipV6Header(b) ==
    IF Size(b) < ETHERIP_HEADER_LEN \/ b.bytes[1] % 16 # ETHERIP_VERSION THEN NoHeader
    ELSE Header(FromBigEndian(b.bytes[1] \div 16, b.bytes[2]),
                Size(b) - ETHERIP_HEADER_LEN, ETHERIP_HEADER_LEN)

InnerTypes == {UDP_INNER_TYPE_EOIP, UDP_INNER_TYPE_EOIPV6}
EncodeUdpShim(type) == UDP_SHIM_MAGIC \o <<type, 0>>
IsUdpShim(b) ==
    /\ Size(b) >= UDP_SHIM_HEADER_LEN
    /\ SubSeq(b.bytes, 1, 2) = UDP_SHIM_MAGIC
    /\ b.bytes[3] \in InnerTypes

(* validate_and_parse_eoip and its siblings, on a whole packet *)
ParseEoip(b) ==
    LET header == DecodeEoipHeader(b)
    IN  IF /\ header.ok
           /\ header.len = 0 \/ header.len >= MIN_ETHERNET_FRAME
           /\ header.len <= Size(b) - EOIP_HEADER_LEN
        THEN header ELSE NoHeader

ParseEoipV6(b) ==
    IF Size(b) >= ETHERIP_HEADER_LEN + MIN_ETHERNET_FRAME THEN DecodeEoipV6Header(b) ELSE NoHeader

ParseUdpEncap(b) ==
    IF ~IsUdpShim(b) THEN NoHeader
    ELSE LET inner == From(b, UDP_SHIM_HEADER_LEN)
         IN  IF b.bytes[3] = UDP_INNER_TYPE_EOIP THEN ParseEoip(inner) ELSE ParseEoipV6(inner)
================================================================================
