----------------------------- MODULE RxPathProofs -----------------------------
(***************************************************************************)
(* What is encoded is decoded again, for every tunnel id and length; and   *)
(* the ring, the frames handed to tunnels and the counts of the analyzer,  *)
(* for every host, every traffic and every size of the ring.               *)
(***************************************************************************)
EXTENDS RxPath, FiniteSetTheorems, SequenceTheorems, TLAPS


LEMMA DivMod ==
    ASSUME NEW n \in Nat, NEW hi \in Nat, NEW lo \in Nat, hi = n \div 256, lo = n % 256
    PROVE  FromBigEndian(hi, lo) = n
  BY DEF FromBigEndian

LEMMA ModIsByte ==
    ASSUME NEW n \in Nat
    PROVE  n % 256 \in Byte
  BY DEF Byte

LEMMA SmallIsByte ==
    ASSUME NEW k \in Nat, k <= 255
    PROVE  k \in Byte
  BY DEF Byte

LEMMA BytesAreNat == Byte \subseteq Nat
  BY DEF Byte

LEMMA HighLow ==
    ASSUME NEW n \in U16
    PROVE  /\ n \div 256 \in Byte /\ n % 256 \in Byte
           /\ FromBigEndian(n \div 256, n % 256) = n
  <1>1. n \in Nat /\ n <= 65535
    BY DEF U16
  <1>2. n \div 256 \in Nat /\ n \div 256 <= 255
    BY <1>1
  <1> DEFINE hi == n \div 256
             lo == n % 256
  <1>3. hi \in Byte
    BY <1>2, SmallIsByte
  <1>4. lo \in Byte
    BY <1>1, ModIsByte
  <1>5. hi = n \div 256 /\ lo = n % 256
    OBVIOUS
  <1> HIDE DEF hi, lo
  <1>6. FromBigEndian(hi, lo) = n
    BY <1>1, <1>3, <1>4, <1>5, DivMod, BytesAreNat
  <1> QED
    BY <1>3, <1>4, <1>6 DEF hi, lo

Joined(s, t, r) ==
    /\ r \in Seq(Nat) /\ Len(r) = Len(s) + Len(t)
    /\ \A i \in 1 .. Len(s) : r[i] = s[i]
    /\ \A i \in 1 .. Len(t) : r[Len(s) + i] = t[i]

LEMMA ConcatAt ==
    ASSUME NEW s \in Seq(Nat), NEW t \in Seq(Nat)
    PROVE  Joined(s, t, s \o t)
  <1>1. /\ s \o t \in Seq(Nat) /\ Len(s \o t) = Len(s) + Len(t)
        /\ \A i \in 1 .. Len(s) + Len(t) :
               (s \o t)[i] = IF i <= Len(s) THEN s[i] ELSE t[i - Len(s)]
    BY ConcatProperties
  <1>2. Len(s) \in Nat /\ Len(t) \in Nat
    BY LenProperties
  <1>3. ASSUME NEW i \in 1 .. Len(s) PROVE (s \o t)[i] = s[i]
    BY <1>1, <1>2
  <1>4. ASSUME NEW i \in 1 .. Len(t) PROVE (s \o t)[Len(s) + i] = t[i]
    <2>1. /\ Len(s) + i \in 1 .. Len(s) + Len(t) /\ ~(Len(s) + i <= Len(s))
          /\ Len(s) + i - Len(s) = i
      BY <1>2
    <2> QED
      BY <1>1, <2>1
  <1> QED
    BY <1>1, <1>3, <1>4 DEF Joined

(* The eight bytes of a header, as numbers. *)
LEMMA EncodeEoipBytes ==
    ASSUME NEW id \in U16, NEW len \in U16
    PROVE  /\ EncodeEoip(id, len) \in Seq(Nat) /\ Len(EncodeEoip(id, len)) = 8
           /\ \A i \in 1 .. 4 : EncodeEoip(id, len)[i] = EOIP_MAGIC[i]
           /\ EncodeEoip(id, len)[5] = len \div 256 /\ EncodeEoip(id, len)[6] = len % 256
           /\ EncodeEoip(id, len)[7] = id % 256 /\ EncodeEoip(id, len)[8] = id \div 256
  <1> DEFINE first == EOIP_MAGIC \o BigEndian(len)
  <1>1. /\ EOIP_MAGIC \in Seq(Nat) /\ Len(EOIP_MAGIC) = 4
    BY DEF EOIP_MAGIC
  <1>2. /\ len \div 256 \in Nat /\ len % 256 \in Nat
        /\ id \div 256 \in Nat /\ id % 256 \in Nat
    BY HighLow DEF Byte
  <1>3. /\ BigEndian(len) \in Seq(Nat) /\ Len(BigEndian(len)) = 2
        /\ BigEndian(len)[1] = len \div 256 /\ BigEndian(len)[2] = len % 256
    BY <1>2 DEF BigEndian
  <1>4. /\ LittleEndian(id) \in Seq(Nat) /\ Len(LittleEndian(id)) = 2
        /\ LittleEndian(id)[1] = id % 256 /\ LittleEndian(id)[2] = id \div 256
    BY <1>2 DEF LittleEndian
  <1>5. /\ first \in Seq(Nat) /\ Len(first) = 6
        /\ \A i \in 1 .. 4 : first[i] = EOIP_MAGIC[i]
        /\ first[4 + 1] = BigEndian(len)[1] /\ first[4 + 2] = BigEndian(len)[2]
    <2>1. /\ first \in Seq(Nat) /\ Len(first) = Len(EOIP_MAGIC) + Len(BigEndian(len))
          /\ \A i \in 1 .. Len(EOIP_MAGIC) : first[i] = EOIP_MAGIC[i]
          /\ \A i \in 1 .. Len(BigEndian(len)) :
                 first[Len(EOIP_MAGIC) + i] = BigEndian(len)[i]
      <3>1. Joined(EOIP_MAGIC, BigEndian(len), first)
        BY <1>1, <1>3, ConcatAt
      <3> HIDE DEF first
      <3> QED
        BY <3>1 DEF Joined
    <2> HIDE DEF first
    <2>2. /\ \A i \in 1 .. 4 : first[i] = EOIP_MAGIC[i]
          /\ \A i \in 1 .. 2 : first[4 + i] = BigEndian(len)[i]
      BY <1>1, <1>3, <2>1
    <2>3. first \in Seq(Nat) /\ Len(first) = 6
      BY <1>1, <1>3, <2>1
    <2> QED
      BY <2>2, <2>3
  <1> HIDE DEF first
  <1>6. EncodeEoip(id, len) = first \o LittleEndian(id)
    BY DEF EncodeEoip, first
  <1> DEFINE code == EncodeEoip(id, len)
  <1>7. /\ code \in Seq(Nat) /\ Len(code) = 8
        /\ \A i \in 1 .. 6 : code[i] = first[i]
        /\ code[6 + 1] = LittleEndian(id)[1] /\ code[6 + 2] = LittleEndian(id)[2]
    <2> DEFINE last == LittleEndian(id)
    <2>0. last \in Seq(Nat) /\ code = first \o last
      BY <1>4, <1>6
    <2> HIDE DEF code, last
    <2>1. /\ code \in Seq(Nat) /\ Len(code) = Len(first) + Len(last)
          /\ \A i \in 1 .. Len(first) : code[i] = first[i]
          /\ \A i \in 1 .. Len(last) : code[Len(first) + i] = last[i]
      <3>1. Joined(first, last, code)
        BY <1>5, <2>0, ConcatAt
      <3> QED
        BY <3>1 DEF Joined
    <2>2. Len(first) = 6 /\ Len(last) = 2
      BY <1>4, <1>5 DEF last
    <2>3. /\ \A i \in 1 .. 6 : code[i] = first[i]
          /\ \A i \in 1 .. 2 : code[6 + i] = last[i]
      BY <2>1, <2>2
    <2>4. code \in Seq(Nat) /\ Len(code) = 8
      BY <2>1, <2>2
    <2> QED
      BY <2>3, <2>4 DEF last
  <1> HIDE DEF code
  <1>8. \A i \in 1 .. 4 : code[i] = EOIP_MAGIC[i]
    BY <1>5, <1>7
  <1>9. code[5] = len \div 256 /\ code[6] = len % 256
    BY <1>3, <1>5, <1>7
  <1>10. code[7] = id % 256 /\ code[8] = id \div 256
    BY <1>4, <1>7
  <1> QED
    BY <1>7, <1>8, <1>9, <1>10 DEF code

(* The length in network byte order and the id in the other one come back  *)
(* as they were (gre.rs:19, 69).                                           *)
THEOREM EoipRoundTrip ==
    ASSUME NEW id \in U16, NEW len \in U16, NEW b, b.bytes = EncodeEoip(id, len), b.more \in Nat
    PROVE  /\ DecodeEoipHeader(b) = Header(id, len, EOIP_HEADER_LEN)
           /\ SubSeq(b.bytes, 1, 4) = EOIP_MAGIC /\ Size(b) = EOIP_HEADER_LEN + b.more
  <1> DEFINE code == EncodeEoip(id, len)
  <1>1. /\ code \in Seq(Nat) /\ Len(code) = 8
        /\ \A i \in 1 .. 4 : code[i] = EOIP_MAGIC[i]
        /\ code[5] = len \div 256 /\ code[6] = len % 256
        /\ code[7] = id % 256 /\ code[8] = id \div 256
    BY EncodeEoipBytes
  <1> HIDE DEF code
  <1>2. \A i \in 1 .. 4 : code[i] \in Nat
    <2>1. \A i \in 1 .. 4 : EOIP_MAGIC[i] \in Nat
      BY DEF EOIP_MAGIC
    <2> QED
      BY <1>1, <2>1
  <1>3. SubSeq(code, 1, 4) = EOIP_MAGIC
    <2>1. /\ SubSeq(code, 1, 4) \in Seq(Nat)
          /\ Len(SubSeq(code, 1, 4)) = IF 1 <= 4 THEN 4 - 1 + 1 ELSE 0
          /\ \A i \in 1 .. 4 - 1 + 1 : SubSeq(code, 1, 4)[i] = code[1 + i - 1]
      BY <1>2, SubSeqProperties
    <2>2. /\ Len(SubSeq(code, 1, 4)) = 4
          /\ \A i \in 1 .. 4 : SubSeq(code, 1, 4)[i] = code[i]
      BY <2>1
    <2>3. EOIP_MAGIC \in Seq(Nat) /\ Len(EOIP_MAGIC) = 4
      BY DEF EOIP_MAGIC
    <2> QED
      BY <1>1, <2>1, <2>2, <2>3, SeqEqual
  <1>4. /\ FromBigEndian(code[8], code[7]) = id
        /\ FromBigEndian(code[5], code[6]) = len
    BY <1>1, HighLow
  <1>5. b.bytes = code
    BY DEF code
  <1>6. ~(Size(b) < EOIP_HEADER_LEN) /\ Size(b) = EOIP_HEADER_LEN + b.more
    <2>1. Len(b.bytes) = 8 /\ b.more \in Nat
      BY <1>1, <1>5
    <2>2. Size(b) = 8 + b.more
      BY <2>1 DEF Size
    <2> QED
      BY <2>1, <2>2 DEF EOIP_HEADER_LEN
  <1>7. DecodeEoipHeader(b) = Header(id, len, EOIP_HEADER_LEN)
    BY <1>3, <1>4, <1>5, <1>6 DEF DecodeEoipHeader
  <1> QED
    BY <1>3, <1>5, <1>6, <1>7

(* The twelve bits of an id around the version (etherip.rs:24, 83).        *)
THEOREM EoipV6RoundTrip ==
    ASSUME NEW id \in Nat, EncodesEoipV6(id), NEW b, b.bytes = EncodeEoipV6(id), b.more \in Nat
    PROVE  DecodeEoipV6Header(b) = Header(id, b.more, ETHERIP_HEADER_LEN)
  <1>1. b.bytes = <<16 * (id \div 256) + ETHERIP_VERSION, id % 256>>
    BY DEF EncodeEoipV6
  <1>2. id \div 256 \in 0 .. 15 /\ id % 256 \in 0 .. 255
    BY DEF EncodesEoipV6, MAX_EOIPV6_TUNNEL_ID
  <1>3. b.bytes[1] % 16 = ETHERIP_VERSION /\ b.bytes[1] \div 16 = id \div 256
    <2>1. PICK hi \in 0 .. 15 : hi = id \div 256
      BY <1>2
    <2>2. b.bytes[1] = 16 * hi + 3
      BY <1>1, <2>1 DEF ETHERIP_VERSION
    <2>3. (16 * hi + 3) % 16 = 3 /\ (16 * hi + 3) \div 16 = hi
      OBVIOUS
    <2> QED
      BY <2>1, <2>2, <2>3 DEF ETHERIP_VERSION
  <1>4. FromBigEndian(id \div 256, id % 256) = id
    BY DEF FromBigEndian
  <1>5. Size(b) = b.more + ETHERIP_HEADER_LEN
    <2>1. Len(b.bytes) = 2
      BY <1>1
    <2> QED
      BY <2>1 DEF Size, ETHERIP_HEADER_LEN
  <1> QED
    BY <1>1, <1>3, <1>4, <1>5 DEF DecodeEoipV6Header, ETHERIP_HEADER_LEN
--------------------------------------------------------------------------------
(* The ring.  Blocks are ranked from the one the reader is at. *)

RankFrom(c, b) == IF b >= c THEN b - c ELSE b + BlockNr - c
Rank(b) == RankFrom(current, b)

RingTypes ==
    /\ blocks \in [BlockIds -> Seq(Nat)]
    /\ \A b \in BlockIds : Len(blocks[b]) <= BlockCap
    /\ status \in [BlockIds -> {"kernel", "user"}]
    /\ filling \in BlockIds /\ current \in BlockIds
    /\ walking \in BOOLEAN
    /\ walked \in Nat

(* The reader's blocks are those from current up to the one being filled,  *)
(* or all of them.                                                         *)
ReadersBlocks ==
    /\ \A b \in BlockIds :
          status[b] = "user" <=> (status[filling] = "user" \/ Rank(b) < Rank(filling))
    /\ status[filling] = "user" => filling = current

(* The kernel's blocks other than that one are empty. *)
EmptyAhead == \A b \in BlockIds : (status[b] = "kernel" /\ b # filling) => blocks[b] = <<>>

WalkInside ==
    /\ walking => status[current] = "user"
    /\ ~walking => walked = 0
    /\ walked <= Len(blocks[current])

(* Along the ranks packets are in the order in which they came, and those  *)
(* not walked past came after the last that was.                           *)
Numbered(top, got) ==
    \A b \in BlockIds : \A i \in DOMAIN blocks[b] :
        /\ blocks[b][i] \in 1 .. top
        /\ (b = current => i > walked) => blocks[b][i] > got
InOrderInside ==
    \A b, c \in BlockIds : \A i \in DOMAIN blocks[b] : \A j \in DOMAIN blocks[c] :
        (Rank(b) < Rank(c) \/ (b = c /\ i < j)) => blocks[b][i] < blocks[c][j]

RingInv(top, got) ==
    RingTypes /\ ReadersBlocks /\ EmptyAhead /\ WalkInside /\ Numbered(top, got) /\ InOrderInside

--------------------------------------------------------------------------------
(* Packets and threads. *)

Parts == {"whole", "first", "later"}
Genuine(p) ==
    /\ p.part = "whole" <=> ~(p.datagram.family = "v4" /\ IP_HEADER + Size(p.datagram) > LINK_MTU)
    /\ (p.datagram.meant # Nothing /\ p.datagram.proto # PROTO_UDP)
          => Sends(p.datagram.family, p.datagram.meant.id)
Packets == {p \in [datagram : Datagrams, part : Parts] : Genuine(p)}

WireInv ==
    /\ host \in Hosts /\ traffic \in Traffics
    /\ sent \in Seq(Packets) /\ inFlight \in Seq(Packets)
    /\ Len(sent) + Len(inFlight) <= MaxPackets
    /\ broken \in BOOLEAN /\ ringOpen \in BOOLEAN /\ stopping \in BOOLEAN

Families == {"v4", "v6"}
Places == {"none", "starting", "batching", "single", "ended"}
Started(t) == thread[t] # "none"
ThreadInv ==
    /\ thread \in [Threads -> Places]
    /\ \A t \in Threads : Started(t) => t \in StartThreads(host)
    /\ ringOpen => Started(RingThread)

(* The ring holds what its filter lets through. *)
RingPackets == \A n \in RingContents : PassesFilter(sent[n])

ForRaw(p, f) ==
    /\ p.part # "first" /\ p.datagram.family = f
    /\ p.datagram.proto = IF f = "v4" THEN PROTO_GRE ELSE PROTO_ETHERIP

(* Queues: in order, with numbers of packets that a socket of the family is*)
(* for, each in one place only.                                            *)
Rising(s) == \A i, j \in DOMAIN s : i < j => s[i] < s[j]
Below(s, u) == \A i \in DOMAIN s, j \in DOMAIN u : s[i] < u[j]
Apart(s, u) == \A i \in DOMAIN s, j \in DOMAIN u : s[i] # u[j]
RawNumbers(s, f, packets) ==
    \A i \in DOMAIN s : s[i] \in 1 .. Len(packets) /\ ForRaw(packets[s[i]], f)
Queue(s, f, packets, cap) == s \in Seq(Nat) /\ Len(s) <= cap /\ Rising(s) /\ RawNumbers(s, f, packets)

QueueInv ==
    /\ sock \in [Families -> Seq(Nat)]
    /\ batch \in [Readers -> Seq(Nat)]
    /\ \A f \in Families : Queue(sock[f], f, sent, SockCap)
    /\ \A t \in Readers :
          /\ Queue(batch[t], Family(t), sent, Batch)
          /\ Below(batch[t], sock[Family(t)])
          /\ ~Started(t) => batch[t] = <<>>
    /\ \A t, u \in Readers : t # u => Apart(batch[t], batch[u])

--------------------------------------------------------------------------------
(* The frames handed over. *)

Frames == [n : Nat, id : Nat, peer : Peers, bytes : Int]

(* A frame is that of its packet, or a later fragment that begins like one.*)
Carries(p, o) ==
    /\ p.datagram.peer = o.peer
    /\ ~ByChance(p) =>
          /\ p.datagram.meant # Nothing
          /\ p.datagram.meant.id = o.id /\ p.datagram.meant.len # 0
          /\ AsPromised(p) => o.bytes = p.datagram.meant.len
          /\ p.datagram.proto \in {PROTO_GRE, PROTO_ETHERIP}

Alone(t) == t = V6Thread \/ Cardinality(WorkersOf(host)) <= 1

(* The frames of a family before those numbers; and none with any of them. *)
Before(o, packets, f, s) ==
    \A i \in DOMAIN o, j \in DOMAIN s : packets[o[i].n].datagram.family = f => o[i].n < s[j]
NotIn(o, s) == \A i \in DOMAIN o, j \in DOMAIN s : o[i].n # s[j]

OutFrames == \A i \in DOMAIN out : out[i].n \in 1 .. Len(sent) /\ Carries(sent[out[i].n], out[i])
Once(o) == \A i, j \in DOMAIN o : i # j => o[i].n # o[j].n
Ordered(o, packets) ==
    \A i, j \in DOMAIN o :
        (j < i /\ packets[o[i].n].datagram.family = packets[o[j].n].datagram.family) => o[j].n < o[i].n
OutOrdered == Cardinality(WorkersOf(host)) <= 1 => Ordered(out, sent)

(* What waits was not handed over yet, and comes after what was.           *)
OutBeforeSock == \A t \in Readers : Started(t) => Before(out, sent, Family(t), sock[Family(t)])
OutNotInBatch ==
    \A t \in Readers : NotIn(out, batch[t]) /\ (Alone(t) => Before(out, sent, Family(t), batch[t]))
UpTo(o, packets, got) == \A i \in DOMAIN o : packets[o[i].n].datagram.family = "v4" => o[i].n <= got
OutBeforeRing == RingChosen(host) => UpTo(out, sent, ringGot)

OutInv ==
    /\ out \in Seq(Frames)
    /\ OutFrames /\ Once(out) /\ OutOrdered /\ OutBeforeSock /\ OutNotInBatch /\ OutBeforeRing

RingPath ==
    /\ RingInv(Len(sent), ringGot) /\ ringGot \in 0 .. Len(sent)
    /\ RingPackets

PathInv == WireInv /\ ThreadInv /\ RingPath /\ QueueInv /\ OutInv

LEMMA BlockIdsAre == BlockIds = 0 .. BlockNr - 1 /\ BlockNr \in Nat \ {0} /\ BlockCap \in Nat \ {0}
  BY RingAssumption DEF BlockIds

LEMMA FollowingIs ==
    ASSUME NEW b \in BlockIds
    PROVE  Following(b) \in BlockIds /\ Following(b) = IF b = BlockNr - 1 THEN 0 ELSE b + 1
  BY BlockIdsAre DEF Following

LEMMA RankRange ==
    ASSUME NEW c \in BlockIds, NEW b \in BlockIds
    PROVE  /\ RankFrom(c, b) \in 0 .. BlockNr - 1
           /\ RankFrom(c, b) = 0 <=> b = c
           /\ \A a \in BlockIds : RankFrom(c, a) = RankFrom(c, b) => a = b
  BY BlockIdsAre DEF RankFrom

(* The block after the one of rank r has rank r + 1, and after the last    *)
(* one comes the reader's.                                                 *)
LEMMA RankOfFollowing ==
    ASSUME NEW c \in BlockIds, NEW b \in BlockIds
    PROVE  /\ RankFrom(c, b) = BlockNr - 1 => Following(b) = c
           /\ RankFrom(c, b) # BlockNr - 1 => RankFrom(c, Following(b)) = RankFrom(c, b) + 1
  <1>1. /\ BlockNr \in Nat \ {0} /\ c \in Nat /\ b \in Nat /\ c <= BlockNr - 1 /\ b <= BlockNr - 1
    BY BlockIdsAre
  <1>2. CASE b = BlockNr - 1
    <2>1. Following(b) = 0
      BY <1>2, FollowingIs
    <2> QED
      BY <1>1, <1>2, <2>1 DEF RankFrom
  <1>3. CASE b # BlockNr - 1
    <2>1. Following(b) = b + 1
      BY <1>3, FollowingIs
    <2> QED
      BY <1>1, <1>3, <2>1 DEF RankFrom
  <1> QED
    BY <1>2, <1>3

(* When the reader goes on, its block gets the last rank.                  *)
LEMMA RankShifts ==
    ASSUME NEW c \in BlockIds, NEW b \in BlockIds
    PROVE  RankFrom(Following(c), b) = IF b = c THEN BlockNr - 1 ELSE RankFrom(c, b) - 1
  <1>1. /\ BlockNr \in Nat \ {0} /\ c \in Nat /\ b \in Nat /\ c <= BlockNr - 1 /\ b <= BlockNr - 1
    BY BlockIdsAre
  <1>2. CASE c = BlockNr - 1
    <2>1. Following(c) = 0
      BY <1>2, FollowingIs
    <2> QED
      BY <1>1, <1>2, <2>1 DEF RankFrom
  <1>3. CASE c # BlockNr - 1
    <2>1. Following(c) = c + 1
      BY <1>3, FollowingIs
    <2> QED
      BY <1>1, <1>3, <2>1 DEF RankFrom
  <1> QED
    BY <1>2, <1>3

(* A packet that is put behind all others keeps the order. *)
LEMMA PutInto ==
    ASSUME NEW top \in Nat, NEW got \in Nat, got <= top,
           RingTypes, WalkInside, Numbered(top, got), InOrderInside,
           NEW f \in BlockIds, \A b \in BlockIds : Rank(b) > Rank(f) => blocks[b] = <<>>,
           blocks' = [blocks EXCEPT ![f] = Append(blocks[f], top + 1)],
           UNCHANGED <<current, walking, walked>>
    PROVE  /\ blocks' \in [BlockIds -> Seq(Nat)]
           /\ Numbered(top + 1, got)' /\ InOrderInside'
           /\ RingContents' = RingContents \cup {top + 1}
           /\ \A b \in BlockIds : Len(blocks'[b]) = IF b = f THEN Len(blocks[b]) + 1 ELSE Len(blocks[b])
  <1> DEFINE last == Len(blocks[f]) + 1
  <1>1. blocks \in [BlockIds -> Seq(Nat)] /\ current \in BlockIds /\ walked \in Nat
        /\ walked <= Len(blocks[current])
    BY DEF RingTypes, WalkInside
  <1>2. /\ Append(blocks[f], top + 1) \in Seq(Nat)
        /\ Len(Append(blocks[f], top + 1)) = Len(blocks[f]) + 1
        /\ \A i \in 1 .. Len(blocks[f]) : Append(blocks[f], top + 1)[i] = blocks[f][i]
        /\ Append(blocks[f], top + 1)[last] = top + 1
    <2>1. blocks[f] \in Seq(Nat) /\ top + 1 \in Nat
      BY <1>1
    <2> QED
      BY <2>1, AppendProperties
  <1>3. /\ blocks' \in [BlockIds -> Seq(Nat)]
        /\ \A b \in BlockIds : b # f => blocks'[b] = blocks[b]
        /\ blocks'[f] = Append(blocks[f], top + 1)
    BY <1>1, <1>2
  <1>4. \A b \in BlockIds : blocks[b] \in Seq(Nat) /\ Len(blocks[b]) \in Nat /\ DOMAIN blocks[b] = 1 .. Len(blocks[b])
    BY <1>1
  <1>5. /\ Len(blocks'[f]) = last /\ DOMAIN blocks'[f] = 1 .. last /\ last \in Nat
        /\ \A i \in DOMAIN blocks[f] : blocks'[f][i] = blocks[f][i]
        /\ blocks'[f][last] = top + 1
    BY <1>2, <1>3, <1>4
  <1> HIDE DEF last
  <1>6. \A b \in BlockIds : \A i \in DOMAIN blocks'[b] :
            \/ i \in DOMAIN blocks[b] /\ blocks'[b][i] = blocks[b][i]
            \/ b = f /\ i = last /\ blocks'[b][i] = top + 1
    <2> SUFFICES ASSUME NEW b \in BlockIds, NEW i \in DOMAIN blocks'[b]
                 PROVE  \/ i \in DOMAIN blocks[b] /\ blocks'[b][i] = blocks[b][i]
                        \/ b = f /\ i = last /\ blocks'[b][i] = top + 1
      OBVIOUS
    <2>1. CASE b # f
      BY <1>3, <2>1
    <2>2. CASE b = f
      <3>1. i \in 1 .. last
        BY <1>5, <2>2
      <3>2. i = last \/ i \in 1 .. Len(blocks[f])
        BY <3>1, <1>4 DEF last
      <3> QED
        BY <1>4, <1>5, <2>2, <3>2
    <2> QED
      BY <2>1, <2>2
  <1>7. Numbered(top + 1, got)'
    <2> SUFFICES ASSUME NEW b \in BlockIds, NEW i \in DOMAIN blocks'[b]
                 PROVE  /\ blocks'[b][i] \in 1 .. top + 1
                        /\ (b = current => i > walked) => blocks'[b][i] > got
      BY DEF Numbered
    <2>1. CASE i \in DOMAIN blocks[b] /\ blocks'[b][i] = blocks[b][i]
      BY <2>1 DEF Numbered
    <2> QED
      BY <1>6, <2>1
  <1>8. InOrderInside'
    <2> SUFFICES ASSUME NEW b \in BlockIds, NEW c \in BlockIds, NEW i \in DOMAIN blocks'[b],
                        NEW j \in DOMAIN blocks'[c], Rank(b) < Rank(c) \/ (b = c /\ i < j)
                 PROVE  blocks'[b][i] < blocks'[c][j]
      BY DEF InOrderInside, Rank
    <2>1. CASE j \in DOMAIN blocks[c] /\ blocks'[c][j] = blocks[c][j]
      <3>1. CASE i \in DOMAIN blocks[b] /\ blocks'[b][i] = blocks[b][i]
        BY <2>1, <3>1 DEF InOrderInside
      <3>2. CASE b = f /\ i = last
        <4>1. c # f => blocks[c] # <<>>
          BY <2>1, <1>4
        <4>2. ~(Rank(b) < Rank(c))
          <5>1. ASSUME Rank(b) < Rank(c) PROVE FALSE
            <6>1. Rank(c) \in Int /\ Rank(f) \in Int
              BY <1>1, RankRange DEF Rank
            <6>2. Rank(c) > Rank(f) /\ c # f
              BY <3>2, <5>1, <6>1
            <6> QED
              BY <4>1, <6>2
          <5> QED
            BY <5>1
        <4>3. b = c /\ last < j /\ j \in 1 .. Len(blocks[f])
          BY <1>4, <2>1, <3>2, <4>2
        <4> QED
          BY <1>4, <4>3 DEF last
      <3> QED
        BY <1>6, <3>1, <3>2
    <2>2. CASE c = f /\ j = last /\ blocks'[c][j] = top + 1
      <3>1. CASE i \in DOMAIN blocks[b] /\ blocks'[b][i] = blocks[b][i]
        <4>1. blocks[b][i] \in 1 .. top
          BY <3>1 DEF Numbered
        <4> QED
          BY <2>2, <3>1, <4>1
      <3>2. CASE b = f /\ i = last
        <4>1. last \in Nat /\ Rank(f) \in Int
          BY <1>1, <1>5, RankRange DEF Rank
        <4> QED
          BY <2>2, <3>2, <4>1
      <3> QED
        BY <1>6, <3>1, <3>2
    <2> QED
      BY <1>6, <2>1, <2>2
  <1>9. RingContents' = RingContents \cup {top + 1}
    <2>1. ASSUME NEW b \in BlockIds, NEW i \in DOMAIN blocks'[b], b = current => i > walked
          PROVE  blocks'[b][i] \in RingContents \cup {top + 1}
      <3>1. CASE i \in DOMAIN blocks[b] /\ blocks'[b][i] = blocks[b][i]
        BY <2>1, <3>1 DEF RingContents, Unwalked
      <3> QED
        BY <1>6, <3>1
    <2>2. ASSUME NEW b \in BlockIds, NEW i \in DOMAIN blocks[b], b = current => i > walked
          PROVE  blocks[b][i] \in RingContents'
      <3>1. i \in DOMAIN blocks'[b] /\ blocks'[b][i] = blocks[b][i]
        <4>1. CASE b # f
          BY <1>3, <4>1
        <4>2. CASE b = f
          <5>1. i \in 1 .. Len(blocks[f]) /\ Len(blocks[f]) \in Nat
            BY <1>4, <4>2
          <5>2. i \in 1 .. last
            BY <5>1 DEF last
          <5> QED
            BY <1>5, <4>2, <5>2
        <4> QED
          BY <4>1, <4>2
      <3> QED
        BY <2>2, <3>1 DEF RingContents, Unwalked
    <2>3. top + 1 \in RingContents'
      <3>1. f = current => last > walked
        BY <1>1, <1>4 DEF last
      <3>2. last \in DOMAIN blocks'[f]
        BY <1>5, <1>4 DEF last
      <3> QED
        BY <1>5, <3>1, <3>2 DEF RingContents, Unwalked
    <2>4. RingContents' = UNION {{blocks'[b][i] : i \in {k \in DOMAIN blocks'[b] : b = current => k > walked}} : b \in BlockIds}
      BY DEF RingContents, Unwalked
    <2> QED
      BY <2>1, <2>2, <2>3, <2>4 DEF RingContents, Unwalked
  <1>10. \A b \in BlockIds : Len(blocks'[b]) = IF b = f THEN Len(blocks[b]) + 1 ELSE Len(blocks[b])
    BY <1>3, <1>5 DEF last
  <1> QED
    BY <1>3, <1>7, <1>8, <1>9, <1>10

LEMMA InitRing ==
    ASSUME RingInit
    PROVE  RingInv(0, 0) /\ RingContents = {}
  <1>1. 0 \in BlockIds
    BY BlockIdsAre
  <1>2. /\ blocks = [b \in BlockIds |-> <<>>] /\ \A b \in BlockIds : blocks[b] = <<>>
        /\ status = [b \in BlockIds |-> "kernel"] /\ filling = 0 /\ current = 0 /\ walking = FALSE /\ walked = 0
    BY DEF RingInit
  <1>3. RingTypes /\ EmptyAhead /\ WalkInside
    <2>1. Len(<<>>) = 0 /\ <<>> \in Seq(Nat)
      BY EmptySeq
    <2>2. blocks \in [BlockIds -> Seq(Nat)] /\ \A b \in BlockIds : Len(blocks[b]) = 0
      BY <1>2, <2>1
    <2>3. \A b \in BlockIds : Len(blocks[b]) <= BlockCap
      BY <2>2, BlockIdsAre
    <2>4. status \in [BlockIds -> {"kernel", "user"}] /\ filling \in BlockIds /\ current \in BlockIds
          /\ walking \in BOOLEAN /\ walked \in Nat
      BY <1>1, <1>2
    <2>5. RingTypes
      BY <2>2, <2>3, <2>4 DEF RingTypes
    <2> QED
      BY <1>1, <1>2, <2>2, <2>5 DEF EmptyAhead, WalkInside
  <1>4. ReadersBlocks
    <2>1. \A b \in BlockIds : Rank(b) \in 0 .. BlockNr - 1 /\ Rank(filling) = 0 /\ status[b] = "kernel"
      BY <1>1, <1>2, RankRange DEF Rank
    <2>2. \A b \in BlockIds : ~(Rank(b) < Rank(filling)) /\ status[b] # "user"
      BY <2>1, BlockIdsAre
    <2> QED
      BY <1>1, <1>2, <2>2 DEF ReadersBlocks
  <1>5. \A b \in BlockIds : DOMAIN blocks[b] = {}
    BY <1>2
  <1>6. Numbered(0, 0) /\ InOrderInside /\ RingContents = {}
    BY <1>5 DEF Numbered, InOrderInside, RingContents, Unwalked
  <1> QED
    BY <1>3, <1>4, <1>6 DEF RingInv

LEMMA SameOrder ==
    ASSUME NEW top \in Nat, NEW more \in Nat, NEW got, Numbered(top, got), InOrderInside, top <= more,
           UNCHANGED <<blocks, current, walked>>
    PROVE  Numbered(more, got)' /\ InOrderInside' /\ RingContents' = RingContents
  <1>1. Numbered(more, got)'
    BY DEF Numbered
  <1>2. InOrderInside'
    BY DEF InOrderInside, Rank
  <1>3. RingContents' = RingContents
    BY DEF RingContents, Unwalked
  <1> QED
    BY <1>1, <1>2, <1>3

(* The kernel gives a block to the reader and goes on to the next. *)
LEMMA GiveBlock ==
    ASSUME RingTypes, ReadersBlocks, EmptyAhead, status[filling] = "kernel",
           status' = [status EXCEPT ![filling] = "user"], filling' = Following(filling), current' = current
    PROVE  /\ ReadersBlocks'
           /\ status' \in [BlockIds -> {"kernel", "user"}] /\ filling' \in BlockIds
           /\ status'[current] \in {"user", status[current]}
           /\ \A b \in BlockIds : status'[b] = "kernel" => blocks[b] = <<>>
           /\ status'[filling'] = "kernel" =>
                  \A b \in BlockIds : Rank(b) > Rank(filling') => blocks[b] = <<>>
  <1>1. /\ filling \in BlockIds /\ current \in BlockIds /\ status \in [BlockIds -> {"kernel", "user"}]
        /\ filling' \in BlockIds
    BY FollowingIs DEF RingTypes
  <1>2. /\ status' \in [BlockIds -> {"kernel", "user"}]
        /\ \A b \in BlockIds : status'[b] = IF b = filling THEN "user" ELSE status[b]
    BY <1>1
  <1>3. \A b \in BlockIds : status'[b] = "user" <=> Rank(b) <= Rank(filling)
    <2> SUFFICES ASSUME NEW b \in BlockIds
                 PROVE  status'[b] = "user" <=> Rank(b) <= Rank(filling)
      OBVIOUS
    <2>1. Rank(b) \in Int /\ Rank(filling) \in Int /\ (Rank(b) = Rank(filling) => b = filling)
      BY <1>1, RankRange DEF Rank
    <2>2. status[b] = "user" <=> Rank(b) < Rank(filling)
      BY <1>1 DEF ReadersBlocks
    <2> QED
      BY <1>1, <1>2, <2>1, <2>2
  <1>4. \A b \in BlockIds : status'[b] = "kernel" => blocks[b] = <<>>
    BY <1>1, <1>2 DEF EmptyAhead
  <1>5. BlockNr \in Nat /\ \A b \in BlockIds : Rank(b) \in Int /\ Rank(b) <= BlockNr - 1
    <2>1. BlockNr \in Nat /\ \A b \in BlockIds : Rank(b) \in 0 .. BlockNr - 1
      BY <1>1, RankRange, BlockIdsAre DEF Rank
    <2> QED
      BY <2>1
  <1>6. CASE Rank(filling) = BlockNr - 1
    <2>1. filling' = current
      BY <1>1, <1>6, RankOfFollowing DEF Rank
    <2>2. \A b \in BlockIds : status'[b] = "user"
      BY <1>3, <1>5, <1>6
    <2>3. ReadersBlocks'
      BY <1>1, <2>1, <2>2 DEF ReadersBlocks
    <2> QED
      BY <1>1, <1>2, <2>2, <2>3
  <1>7. CASE Rank(filling) # BlockNr - 1
    <2>1. Rank(filling') = Rank(filling) + 1
      BY <1>1, <1>7, RankOfFollowing DEF Rank
    <2>2. status'[filling'] = "kernel"
      BY <1>1, <1>2, <1>3, <1>5, <2>1
    <2>3. \A b \in BlockIds : status'[b] = "user" <=> Rank(b) < Rank(filling')
      BY <1>1, <1>3, <1>5, <2>1
    <2>4. \A b \in BlockIds : Rank(b)' = Rank(b) /\ Rank(filling)' = Rank(filling')
      BY DEF Rank
    <2>5. ReadersBlocks'
      BY <2>2, <2>3, <2>4 DEF ReadersBlocks
    <2>6. \A b \in BlockIds : Rank(b) > Rank(filling') => blocks[b] = <<>>
      <3> SUFFICES ASSUME NEW b \in BlockIds, Rank(b) > Rank(filling') PROVE blocks[b] = <<>>
        OBVIOUS
      <3>1. ~(Rank(b) < Rank(filling'))
        BY <1>1, <1>5
      <3> QED
        BY <1>2, <1>4, <2>3, <3>1
    <2> QED
      BY <1>1, <1>2, <1>4, <2>5, <2>6
  <1> QED
    BY <1>6, <1>7

LEMMA PutsKeepsRing ==
    ASSUME NEW top \in Nat, NEW got \in Nat, got <= top, RingInv(top, got),
           KernelPuts(top + 1), UNCHANGED readerVars
    PROVE  /\ RingInv(top + 1, got)'
           /\ RingContents' \in {RingContents, RingContents \cup {top + 1}}
  <1>1. /\ RingTypes /\ ReadersBlocks /\ EmptyAhead /\ WalkInside /\ Numbered(top, got) /\ InOrderInside
        /\ current' = current /\ walking' = walking /\ walked' = walked
    BY DEF RingInv, readerVars
  <1>2. /\ blocks \in [BlockIds -> Seq(Nat)] /\ \A b \in BlockIds : Len(blocks[b]) \in Nat
        /\ filling \in BlockIds /\ current \in BlockIds /\ walked \in Nat /\ BlockCap \in Nat \ {0}
        /\ \A b \in BlockIds : Len(blocks[b]) <= BlockCap
    BY <1>1, BlockIdsAre DEF RingTypes
  <1>3. ASSUME NEW f \in BlockIds, Len(blocks[f]) < BlockCap,
               \A b \in BlockIds : Rank(b) > Rank(f) => blocks[b] = <<>>,
               blocks' = [blocks EXCEPT ![f] = Append(blocks[f], top + 1)],
               status' \in [BlockIds -> {"kernel", "user"}], filling' \in BlockIds,
               ReadersBlocks', status'[current] \in {"user", status[current]},
               \A b \in BlockIds : (status'[b] = "kernel" /\ b # filling') => (blocks[b] = <<>> /\ b # f)
        PROVE  /\ RingInv(top + 1, got)'
               /\ RingContents' = RingContents \cup {top + 1}
    <2>1. /\ blocks' \in [BlockIds -> Seq(Nat)]
          /\ Numbered(top + 1, got)' /\ InOrderInside'
          /\ RingContents' = RingContents \cup {top + 1}
          /\ \A b \in BlockIds : Len(blocks'[b]) = IF b = f THEN Len(blocks[b]) + 1 ELSE Len(blocks[b])
      BY <1>1, <1>3, PutInto
    <2>2. RingTypes'
      BY <1>1, <1>2, <1>3, <2>1 DEF RingTypes
    <2>3. EmptyAhead'
      <3>1. \A b \in BlockIds : b # f => blocks'[b] = blocks[b]
        BY <1>2, <1>3
      <3> QED
        BY <1>3, <3>1 DEF EmptyAhead
    <2>4. WalkInside'
      BY <1>1, <1>2, <1>3, <2>1 DEF WalkInside
    <2> QED
      BY <1>3, <2>1, <2>2, <2>3, <2>4 DEF RingInv
  <1>4. CASE /\ status[filling] = "kernel" /\ Len(blocks[filling]) < BlockCap
             /\ blocks' = [blocks EXCEPT ![filling] = Append(blocks[filling], top + 1)]
             /\ status' = status /\ filling' = filling
    <2>1. \A b \in BlockIds : Rank(b) > Rank(filling) => blocks[b] = <<>>
      <3> SUFFICES ASSUME NEW b \in BlockIds, Rank(b) > Rank(filling) PROVE blocks[b] = <<>>
        OBVIOUS
      <3>1. Rank(b) \in Int /\ Rank(filling) \in Int
        BY <1>2, RankRange DEF Rank
      <3>2. status[b] # "user" /\ b # filling
        BY <1>1, <1>4, <3>1 DEF ReadersBlocks
      <3> QED
        BY <1>1, <3>2 DEF EmptyAhead, RingTypes
    <2>2. ReadersBlocks'
      BY <1>1, <1>4 DEF ReadersBlocks, Rank
    <2>3. \A b \in BlockIds : (status'[b] = "kernel" /\ b # filling') => (blocks[b] = <<>> /\ b # filling)
      BY <1>1, <1>4 DEF EmptyAhead
    <2> QED
      BY <1>1, <1>2, <1>3, <1>4, <2>1, <2>2, <2>3 DEF RingTypes
  <1>5. CASE /\ status[filling] = "kernel" /\ Len(blocks[filling]) = BlockCap
             /\ status' = [status EXCEPT ![filling] = "user"]
             /\ filling' = Following(filling)
             /\ blocks' = IF status'[Following(filling)] = "kernel"
                          THEN [blocks EXCEPT ![Following(filling)] = <<top + 1>>] ELSE blocks
    <2>1. /\ ReadersBlocks'
          /\ status' \in [BlockIds -> {"kernel", "user"}] /\ filling' \in BlockIds
          /\ status'[current] \in {"user", status[current]}
          /\ \A b \in BlockIds : status'[b] = "kernel" => blocks[b] = <<>>
          /\ status'[filling'] = "kernel" =>
                 \A b \in BlockIds : Rank(b) > Rank(filling') => blocks[b] = <<>>
      BY <1>1, <1>5, GiveBlock
    <2>2. CASE status'[filling'] = "kernel"
      <3>1. blocks[filling'] = <<>>
        BY <2>1, <2>2
      <3>2. Append(<<>>, top + 1) = <<top + 1>> /\ Len(<<>>) = 0
        OBVIOUS
      <3>3. /\ blocks' = [blocks EXCEPT ![filling'] = Append(blocks[filling'], top + 1)]
            /\ Len(blocks[filling']) < BlockCap
        BY <1>2, <1>5, <2>2, <3>1, <3>2
      <3> QED
        BY <1>3, <2>1, <2>2, <3>3
    <2>3. CASE status'[filling'] # "kernel"
      <3>1. blocks' = blocks
        BY <1>5, <2>3
      <3>2. Numbered(top + 1, got)' /\ InOrderInside' /\ RingContents' = RingContents
        BY <1>1, <3>1, SameOrder
      <3>3. RingTypes' /\ EmptyAhead' /\ WalkInside'
        BY <1>1, <2>1, <3>1 DEF RingTypes, EmptyAhead, WalkInside
      <3> QED
        BY <2>1, <3>2, <3>3 DEF RingInv
    <2> QED
      BY <2>2, <2>3
  <1>6. CASE UNCHANGED kernelVars
    <2>1. blocks' = blocks /\ status' = status /\ filling' = filling
      BY <1>6 DEF kernelVars
    <2>2. Numbered(top + 1, got)' /\ InOrderInside' /\ RingContents' = RingContents
      BY <1>1, <2>1, SameOrder
    <2>3. RingTypes' /\ EmptyAhead' /\ WalkInside' /\ ReadersBlocks'
      BY <1>1, <2>1 DEF RingTypes, EmptyAhead, WalkInside, ReadersBlocks, Rank
    <2> QED
      BY <2>2, <2>3 DEF RingInv
  <1> QED
    BY <1>4, <1>5, <1>6 DEF KernelPuts

LEMMA RetiresKeepsRing ==
    ASSUME NEW top \in Nat, NEW got \in Nat, RingInv(top, got), KernelRetires
    PROVE  RingInv(top, got)' /\ RingContents' = RingContents
  <1>1. /\ RingTypes /\ ReadersBlocks /\ EmptyAhead /\ WalkInside /\ Numbered(top, got) /\ InOrderInside
        /\ current' = current /\ walking' = walking /\ walked' = walked /\ blocks' = blocks
        /\ status[filling] = "kernel" /\ status' = [status EXCEPT ![filling] = "user"]
        /\ filling' = Following(filling)
    BY DEF RingInv, readerVars, KernelRetires
  <1>2. /\ ReadersBlocks'
        /\ status' \in [BlockIds -> {"kernel", "user"}] /\ filling' \in BlockIds
        /\ status'[current] \in {"user", status[current]}
        /\ \A b \in BlockIds : status'[b] = "kernel" => blocks[b] = <<>>
    BY <1>1, GiveBlock
  <1>3. Numbered(top, got)' /\ InOrderInside' /\ RingContents' = RingContents
    BY <1>1, SameOrder
  <1>4. RingTypes' /\ EmptyAhead' /\ WalkInside'
    BY <1>1, <1>2 DEF RingTypes, EmptyAhead, WalkInside
  <1> QED
    BY <1>2, <1>3, <1>4 DEF RingInv

LEMMA ReadyKeepsRing ==
    ASSUME NEW top \in Nat, NEW got \in Nat, RingInv(top, got), BlockReady
    PROVE  RingInv(top, got)' /\ RingContents' = RingContents
  <1>1. /\ RingTypes /\ ReadersBlocks /\ EmptyAhead /\ WalkInside /\ Numbered(top, got) /\ InOrderInside
        /\ current' = current /\ walking' = TRUE /\ walked' = walked /\ blocks' = blocks
        /\ status[current] = "user" /\ status' = status /\ filling' = filling
    BY DEF RingInv, kernelVars, BlockReady
  <1>2. Numbered(top, got)' /\ InOrderInside' /\ RingContents' = RingContents
    BY <1>1, SameOrder
  <1>3. RingTypes' /\ EmptyAhead' /\ WalkInside' /\ ReadersBlocks'
    BY <1>1 DEF RingTypes, EmptyAhead, WalkInside, ReadersBlocks, Rank
  <1> QED
    BY <1>2, <1>3 DEF RingInv

(* The packet walked past is the oldest of those in the ring. *)
LEMMA WalkKeepsRing ==
    ASSUME NEW top \in Nat, NEW got \in Nat, RingInv(top, got), AtPacket, WalkOn,
           NEW h, h = PacketHere
    PROVE  /\ RingInv(top, h)'
           /\ h \in RingContents /\ \A n \in RingContents : h <= n
           /\ RingContents' = RingContents \ {h}
           /\ h \in 1 .. top
  <1>1. /\ RingTypes /\ ReadersBlocks /\ EmptyAhead /\ WalkInside /\ Numbered(top, got) /\ InOrderInside
        /\ current' = current /\ walking' = walking /\ walked' = walked + 1 /\ blocks' = blocks
        /\ status' = status /\ filling' = filling
        /\ walking /\ walked < Len(blocks[current])
    BY DEF RingInv, kernelVars, AtPacket, WalkOn
  <1>2. /\ current \in BlockIds /\ walked \in Nat /\ Len(blocks[current]) \in Nat
        /\ \A b \in BlockIds : DOMAIN blocks[b] = 1 .. Len(blocks[b]) /\ Len(blocks[b]) \in Nat
    BY <1>1 DEF RingTypes
  <1>3. walked + 1 \in DOMAIN blocks[current] /\ walked + 1 > walked /\ h = blocks[current][walked + 1]
    BY <1>1, <1>2 DEF PacketHere
  <1>4. h \in RingContents /\ h \in 1 .. top
    BY <1>1, <1>2, <1>3 DEF RingContents, Unwalked, Numbered
  <1>5. ASSUME NEW b \in BlockIds, NEW i \in DOMAIN blocks[b], b = current => i > walked + 1
        PROVE  blocks[b][i] > h /\ blocks[b][i] \in 1 .. top
    <2>1. Rank(current) < Rank(b) \/ (current = b /\ walked + 1 < i)
      <3>1. CASE b = current
        BY <1>2, <1>5, <3>1
      <3>2. CASE b # current
        <4>1. Rank(b) \in 0 .. BlockNr - 1 /\ Rank(current) = 0 /\ Rank(b) # 0
          BY <1>2, <3>2, RankRange DEF Rank
        <4> QED
          BY <4>1, BlockIdsAre
      <3> QED
        BY <3>1, <3>2
    <2>2. h < blocks[b][i]
      BY <1>1, <1>2, <1>3, <2>1 DEF InOrderInside
    <2>3. blocks[b][i] \in 1 .. top
      BY <1>1 DEF Numbered
    <2> QED
      BY <1>4, <2>2, <2>3
  <1>6. ASSUME NEW b \in BlockIds, NEW i \in DOMAIN blocks[b], b = current => i > walked
        PROVE  (b = current /\ i = walked + 1 /\ blocks[b][i] = h) \/ (b = current => i > walked + 1)
    BY <1>2, <1>3, <1>6
  <1>7. \A n \in RingContents : h <= n
    <2> SUFFICES ASSUME NEW b \in BlockIds, NEW i \in DOMAIN blocks[b], b = current => i > walked
                 PROVE  h <= blocks[b][i]
      BY DEF RingContents, Unwalked
    <2> QED
      BY <1>4, <1>5, <1>6
  <1>8. RingContents' = RingContents \ {h}
    <2>1. RingContents' = UNION {{blocks[b][i] : i \in {k \in DOMAIN blocks[b] : b = current => k > walked + 1}} : b \in BlockIds}
      BY <1>1 DEF RingContents, Unwalked
    <2>2. ASSUME NEW b \in BlockIds, NEW i \in DOMAIN blocks[b], b = current => i > walked + 1
          PROVE  blocks[b][i] \in RingContents \ {h}
      <3>1. blocks[b][i] \in RingContents
        <4>1. b = current => i > walked
          BY <1>2, <2>2
        <4> QED
          BY <4>1 DEF RingContents, Unwalked
      <3>2. blocks[b][i] # h
        BY <1>4, <1>5, <2>2
      <3> QED
        BY <3>1, <3>2
    <2>3. ASSUME NEW b \in BlockIds, NEW i \in DOMAIN blocks[b], b = current => i > walked, blocks[b][i] # h
          PROVE  blocks[b][i] \in RingContents'
      <3>1. b = current => i > walked + 1
        BY <1>6, <2>3
      <3> QED
        BY <2>1, <3>1
    <2>4. ASSUME NEW n \in RingContents' PROVE n \in RingContents \ {h}
      <3>1. PICK b \in BlockIds : \E i \in DOMAIN blocks[b] : (b = current => i > walked + 1) /\ n = blocks[b][i]
        BY <2>1, <2>4
      <3> QED
        BY <2>2, <3>1
    <2>5. ASSUME NEW n \in RingContents \ {h} PROVE n \in RingContents'
      <3>1. PICK b \in BlockIds : \E i \in DOMAIN blocks[b] : (b = current => i > walked) /\ n = blocks[b][i]
        BY <2>5 DEF RingContents, Unwalked
      <3> QED
        BY <2>3, <2>5, <3>1
    <2> QED
      BY <2>4, <2>5
  <1>9. Numbered(top, h)'
    BY <1>1, <1>5 DEF Numbered
  <1>10. RingTypes' /\ EmptyAhead' /\ WalkInside' /\ ReadersBlocks' /\ InOrderInside'
    <2>1. RingTypes' /\ WalkInside'
      BY <1>1, <1>2 DEF RingTypes, WalkInside
    <2> QED
      BY <1>1, <2>1 DEF EmptyAhead, ReadersBlocks, Rank, InOrderInside
  <1>11. RingInv(top, h)'
    BY <1>9, <1>10 DEF RingInv
  <1> QED
    BY <1>4, <1>7, <1>8, <1>11

LEMMA ReleaseKeepsRing ==
    ASSUME NEW top \in Nat, NEW got \in Nat, RingInv(top, got), ReleaseBlock
    PROVE  RingInv(top, got)' /\ RingContents' = RingContents
  <1>1. /\ RingTypes /\ ReadersBlocks /\ EmptyAhead /\ WalkInside /\ Numbered(top, got) /\ InOrderInside
        /\ walking /\ walked = Len(blocks[current])
        /\ status' = [status EXCEPT ![current] = "kernel"]
        /\ blocks' = [blocks EXCEPT ![current] = <<>>]
        /\ current' = Following(current)
        /\ walking' = FALSE /\ walked' = 0 /\ filling' = filling
    BY DEF RingInv, ReleaseBlock
  <1>2. /\ current \in BlockIds /\ filling \in BlockIds /\ current' \in BlockIds
        /\ blocks \in [BlockIds -> Seq(Nat)] /\ status \in [BlockIds -> {"kernel", "user"}]
        /\ status[current] = "user"
        /\ \A b \in BlockIds : DOMAIN blocks[b] = 1 .. Len(blocks[b]) /\ Len(blocks[b]) \in Nat
    BY <1>1, FollowingIs DEF RingTypes, WalkInside
  <1>3. /\ \A b \in BlockIds : blocks'[b] = IF b = current THEN <<>> ELSE blocks[b]
        /\ \A b \in BlockIds : status'[b] = IF b = current THEN "kernel" ELSE status[b]
        /\ blocks' \in [BlockIds -> Seq(Nat)] /\ status' \in [BlockIds -> {"kernel", "user"}]
    BY <1>1, <1>2, EmptySeq
  <1>4. \A b \in BlockIds : /\ Rank(b)' = IF b = current THEN BlockNr - 1 ELSE Rank(b) - 1
                            /\ Rank(b) \in 0 .. BlockNr - 1 /\ (Rank(b) = 0 <=> b = current)
    BY <1>1, <1>2, RankShifts, RankRange DEF Rank
  <1>5. BlockNr \in Nat \ {0} /\ BlockCap \in Nat
    BY BlockIdsAre
  <1>6. RingTypes' /\ WalkInside' /\ EmptyAhead'
    <2>1. Len(<<>>) = 0 /\ \A b \in BlockIds : Len(blocks'[b]) <= BlockCap /\ Len(blocks'[b]) \in Nat
      BY <1>1, <1>3, <1>5, EmptySeq DEF RingTypes
    <2>2. RingTypes'
      BY <1>1, <1>2, <1>3, <2>1 DEF RingTypes
    <2>3. WalkInside'
      BY <1>1, <1>2, <2>1 DEF WalkInside
    <2>4. EmptyAhead'
      BY <1>1, <1>3 DEF EmptyAhead
    <2> QED
      BY <2>2, <2>3, <2>4
  <1>7. ReadersBlocks'
    <2>0. Rank(filling)' = RankFrom(current', filling) /\ \A b \in BlockIds : Rank(b)' = RankFrom(current', b)
      BY <1>1 DEF Rank
    <2>1. Rank(filling)' = IF filling = current THEN BlockNr - 1 ELSE Rank(filling) - 1
      BY <1>1, <1>2, <2>0, RankShifts DEF Rank
    <2>2. CASE filling = current
      <3>1. status[filling] = "user" /\ \A b \in BlockIds : status[b] = "user"
        BY <1>1, <1>2, <2>2 DEF ReadersBlocks
      <3>2. status'[filling] = "kernel" /\ \A b \in BlockIds : status'[b] = "user" <=> b # current
        BY <1>2, <1>3, <2>2, <3>1
      <3>3. \A b \in BlockIds : b # current <=> Rank(b)' < Rank(filling)'
        <4> SUFFICES ASSUME NEW b \in BlockIds PROVE b # current <=> Rank(b)' < Rank(filling)'
          OBVIOUS
        <4>1. /\ Rank(b) \in 0 .. BlockNr - 1 /\ Rank(filling)' = BlockNr - 1
              /\ Rank(b)' = IF b = current THEN BlockNr - 1 ELSE Rank(b) - 1
          BY <1>4, <2>1, <2>2
        <4> QED
          BY <1>5, <4>1
      <3> QED
        BY <1>1, <3>2, <3>3 DEF ReadersBlocks
    <2>3. CASE filling # current
      <3>1. status[filling] = "kernel"
        BY <1>1, <1>2, <2>3 DEF ReadersBlocks
      <3>2. status'[filling] = "kernel"
        BY <1>2, <1>3, <2>3, <3>1
      <3>3. \A b \in BlockIds : status[b] = "user" <=> Rank(b) < Rank(filling)
        BY <1>1, <3>1 DEF ReadersBlocks
      <3>4. \A b \in BlockIds : status'[b] = "user" <=> Rank(b)' < Rank(filling)'
        <4> SUFFICES ASSUME NEW b \in BlockIds
                     PROVE  status'[b] = "user" <=> Rank(b)' < Rank(filling)'
          OBVIOUS
        <4>1. Rank(filling) \in 0 .. BlockNr - 1 /\ Rank(b) \in 0 .. BlockNr - 1
          BY <1>2, <1>4
        <4>2. CASE b = current
          <5>1. Rank(b)' = BlockNr - 1
            BY <1>4, <4>2
          <5> QED
            BY <1>2, <1>3, <1>5, <2>1, <2>3, <4>1, <4>2, <5>1
        <4>3. CASE b # current
          <5>1. Rank(b)' = Rank(b) - 1
            BY <1>4, <4>3
          <5> QED
            BY <1>3, <2>1, <2>3, <3>3, <4>1, <4>3, <5>1
        <4> QED
          BY <4>2, <4>3
      <3> QED
        BY <1>1, <3>2, <3>4 DEF ReadersBlocks
    <2> QED
      BY <2>2, <2>3
  <1>8. Numbered(top, got)'
    <2> SUFFICES ASSUME NEW b \in BlockIds, NEW i \in DOMAIN blocks'[b]
                 PROVE  blocks'[b][i] \in 1 .. top /\ blocks'[b][i] > got
      BY DEF Numbered
    <2>1. b # current /\ blocks'[b] = blocks[b]
      BY <1>3
    <2> QED
      BY <1>1, <2>1 DEF Numbered
  <1>9. InOrderInside'
    <2> SUFFICES ASSUME NEW b \in BlockIds, NEW c \in BlockIds, NEW i \in DOMAIN blocks'[b],
                        NEW j \in DOMAIN blocks'[c], Rank(b)' < Rank(c)' \/ (b = c /\ i < j)
                 PROVE  blocks'[b][i] < blocks'[c][j]
      BY DEF InOrderInside
    <2>1. b # current /\ c # current /\ blocks'[b] = blocks[b] /\ blocks'[c] = blocks[c]
      BY <1>3
    <2>2. Rank(b) < Rank(c) \/ (b = c /\ i < j)
      BY <1>4, <2>1
    <2> QED
      BY <1>1, <2>1, <2>2 DEF InOrderInside
  <1>10. RingContents' = RingContents
    <2>1. \A b \in BlockIds : Unwalked(b)' = DOMAIN blocks'[b]
      <3>1. \A b \in BlockIds : \A i \in DOMAIN blocks'[b] : i > 0
        BY <1>2, <1>3
      <3> QED
        BY <1>1, <3>1 DEF Unwalked
    <2>2. \A b \in BlockIds : Unwalked(b) = DOMAIN blocks'[b]
      <3>1. Unwalked(current) = {}
        BY <1>1, <1>2 DEF Unwalked
      <3>2. \A b \in BlockIds : b # current => Unwalked(b) = DOMAIN blocks[b]
        BY DEF Unwalked
      <3>3. DOMAIN <<>> = {}
        OBVIOUS
      <3> QED
        BY <1>3, <3>1, <3>2, <3>3
    <2>3. \A b \in BlockIds : {blocks'[b][i] : i \in Unwalked(b)'} = {blocks[b][i] : i \in Unwalked(b)}
      <3> SUFFICES ASSUME NEW b \in BlockIds
                   PROVE  {blocks'[b][i] : i \in Unwalked(b)'} = {blocks[b][i] : i \in Unwalked(b)}
        OBVIOUS
      <3>1. \A i \in Unwalked(b) : blocks'[b][i] = blocks[b][i]
        BY <1>3, <2>2
      <3> QED
        BY <2>1, <2>2, <3>1
    <2>4. RingContents' = UNION {{blocks'[b][i] : i \in Unwalked(b)'} : b \in BlockIds}
      BY DEF RingContents
    <2>5. \A n : n \in RingContents' <=> \E b \in BlockIds : n \in {blocks'[b][i] : i \in Unwalked(b)'}
      BY <2>4
    <2>6. \A n : n \in RingContents <=> \E b \in BlockIds : n \in {blocks[b][i] : i \in Unwalked(b)}
      BY DEF RingContents
    <2> HIDE DEF RingContents
    <2> QED
      BY <2>3, <2>5, <2>6
  <1> QED
    BY <1>6, <1>7, <1>8, <1>9, <1>10 DEF RingInv

--------------------------------------------------------------------------------
(* What the readers make of a packet. *)

LEMMA DatagramTypes ==
    ASSUME NEW d \in Datagrams
    PROVE  /\ d \in Datagram /\ WellFormed(d)
           /\ d.bytes \in Seq(Nat) /\ d.more \in Nat /\ Len(d.bytes) \in Nat
           /\ d.family \in Families /\ d.proto \in Nat /\ d.esp \in BOOLEAN /\ d.expectedPort \in BOOLEAN
           /\ d.peer \in Peers
           /\ d.meant # Nothing => d.meant.id \in U16 /\ d.meant.len \in U16
           /\ d.proto = PROTO_UDP => IP_HEADER + 8 + Size(d) <= LINK_MTU
           /\ Size(d) \in Nat
  <1>1. d \in Datagram /\ WellFormed(d) /\ (d.proto = PROTO_UDP => IP_HEADER + 8 + Size(d) <= LINK_MTU)
    BY RxPathAssumption
  <1>2. /\ d.bytes \in Seq(Nat) /\ d.more \in Nat
        /\ d.family \in Families /\ d.proto \in Nat /\ d.esp \in BOOLEAN /\ d.expectedPort \in BOOLEAN
        /\ d.peer \in Peers /\ d.meant \in Meant \cup {Nothing}
    BY <1>1 DEF Datagram, Families
  <1>3. d.meant # Nothing => d.meant.id \in U16 /\ d.meant.len \in U16
    <2>1. \A m \in Meant : m.id \in U16 /\ m.len \in U16
      BY DEF Meant
    <2>2. d.meant # Nothing => d.meant \in Meant
      BY <1>2
    <2> QED
      BY <2>1, <2>2, Zenon
  <1>4. Len(d.bytes) \in Nat
    BY <1>2
  <1>5. Size(d) \in Nat
    BY <1>2, <1>4 DEF Size
  <1> QED
    BY <1>1, <1>2, <1>3, <1>4, <1>5

LEMMA RestIsBytes ==
    ASSUME NEW d \in Datagrams
    PROVE  /\ d.rest \in Seq(Nat) /\ Len(d.rest) = 8
           /\ \A i \in 1 .. 8 : d.rest[i] \in Nat
  <1>1. d.rest \in [1 .. 8 -> Byte]
    BY DatagramTypes DEF Datagram, EOIP_HEADER_LEN
  <1>2. d.rest \in [1 .. 8 -> Nat]
    BY <1>1, BytesAreNat
  <1>3. d.rest \in Seq(Nat)
    BY <1>2, SeqDef, Zenon
  <1>4. DOMAIN d.rest = 1 .. 8 /\ DOMAIN d.rest = 1 .. Len(d.rest) /\ Len(d.rest) \in Nat
    BY <1>2, <1>3, LenProperties
  <1> DEFINE n == Len(d.rest)
  <1>5. n \in Nat /\ 1 .. 8 = 1 .. n
    BY <1>4
  <1> HIDE DEF n
  <1>6. 8 \in 1 .. n
    BY <1>5
  <1>7. n \in 1 .. 8
    BY <1>5, <1>6
  <1>8. n = 8
    BY <1>5, <1>6, <1>7
  <1> QED
    BY <1>2, <1>3, <1>8 DEF n

LEMMA NoEoipHeader ==
    ASSUME NEW b, SubSeq(b.bytes, 1, 4) # EOIP_MAGIC
    PROVE  DecodeEoipHeader(b) = NoHeader /\ ~DecodeEoipHeader(b).ok
  BY DEF DecodeEoipHeader, NoHeader

LEMMA HeaderFields ==
    ASSUME NEW id, NEW len, NEW hdr
    PROVE  /\ Header(id, len, hdr).ok /\ Header(id, len, hdr).id = id /\ Header(id, len, hdr).len = len
           /\ ~NoHeader.ok
  BY DEF Header, NoHeader

LEMMA EoipStart ==
    ASSUME NEW b, NEW id \in U16, NEW len \in U16, b.bytes = EncodeEoip(id, len), b.more \in Nat
    PROVE  DecodeEoip(b) = Decoded("eoip", id, len = 0, EoipDeviations(len, b.more))
  <1> DEFINE header == DecodeEoipHeader(b)
  <1>1. /\ header = Header(id, len, EOIP_HEADER_LEN)
        /\ SubSeq(b.bytes, 1, 4) = EOIP_MAGIC /\ Size(b) = EOIP_HEADER_LEN + b.more
    BY EoipRoundTrip
  <1>2. Size(b) \in Nat /\ ~(Size(b) < 4) /\ ~(Size(b) < EOIP_HEADER_LEN) /\ Size(b) - EOIP_HEADER_LEN = b.more
    BY <1>1 DEF EOIP_HEADER_LEN
  <1>3. header.id = id /\ header.len = len
    BY <1>1, HeaderFields
  <1>4. DecodeEoip(b) = Decoded("eoip", header.id, header.len = 0,
                                EoipDeviations(header.len, Size(b) - EOIP_HEADER_LEN))
    BY <1>1, <1>2 DEF DecodeEoip
  <1> HIDE DEF header
  <1> QED
    BY <1>2, <1>3, <1>4

LEMMA TooLong ==
    ASSUME NEW n \in Nat, NEW k \in Nat, n > k, k >= MIN_ETHERNET_FRAME
    PROVE  EoipDeviations(n, k) = 1
  BY DEF EoipDeviations, MIN_ETHERNET_FRAME

(* The analyzer's decoders, on what a sender put there. *)
LEMMA EoipSeen ==
    ASSUME NEW b, NEW m, HoldsEoip(b, m), b.more \in Nat, Size(b) \in Int,
           m # Nothing => m.id \in U16 /\ m.len \in U16
    PROVE  DecodeEoip(b) = IF m = Nothing THEN Decoded("gre", 0, FALSE, 1)
                           ELSE Decoded("eoip", m.id, m.len = 0, One(m.len \in 1 .. MIN_ETHERNET_FRAME - 1))
  <1>1. CASE m = Nothing
    <2>1. Size(b) >= 4 /\ SubSeq(b.bytes, 1, 4) # EOIP_MAGIC
      BY <1>1 DEF HoldsEoip
    <2>2. ~(Size(b) < 4)
      BY <2>1
    <2> QED
      BY <1>1, <2>1, <2>2 DEF DecodeEoip
  <1>2. CASE m # Nothing
    <2>1. b.bytes = EncodeEoip(m.id, m.len) /\ b.more = m.len
      BY <1>2 DEF HoldsEoip
    <2>2. DecodeEoip(b) = Decoded("eoip", m.id, m.len = 0, EoipDeviations(m.len, m.len))
      <3>1. DecodeEoip(b) = Decoded("eoip", m.id, m.len = 0, EoipDeviations(m.len, b.more))
        BY <1>2, <2>1, EoipStart
      <3> QED
        BY <2>1, <3>1
    <2>3. EoipDeviations(m.len, m.len) = One(m.len \in 1 .. MIN_ETHERNET_FRAME - 1)
      BY DEF EoipDeviations, One
    <2> QED
      BY <1>2, <2>2, <2>3
  <1> QED
    BY <1>1, <1>2

LEMMA EoipV6Seen ==
    ASSUME NEW b, NEW m, HoldsEoipV6(b, m), b.more \in Nat,
           m # Nothing => m.id \in U16 /\ m.len \in U16 /\ EncodesEoipV6(m.id)
    PROVE  DecodeEoipV6(b) = IF m = Nothing THEN DecodeError ELSE Decoded("eoipv6", m.id, m.len = 0, 0)
  <1>1. CASE m = Nothing
    BY <1>1 DEF HoldsEoipV6, DecodeEoipV6
  <1>2. CASE m # Nothing
    <2>1. b.bytes = EncodeEoipV6(m.id) /\ b.more = m.len /\ m.id \in Nat
      BY <1>2 DEF HoldsEoipV6, U16
    <2>2. DecodeEoipV6Header(b) = Header(m.id, m.len, ETHERIP_HEADER_LEN)
      BY <1>2, <2>1, EoipV6RoundTrip
    <2> QED
      BY <1>2, <2>2, HeaderFields DEF DecodeEoipV6
  <1> QED
    BY <1>1, <1>2

ReadsAs(w, d, bytes, total) ==
    /\ w.bytes = bytes /\ w.more \in Int
    /\ Size(w) = IF IP_HEADER + total >= MIN_LINK_PAYLOAD THEN total ELSE MIN_LINK_PAYLOAD - IP_HEADER
    /\ w.proto = WireProto(d) /\ w.expectedPort = d.expectedPort
    /\ IpPayload(w).bytes = bytes /\ IpPayload(w).more = total - Len(bytes)
    /\ Size(IpPayload(w)) = total
    /\ {"bytes", "more"} \subseteq DOMAIN IpPayload(w)

(* Padding comes off again where the IP header says that the packet ends.  *)
LEMMA PaddedIs ==
    ASSUME NEW d, NEW bytes, Len(bytes) \in Nat, NEW total \in Int,
           NEW w, w = Padded(IpPacket(d, bytes, total))
    PROVE  ReadsAs(w, d, bytes, total)
  <1> DEFINE r == IpPacket(d, bytes, total)
             q == IpPayload(w)
  <1>1. r = [bytes |-> bytes, more |-> total - Len(bytes), total |-> total,
             proto |-> WireProto(d), expectedPort |-> d.expectedPort]
    BY DEF IpPacket
  <1>2. Size(r) = total
    <2>1. r.bytes = bytes /\ r.more = total - Len(bytes)
      BY <1>1
    <2> HIDE DEF r
    <2> QED
      BY <2>1 DEF Size
  <1>3. w = IF IP_HEADER + total >= MIN_LINK_PAYLOAD THEN r
            ELSE [bytes |-> bytes, more |-> MIN_LINK_PAYLOAD - IP_HEADER - Len(bytes), total |-> total,
                  proto |-> WireProto(d), expectedPort |-> d.expectedPort]
    <2>1. r.bytes = bytes
      BY <1>1
    <2>2. [r EXCEPT !.more = MIN_LINK_PAYLOAD - IP_HEADER - Len(r.bytes)]
            = [bytes |-> bytes, more |-> MIN_LINK_PAYLOAD - IP_HEADER - Len(bytes), total |-> total,
               proto |-> WireProto(d), expectedPort |-> d.expectedPort]
      BY <1>1, <2>1
    <2>3. w = IF IP_HEADER + Size(r) >= MIN_LINK_PAYLOAD THEN r
              ELSE [r EXCEPT !.more = MIN_LINK_PAYLOAD - IP_HEADER - Len(r.bytes)]
      BY DEF Padded
    <2> HIDE DEF r
    <2> QED
      BY <1>2, <2>2, <2>3
  <1> HIDE DEF r
  <1>4. CASE IP_HEADER + total >= MIN_LINK_PAYLOAD
    <2>1. w = [bytes |-> bytes, more |-> total - Len(bytes), total |-> total,
               proto |-> WireProto(d), expectedPort |-> d.expectedPort]
      BY <1>1, <1>3, <1>4
    <2>2. /\ w.bytes = bytes /\ w.more = total - Len(bytes) /\ w.total = total
          /\ w.proto = WireProto(d) /\ w.expectedPort = d.expectedPort
      BY <2>1
    <2>3. Size(w) = total
      BY <1>2, <1>3, <1>4
    <2>4. IpPayload(w) = w
      BY <2>2, <2>3 DEF IpPayload
    <2>5. w.more \in Int
      BY <2>2
    <2>6. {"bytes", "more"} \subseteq DOMAIN w
      BY <2>1
    <2> QED
      BY <1>4, <2>2, <2>3, <2>4, <2>5, <2>6 DEF ReadsAs
  <1>5. CASE ~(IP_HEADER + total >= MIN_LINK_PAYLOAD)
    <2>1. w = [bytes |-> bytes, more |-> MIN_LINK_PAYLOAD - IP_HEADER - Len(bytes), total |-> total,
               proto |-> WireProto(d), expectedPort |-> d.expectedPort]
      BY <1>3, <1>5
    <2>2. /\ w.bytes = bytes /\ w.more = MIN_LINK_PAYLOAD - IP_HEADER - Len(bytes) /\ w.total = total
          /\ w.proto = WireProto(d) /\ w.expectedPort = d.expectedPort
      BY <2>1
    <2>3. Size(w) = MIN_LINK_PAYLOAD - IP_HEADER
      BY <2>2 DEF Size, MIN_LINK_PAYLOAD, IP_HEADER
    <2>4. Size(w) > w.total
      BY <1>5, <2>2, <2>3 DEF MIN_LINK_PAYLOAD, IP_HEADER
    <2>5. q = [bytes |-> bytes, more |-> total - Len(bytes), total |-> total,
               proto |-> WireProto(d), expectedPort |-> d.expectedPort]
      <3>1. q = [w EXCEPT !.more = w.total - Len(w.bytes)]
        BY <2>4 DEF IpPayload
      <3> QED
        BY <2>1, <2>2, <3>1
    <2>6. q.bytes = bytes /\ q.more = total - Len(bytes) /\ {"bytes", "more"} \subseteq DOMAIN q
      BY <2>5
    <2> HIDE DEF q
    <2>7. w.more \in Int
      BY <2>2 DEF MIN_LINK_PAYLOAD, IP_HEADER
    <2>8. Size(q) = total
      BY <2>6 DEF Size
    <2> QED
      BY <1>5, <2>2, <2>3, <2>6, <2>7, <2>8 DEF q, ReadsAs
  <1> QED
    BY <1>4, <1>5

PartLen(p) ==
    IF p.part = "whole" THEN Size(p.datagram)
    ELSE IF p.part = "first" THEN FirstPart ELSE Size(p.datagram) - FirstPart
PartBytes(p) == IF p.part = "later" \/ p.datagram.esp THEN p.datagram.rest ELSE p.datagram.bytes

LEMMA WireIs ==
    ASSUME NEW p \in Packets, NEW w, w = OnWire(p)
    PROVE  /\ ReadsAs(w, p.datagram, PartBytes(p), PartLen(p))
           /\ PartLen(p) \in Int /\ Len(PartBytes(p)) \in Nat
  <1>1. p.datagram \in Datagrams /\ p.part \in Parts
    BY DEF Packets
  <1>2. Len(PartBytes(p)) \in Nat
    BY <1>1, DatagramTypes, RestIsBytes DEF PartBytes
  <1>3. PartLen(p) \in Int
    BY <1>1, DatagramTypes DEF PartLen, FirstPart, LINK_MTU, IP_HEADER
  <1>4. w = Padded(IpPacket(p.datagram, PartBytes(p), PartLen(p)))
    BY <1>1 DEF OnWire, PartBytes, PartLen, Parts
  <1> DEFINE b == PartBytes(p)
             t == PartLen(p)
             d == p.datagram
  <1>5. Len(b) \in Nat /\ t \in Int /\ w = Padded(IpPacket(d, b, t))
    BY <1>2, <1>3, <1>4
  <1> HIDE DEF b, t, d
  <1>6. ReadsAs(w, d, b, t)
    BY <1>5, PaddedIs
  <1> QED
    BY <1>5, <1>6 DEF b, t, d

(* What each protocol's datagram holds. *)
LEMMA HoldsByProto ==
    ASSUME NEW d \in Datagrams
    PROVE  /\ d.proto = PROTO_GRE => d.family = "v4" /\ HoldsEoip(d, d.meant)
           /\ d.proto = PROTO_ETHERIP => d.family = "v6" /\ HoldsEoipV6(d, d.meant)
           /\ d.proto = PROTO_UDP => HoldsUdp(d, d.meant)
           /\ d.proto \notin {PROTO_GRE, PROTO_ETHERIP, PROTO_UDP} => d.meant = Nothing
  <1>1. WellFormed(d)
    BY DatagramTypes
  <1>2. CASE d.proto = PROTO_GRE
    <2>1. d.family = "v4" /\ HoldsEoip(d, d.meant)
      BY <1>1, <1>2 DEF WellFormed, PROTO_GRE, PROTO_ETHERIP, PROTO_UDP
    <2> QED
      BY <1>2, <2>1 DEF PROTO_GRE, PROTO_ETHERIP, PROTO_UDP
  <1>3. CASE d.proto = PROTO_ETHERIP
    <2>1. d.family = "v6" /\ HoldsEoipV6(d, d.meant)
      BY <1>1, <1>3 DEF WellFormed, PROTO_GRE, PROTO_ETHERIP, PROTO_UDP
    <2> QED
      BY <1>3, <2>1 DEF PROTO_GRE, PROTO_ETHERIP, PROTO_UDP
  <1>4. CASE d.proto = PROTO_UDP
    <2>1. HoldsUdp(d, d.meant)
      BY <1>1, <1>4 DEF WellFormed, PROTO_GRE, PROTO_ETHERIP, PROTO_UDP
    <2> QED
      BY <1>4, <2>1 DEF PROTO_GRE, PROTO_ETHERIP, PROTO_UDP
  <1>5. CASE d.proto \notin {PROTO_GRE, PROTO_ETHERIP, PROTO_UDP}
    BY <1>1, <1>5 DEF WellFormed
  <1> QED
    BY <1>2, <1>3, <1>4, <1>5

(* One frame at most comes of a packet, and it is the packet's. *)
OneFrame(r, n, p) ==
    \/ r = <<>>
    \/ \E o \in Frames : r = <<o>> /\ o.n = n /\ Carries(p, o)

LEMMA HandedIsFrame ==
    ASSUME NEW n \in Nat, NEW p \in Packets, NEW id, NEW peer, NEW bytes \in Int,
           id \in Nat, peer = p.datagram.peer,
           ~ByChance(p) =>
              /\ p.datagram.meant # Nothing /\ id = p.datagram.meant.id /\ p.datagram.meant.len # 0
              /\ AsPromised(p) => bytes = p.datagram.meant.len
              /\ p.datagram.proto \in {PROTO_GRE, PROTO_ETHERIP}
    PROVE  OneFrame(Handed(n, id, peer, bytes), n, p)
  <1> DEFINE o == [n |-> n, id |-> id, peer |-> peer, bytes |-> bytes]
  <1>1. p.datagram \in Datagrams
    BY DEF Packets
  <1>2. id \in Nat /\ peer \in Peers
    BY <1>1, DatagramTypes
  <1>3. o \in Frames /\ o.n = n /\ o.id = id /\ o.peer = peer /\ o.bytes = bytes
    BY <1>2 DEF Frames
  <1>4. Handed(n, id, peer, bytes) = <<o>>
    BY DEF Handed
  <1> HIDE DEF o
  <1>5. Carries(p, o)
    BY <1>3 DEF Carries, ByChance
  <1> QED
    BY <1>3, <1>4, <1>5 DEF OneFrame

LEMMA LeastIs ==
    ASSUME NEW a \in Int, NEW b \in Int
    PROVE  Least(a, b) \in Int /\ (a <= b => Least(a, b) = a)
  BY DEF Least

LEMMA Cancels ==
    ASSUME NEW a \in Nat, NEW b \in Nat, NEW c \in Nat, a + c = b + c
    PROVE  a = b
  OBVIOUS

(* A frame that is not cut off at MAX_FRAME_SIZE. *)
LEMMA PromisedLength ==
    ASSUME NEW p, AsPromised(p), p.datagram.meant.len \in Int
    PROVE  Least(p.datagram.meant.len, MAX_FRAME_SIZE) = p.datagram.meant.len
  <1>1. MAX_FRAME_SIZE \in Int /\ MIN_ETHERNET_FRAME \in Int
    BY DEF MAX_FRAME_SIZE, MIN_ETHERNET_FRAME
  <1>2. p.datagram.meant.len <= MAX_FRAME_SIZE
    BY <1>1 DEF AsPromised
  <1> QED
    BY <1>1, <1>2, LeastIs

(* What process_v4_packet makes of a header that a sender wrote.           *)
LEMMA V4Hands ==
    ASSUME NEW n \in Nat, NEW peer, NEW b, NEW m, SubSeq(b.bytes, 1, 4) # EOIP_MAGIC \/
               (m.id \in U16 /\ m.len \in U16 /\ b.bytes = EncodeEoip(m.id, m.len) /\ b.more \in Nat)
    PROVE  \/ ProcessV4(n, peer, b) = <<>>
           \/ /\ b.bytes = EncodeEoip(m.id, m.len) /\ m.len # 0
              /\ Size(b) \in Nat
              /\ ProcessV4(n, peer, b) = Handed(n, m.id, peer, Least(Size(b) - EOIP_HEADER_LEN, MAX_FRAME_SIZE))
  <1>1. CASE SubSeq(b.bytes, 1, 4) # EOIP_MAGIC
    BY <1>1, NoEoipHeader DEF ProcessV4
  <1>2. CASE m.id \in U16 /\ m.len \in U16 /\ b.bytes = EncodeEoip(m.id, m.len) /\ b.more \in Nat
    <2>1. /\ DecodeEoipHeader(b) = Header(m.id, m.len, EOIP_HEADER_LEN)
          /\ Size(b) = EOIP_HEADER_LEN + b.more
      BY <1>2, EoipRoundTrip
    <2> DEFINE header == DecodeEoipHeader(b)
    <2>2. header.id = m.id /\ header.len = m.len
      BY <2>1, HeaderFields
    <2>3. \/ ProcessV4(n, peer, b) = <<>>
          \/ /\ header.len # 0
             /\ ProcessV4(n, peer, b) = Handed(n, header.id, peer, Least(Size(b) - EOIP_HEADER_LEN, MAX_FRAME_SIZE))
      BY DEF ProcessV4
    <2>4. Size(b) \in Nat
      BY <1>2, <2>1 DEF EOIP_HEADER_LEN
    <2> HIDE DEF header
    <2> QED
      BY <1>2, <2>2, <2>3, <2>4
  <1> QED
    BY <1>1, <1>2

LEMMA RawV4Hands ==
    ASSUME NEW n \in Nat, NEW p \in Packets, ForRaw(p, "v4"), ~RingChosen(host)
    PROVE  OneFrame(ProcessV4(n, p.datagram.peer, p.datagram), n, p)
  <1> DEFINE d == p.datagram
             m == p.datagram.meant
  <1>1. d \in Datagrams /\ d.proto = PROTO_GRE
    BY DEF Packets, ForRaw
  <1>2. HoldsEoip(d, m)
    BY <1>1, HoldsByProto
  <1>3. CASE m = Nothing
    <2>1. SubSeq(d.bytes, 1, 4) # EOIP_MAGIC
      BY <1>2, <1>3 DEF HoldsEoip
    <2>2. ProcessV4(n, d.peer, d) = <<>>
      BY <2>1, NoEoipHeader DEF ProcessV4
    <2> QED
      BY <2>2 DEF OneFrame
  <1>4. CASE m # Nothing
    <2>1. m.id \in U16 /\ m.len \in U16 /\ d.more \in Nat
      BY <1>1, <1>4, DatagramTypes
    <2>2. d.bytes = EncodeEoip(m.id, m.len) /\ d.more = m.len
      BY <1>2, <1>4 DEF HoldsEoip
    <2>3. Size(d) = EOIP_HEADER_LEN + m.len
      BY <2>1, <2>2, EoipRoundTrip
    <2>4. Size(d) - EOIP_HEADER_LEN = m.len /\ m.len \in Int /\ MAX_FRAME_SIZE \in Int
      BY <2>1, <2>3 DEF U16, EOIP_HEADER_LEN, MAX_FRAME_SIZE
    <2>5. \/ ProcessV4(n, d.peer, d) = <<>>
          \/ m.len # 0 /\ ProcessV4(n, d.peer, d) = Handed(n, m.id, d.peer, Least(m.len, MAX_FRAME_SIZE))
      BY <2>1, <2>2, <2>4, V4Hands
    <2>6. /\ Least(m.len, MAX_FRAME_SIZE) \in Int /\ m.id \in Nat
          /\ AsPromised(p) => Least(m.len, MAX_FRAME_SIZE) = m.len
      <3>1. Least(m.len, MAX_FRAME_SIZE) \in Int
        BY <2>4, LeastIs
      <3>2. m.id \in Nat
        BY <2>1 DEF U16
      <3>3. AsPromised(p) => Least(m.len, MAX_FRAME_SIZE) = m.len
        BY <2>4, PromisedLength
      <3> QED
        BY <3>1, <3>2, <3>3
    <2> HIDE DEF d, m
    <2>7. CASE m.len # 0 /\ ProcessV4(n, d.peer, d) = Handed(n, m.id, d.peer, Least(m.len, MAX_FRAME_SIZE))
      BY <1>1, <1>4, <2>6, <2>7, HandedIsFrame DEF d, m
    <2> QED
      BY <2>5, <2>7 DEF OneFrame, d
  <1> QED
    BY <1>3, <1>4

LEMMA RawV6Hands ==
    ASSUME NEW n \in Nat, NEW p \in Packets, ForRaw(p, "v6")
    PROVE  OneFrame(ProcessV6(n, p.datagram.peer, p.datagram), n, p)
  <1> DEFINE d == p.datagram
             m == p.datagram.meant
             header == DecodeEoipV6Header(d)
  <1>1. d \in Datagrams /\ d.proto = PROTO_ETHERIP /\ d.family = "v6" /\ Genuine(p)
    BY DEF Packets, ForRaw
  <1>2. HoldsEoipV6(d, m)
    BY <1>1, HoldsByProto
  <1>3. CASE m = Nothing
    <2>1. ~header.ok
      BY <1>2, <1>3 DEF HoldsEoipV6
    <2>2. ProcessV6(n, d.peer, d) = <<>>
      BY <2>1 DEF ProcessV6
    <2> QED
      BY <2>2 DEF OneFrame
  <1>4. CASE m # Nothing
    <2>1. m.id \in U16 /\ m.len \in U16 /\ d.more \in Nat
      BY <1>1, <1>4, DatagramTypes
    <2>2. d.bytes = EncodeEoipV6(m.id) /\ d.more = m.len
      BY <1>2, <1>4 DEF HoldsEoipV6
    <2>3. EncodesEoipV6(m.id)
      BY <1>1, <1>4 DEF Genuine, Sends, PROTO_ETHERIP, PROTO_UDP
    <2>4. m.id \in Nat /\ m.len \in Int /\ MAX_FRAME_SIZE \in Int
      BY <2>1 DEF U16, MAX_FRAME_SIZE
    <2>5. header = Header(m.id, m.len, ETHERIP_HEADER_LEN)
      BY <2>1, <2>2, <2>3, <2>4, EoipV6RoundTrip
    <2>6. header.id = m.id /\ header.len = m.len
      BY <2>5, HeaderFields
    <2>7. \/ ProcessV6(n, d.peer, d) = <<>>
          \/ /\ header.len # 0
             /\ ProcessV6(n, d.peer, d) = Handed(n, header.id, d.peer, Least(header.len, MAX_FRAME_SIZE))
      BY DEF ProcessV6
    <2>8. /\ Least(m.len, MAX_FRAME_SIZE) \in Int
          /\ AsPromised(p) => Least(m.len, MAX_FRAME_SIZE) = m.len
      BY <2>4, LeastIs, PromisedLength
    <2> HIDE DEF d, m, header
    <2>9. CASE m.len # 0 /\ ProcessV6(n, d.peer, d) = Handed(n, m.id, d.peer, Least(m.len, MAX_FRAME_SIZE))
      BY <1>1, <1>4, <2>4, <2>8, <2>9, HandedIsFrame DEF d, m
    <2> QED
      BY <2>6, <2>7, <2>9 DEF OneFrame, d
  <1> QED
    BY <1>3, <1>4

LEMMA RingHands ==
    ASSUME NEW n \in Nat, NEW p \in Packets, PassesFilter(p), RingChosen(host)
    PROVE  OneFrame(ProcessV4(n, p.datagram.peer, OnWire(p)), n, p)
  <1> DEFINE d == p.datagram
             m == p.datagram.meant
             w == OnWire(p)
  <1>1. d \in Datagrams /\ Genuine(p) /\ p.part \in Parts /\ d.family = "v4"
    BY DEF Packets, PassesFilter
  <1>2. ReadsAs(w, d, PartBytes(p), PartLen(p)) /\ PartLen(p) \in Int /\ Len(PartBytes(p)) \in Nat
    BY WireIs
  <1> HIDE DEF w
  <1>3. w.bytes = PartBytes(p) /\ w.more \in Int
        /\ Size(w) = IF IP_HEADER + PartLen(p) >= MIN_LINK_PAYLOAD THEN PartLen(p)
                     ELSE MIN_LINK_PAYLOAD - IP_HEADER
    BY <1>2 DEF ReadsAs
  <1>4. CASE p.part = "later"
    <2> DEFINE header == DecodeEoipHeader(w)
               bytes  == Least(Size(w) - EOIP_HEADER_LEN, MAX_FRAME_SIZE)
    <2>1. w.bytes = d.rest /\ d.rest[7] \in Nat /\ d.rest[8] \in Nat
      BY <1>1, <1>3, <1>4, RestIsBytes DEF PartBytes
    <2>2. header.ok => header.id \in Nat
      BY <2>1, HeaderFields DEF DecodeEoipHeader, FromBigEndian, Header
    <2>3. bytes \in Int
      <3>1. Size(w) \in Int
        BY <1>2, <1>3 DEF MIN_LINK_PAYLOAD, IP_HEADER
      <3> QED
        BY <3>1, LeastIs DEF EOIP_HEADER_LEN, MAX_FRAME_SIZE
    <2>4. ByChance(p)
      BY <1>4 DEF ByChance
    <2>5. \/ ProcessV4(n, d.peer, w) = <<>>
          \/ header.ok /\ ProcessV4(n, d.peer, w) = Handed(n, header.id, d.peer, bytes)
      BY DEF ProcessV4
    <2> HIDE DEF header, bytes
    <2>6. CASE header.ok /\ ProcessV4(n, d.peer, w) = Handed(n, header.id, d.peer, bytes)
      BY <2>2, <2>3, <2>4, <2>6, HandedIsFrame DEF w
    <2> QED
      BY <2>5, <2>6 DEF OneFrame, w
  <1>5. CASE p.part # "later"
    <2>1. ~d.esp /\ d.proto = PROTO_GRE
      BY <1>5 DEF PassesFilter, WireProto, PROTO_ESP, PROTO_GRE
    <2>2. w.bytes = d.bytes
      BY <1>3, <1>5, <2>1 DEF PartBytes
    <2>3. HoldsEoip(d, m)
      BY <1>1, <2>1, HoldsByProto
    <2>4. CASE m = Nothing
      <3>1. SubSeq(w.bytes, 1, 4) # EOIP_MAGIC
        BY <2>2, <2>3, <2>4 DEF HoldsEoip
      <3>2. ProcessV4(n, d.peer, w) = <<>>
        BY <3>1, NoEoipHeader DEF ProcessV4
      <3> QED
        BY <3>2 DEF OneFrame, w
    <2>5. CASE m # Nothing
      <3>1. m.id \in U16 /\ m.len \in U16 /\ m.len \in Nat /\ d.more \in Nat
        BY <1>1, <2>5, DatagramTypes DEF U16
      <3>2. d.bytes = EncodeEoip(m.id, m.len) /\ d.more = m.len
        BY <2>3, <2>5 DEF HoldsEoip
      <3>3. Size(d) = 8 + m.len
        BY <3>1, <3>2, EoipRoundTrip DEF EOIP_HEADER_LEN
      <3>5. /\ Size(w) \in Nat /\ Size(w) >= 8
            /\ AsPromised(p) => Size(w) - EOIP_HEADER_LEN = m.len
        <4>1. CASE p.part = "first"
          <5>1. PartLen(p) = 1480
            BY <4>1 DEF PartLen, FirstPart, LINK_MTU, IP_HEADER
          <5>2. Size(w) = 1480
            BY <1>3, <5>1 DEF MIN_LINK_PAYLOAD, IP_HEADER
          <5>3. ~AsPromised(p)
            BY <1>1, <4>1 DEF AsPromised
          <5> QED
            BY <5>2, <5>3
        <4>2. CASE p.part = "whole"
          <5>1. PartLen(p) = Size(d)
            BY <4>2 DEF PartLen
          <5>2. AsPromised(p) => Size(w) = Size(d)
            BY <1>1, <1>3, <5>1 DEF AsPromised
          <5>3. Size(w) \in Nat /\ Size(w) >= 8
            BY <1>3, <3>1, <3>3, <5>1 DEF MIN_LINK_PAYLOAD, IP_HEADER
          <5> QED
            BY <3>1, <3>3, <5>2, <5>3 DEF EOIP_HEADER_LEN
        <4>3. p.part = "first" \/ p.part = "whole"
          BY <1>1, <1>5 DEF Parts
        <4> QED
          BY <4>1, <4>2, <4>3
      <3>6. w.more \in Nat
        <4>1. Len(w.bytes) = 8
          <5>1. Len(d.bytes) \in Nat
            BY <1>1, DatagramTypes
          <5>2. Size(d) = Len(d.bytes) + d.more
            BY DEF Size
          <5>3. d.more \in Nat
            BY <3>1
          <5>4. d.more = m.len
            BY <3>2
          <5>5. Size(d) = 8 + d.more
            BY <3>3, <5>4
          <5>6. Len(d.bytes) + d.more = 8 + d.more
            BY <5>5, <5>2
          <5>7. Len(d.bytes) = 8
            BY <5>1, <5>3, <5>6, Cancels, Zenon
          <5> QED
            BY <2>2, <5>7
        <4>2. Size(w) = 8 + w.more
          BY <4>1 DEF Size
        <4> QED
          BY <1>3, <3>5, <4>2
      <3>7. \/ ProcessV4(n, d.peer, w) = <<>>
            \/ /\ m.len # 0
               /\ ProcessV4(n, d.peer, w) = Handed(n, m.id, d.peer, Least(Size(w) - EOIP_HEADER_LEN, MAX_FRAME_SIZE))
        BY <2>2, <3>1, <3>2, <3>6, V4Hands
      <3> DEFINE bytes == Least(Size(w) - EOIP_HEADER_LEN, MAX_FRAME_SIZE)
      <3>8. bytes \in Int /\ m.id \in Nat /\ (AsPromised(p) => bytes = m.len)
        <4>1. Size(w) - EOIP_HEADER_LEN \in Int /\ MAX_FRAME_SIZE \in Int
          BY <3>5 DEF EOIP_HEADER_LEN, MAX_FRAME_SIZE
        <4>2. AsPromised(p) => bytes = m.len
          BY <3>1, <3>5, PromisedLength
        <4> QED
          BY <3>1, <4>1, <4>2, LeastIs DEF U16
      <3> HIDE DEF d, m, bytes
      <3>9. CASE m.len # 0 /\ ProcessV4(n, d.peer, w) = Handed(n, m.id, d.peer, bytes)
        BY <2>1, <2>5, <3>8, <3>9, HandedIsFrame DEF d, m, w
      <3> QED
        BY <3>7, <3>9 DEF OneFrame, d, w, bytes
    <2> QED
      BY <2>4, <2>5
  <1> QED
    BY <1>4, <1>5

--------------------------------------------------------------------------------
(* What reaches the host stays as it came. *)

LEMMA FragmentsAre ==
    ASSUME NEW d \in Datagrams, d \in traffic, inFlight = <<>>,
           (d.meant # Nothing /\ d.proto # PROTO_UDP) => Sends(d.family, d.meant.id),
           NEW parts, parts = [i \in DOMAIN Fragments(d) |-> [datagram |-> d, part |-> Fragments(d)[i]]]
    PROVE  parts \in Seq(Packets) /\ Len(parts) = Len(Fragments(d)) /\ Len(parts) \in Nat
  <1> DEFINE long == d.family = "v4" /\ IP_HEADER + Size(d) > LINK_MTU
             pack(q) == [datagram |-> d, part |-> q]
  <1>1. ASSUME NEW q \in Parts, q = "whole" <=> ~long
        PROVE  pack(q) \in Packets
    <2>1. pack(q).datagram = d /\ pack(q).part = q
      OBVIOUS
    <2>2. Genuine(pack(q))
      BY <1>1, <2>1 DEF Genuine
    <2>3. pack(q) \in [datagram : Datagrams, part : Parts]
      OBVIOUS
    <2> QED
      BY <2>2, <2>3 DEF Packets
  <1>2. CASE long
    <2>1. Fragments(d) = <<"first", "later">>
      BY <1>2 DEF Fragments
    <2>2. parts = <<pack("first"), pack("later")>>
      BY <2>1
    <2>3. pack("first") \in Packets /\ pack("later") \in Packets
      BY <1>1, <1>2 DEF Parts
    <2> HIDE DEF pack
    <2> QED
      BY <2>1, <2>2, <2>3
  <1>3. CASE ~long
    <2>1. Fragments(d) = <<"whole">>
      BY <1>3 DEF Fragments
    <2>2. parts = <<pack("whole")>>
      BY <2>1
    <2>3. pack("whole") \in Packets
      BY <1>1, <1>3 DEF Parts
    <2> HIDE DEF pack
    <2> QED
      BY <2>1, <2>2, <2>3
  <1> QED
    BY <1>2, <1>3

LEMMA InitWire == Init => WireInv
  <1> SUFFICES ASSUME Init PROVE WireInv
    OBVIOUS
  <1>1. /\ host \in Hosts /\ traffic \in Traffics /\ sent = <<>> /\ inFlight = <<>> /\ broken = FALSE
        /\ ringOpen = FALSE /\ stopping = FALSE
    BY DEF Init
  <1>2. MaxPackets \in Nat
    BY RxPathAssumption
  <1>3. sent \in Seq(Packets) /\ inFlight \in Seq(Packets) /\ Len(sent) = 0 /\ Len(inFlight) = 0
    BY <1>1
  <1>4. Len(sent) + Len(inFlight) <= MaxPackets
    BY <1>2, <1>3
  <1> QED
    BY <1>1, <1>3, <1>4 DEF WireInv

(* The steps that concern neither the wire nor what is on it. *)
wireStateVars == <<host, traffic, sent, inFlight, broken, ringOpen, stopping>>

LEMMA OffTheWire ==
    ASSUME NEW t \in Readers, Reads(t) 
    PROVE  UNCHANGED wireStateVars
  BY DEF Reads, TestRecvmmsg, ReceiveBatch, ReceiveOne, Takes, ProcessNext, wireStateVars, fixedVars, wireVars

LEMMA WireSteps ==
    ASSUME [Next]_vars
    PROVE  \/ Send \/ Arrive \/ Lose \/ RingSetUp \/ Stop
           \/ UNCHANGED wireStateVars
  <1>1. CASE KernelGives \/ WalkRing
    BY <1>1 DEF KernelGives, WalkRing, wireStateVars, fixedVars, wireVars
  <1>2. CASE \E t \in Readers : Reads(t)
    BY <1>2, OffTheWire
  <1>3. CASE \E t \in Threads : ThreadEnds(t)
    BY <1>3 DEF ThreadEnds, wireStateVars, fixedVars, wireVars
  <1>4. CASE UNCHANGED vars
    BY <1>4 DEF vars, wireStateVars, fixedVars, wireVars
  <1> QED
    BY <1>1, <1>2, <1>3, <1>4 DEF Next

LEMMA ArriveSends ==
    ASSUME WireInv, Arrive
    PROVE  /\ inFlight \in Seq(Packets) /\ inFlight # <<>>
           /\ Head(inFlight) \in Packets /\ sent' = Append(sent, Head(inFlight))
           /\ sent \in Seq(Packets) /\ sent' \in Seq(Packets)
           /\ Len(sent) \in Nat /\ Len(sent') = Len(sent) + 1 /\ Len(sent') <= MaxPackets
           /\ sent'[Len(sent')] = Head(inFlight)
           /\ \A i \in 1 .. Len(sent) : sent'[i] = sent[i]
           /\ inFlight' \in Seq(Packets) /\ Len(inFlight') = Len(inFlight) - 1 /\ Len(inFlight) \in Nat
  <1>1. sent \in Seq(Packets) /\ inFlight \in Seq(Packets) /\ Len(sent) + Len(inFlight) <= MaxPackets
    BY DEF WireInv
  <1>2. inFlight # <<>> /\ sent' = Append(sent, Head(inFlight)) /\ inFlight' = Tail(inFlight)
    BY DEF Arrive
  <1>3. /\ Head(inFlight) \in Packets /\ Tail(inFlight) \in Seq(Packets)
        /\ Len(Tail(inFlight)) = Len(inFlight) - 1 /\ Len(inFlight) \in Nat /\ Len(inFlight) >= 1
    BY <1>1, <1>2
  <1> DEFINE p == Head(inFlight)
  <1>4. /\ Append(sent, p) \in Seq(Packets) /\ Len(Append(sent, p)) = Len(sent) + 1
        /\ \A i \in 1 .. Len(sent) : Append(sent, p)[i] = sent[i]
        /\ Append(sent, p)[Len(sent) + 1] = p
    BY <1>1, <1>3, AppendProperties
  <1>5. Len(sent) \in Nat /\ MaxPackets \in Nat
    BY <1>1, RxPathAssumption
  <1> HIDE DEF p
  <1> QED
    BY <1>1, <1>2, <1>3, <1>4, <1>5 DEF p

LEMMA NextWire == WireInv /\ [Next]_vars => WireInv'
  <1> SUFFICES ASSUME WireInv, [Next]_vars PROVE WireInv'
    OBVIOUS
  <1>1. /\ host \in Hosts /\ traffic \in Traffics /\ sent \in Seq(Packets) /\ inFlight \in Seq(Packets)
        /\ Len(sent) + Len(inFlight) <= MaxPackets /\ MaxPackets \in Nat
        /\ broken \in BOOLEAN /\ ringOpen \in BOOLEAN /\ stopping \in BOOLEAN
        /\ Len(sent) \in Nat /\ Len(inFlight) \in Nat
    BY RxPathAssumption DEF WireInv
  <1>2. CASE Send
    <2>1. PICK d \in traffic :
             /\ (d.meant # Nothing /\ d.proto # PROTO_UDP) => Sends(d.family, d.meant.id)
             /\ Len(sent) + Len(Fragments(d)) <= MaxPackets
             /\ inFlight' = [i \in DOMAIN Fragments(d) |-> [datagram |-> d, part |-> Fragments(d)[i]]]
      BY <1>2 DEF Send
    <2>2. inFlight = <<>> /\ broken' = FALSE /\ UNCHANGED <<host, traffic, sent, ringOpen, stopping>>
      BY <1>2 DEF Send, fixedVars
    <2>3. d \in Datagrams
      BY <1>1 DEF Datagrams
    <2>4. inFlight' \in Seq(Packets) /\ Len(inFlight') = Len(Fragments(d))
      BY <2>1, <2>2, <2>3, FragmentsAre
    <2>5. Len(sent') + Len(inFlight') <= MaxPackets
      BY <2>1, <2>2, <2>4
    <2> QED
      BY <1>1, <2>2, <2>4, <2>5 DEF WireInv
  <1>3. CASE Arrive
    <2>1. /\ sent' \in Seq(Packets) /\ inFlight' \in Seq(Packets)
          /\ Len(sent') = Len(sent) + 1 /\ Len(inFlight') = Len(inFlight) - 1
      BY <1>3, ArriveSends
    <2>2. UNCHANGED <<host, traffic, broken, ringOpen, stopping>>
      BY <1>3 DEF Arrive, fixedVars
    <2>3. Len(sent') + Len(inFlight') <= MaxPackets
      BY <1>1, <2>1
    <2> QED
      BY <1>1, <2>1, <2>2, <2>3 DEF WireInv
  <1>4. CASE Lose
    <2>1. inFlight # <<>> /\ inFlight' = Tail(inFlight) /\ broken' = TRUE
          /\ UNCHANGED <<host, traffic, sent, ringOpen, stopping>>
      BY <1>4 DEF Lose, fixedVars
    <2>2. inFlight' \in Seq(Packets) /\ Len(inFlight') = Len(inFlight) - 1
      BY <1>1, <2>1
    <2>3. Len(sent') + Len(inFlight') <= MaxPackets
      BY <1>1, <2>1, <2>2
    <2> QED
      BY <1>1, <2>1, <2>2, <2>3 DEF WireInv
  <1>5. CASE RingSetUp
    <2>1. ringOpen' = host.ringWorks /\ UNCHANGED <<host, traffic, sent, inFlight, broken, stopping>>
      BY <1>5 DEF RingSetUp, fixedVars, wireVars
    <2>2. host.ringWorks \in BOOLEAN
      BY <1>1, RxPathAssumption DEF Host
    <2> QED
      BY <1>1, <2>1, <2>2 DEF WireInv
  <1>6. CASE Stop
    <2>1. stopping' = TRUE /\ UNCHANGED <<host, traffic, sent, inFlight, broken, ringOpen>>
      BY <1>6 DEF Stop, fixedVars, wireVars
    <2> QED
      BY <1>1, <2>1 DEF WireInv
  <1>7. CASE UNCHANGED wireStateVars
    BY <1>1, <1>7 DEF WireInv, wireStateVars
  <1> QED
    BY <1>2, <1>3, <1>4, <1>5, <1>6, <1>7, WireSteps

(* Only an arrival makes the list longer, and nothing else changes it. *)
LEMMA SentGrows ==
    ASSUME WireInv, [Next]_vars
    PROVE  /\ host' = host /\ Len(sent) \in Nat /\ Len(sent') \in Nat /\ Len(sent) <= Len(sent')
           /\ \A i \in 1 .. Len(sent) : sent'[i] = sent[i]
           /\ ~Arrive => sent' = sent
  <1>1. Len(sent) \in Nat
    BY DEF WireInv
  <1>2. CASE Arrive
    <2>1. host' = host
      BY <1>2 DEF Arrive, fixedVars
    <2>2. Len(sent') = Len(sent) + 1 /\ \A i \in 1 .. Len(sent) : sent'[i] = sent[i]
      BY <1>2, ArriveSends
    <2> QED
      BY <1>1, <1>2, <2>1, <2>2
  <1>3. CASE ~Arrive
    <2>1. host' = host /\ sent' = sent
      BY <1>3, WireSteps DEF Send, Lose, RingSetUp, Stop, wireStateVars, fixedVars, wireVars
    <2> QED
      BY <1>1, <2>1
  <1> QED
    BY <1>2, <1>3

--------------------------------------------------------------------------------
(* A thread runs only where startup started it: with a ring, none for IPv4. *)

LEMMA ThreadsDiffer ==
    /\ RingThread \notin Readers /\ V6Thread \notin Workers
    /\ Family(V6Thread) = "v6" /\ \A t \in Workers : Family(t) = "v4"
    /\ \A t \in Readers : t # V6Thread => t \in Workers
  <1>1. \A t \in Workers : t[1] = "v4"
    BY DEF Workers
  <1>2. V6Thread[1] = "v6" /\ RingThread[1] = "ring"
    BY DEF V6Thread, RingThread
  <1> QED
    BY <1>1, <1>2 DEF Readers, Family

LEMMA StartedAre ==
    ASSUME ThreadInv
    PROVE  /\ Started(RingThread) => RingChosen(host)
           /\ \A t \in Workers : Started(t) => ~RingChosen(host) /\ t \in WorkersOf(host)
  <1>1. \A t \in Threads : Started(t) => t \in StartThreads(host)
    BY DEF ThreadInv
  <1>2. WorkersOf(host) \subseteq Workers
    BY DEF WorkersOf
  <1>3. Started(RingThread) => RingChosen(host)
    BY <1>1, <1>2, ThreadsDiffer DEF StartThreads, Threads, Readers
  <1>4. ASSUME NEW t \in Workers, Started(t)
        PROVE  ~RingChosen(host) /\ t \in WorkersOf(host)
    <2>1. t \in StartThreads(host) /\ t # V6Thread /\ t # RingThread
      BY <1>1, <1>4, ThreadsDiffer DEF Threads, Readers
    <2>2. t \in WorkersOf(host)
      BY <2>1 DEF StartThreads
    <2> QED
      BY <2>2 DEF WorkersOf
  <1> QED
    BY <1>3, <1>4

LEMMA InitThreads == Init => ThreadInv
  <1> SUFFICES ASSUME Init PROVE ThreadInv
    OBVIOUS
  <1>1. /\ thread = [t \in Threads |-> IF t \in StartThreads(host) THEN "starting" ELSE "none"]
        /\ ringOpen = FALSE
    BY DEF Init
  <1> QED
    BY <1>1 DEF ThreadInv, Places, Started

(* A thread that was started was so before. *)
LEMMA ThreadSteps ==
    ASSUME ThreadInv, [Next]_vars
    PROVE  /\ thread' \in [Threads -> Places] /\ host' = host
           /\ \A t \in Threads : Started(t)' <=> Started(t)
           /\ ringOpen' => ringOpen \/ thread[RingThread] = "starting"
  <1>0. thread \in [Threads -> Places]
    BY DEF ThreadInv
  <1>1. CASE RingSetUp
    <2>1. /\ thread[RingThread] = "starting" /\ host' = host
          /\ \E s \in Places \ {"none"} : thread' = [thread EXCEPT ![RingThread] = s]
      BY <1>1 DEF RingSetUp, fixedVars, Places
    <2> QED
      BY <1>0, <2>1 DEF Started, Places
  <1>2. ASSUME NEW t \in Readers, TestRecvmmsg(t)
        PROVE  /\ thread' \in [Threads -> Places] /\ host' = host
               /\ \A u \in Threads : Started(u)' <=> Started(u)
               /\ ringOpen' => ringOpen
    <2>1. /\ thread[t] = "starting" /\ host' = host /\ ringOpen' = ringOpen
          /\ \E s \in Places \ {"none"} : thread' = [thread EXCEPT ![t] = s]
      BY <1>2 DEF TestRecvmmsg, fixedVars, Places
    <2> QED
      BY <1>0, <2>1 DEF Started, Places
  <1>3. ASSUME NEW t \in Threads, ThreadEnds(t)
        PROVE  /\ thread' \in [Threads -> Places] /\ host' = host
               /\ \A u \in Threads : Started(u)' <=> Started(u)
               /\ ringOpen' => ringOpen
    <2>1. /\ thread[t] # "none" /\ host' = host /\ ringOpen' = ringOpen
          /\ \E s \in Places \ {"none"} : thread' = [thread EXCEPT ![t] = s]
      BY <1>3 DEF ThreadEnds, fixedVars, Places
    <2> QED
      BY <1>0, <2>1 DEF Started, Places
  <1>4. CASE UNCHANGED <<thread, host, ringOpen>>
    BY <1>0, <1>4 DEF Started
  <1>5. CASE Send \/ Arrive \/ Lose \/ KernelGives \/ WalkRing \/ Stop
    BY <1>4, <1>5 DEF Send, Arrive, Lose, KernelGives, WalkRing, Stop, fixedVars
  <1>6. ASSUME NEW t \in Readers, ReceiveBatch(t) \/ ReceiveOne(t) \/ ProcessNext(t)
        PROVE  UNCHANGED <<thread, host, ringOpen>>
    BY <1>6 DEF ReceiveBatch, ReceiveOne, Takes, ProcessNext, fixedVars
  <1>7. CASE UNCHANGED vars
    BY <1>4, <1>7 DEF vars, fixedVars
  <1> QED
    BY <1>1, <1>2, <1>3, <1>4, <1>5, <1>6, <1>7 DEF Next, Reads

LEMMA NextThreads == ThreadInv /\ [Next]_vars => ThreadInv'
  <1> SUFFICES ASSUME ThreadInv, [Next]_vars PROVE ThreadInv'
    OBVIOUS
  <1>1. /\ thread' \in [Threads -> Places] /\ host' = host
        /\ \A t \in Threads : Started(t)' <=> Started(t)
        /\ ringOpen' => ringOpen \/ thread[RingThread] = "starting"
    BY ThreadSteps
  <1>2. /\ \A t \in Threads : Started(t) => t \in StartThreads(host)
        /\ ringOpen => Started(RingThread) 
    BY DEF ThreadInv
  <1>3. thread[RingThread] = "starting" => Started(RingThread)
    BY DEF Started
  <1>4. RingThread \in Threads
    BY DEF Threads
  <1>5. StartThreads(host') = StartThreads(host)
    BY <1>1
  <1>6. \A t \in Threads : Started(t)' => t \in StartThreads(host')
    BY <1>1, <1>2, <1>5
  <1>7. ringOpen' => Started(RingThread)'
    BY <1>1, <1>2, <1>3, <1>4
  <1> QED
    BY <1>1, <1>6, <1>7 DEF ThreadInv

--------------------------------------------------------------------------------
(* The ring, with the packets that have reached the host. *)

LEMMA ContentsNumbered ==
    ASSUME NEW top, NEW got, Numbered(top, got)
    PROVE  \A n \in RingContents : n \in 1 .. top
  BY DEF Numbered, RingContents, Unwalked

LEMMA SameRing ==
    ASSUME NEW top, NEW got, RingInv(top, got), UNCHANGED ringVars
    PROVE  RingInv(top, got)' /\ RingContents' = RingContents
  <1>1. /\ RingTypes /\ ReadersBlocks /\ EmptyAhead /\ WalkInside /\ Numbered(top, got) /\ InOrderInside
    BY DEF RingInv
  <1>2. UNCHANGED <<blocks, status, filling, current, walking, walked>>
    BY DEF ringVars, kernelVars, readerVars
  <1>3. RingTypes' /\ EmptyAhead' /\ WalkInside'
    BY <1>1, <1>2 DEF RingTypes, EmptyAhead, WalkInside
  <1>4. ReadersBlocks' /\ InOrderInside'
    BY <1>1, <1>2 DEF ReadersBlocks, InOrderInside, Rank
  <1>5. Numbered(top, got)' /\ RingContents' = RingContents
    BY <1>1, <1>2 DEF Numbered, RingContents, Unwalked
  <1> QED
    BY <1>3, <1>4, <1>5 DEF RingInv

LEMMA InitRingPath == Init => RingPath /\ RingContents = {}
  <1> SUFFICES ASSUME Init PROVE RingPath /\ RingContents = {}
    OBVIOUS
  <1>1. RingInit /\ sent = <<>> /\ ringGot = 0
    BY DEF Init
  <1>2. RingInv(0, 0) /\ RingContents = {}
    BY <1>1, InitRing
  <1>3. Len(sent) = 0
    BY <1>1
  <1> QED
    BY <1>1, <1>2, <1>3 DEF RingPath, RingPackets

(* What a step does to the ring: a packet arrives and gets in or is lost,  *)
(* the reader takes the oldest one, or neither.                            *)
RingArrive == Len(sent') = Len(sent) + 1 /\ ringGot' = ringGot
              /\ RingContents' \in {RingContents, RingContents \cup {Len(sent) + 1}}
RingTake ==
    /\ sent' = sent /\ ringGot' = PacketHere /\ ringGot' \in RingContents
    /\ \A n \in RingContents : ringGot' <= n
    /\ RingContents' = RingContents \ {ringGot'}
RingStays == sent' = sent /\ ringGot' = ringGot /\ RingContents' = RingContents

LEMMA RingStaysInv ==
    ASSUME NEW top \in Nat, top = Len(sent), RingPath, RingInv(top, ringGot)', RingStays
    PROVE  RingPath'
  <1>1. RingInv(Len(sent), ringGot)'
    BY DEF RingInv, Numbered, RingStays
  <1> QED
    BY <1>1 DEF RingPath, RingPackets, RingStays

LEMMA ArriveRing ==
    ASSUME WireInv, RingPath, Arrive
    PROVE  RingArrive /\ RingPath'
  <1> DEFINE p == Head(inFlight)
  <1>1. PICK top \in Nat : top = Len(sent)
    BY DEF WireInv
  <1>2. PICK got \in Nat : got = ringGot
    BY DEF RingPath
  <1>3. RingInv(top, got) /\ got <= top /\ \A n \in RingContents : PassesFilter(sent[n])
    BY <1>1, <1>2 DEF RingPath, RingPackets
  <1>4. /\ Len(sent') = top + 1 /\ sent'[top + 1] = p
        /\ \A i \in 1 .. top : sent'[i] = sent[i]
    BY <1>1, ArriveSends
  <1>5. ringGot' = got /\ UNCHANGED readerVars
    BY <1>2 DEF Arrive
  <1>6. \A n \in RingContents : n \in 1 .. top
    BY <1>3, ContentsNumbered DEF RingInv
  <1>7. CASE PassesFilter(p) /\ KernelPuts(Len(sent'))
    <2>1. KernelPuts(top + 1)
      BY <1>4, <1>7 DEF KernelPuts
    <2>2. RingInv(top + 1, got)' /\ RingContents' \in {RingContents, RingContents \cup {top + 1}}
      BY <1>3, <1>5, <2>1, PutsKeepsRing
    <2>3. RingInv(Len(sent), ringGot)'
      BY <1>4, <1>5, <2>2 DEF RingInv, Numbered
    <2>4. ASSUME NEW n \in RingContents'
          PROVE  PassesFilter(sent'[n])
      <3>1. CASE n \in RingContents
        BY <1>3, <1>4, <1>6, <3>1
      <3>2. CASE n = top + 1
        BY <1>4, <1>7, <3>2
      <3> QED
        BY <2>2, <3>1, <3>2
    <2>5. ringGot' \in 0 .. Len(sent')
      BY <1>3, <1>4, <1>5
    <2>6. RingPackets'
      BY <2>4 DEF RingPackets, PassesFilter
    <2> QED
      BY <1>1, <1>2, <1>4, <1>5, <2>2, <2>3, <2>5, <2>6 DEF RingPath, RingArrive
  <1>8. CASE UNCHANGED kernelVars
    <2>1. UNCHANGED ringVars
      BY <1>5, <1>8 DEF ringVars
    <2>2. RingInv(top, got)' /\ RingContents' = RingContents
      BY <1>3, <2>1, SameRing
    <2>3. RingInv(Len(sent), ringGot)'
      <3>1. Numbered(top, got)' => Numbered(Len(sent), ringGot)'
        BY <1>4, <1>5 DEF Numbered
      <3> QED
        BY <2>2, <3>1 DEF RingInv
    <2>4. \A n \in RingContents' : PassesFilter(sent'[n])
      BY <1>3, <1>4, <1>6, <2>2
    <2>5. ringGot' \in 0 .. Len(sent')
      BY <1>3, <1>4, <1>5
    <2>6. RingPackets'
      BY <2>4 DEF RingPackets, PassesFilter
    <2> QED
      BY <1>1, <1>2, <1>4, <1>5, <2>2, <2>3, <2>5, <2>6 DEF RingPath, RingArrive
  <1> QED
    BY <1>7, <1>8 DEF Arrive

LEMMA WalkRingRing ==
    ASSUME WireInv, RingPath, WalkRing
    PROVE  /\ \/ RingTake /\ PassesFilter(sent[ringGot']) /\ ringGot' \in 1 .. Len(sent)
                 /\ out' = out \o FromRing(ringGot')
              \/ RingStays /\ out' = out
           /\ RingPath'
  <1>1. PICK top \in Nat : top = Len(sent)
    BY DEF WireInv
  <1>2. PICK got \in Nat : got = ringGot
    BY DEF RingPath
  <1>3. RingInv(top, got) /\ got <= top /\ \A n \in RingContents : PassesFilter(sent[n])
    BY <1>1, <1>2 DEF RingPath, RingPackets
  <1>4. sent' = sent
    BY DEF WalkRing, wireVars
  <1>5. CASE (BlockReady \/ ReleaseBlock) /\ UNCHANGED <<ringGot, out>>
    <2>1. RingInv(top, got)' /\ RingContents' = RingContents
      BY <1>3, <1>5, ReadyKeepsRing, ReleaseKeepsRing
    <2>2. RingStays
      BY <1>4, <1>5, <2>1 DEF RingStays
    <2>3. RingInv(top, ringGot)'
      BY <1>2, <1>5, <2>1 DEF RingInv, Numbered
    <2> QED
      BY <1>1, <1>5, <2>2, <2>3, RingStaysInv
  <1>6. CASE AtPacket /\ WalkOn /\ ringGot' = PacketHere /\ out' = out \o FromRing(PacketHere)
    <2>1. PICK h : h = PacketHere
      OBVIOUS
    <2>2. /\ RingInv(top, h)' /\ h \in RingContents /\ \A n \in RingContents : h <= n
          /\ RingContents' = RingContents \ {h} /\ h \in 1 .. top
      BY <1>3, <1>6, <2>1, WalkKeepsRing
    <2>3. ringGot' = h /\ out' = out \o FromRing(h)
      BY <1>6, <2>1
    <2>4. RingTake
      BY <1>4, <2>1, <2>2, <2>3 DEF RingTake
    <2>5. RingInv(Len(sent), ringGot)'
      BY <1>1, <1>4, <2>2, <2>3 DEF RingInv, Numbered
    <2>6. RingPackets' /\ ringGot' \in 0 .. Len(sent')
      BY <1>1, <1>3, <1>4, <2>2, <2>3 DEF RingPackets, PassesFilter
    <2> QED
      BY <1>1, <1>3, <2>2, <2>3, <2>4, <2>5, <2>6 DEF RingPath
  <1> QED
    BY <1>5, <1>6 DEF WalkRing

LEMMA NextRing ==
    ASSUME WireInv, RingPath, [Next]_vars
    PROVE  /\ RingPath'
           /\ \/ Arrive /\ RingArrive
              \/ WalkRing /\ RingTake
              \/ ~Arrive /\ RingStays
  <1>1. CASE Arrive
    BY <1>1, ArriveRing
  <1>2. CASE WalkRing
    <2>1. sent' = sent
      BY <1>2 DEF WalkRing, wireVars
    <2>2. Len(sent) \in Nat
      BY DEF WireInv
    <2>3. ~RingArrive
      BY <2>1, <2>2 DEF RingArrive
    <2>4. ~Arrive
      BY <2>3, ArriveRing
    <2> QED
      BY <1>2, <2>4, WalkRingRing
  <1>3. PICK top \in Nat : top = Len(sent)
    BY DEF WireInv
  <1>4. PICK got \in Nat : got = ringGot
    BY DEF RingPath
  <1>5. RingInv(top, got)
    BY <1>3, <1>4 DEF RingPath
  <1>6. CASE ~Arrive /\ UNCHANGED <<sent, ringGot>> /\ (KernelRetires \/ UNCHANGED ringVars)
    <2>1. RingInv(top, got)' /\ RingContents' = RingContents
      BY <1>5, <1>6, SameRing, RetiresKeepsRing
    <2>2. RingInv(top, ringGot)'
      BY <1>4, <1>6, <2>1 DEF RingInv, Numbered
    <2> QED
      BY <1>3, <1>6, <2>1, <2>2, RingStaysInv DEF RingStays
  <1>7. ~Arrive => sent' = sent
    BY SentGrows
  <1>8. CASE ~Arrive /\ ~WalkRing
    <2>1. ASSUME Send \/ Lose \/ RingSetUp \/ Stop PROVE UNCHANGED <<ringGot, ringVars>>
      BY <2>1 DEF Send, Lose, RingSetUp, Stop
    <2>2. ASSUME KernelGives PROVE KernelRetires /\ UNCHANGED ringGot
      BY <2>2 DEF KernelGives
    <2>3. ASSUME NEW t \in Readers, Reads(t) PROVE UNCHANGED <<ringGot, ringVars>>
      BY <2>3 DEF Reads, TestRecvmmsg, ReceiveBatch, ReceiveOne, Takes, ProcessNext
    <2>4. ASSUME NEW t \in Threads, ThreadEnds(t) PROVE UNCHANGED <<ringGot, ringVars>>
      BY <2>4 DEF ThreadEnds
    <2>5. ASSUME UNCHANGED vars PROVE UNCHANGED <<ringGot, ringVars>>
      BY <2>5 DEF vars
    <2>6. UNCHANGED ringGot /\ (KernelRetires \/ UNCHANGED ringVars)
      BY <1>8, <2>1, <2>2, <2>3, <2>4, <2>5 DEF Next
    <2> QED
      BY <1>6, <1>7, <1>8, <2>6
  <1> QED
    BY <1>1, <1>2, <1>8

(* The ring's reader does not come back. *)
RingClosed == thread[RingThread] \notin {"starting", "batching"}

LEMMA RingCloses ==
    ASSUME ThreadInv, [Next]_vars
    PROVE  /\ RingClosed => RingClosed'
           /\ Arrive \/ WalkRing => thread' = thread
           /\ WalkRing => ~RingClosed
  <1>1. thread \in [Threads -> Places] /\ RingThread \in Threads /\ RingThread \notin Readers
    BY ThreadsDiffer DEF ThreadInv, Threads
  <1>2. ASSUME NEW t \in Readers, Reads(t) PROVE thread'[RingThread] = thread[RingThread]
    BY <1>1, <1>2 DEF Reads, TestRecvmmsg, ReceiveBatch, ReceiveOne, Takes, ProcessNext
  <1>3. ASSUME NEW t \in Threads, ThreadEnds(t), RingClosed PROVE RingClosed'
    <2>1. thread' = [thread EXCEPT ![t] = "ended"]
      BY <1>3 DEF ThreadEnds
    <2>2. thread'[RingThread] = "ended" \/ thread'[RingThread] = thread[RingThread]
      BY <1>1, <2>1
    <2>3. CASE thread'[RingThread] = "ended"
      BY <2>3 DEF RingClosed
    <2>4. CASE thread'[RingThread] = thread[RingThread]
      BY <1>3, <2>4 DEF RingClosed
    <2> QED
      BY <2>2, <2>3, <2>4, Zenon
  <1>4. ASSUME RingSetUp PROVE ~RingClosed
    BY <1>4 DEF RingSetUp, RingClosed
  <1>5. ASSUME Send \/ Arrive \/ Lose \/ KernelGives \/ WalkRing \/ Stop \/ UNCHANGED vars
        PROVE  RingClosed' <=> RingClosed
    BY <1>5 DEF Send, Arrive, Lose, KernelGives, WalkRing, Stop, vars, RingClosed
  <1>6. RingClosed => RingClosed'
    BY <1>2, <1>3, <1>4, <1>5 DEF Next, RingClosed
  <1>7. Arrive \/ WalkRing => thread' = thread
    BY DEF Arrive, WalkRing
  <1>8. WalkRing => ~RingClosed
    BY DEF WalkRing, RingClosed
  <1> QED
    BY <1>6, <1>7, <1>8

RefinementInv == WireInv /\ ThreadInv /\ RingPath

LEMMA InitChannel == Init => RefinementInv /\ Channel!Init
  <1> SUFFICES ASSUME Init PROVE RefinementInv /\ Channel!Init
    OBVIOUS
  <1>1. Len(sent) = 0 /\ ringGot = 0
    BY DEF Init
  <1>2. RingContents = {}
    BY InitRingPath
  <1> QED
    BY <1>1, <1>2, InitWire, InitThreads, InitRingPath DEF RefinementInv, Channel!Init

LEMMA NextChannel == RefinementInv /\ [Next]_vars => RefinementInv' /\ [Channel!Next]_(Channel!vars)
  <1> SUFFICES ASSUME RefinementInv, [Next]_vars
               PROVE  RefinementInv' /\ [Channel!Next]_(Channel!vars)
    OBVIOUS
  <1>1. WireInv /\ ThreadInv /\ RingPath
    BY DEF RefinementInv
  <1>2. RefinementInv'
    BY <1>1, NextWire, NextThreads, NextRing DEF RefinementInv
  <1>3. CASE Arrive /\ RingArrive
    <2>1. RingClosed' = RingClosed
      BY <1>1, <1>3, RingCloses DEF RingClosed
    <2>2. Channel!Arrive
      BY <1>3, <2>1 DEF RingArrive, RingClosed, Channel!Arrive
    <2> QED
      BY <1>2, <2>2 DEF Channel!Next
  <1>4. CASE WalkRing /\ RingTake
    <2>1. ~RingClosed /\ RingClosed' = RingClosed
      BY <1>1, <1>4, RingCloses DEF RingClosed
    <2>2. Channel!Take
      BY <1>4, <2>1 DEF RingTake, RingClosed, Channel!Take
    <2> QED
      BY <1>2, <2>2 DEF Channel!Next
  <1>5. CASE RingStays
    <2>1. RingClosed => RingClosed'
      BY <1>1, RingCloses
    <2>2. CASE RingClosed' = RingClosed
      <3>1. Len(sent') = Len(sent) /\ RingContents' = RingContents /\ ringGot' = ringGot
        BY <1>5 DEF RingStays
      <3>2. Channel!vars = <<Len(sent), RingContents, ringGot, RingClosed>>
        BY Zenon DEF Channel!vars, RingClosed
      <3>3. Channel!vars' = <<Len(sent'), RingContents', ringGot', RingClosed'>>
        BY Zenon DEF Channel!vars, RingClosed
      <3>4. Channel!vars' = Channel!vars
        BY <2>2, <3>1, <3>2, <3>3, Zenon
      <3> QED
        BY <1>2, <3>4
    <2>3. CASE ~RingClosed /\ RingClosed'
      <3>0. sent' = sent /\ RingContents' = RingContents /\ ringGot' = ringGot
        BY <1>5 DEF RingStays
      <3>1. Channel!Close
        BY <2>3, <3>0, Zenon DEF RingClosed, Channel!Close
      <3> QED
        BY <1>2, <3>1 DEF Channel!Next
    <2>4. RingClosed \in BOOLEAN /\ RingClosed' \in BOOLEAN
      BY DEF RingClosed
    <2>5. [Channel!Next]_(Channel!vars)
      BY <2>1, <2>2, <2>3, <2>4
    <2> QED
      BY <1>2, <2>5
  <1> QED
    BY <1>1, <1>3, <1>4, <1>5, NextRing

(* The ring is a lossy channel (RingIsFifo without its fairness): whatever *)
(* the sizes of the blocks and however the kernel and the reader take      *)
(* turns, a packet that got in is given to the reader once and in order    *)
(* (packet_mmap.rs:226).                                                   *)
THEOREM RingIsLossyChannel == Spec => Channel!Spec
  BY InitChannel, NextChannel, PTL DEF Spec, Channel!Spec

--------------------------------------------------------------------------------
(* Queues. *)

Within(u, s, m) ==
    /\ u \in Seq(Nat) /\ Len(u) <= Len(s)
    /\ \A i \in DOMAIN u : i + m \in DOMAIN s /\ u[i] = s[i + m]

LEMMA PartIsWithin ==
    ASSUME NEW s \in Seq(Nat), NEW m \in 0 .. Len(s), NEW k \in m .. Len(s), NEW u, u = SubSeq(s, m + 1, k)
    PROVE  Within(u, s, m) /\ Len(u) = k - m
  <1>1. Len(s) \in Nat /\ m \in Nat /\ k \in Nat /\ m <= k /\ k <= Len(s)
    BY LenProperties
  <1>2. \A i \in m + 1 .. k : s[i] \in Nat
    BY <1>1
  <1>3. /\ u \in Seq(Nat) /\ Len(u) = IF m + 1 <= k THEN k - (m + 1) + 1 ELSE 0
        /\ \A i \in 1 .. k - (m + 1) + 1 : u[i] = s[m + 1 + i - 1]
    BY <1>1, <1>2, SubSeqProperties
  <1>4. Len(u) = k - m /\ \A i \in 1 .. k - m : u[i] = s[i + m]
    <2>1. Len(u) = k - m
      BY <1>1, <1>3
    <2>2. ASSUME NEW i \in 1 .. k - m PROVE u[i] = s[i + m]
      <3>1. i \in 1 .. k - (m + 1) + 1 /\ m + 1 + i - 1 = i + m
        BY <1>1
      <3> QED
        BY <1>3, <3>1
    <2> QED
      BY <2>1, <2>2
  <1>5. DOMAIN u = 1 .. k - m /\ DOMAIN s = 1 .. Len(s)
    BY <1>3, <1>4
  <1>6. \A i \in DOMAIN u : i + m \in DOMAIN s /\ u[i] = s[i + m]
    <2> SUFFICES ASSUME NEW i \in 1 .. k - m PROVE i + m \in DOMAIN s /\ u[i] = s[i + m]
      BY <1>5
    <2>1. i + m \in 1 .. Len(s)
      BY <1>1
    <2> QED
      BY <1>4, <1>5, <2>1
  <1>7. Len(u) <= Len(s)
    BY <1>1, <1>4
  <1> QED
    BY <1>3, <1>4, <1>6, <1>7 DEF Within

LEMMA TailIsWithin ==
    ASSUME NEW s \in Seq(Nat), s # <<>>, NEW u, u = Tail(s)
    PROVE  /\ Within(u, s, 1) /\ Head(s) = s[1] /\ 1 \in DOMAIN s /\ Head(s) \in Nat
           /\ \A i \in DOMAIN s : i # 1 => 1 < i
  <1>1. Len(s) \in Nat /\ Len(s) >= 1 /\ DOMAIN s = 1 .. Len(s)
    BY EmptySeq, LenProperties
  <1>2. u = SubSeq(s, 1 + 1, Len(s))
    BY TailIsSubSeq
  <1>3. 1 \in 0 .. Len(s) /\ Len(s) \in 1 .. Len(s)
    BY <1>1
  <1>4. Within(u, s, 1)
    BY <1>2, <1>3, PartIsWithin
  <1>5. Head(s) = s[1] /\ Head(s) \in Nat
    BY <1>1
  <1> QED
    BY <1>1, <1>4, <1>5

LEMMA PartOfQueue ==
    ASSUME NEW s, NEW f, NEW packets, NEW cap \in Nat, Queue(s, f, packets, cap),
           NEW u, NEW m \in Nat, Within(u, s, m)
    PROVE  Queue(u, f, packets, cap)
  <1>1. s \in Seq(Nat) /\ Len(s) <= cap /\ Rising(s) /\ RawNumbers(s, f, packets)
    BY DEF Queue
  <1>2. u \in Seq(Nat) /\ Len(u) <= Len(s) /\ \A i \in DOMAIN u : i + m \in DOMAIN s /\ u[i] = s[i + m]
    BY DEF Within
  <1>3. Len(u) <= cap
    <2>1. Len(u) \in Nat /\ Len(s) \in Nat
      BY <1>1, <1>2
    <2> QED
      BY <1>1, <1>2, <2>1
  <1>4. Rising(u)
    <2> SUFFICES ASSUME NEW i \in DOMAIN u, NEW j \in DOMAIN u, i < j PROVE u[i] < u[j]
      BY DEF Rising
    <2>1. i \in Nat /\ j \in Nat
      BY <1>2
    <2>2. i + m < j + m
      BY <2>1
    <2>3. s[i + m] < s[j + m]
      BY <1>1, <1>2, <2>2 DEF Rising
    <2> QED
      BY <1>2, <2>3
  <1>5. RawNumbers(u, f, packets)
    BY <1>1, <1>2 DEF RawNumbers
  <1> QED
    BY <1>2, <1>3, <1>4, <1>5 DEF Queue

LEMMA PartOfBoth ==
    ASSUME NEW s, NEW b, Below(b, s), NEW u, NEW m \in Nat
    PROVE  /\ Within(u, s, m) => Below(b, u)
           /\ Within(u, b, m) => Below(u, s)
  BY DEF Below, Within

LEMMA PartIsApart ==
    ASSUME NEW s, NEW b, Apart(s, b), NEW u, NEW m \in Nat, Within(u, s, m)
    PROVE  Apart(u, b) /\ Apart(b, u)
  BY DEF Apart, Within

(* More packets come, and none goes. *)
Grown(packets, more) ==
    /\ Len(packets) \in Nat /\ Len(more) \in Nat /\ Len(packets) <= Len(more)
    /\ \A i \in 1 .. Len(packets) : more[i] = packets[i]

LEMMA QueueGrown ==
    ASSUME NEW s, NEW f, NEW packets, NEW more, NEW cap, Queue(s, f, packets, cap), Grown(packets, more)
    PROVE  Queue(s, f, more, cap)
  <1>1. RawNumbers(s, f, packets)
    BY DEF Queue
  <1>2. RawNumbers(s, f, more)
    BY <1>1 DEF RawNumbers, Grown
  <1> QED
    BY <1>2 DEF Queue

Longer(u, s, f, more, cap, top) ==
    /\ Queue(u, f, more, cap)
    /\ \A b : (\A i \in DOMAIN b : b[i] \in 1 .. top) /\ Below(b, s) => Below(b, u)

LEMMA QueueAppends ==
    ASSUME NEW s, NEW f, NEW packets, NEW more, NEW cap \in Nat, NEW top \in Nat,
           Queue(s, f, packets, cap), Grown(packets, more), Len(packets) = top, Len(more) = top + 1,
           ForRaw(more[top + 1], f), Len(s) < cap,
           NEW u, u = Append(s, top + 1)
    PROVE  Longer(u, s, f, more, cap, top)
  <1>1. s \in Seq(Nat) /\ Rising(s) /\ RawNumbers(s, f, more) /\ \A i \in DOMAIN s : s[i] \in 1 .. top
    BY QueueGrown DEF Queue, RawNumbers
  <1>2. /\ u \in Seq(Nat) /\ Len(u) = Len(s) + 1 /\ Len(s) \in Nat /\ u[Len(s) + 1] = top + 1
        /\ \A i \in 1 .. Len(s) : u[i] = s[i]
    BY <1>1, AppendProperties
  <1>3. DOMAIN u = 1 .. Len(s) + 1 /\ DOMAIN s = 1 .. Len(s)
    BY <1>1, <1>2
  <1>4. Len(u) <= cap
    BY <1>2
  <1>5. Rising(u)
    <2> SUFFICES ASSUME NEW i \in 1 .. Len(s) + 1, NEW j \in 1 .. Len(s) + 1, i < j PROVE u[i] < u[j]
      BY <1>3 DEF Rising
    <2>1. i \in 1 .. Len(s)
      BY <1>2
    <2>2. CASE j \in 1 .. Len(s)
      <3>1. s[i] < s[j]
        BY <1>1, <1>3, <2>1, <2>2 DEF Rising
      <3>2. u[i] = s[i] /\ u[j] = s[j]
        BY <1>2, <2>1, <2>2
      <3> QED
        BY <3>1, <3>2
    <2>3. CASE j = Len(s) + 1
      <3>1. u[i] = s[i] /\ u[j] = top + 1
        BY <1>2, <2>1, <2>3
      <3>2. s[i] \in 1 .. top
        BY <1>1, <1>3, <2>1
      <3> QED
        BY <3>1, <3>2
    <2>4. Len(s) \in Nat
      BY <1>2
    <2>5. j \in 1 .. Len(s) \/ j = Len(s) + 1
      BY <2>4
    <2> QED
      BY <2>2, <2>3, <2>5
  <1>6. RawNumbers(u, f, more)
    <2> SUFFICES ASSUME NEW i \in 1 .. Len(s) + 1 PROVE u[i] \in 1 .. Len(more) /\ ForRaw(more[u[i]], f)
      BY <1>3 DEF RawNumbers
    <2>1. CASE i \in 1 .. Len(s)
      BY <1>1, <1>2, <1>3, <2>1 DEF RawNumbers
    <2>2. CASE i = Len(s) + 1
      BY <1>2, <2>2
    <2> QED
      BY <1>2, <2>1, <2>2
  <1>7. ASSUME NEW b, \A i \in DOMAIN b : b[i] \in 1 .. top, Below(b, s)
        PROVE  Below(b, u)
    <2> SUFFICES ASSUME NEW i \in DOMAIN b, NEW j \in 1 .. Len(s) + 1 PROVE b[i] < u[j]
      BY <1>3 DEF Below
    <2>1. CASE j \in 1 .. Len(s)
      BY <1>2, <1>3, <1>7, <2>1 DEF Below
    <2>2. CASE j = Len(s) + 1
      <3>1. b[i] \in 1 .. top
        BY <1>7
      <3> QED
        BY <1>2, <2>2, <3>1
    <2> QED
      BY <1>2, <2>1, <2>2
  <1> QED
    BY <1>2, <1>4, <1>5, <1>6, <1>7 DEF Queue, Longer

(* A thread takes the first ones. *)
Split(s, f, packets, cap, most, k, u, v) ==
    /\ Queue(u, f, packets, most) /\ Queue(v, f, packets, cap) /\ Below(u, v)
    /\ Within(u, s, 0) /\ Within(v, s, k)

LEMMA TakenFirst ==
    ASSUME NEW s, NEW f, NEW packets, NEW cap \in Nat, Queue(s, f, packets, cap),
           NEW k \in 1 .. Len(s), NEW most \in Nat, k <= most,
           NEW u, u = SubSeq(s, 1, k), NEW v, v = SubSeq(s, k + 1, Len(s))
    PROVE  Split(s, f, packets, cap, most, k, u, v)
  <1>1. s \in Seq(Nat) /\ Len(s) \in Nat /\ Rising(s)
    BY DEF Queue
  <1>2. 0 \in 0 .. Len(s) /\ k \in 0 .. Len(s) /\ Len(s) \in k .. Len(s) /\ 0 + 1 = 1 /\ k - 0 = k
    BY <1>1
  <1>3. Within(u, s, 0) /\ Len(u) = k
    BY <1>1, <1>2, PartIsWithin
  <1>4. Within(v, s, k)
    BY <1>1, <1>2, PartIsWithin
  <1>5. Queue(u, f, packets, cap) /\ Queue(v, f, packets, cap)
    BY <1>3, <1>4, PartOfQueue
  <1>6. Queue(u, f, packets, most)
    BY <1>3, <1>5 DEF Queue
  <1>7. Below(u, v)
    <2> SUFFICES ASSUME NEW i \in DOMAIN u, NEW j \in DOMAIN v PROVE u[i] < v[j]
      BY DEF Below
    <2>0. /\ u \in Seq(Nat) /\ v \in Seq(Nat)
          /\ \A x \in DOMAIN u : x + 0 \in DOMAIN s /\ u[x] = s[x + 0]
          /\ \A x \in DOMAIN v : x + k \in DOMAIN s /\ v[x] = s[x + k]
      BY <1>3, <1>4 DEF Within
    <2>1. i \in 1 .. k /\ j \in Nat /\ j >= 1
      <3>1. DOMAIN u = 1 .. k /\ DOMAIN v = 1 .. Len(v)
        BY <1>3, <2>0, LenProperties
      <3>2. v \in Seq(Nat)
        BY <2>0
      <3>3. Len(v) \in Nat
        BY <3>2
      <3> QED
        BY <3>1, <3>3
    <2>2. i + 0 < j + k
      BY <2>1
    <2> QED
      BY <1>1, <2>0, <2>2 DEF Rising
  <1> QED
    BY <1>3, <1>4, <1>5, <1>6, <1>7 DEF Split

(* Numbers for different families differ. *)
LEMMA FamiliesApart ==
    ASSUME NEW s, NEW f, NEW c, NEW u, NEW g, NEW d, NEW packets,
           Queue(s, f, packets, c), Queue(u, g, packets, d), f # g
    PROVE  Apart(s, u)
  BY DEF Queue, RawNumbers, ForRaw, Apart

--------------------------------------------------------------------------------
(* What waits to be read and what was read. *)

LEMMA Bounds == Batch \in Nat /\ SockCap \in Nat /\ MaxPackets \in Nat /\ 1 <= Batch
  BY RxPathAssumption

LEMMA EmptyQueue ==
    ASSUME NEW f, NEW packets, NEW cap \in Nat
    PROVE  /\ Queue(<<>>, f, packets, cap) /\ \A s : Below(<<>>, s) /\ Apart(<<>>, s) /\ Apart(s, <<>>)
           /\ DOMAIN <<>> = {}
  <1>1. <<>> \in Seq(Nat) /\ Len(<<>>) = 0 /\ DOMAIN <<>> = {}
    OBVIOUS
  <1> QED
    BY <1>1 DEF Queue, Rising, RawNumbers, Below, Apart

LEMMA FamilyOfReader ==
    ASSUME NEW t \in Readers
    PROVE  Family(t) \in Families /\ t \in Threads
  BY ThreadsDiffer DEF Families, Readers, Threads

LEMMA InitQueues == Init => QueueInv
  <1> SUFFICES ASSUME Init PROVE QueueInv
    OBVIOUS
  <1>1. sock = [f \in Families |-> <<>>] /\ batch = [t \in Readers |-> <<>>]
    BY DEF Init, Families
  <1>2. /\ \A f \in Families : sock[f] = <<>>
        /\ \A t \in Readers : batch[t] = <<>> /\ Family(t) \in Families
    BY <1>1, FamilyOfReader
  <1>3. sock \in [Families -> Seq(Nat)] /\ batch \in [Readers -> Seq(Nat)]
    BY <1>1
  <1>4. \A f \in Families : Queue(sock[f], f, sent, SockCap)
    BY <1>2, EmptyQueue, Bounds
  <1>5. \A t \in Readers : Queue(batch[t], Family(t), sent, Batch) /\ Below(batch[t], sock[Family(t)])
    BY <1>2, EmptyQueue, Bounds
  <1>6. \A t, u \in Readers : Apart(batch[t], batch[u])
    BY <1>2, EmptyQueue, Bounds
  <1> QED
    BY <1>2, <1>3, <1>4, <1>5, <1>6 DEF QueueInv

LEMMA NextGrown ==
    ASSUME WireInv, [Next]_vars
    PROVE  Grown(sent, sent')
  BY SentGrows DEF Grown

(* Of a queue a part is left, and nothing else changes. *)
LEMMA SockParts ==
    ASSUME QueueInv, UNCHANGED <<sent, batch>>, \A t \in Readers : Started(t)' <=> Started(t),
           NEW g \in Families, NEW v, NEW m \in Nat, Within(v, sock[g], m),
           sock' = [sock EXCEPT ![g] = v]
    PROVE  QueueInv'
  <1>1. sock \in [Families -> Seq(Nat)] /\ v \in Seq(Nat)
    BY DEF QueueInv, Within
  <1>2. sock' \in [Families -> Seq(Nat)] /\ sock'[g] = v /\ \A f \in Families : f # g => sock'[f] = sock[f]
    BY <1>1
  <1>3. ASSUME NEW f \in Families PROVE Queue(sock'[f], f, sent', SockCap)
    <2>1. Queue(sock[f], f, sent, SockCap)
      BY DEF QueueInv
    <2>2. CASE f = g
      BY <1>2, <2>1, <2>2, PartOfQueue, Bounds
    <2> QED
      BY <1>2, <2>1, <2>2
  <1>4. ASSUME NEW t \in Readers
        PROVE  /\ Queue(batch'[t], Family(t), sent', Batch) /\ Below(batch'[t], sock'[Family(t)])
               /\ ~Started(t)' => batch'[t] = <<>>
    <2>1. Below(batch[t], sock[Family(t)]) /\ Queue(batch[t], Family(t), sent, Batch)
          /\ (~Started(t) => batch[t] = <<>>)
      BY DEF QueueInv
    <2>2. Below(batch[t], sock'[Family(t)])
      <3>1. CASE Family(t) = g
        BY <1>2, <2>1, <3>1, PartOfBoth
      <3> QED
        BY <1>2, <2>1, <3>1, FamilyOfReader
    <2> QED
      BY <2>1, <2>2
  <1> QED
    BY <1>2, <1>3, <1>4 DEF QueueInv

LEMMA TakesQueues ==
    ASSUME QueueInv, NEW t \in Readers, NEW k, Takes(t, k), k <= Batch, thread[t] # "none"
    PROVE  /\ QueueInv'
           /\ \E u, v \in Seq(Nat) :
                 /\ Within(u, sock[Family(t)], 0) /\ Within(v, sock[Family(t)], k)
                 /\ batch' = [batch EXCEPT ![t] = u] /\ sock' = [sock EXCEPT ![Family(t)] = v]
  <1> DEFINE g == Family(t)
             s == sock[Family(t)]
  <1>1. g \in Families /\ t \in Threads
    BY FamilyOfReader
  <1>2. Queue(s, g, sent, SockCap)
    BY <1>1 DEF QueueInv
  <1>3. /\ k \in 1 .. Len(s) /\ batch[t] = <<>>
        /\ batch' = [batch EXCEPT ![t] = SubSeq(s, 1, k)]
        /\ sock' = [sock EXCEPT ![g] = SubSeq(s, k + 1, Len(s))]
        /\ UNCHANGED <<sent, thread>>
    BY <1>1 DEF Takes, wireVars, QueueInv
  <1>4. PICK u : u = SubSeq(s, 1, k)
    OBVIOUS
  <1>5. PICK v : v = SubSeq(s, k + 1, Len(s))
    OBVIOUS
  <1>6. /\ Queue(u, g, sent, Batch) /\ Queue(v, g, sent, SockCap) /\ Below(u, v)
        /\ Within(u, s, 0) /\ Within(v, s, k) /\ k \in Nat
    <2> HIDE DEF s, g
    <2>1. k \in 1 .. Len(s) /\ k \in Nat
      BY <1>3
    <2>2. SockCap \in Nat /\ Batch \in Nat /\ k <= Batch
      BY Bounds
    <2>3. Split(s, g, sent, SockCap, Batch, k, u, v)
      BY <1>2, <1>4, <1>5, <2>1, <2>2, TakenFirst, Zenon
    <2> QED
      BY <2>1, <2>3 DEF Split
  <1>7. batch' = [batch EXCEPT ![t] = u] /\ sock' = [sock EXCEPT ![g] = v] /\ u \in Seq(Nat) /\ v \in Seq(Nat)
    BY <1>3, <1>4, <1>5, <1>6 DEF Within
  <1> HIDE DEF g
  <1>8. /\ sock' \in [Families -> Seq(Nat)] /\ batch' \in [Readers -> Seq(Nat)]
        /\ sock'[g] = v /\ \A f \in Families : f # g => sock'[f] = sock[f]
        /\ batch'[t] = u /\ \A r \in Readers : r # t => batch'[r] = batch[r]
    BY <1>1, <1>7 DEF QueueInv
  <1>9. \A f \in Families : Queue(sock'[f], f, sent', SockCap)
    <2> TAKE f \in Families
    <2>1. Queue(sock[f], f, sent, SockCap)
      BY DEF QueueInv
    <2> QED
      BY <1>3, <1>6, <1>8, <2>1
  <1>10. \A r \in Readers : /\ Queue(batch'[r], Family(r), sent', Batch)
                            /\ Below(batch'[r], sock'[Family(r)])
                            /\ ~Started(r)' => batch'[r] = <<>>
    <2> TAKE r \in Readers
    <2>1. /\ Queue(batch[r], Family(r), sent, Batch) /\ Below(batch[r], sock[Family(r)])
          /\ ~Started(r) => batch[r] = <<>>
      BY DEF QueueInv
    <2>2. Started(r)' <=> Started(r)
      BY <1>3 DEF Started
    <2>3. CASE r = t
      <3>1. Started(r)
        BY <2>3 DEF Started
      <3> QED
        BY <1>3, <1>6, <1>8, <2>2, <2>3, <3>1 DEF g
    <2>4. CASE r # t
      <3>1. Below(batch[r], sock'[Family(r)])
        <4>1. CASE Family(r) = g
          BY <1>3, <1>6, <1>8, <2>1, <4>1, PartOfBoth DEF g
        <4> QED
          BY <1>8, <2>1, <4>1, FamilyOfReader
      <3> QED
        BY <1>3, <1>8, <2>1, <2>2, <2>4, <3>1
    <2> QED
      BY <2>3, <2>4
  <1>11. \A r, q \in Readers : r # q => Apart(batch'[r], batch'[q])
    <2>1. ASSUME NEW r \in Readers, r # t
          PROVE  Apart(u, batch[r]) /\ Apart(batch[r], u)
      <3>1. Queue(batch[r], Family(r), sent, Batch) /\ Below(batch[r], sock[Family(r)])
        BY DEF QueueInv
      <3>2. CASE Family(r) = g
        <4>1. Below(batch[r], u)
          BY <1>6, <3>1, <3>2, PartOfBoth DEF g
        <4>2. u \in Seq(Nat) /\ batch[r] \in Seq(Nat)
          BY <1>7, <3>1 DEF Queue
        <4>3. \A i \in DOMAIN u : u[i] \in Nat
          BY <4>2
        <4> QED
          BY <4>1, <4>3 DEF Below, Apart
      <3>3. CASE Family(r) # g
        BY <1>6, <3>1, <3>3, FamiliesApart
      <3> QED
        BY <3>2, <3>3
    <2>2. \A r, q \in Readers : r # q => Apart(batch[r], batch[q])
      BY DEF QueueInv
    <2> QED
      BY <1>8, <2>1, <2>2
  <1>12. QueueInv'
    BY <1>8, <1>9, <1>10, <1>11 DEF QueueInv
  <1> QED
    BY <1>6, <1>7, <1>12 DEF g

SockGrows(top) ==
    \/ sock' = sock
    \/ \E f \in Families : sock' = [sock EXCEPT ![f] = Append(sock[f], top + 1)]

LEMMA ArriveQueues ==
    ASSUME WireInv, QueueInv, Arrive, NEW top \in Nat, top = Len(sent)
    PROVE  QueueInv' /\ batch' = batch /\ SockGrows(top)
  <1> DEFINE p == Head(inFlight)
             g == p.datagram.family
  <1>1. /\ Len(sent') = top + 1 /\ sent'[top + 1] = p /\ p \in Packets
        /\ \A i \in 1 .. top : sent'[i] = sent[i]
    BY ArriveSends
  <1>2. /\ sock' = IF ToRaw(p) /\ Len(sock[g]) < SockCap
                   THEN [sock EXCEPT ![g] = Append(@, top + 1)] ELSE sock
        /\ UNCHANGED <<batch, thread>>
    BY <1>1 DEF Arrive
  <1>3. Grown(sent, sent')
    BY <1>1 DEF Grown
  <1>4. \A t \in Readers : Started(t)' <=> Started(t)
    BY <1>2 DEF Started
  <1> HIDE DEF p
  <1>5. \A t \in Readers : /\ Queue(batch'[t], Family(t), sent', Batch)
                           /\ ~Started(t)' => batch'[t] = <<>>
    <2> TAKE t \in Readers
    <2>1. Queue(batch[t], Family(t), sent, Batch) /\ (~Started(t) => batch[t] = <<>>)
      BY DEF QueueInv
    <2>2. Queue(batch[t], Family(t), sent', Batch)
      BY <1>3, <2>1, QueueGrown
    <2> QED
      BY <1>2, <1>4, <2>1, <2>2
  <1>6. \A f \in Families : Queue(sock[f], f, sent, SockCap) /\ Queue(sock[f], f, sent', SockCap)
    <2> TAKE f \in Families
    <2>1. Queue(sock[f], f, sent, SockCap)
      BY DEF QueueInv
    <2> QED
      BY <1>3, <2>1, QueueGrown
  <1>7. CASE sock' = sock
    <2>1. \A t \in Readers : Below(batch'[t], sock'[Family(t)])
      BY <1>2, <1>7 DEF QueueInv
    <2>2. /\ sock' \in [Families -> Seq(Nat)] /\ batch' \in [Readers -> Seq(Nat)]
          /\ \A t, u \in Readers : t # u => Apart(batch'[t], batch'[u])
      BY <1>2, <1>7 DEF QueueInv
    <2> QED
      BY <1>2, <1>5, <1>6, <1>7, <2>1, <2>2 DEF QueueInv, SockGrows
  <1>8. CASE sock' # sock
    <2>1. ToRaw(p) /\ Len(sock[g]) < SockCap /\ sock' = [sock EXCEPT ![g] = Append(sock[g], top + 1)]
      BY <1>2, <1>8
    <2>2. g \in Families /\ ForRaw(p, g)
      BY <2>1 DEF ToRaw, ForRaw, Families
    <2> HIDE DEF g
    <2>3. PICK u : u = Append(sock[g], top + 1)
      OBVIOUS
    <2>4. PICK s : s = sock[g]
      OBVIOUS
    <2>5. /\ Queue(s, g, sent, SockCap) /\ Len(s) < SockCap /\ ForRaw(sent'[top + 1], g)
          /\ u = Append(s, top + 1)
      BY <1>1, <1>6, <2>1, <2>2, <2>3, <2>4
    <2>6. /\ Queue(u, g, sent', SockCap)
          /\ \A b : (\A i \in DOMAIN b : b[i] \in 1 .. top) /\ Below(b, s) => Below(b, u)
      <3>1. /\ Len(sent) = top /\ Len(sent') = top + 1 /\ SockCap \in Nat
        BY <1>1, Bounds
      <3>2. Longer(u, s, g, sent', SockCap, top)
        BY <1>3, <2>5, <3>1, QueueAppends
      <3> QED
        BY <3>2 DEF Longer
    <2>7. /\ sock \in [Families -> Seq(Nat)] /\ batch \in [Readers -> Seq(Nat)]
          /\ \A t, q \in Readers : t # q => Apart(batch[t], batch[q])
          /\ \A t \in Readers : Below(batch[t], sock[Family(t)]) /\ Queue(batch[t], Family(t), sent, Batch)
      BY DEF QueueInv
    <2>8. /\ sock' \in [Families -> Seq(Nat)] /\ sock'[g] = u
          /\ \A f \in Families : f # g => sock'[f] = sock[f]
      BY <2>1, <2>2, <2>3, <2>6, <2>7 DEF Queue
    <2>9. \A f \in Families : Queue(sock'[f], f, sent', SockCap)
      BY <1>6, <2>6, <2>8
    <2>10. ASSUME NEW t \in Readers PROVE Below(batch'[t], sock'[Family(t)])
      <3>1. \A i \in DOMAIN batch[t] : batch[t][i] \in 1 .. top
        BY <2>7 DEF Queue, RawNumbers
      <3>2. CASE Family(t) = g
        BY <1>2, <2>4, <2>6, <2>7, <2>8, <3>1, <3>2
      <3>3. CASE Family(t) # g
        BY <1>2, <2>7, <2>8, <3>3, FamilyOfReader
      <3> QED
        BY <3>2, <3>3
    <2>11. QueueInv'
      BY <1>2, <1>5, <2>7, <2>8, <2>9, <2>10 DEF QueueInv
    <2> QED
      BY <1>2, <2>1, <2>2, <2>11 DEF SockGrows
  <1> QED
    BY <1>7, <1>8

LEMMA ProcessQueues ==
    ASSUME QueueInv, NEW t \in Readers, ProcessNext(t), NEW n, n = Head(batch[t])
    PROVE  /\ QueueInv'
           /\ n \in 1 .. Len(sent) /\ ForRaw(sent[n], Family(t)) /\ Started(t)
           /\ out' = out \o FromRaw(n) /\ UNCHANGED <<sock, sent, thread, ringGot>>
           /\ \A j \in DOMAIN sock[Family(t)] : n < sock[Family(t)][j]
           /\ 1 \in DOMAIN batch[t] /\ n = batch[t][1]
           /\ \A j \in DOMAIN batch'[t] : n < batch'[t][j]
           /\ Within(batch'[t], batch[t], 1)
           /\ \A u \in Readers : u # t => batch'[u] = batch[u]
  <1>1. /\ batch[t] # <<>> /\ batch' = [batch EXCEPT ![t] = Tail(batch[t])]
        /\ out' = out \o FromRaw(n) /\ UNCHANGED <<sock, sent, thread, ringGot>>
    BY DEF ProcessNext, wireVars, QueueInv
  <1>2. /\ batch \in [Readers -> Seq(Nat)] /\ batch[t] \in Seq(Nat) /\ sock \in [Families -> Seq(Nat)]
        /\ Queue(batch[t], Family(t), sent, Batch) /\ Below(batch[t], sock[Family(t)])
        /\ ~Started(t) => batch[t] = <<>>
    BY DEF QueueInv
  <1>3. PICK s : s = batch[t]
    OBVIOUS
  <1>4. PICK u : u = Tail(s)
    OBVIOUS
  <1>5. /\ Within(u, s, 1) /\ n = s[1] /\ 1 \in DOMAIN s
        /\ \A i \in DOMAIN s : i # 1 => 1 < i
    BY <1>1, <1>2, <1>3, <1>4, TailIsWithin
  <1>6. Queue(u, Family(t), sent, Batch) /\ Below(u, sock[Family(t)])
    BY <1>2, <1>3, <1>5, PartOfQueue, PartOfBoth, Bounds
  <1>7. /\ batch' \in [Readers -> Seq(Nat)] /\ batch'[t] = u
        /\ \A r \in Readers : r # t => batch'[r] = batch[r]
    BY <1>1, <1>2, <1>3, <1>4, <1>6 DEF Queue
  <1>8. /\ n \in 1 .. Len(sent) /\ ForRaw(sent[n], Family(t))
        /\ \A j \in DOMAIN sock[Family(t)] : n < sock[Family(t)][j]
    BY <1>2, <1>3, <1>5 DEF Queue, RawNumbers, Below
  <1>9. \A j \in DOMAIN u : n < u[j]
    <2> TAKE j \in DOMAIN u
    <2>1. j + 1 \in DOMAIN s /\ u[j] = s[j + 1] /\ j \in Nat /\ j >= 1
      <3>1. u \in Seq(Nat) /\ j + 1 \in DOMAIN s /\ u[j] = s[j + 1]
        BY <1>5 DEF Within
      <3>2. DOMAIN u = 1 .. Len(u) /\ Len(u) \in Nat
        BY <3>1
      <3> QED
        BY <3>1, <3>2
    <2>2. 1 < j + 1
      BY <2>1
    <2>3. Rising(s)
      BY <1>2, <1>3 DEF Queue
    <2> QED
      BY <1>5, <2>1, <2>2, <2>3 DEF Rising
  <1>10. \A r, q \in Readers : r # q => Apart(batch'[r], batch'[q])
    <2>1. \A r, q \in Readers : r # q => Apart(batch[r], batch[q])
      BY DEF QueueInv
    <2>2. \A r \in Readers : r # t => Apart(u, batch[r]) /\ Apart(batch[r], u)
      BY <1>3, <1>5, <2>1, PartIsApart
    <2> QED
      BY <1>7, <2>1, <2>2
  <1>11. Started(t) /\ \A r \in Readers : Started(r)' <=> Started(r)
    BY <1>1, <1>2 DEF Started
  <1>12. QueueInv'
    <2>1. \A r \in Readers : /\ Queue(batch'[r], Family(r), sent', Batch)
                             /\ Below(batch'[r], sock'[Family(r)])
                             /\ ~Started(r)' => batch'[r] = <<>>
      <3> TAKE r \in Readers
      <3>1. /\ Queue(batch[r], Family(r), sent, Batch) /\ Below(batch[r], sock[Family(r)])
            /\ ~Started(r) => batch[r] = <<>>
        BY DEF QueueInv
      <3> QED
        BY <1>1, <1>6, <1>7, <1>11, <3>1
    <2>2. sock' \in [Families -> Seq(Nat)] /\ \A f \in Families : Queue(sock'[f], f, sent', SockCap)
      BY <1>1 DEF QueueInv
    <2> QED
      BY <1>7, <1>10, <2>1, <2>2 DEF QueueInv
  <1> QED
    BY <1>1, <1>3, <1>5, <1>7, <1>8, <1>9, <1>11, <1>12

--------------------------------------------------------------------------------
(* The frames handed over, and one more. *)

Extends(v, o, x, k) ==
    /\ v \in Seq(Frames) /\ DOMAIN v = DOMAIN o \cup {k} /\ v[k] = x
    /\ \A i \in DOMAIN o : i < k /\ ~(k < i) /\ i # k /\ v[i] = o[i]
    /\ ~(k < k)

LEMMA OneMore ==
    ASSUME NEW o \in Seq(Frames), NEW x \in Frames, NEW v, v = o \o <<x>>
    PROVE  \E k : Extends(v, o, x, k)
  <1>1. v = Append(o, x)
    BY AppendIsConcat
  <1>2. Len(o) \in Nat /\ DOMAIN o = 1 .. Len(o)
    BY LenProperties
  <1>3. /\ v \in Seq(Frames) /\ Len(v) = Len(o) + 1 /\ v[Len(o) + 1] = x
        /\ \A i \in 1 .. Len(o) : v[i] = o[i]
    BY <1>1, AppendProperties
  <1>4. PICK k \in Nat : k = Len(o) + 1
    BY <1>2
  <1>5. DOMAIN v = 1 .. k
    BY <1>3, <1>4, LenProperties
  <1>6. 1 .. k = 1 .. Len(o) \cup {k}
    BY <1>2, <1>4
  <1>7. \A i \in 1 .. Len(o) : i < k /\ ~(k < i) /\ i # k
    BY <1>2, <1>4
  <1>8. ~(k < k)
    BY <1>4
  <1>9. DOMAIN v = DOMAIN o \cup {k} /\ v[k] = x
    BY <1>2, <1>3, <1>4, <1>5, <1>6
  <1>10. \A i \in DOMAIN o : i < k /\ ~(k < i) /\ i # k /\ v[i] = o[i]
    BY <1>2, <1>3, <1>7
  <1> QED
    BY <1>3, <1>8, <1>9, <1>10 DEF Extends

LEMMA BeforeExtends ==
    ASSUME NEW v, NEW o, NEW x, NEW k, Extends(v, o, x, k), NEW packets, NEW f, NEW s,
           Before(o, packets, f, s), packets[x.n].datagram.family = f => \A j \in DOMAIN s : x.n < s[j]
    PROVE  Before(v, packets, f, s)
  <1> SUFFICES ASSUME NEW i \in DOMAIN v, NEW j \in DOMAIN s, packets[v[i].n].datagram.family = f
               PROVE  v[i].n < s[j]
    BY DEF Before
  <1>1. CASE i \in DOMAIN o
    BY <1>1, Zenon DEF Extends, Before
  <1>2. CASE i = k
    BY <1>2, Zenon DEF Extends
  <1> QED
    BY <1>1, <1>2 DEF Extends

LEMMA NotInExtends ==
    ASSUME NEW v, NEW o, NEW x, NEW k, Extends(v, o, x, k), NEW s,
           NotIn(o, s), \A j \in DOMAIN s : x.n # s[j]
    PROVE  NotIn(v, s)
  BY Zenon DEF NotIn, Extends

LEMMA OnceExtends ==
    ASSUME NEW v, NEW o, NEW x, NEW k, Extends(v, o, x, k), Once(o), \A i \in DOMAIN o : o[i].n # x.n
    PROVE  Once(v)
  BY DEF Once, Extends

LEMMA OrderedExtends ==
    ASSUME NEW v, NEW o, NEW x, NEW k, Extends(v, o, x, k), NEW packets, Ordered(o, packets),
           \A i \in DOMAIN o : packets[o[i].n].datagram.family = packets[x.n].datagram.family => o[i].n < x.n
    PROVE  Ordered(v, packets)
  <1> SUFFICES ASSUME NEW i \in DOMAIN v, NEW j \in DOMAIN v, j < i,
                      packets[v[i].n].datagram.family = packets[v[j].n].datagram.family
               PROVE  v[j].n < v[i].n
    BY DEF Ordered
  <1>0. /\ i \in DOMAIN o \/ i = k
        /\ j \in DOMAIN o \/ j = k
        /\ ~(k < k) /\ \A l \in DOMAIN o : ~(k < l)
    BY DEF Extends
  <1>1. j \in DOMAIN o
    BY <1>0, Zenon
  <1>2. CASE i \in DOMAIN o
    BY <1>1, <1>2, Zenon DEF Extends, Ordered
  <1>3. CASE i = k
    BY <1>1, <1>3, Zenon DEF Extends
  <1> QED
    BY <1>2, <1>3 DEF Extends

LEMMA UpToExtends ==
    ASSUME NEW v, NEW o, NEW x, NEW k, Extends(v, o, x, k), NEW packets, NEW got,
           UpTo(o, packets, got), packets[x.n].datagram.family = "v4" => x.n <= got
    PROVE  UpTo(v, packets, got)
  BY Zenon DEF UpTo, Extends

(* What holds of a packet that is handed over next, and of those before it. *)
HandedNext(n, packets, f) ==
    /\ n \in 1 .. Len(packets) /\ packets[n].datagram.family = f
    /\ \A i \in DOMAIN out : out[i].n # n
    /\ Cardinality(WorkersOf(host)) <= 1 =>
          \A i \in DOMAIN out : packets[out[i].n].datagram.family = f => out[i].n < n
LaterQueues(n, f, sk, bt) ==
    /\ \A t \in Readers : (Started(t) /\ Family(t) = f) => \A j \in DOMAIN sk[f] : n < sk[f][j]
    /\ \A t \in Readers : \A j \in DOMAIN bt[t] :
          /\ n # bt[t][j]
          /\ (Alone(t) /\ Family(t) = f) => n < bt[t][j]
OldQueues(packets, sk, bt, got) ==
    /\ \A t \in Readers : Started(t) => Before(out, packets, Family(t), sk[Family(t)])
    /\ \A t \in Readers : NotIn(out, bt[t]) /\ (Alone(t) => Before(out, packets, Family(t), bt[t]))
    /\ RingChosen(host) => UpTo(out, packets, got)

LEMMA CarriesStill ==
    ASSUME host' = host, NEW p, NEW o, Carries(p, o), NEW i, p = sent'[out'[i].n], o = out'[i]
    PROVE  Carries(sent[out[i].n], out[i])'
  BY DEF Carries, ByChance, AsPromised, RingChosen

(* Nothing is handed over: the frames are still where they were.           *)
LEMMA OutStays ==
    ASSUME OutInv, WireInv, UNCHANGED <<host, out>>, Grown(sent, sent'),
           \A t \in Readers : Started(t)' <=> Started(t),
           OldQueues(sent, sock', batch', ringGot')
    PROVE  OutInv'
  <1>1. /\ out \in Seq(Frames) /\ OutFrames /\ Once(out) /\ OutOrdered
        /\ out' = out /\ host' = host
    BY DEF OutInv
  <1>2. \A i \in DOMAIN out : out[i].n \in 1 .. Len(sent) /\ sent'[out[i].n] = sent[out[i].n]
    BY <1>1 DEF OutFrames, Grown
  <1>3. OutFrames'
    <2> SUFFICES ASSUME NEW i \in DOMAIN out
                 PROVE  out'[i].n \in 1 .. Len(sent') /\ Carries(sent[out[i].n], out[i])'
      BY <1>1 DEF OutFrames
    <2>1. Carries(sent[out[i].n], out[i])
      BY <1>1 DEF OutFrames
    <2>2. PICK p : p = sent[out[i].n]
      OBVIOUS
    <2>3. PICK o : o = out[i]
      OBVIOUS
    <2>4. Carries(p, o) /\ p = sent'[out'[i].n] /\ o = out'[i]
      BY <1>1, <1>2, <2>1, <2>2, <2>3
    <2>5. Carries(sent[out[i].n], out[i])'
      BY <1>1, <2>4, CarriesStill
    <2> QED
      BY <1>1, <1>2, <2>5 DEF Grown
  <1>4. \A f, s : Before(out, sent, f, s) => Before(out, sent', f, s)
    BY <1>2 DEF Before
  <1>5. \A got : UpTo(out, sent, got) => UpTo(out, sent', got)
    BY <1>2 DEF UpTo
  <1>6. Ordered(out, sent) => Ordered(out, sent')
    BY <1>2 DEF Ordered
  <1>7. OutOrdered'
    BY <1>1, <1>6 DEF OutOrdered
  <1>8. OutBeforeSock'
    BY <1>1, <1>4 DEF OldQueues, OutBeforeSock
  <1>9. \A t : Alone(t)' <=> Alone(t)
    BY <1>1 DEF Alone
  <1>10. OutNotInBatch'
    BY <1>1, <1>4, <1>9 DEF OldQueues, OutNotInBatch
  <1>11. OutBeforeRing'
    BY <1>1, <1>5 DEF OldQueues, OutBeforeRing
  <1> QED
    BY <1>1, <1>3, <1>7, <1>8, <1>10, <1>11 DEF OutInv

(* A packet is handed over, if it is a tunnel's. *)
LEMMA OutGrows ==
    ASSUME OutInv, WireInv, UNCHANGED <<host, sent>>,
           \A t \in Readers : Started(t)' <=> Started(t),
           NEW n, NEW f, HandedNext(n, sent, f), NEW r, OneFrame(r, n, sent[n]), out' = out \o r,
           OldQueues(sent, sock', batch', ringGot'), LaterQueues(n, f, sock', batch'),
           (RingChosen(host) /\ f = "v4") => n <= ringGot'
    PROVE  OutInv'
  <1>1. /\ out \in Seq(Frames) /\ OutFrames /\ Once(out) /\ OutOrdered
        /\ sent' = sent /\ host' = host
    BY DEF OutInv
  <1>2. CASE r = <<>>
    <2>1. out' = out
      BY <1>1, <1>2, ConcatEmptySeq
    <2>2. Grown(sent, sent')
      BY <1>1 DEF Grown, WireInv
    <2> QED
      BY <1>1, <2>1, <2>2, OutStays
  <1>3. CASE r # <<>>
    <2>1. PICK x \in Frames : r = <<x>> /\ x.n = n /\ Carries(sent[n], x)
      BY <1>3 DEF OneFrame
    <2>2. PICK k : Extends(out', out, x, k)
      BY <1>1, <2>1, OneMore
    <2>3. out' \in Seq(Frames) /\ DOMAIN out' = DOMAIN out \cup {k} /\ out'[k] = x
          /\ \A i \in DOMAIN out : out'[i] = out[i]
      BY <2>2 DEF Extends
    <2>4. /\ n \in 1 .. Len(sent) /\ sent[x.n].datagram.family = f
          /\ \A i \in DOMAIN out : out[i].n # x.n
          /\ Cardinality(WorkersOf(host)) <= 1 =>
                \A i \in DOMAIN out : sent[out[i].n].datagram.family = f => out[i].n < x.n
      BY <2>1 DEF HandedNext
    <2>5. OutFrames'
      <3> SUFFICES ASSUME NEW i \in DOMAIN out'
                   PROVE  out'[i].n \in 1 .. Len(sent') /\ Carries(sent[out[i].n], out[i])'
        BY <1>1 DEF OutFrames
      <3>1. PICK o : o = out'[i]
        OBVIOUS
      <3>2. PICK p : p = sent'[o.n]
        OBVIOUS
      <3>3. Carries(p, o) /\ o.n \in 1 .. Len(sent)
        <4>1. CASE i = k
          BY <1>1, <2>1, <2>3, <2>4, <3>1, <3>2, <4>1
        <4>2. CASE i \in DOMAIN out
          BY <1>1, <2>3, <3>1, <3>2, <4>2 DEF OutFrames
        <4> QED
          BY <2>3, <4>1, <4>2
      <3>4. Carries(sent[out[i].n], out[i])'
        BY <1>1, <3>1, <3>2, <3>3, CarriesStill
      <3> QED
        BY <1>1, <3>1, <3>3, <3>4
    <2>6. Once(out)'
      BY <1>1, <2>2, <2>4, OnceExtends
    <2>7. OutOrdered'
      <3> SUFFICES ASSUME Cardinality(WorkersOf(host)) <= 1 PROVE Ordered(out', sent)
        BY <1>1 DEF OutOrdered
      <3>1. Ordered(out, sent)
        BY <1>1 DEF OutOrdered
      <3> QED
        BY <2>2, <2>4, <3>1, OrderedExtends
    <2>8. OutBeforeSock'
      <3> SUFFICES ASSUME NEW t \in Readers, Started(t)
                   PROVE  Before(out', sent, Family(t), sock'[Family(t)])
        BY <1>1 DEF OutBeforeSock
      <3>1. PICK s : s = sock'[Family(t)]
        OBVIOUS
      <3>2. Before(out, sent, Family(t), s)
        BY <3>1 DEF OldQueues
      <3>3. sent[x.n].datagram.family = Family(t) => \A j \in DOMAIN s : x.n < s[j]
        BY <2>1, <2>4, <3>1 DEF LaterQueues
      <3>4. Before(out', sent, Family(t), s)
        BY <2>2, <3>2, <3>3, BeforeExtends
      <3> QED
        BY <3>1, <3>4
    <2>9. OutNotInBatch'
      <3> SUFFICES ASSUME NEW t \in Readers
                   PROVE  NotIn(out', batch'[t]) /\ (Alone(t) => Before(out', sent, Family(t), batch'[t]))
        BY <1>1 DEF OutNotInBatch, Alone
      <3>1. PICK s : s = batch'[t]
        OBVIOUS
      <3>2. NotIn(out, s) /\ (Alone(t) => Before(out, sent, Family(t), s))
        BY <3>1 DEF OldQueues
      <3>3. /\ \A j \in DOMAIN s : x.n # s[j]
            /\ Alone(t) => (sent[x.n].datagram.family = Family(t) => \A j \in DOMAIN s : x.n < s[j])
        BY <2>1, <2>4, <3>1 DEF LaterQueues
      <3>4. NotIn(out', s)
        BY <2>2, <3>2, <3>3, NotInExtends
      <3>5. Alone(t) => Before(out', sent, Family(t), s)
        BY <2>2, <3>2, <3>3, BeforeExtends
      <3> QED
        BY <3>1, <3>4, <3>5
    <2>10. OutBeforeRing'
      <3> SUFFICES ASSUME RingChosen(host) PROVE UpTo(out', sent, ringGot')
        BY <1>1 DEF OutBeforeRing
      <3>1. UpTo(out, sent, ringGot')
        BY DEF OldQueues
      <3>2. sent[x.n].datagram.family = "v4" => x.n <= ringGot'
        BY <2>1, <2>4
      <3> QED
        BY <2>2, <3>1, <3>2, UpToExtends
    <2> QED
      BY <2>3, <2>5, <2>6, <2>7, <2>8, <2>9, <2>10 DEF OutInv
  <1> QED
    BY <1>2, <1>3

--------------------------------------------------------------------------------
(* Every step keeps what is read and what was handed over in order. *)

LEMMA PartIsBefore ==
    ASSUME NEW o, NEW packets, NEW f, NEW s, NEW u, NEW m \in Nat, Within(u, s, m)
    PROVE  /\ Before(o, packets, f, s) => Before(o, packets, f, u)
           /\ NotIn(o, s) => NotIn(o, u)
  BY DEF Within, Before, NotIn

LEMMA OldNow == ASSUME OutInv PROVE OldQueues(sent, sock, batch, ringGot)
  BY DEF OutInv, OutBeforeSock, OutNotInBatch, OutBeforeRing, OldQueues

(* The steps that move no packet. *)
LEMMA IdleKeeps ==
    ASSUME WireInv, QueueInv, OutInv, UNCHANGED <<host, sent, sock, batch, ringGot, out>>,
           \A t \in Readers : Started(t)' <=> Started(t)
    PROVE  QueueInv' /\ OutInv'
  <1>1. QueueInv'
    BY DEF QueueInv
  <1>2. OldQueues(sent, sock', batch', ringGot')
    BY OldNow
  <1>3. Grown(sent, sent')
    BY DEF Grown, WireInv
  <1> QED
    BY <1>1, <1>2, <1>3, OutStays

LEMMA ArriveKeeps ==
    ASSUME WireInv, QueueInv, OutInv, Arrive
    PROVE  QueueInv' /\ OutInv'
  <1>1. PICK top \in Nat : top = Len(sent)
    BY DEF WireInv
  <1>2. QueueInv' /\ batch' = batch /\ SockGrows(top)
    BY <1>1, ArriveQueues
  <1>3. UNCHANGED <<host, out, ringGot, thread>>
    BY DEF Arrive, fixedVars
  <1>4. Grown(sent, sent')
    BY <1>1, ArriveSends DEF Grown
  <1>5. \A t \in Readers : Started(t)' <=> Started(t)
    BY <1>3 DEF Started
  <1>6. OldQueues(sent, sock, batch, ringGot)
    BY OldNow
  <1>7. ASSUME NEW t \in Readers, Started(t)
        PROVE  Before(out, sent, Family(t), sock'[Family(t)])
    <2>1. Before(out, sent, Family(t), sock[Family(t)]) /\ Family(t) \in Families
      BY <1>6, <1>7, FamilyOfReader DEF OldQueues
    <2>2. ASSUME NEW f \in Families, sock' = [sock EXCEPT ![f] = Append(sock[f], top + 1)]
          PROVE  Before(out, sent, Family(t), sock'[Family(t)])
      <3>1. sock \in [Families -> Seq(Nat)]
        BY DEF QueueInv
      <3>2. CASE Family(t) # f
        BY <2>1, <2>2, <3>1, <3>2
      <3>3. CASE Family(t) = f
        <4>1. PICK s \in Seq(Nat) : s = sock[f]
          BY <3>1
        <4>2. PICK u : u = Append(s, top + 1)
          OBVIOUS
        <4>3. /\ DOMAIN u = 1 .. Len(s) + 1 /\ Len(s) \in Nat /\ DOMAIN s = 1 .. Len(s)
              /\ u[Len(s) + 1] = top + 1 /\ \A i \in 1 .. Len(s) : u[i] = s[i]
          BY <4>1, <4>2, AppendProperties, LenProperties
        <4>4. ASSUME NEW i \in DOMAIN out, NEW j \in DOMAIN u,
                     sent[out[i].n].datagram.family = Family(t)
              PROVE  out[i].n < u[j]
          <5>1. out[i].n \in 1 .. top
            BY <1>1 DEF OutInv, OutFrames
          <5>2. Before(out, sent, Family(t), s)
            BY <2>1, <3>3, <4>1
          <5>3. CASE j \in 1 .. Len(s)
            BY <4>3, <4>4, <5>2, <5>3 DEF Before
          <5>4. CASE j = Len(s) + 1
            BY <4>3, <5>1, <5>4
          <5>5. Len(s) \in Nat /\ j \in 1 .. Len(s) + 1
            BY <4>3
          <5>6. j \in 1 .. Len(s) \/ j = Len(s) + 1
            BY <5>5
          <5> QED
            BY <5>3, <5>4, <5>6
        <4>5. sock'[Family(t)] = u
          BY <2>2, <3>1, <3>3, <4>1, <4>2
        <4> QED
          BY <4>4, <4>5 DEF Before
      <3> QED
        BY <3>2, <3>3
    <2> QED
      BY <1>2, <2>1, <2>2 DEF SockGrows
  <1>8. OldQueues(sent, sock', batch', ringGot')
    BY <1>2, <1>3, <1>6, <1>7 DEF OldQueues
  <1> QED
    BY <1>2, <1>3, <1>4, <1>5, <1>8, OutStays

LEMMA TestKeeps ==
    ASSUME WireInv, QueueInv, OutInv, NEW t \in Readers, TestRecvmmsg(t),
           \A r \in Readers : Started(r)' <=> Started(r)
    PROVE  QueueInv' /\ OutInv'
  <1> DEFINE g == Family(t)
  <1>1. /\ UNCHANGED <<host, sent, batch, ringGot, out>>
        /\ sock' = IF host.recvmmsg /\ sock[g] # <<>> THEN [sock EXCEPT ![g] = Tail(sock[g])] ELSE sock
    BY DEF TestRecvmmsg, fixedVars, wireVars
  <1>2. g \in Families /\ sock \in [Families -> Seq(Nat)]
    BY FamilyOfReader DEF QueueInv
  <1>3. CASE sock' = sock
    BY <1>1, <1>3, IdleKeeps
  <1>4. CASE sock' # sock
    <2>1. sock[g] # <<>> /\ sock' = [sock EXCEPT ![g] = Tail(sock[g])]
      BY <1>1, <1>4
    <2>2. PICK u : u = Tail(sock[g])
      OBVIOUS
    <2> HIDE DEF g
    <2>3. Within(u, sock[g], 1)
      BY <1>2, <2>1, <2>2, TailIsWithin
    <2>4. QueueInv'
      BY <1>1, <1>2, <2>1, <2>2, <2>3, SockParts
    <2>5. Grown(sent, sent')
      BY <1>1 DEF Grown, WireInv
    <2>6. sock'[g] = u /\ \A f \in Families : f # g => sock'[f] = sock[f]
      BY <1>2, <2>1, <2>2
    <2>7. OldQueues(sent, sock, batch, ringGot)
      BY OldNow
    <2>8. ASSUME NEW r \in Readers, Started(r)
          PROVE  Before(out, sent, Family(r), sock'[Family(r)])
      <3>1. Before(out, sent, Family(r), sock[Family(r)]) /\ Family(r) \in Families
        BY <2>7, <2>8, FamilyOfReader DEF OldQueues
      <3> QED
        BY <2>3, <2>6, <3>1, PartIsBefore
    <2>9. OldQueues(sent, sock', batch', ringGot')
      BY <1>1, <2>7, <2>8 DEF OldQueues
    <2> QED
      BY <1>1, <2>4, <2>5, <2>9, OutStays
  <1> QED
    BY <1>3, <1>4

LEMMA TakesKeeps ==
    ASSUME WireInv, QueueInv, OutInv, NEW t \in Readers, NEW k, Takes(t, k), k <= Batch, thread[t] # "none"
    PROVE  QueueInv' /\ OutInv'
  <1> DEFINE g == Family(t)
  <1>1. UNCHANGED <<host, sent, ringGot, out, thread>>
    BY DEF Takes, fixedVars, wireVars
  <1>2. g \in Families /\ sock \in [Families -> Seq(Nat)] /\ batch \in [Readers -> Seq(Nat)]
        /\ Queue(sock[g], g, sent, SockCap)
    BY FamilyOfReader DEF QueueInv
  <1>3. k \in Nat
    <2>1. k \in 1 .. Len(sock[g])
      BY DEF Takes
    <2> QED
      BY <2>1
  <1>4. QueueInv' /\ \E u, v \in Seq(Nat) :
                        /\ Within(u, sock[g], 0) /\ Within(v, sock[g], k)
                        /\ batch' = [batch EXCEPT ![t] = u] /\ sock' = [sock EXCEPT ![g] = v]
    BY TakesQueues
  <1> HIDE DEF g
  <1>5. PICK u \in Seq(Nat), v \in Seq(Nat) :
              /\ Within(u, sock[g], 0) /\ Within(v, sock[g], k)
              /\ batch' = [batch EXCEPT ![t] = u] /\ sock' = [sock EXCEPT ![g] = v]
    BY <1>4
  <1>6. /\ sock'[g] = v /\ \A f \in Families : f # g => sock'[f] = sock[f]
        /\ batch'[t] = u /\ \A r \in Readers : r # t => batch'[r] = batch[r]
    BY <1>2, <1>5
  <1>7. OldQueues(sent, sock, batch, ringGot)
    BY OldNow
  <1>8. ASSUME NEW r \in Readers, Started(r)
        PROVE  Before(out, sent, Family(r), sock'[Family(r)])
    <2>1. Before(out, sent, Family(r), sock[Family(r)]) /\ Family(r) \in Families
      BY <1>7, <1>8, FamilyOfReader DEF OldQueues
    <2> QED
      BY <1>3, <1>5, <1>6, <2>1, PartIsBefore
  <1>9. Started(t) /\ Before(out, sent, g, sock[g])
    BY <1>7 DEF Started, OldQueues, g
  <1>10. Before(out, sent, g, u)
    BY <1>5, <1>9, PartIsBefore
  <1>11. NotIn(out, u)
    <2> SUFFICES ASSUME NEW i \in DOMAIN out, NEW j \in DOMAIN u PROVE out[i].n # u[j]
      BY DEF NotIn
    <2>1. u[j] \in Nat /\ u[j] \in 1 .. Len(sent) /\ ForRaw(sent[u[j]], g)
      BY <1>2, <1>5 DEF Within, Queue, RawNumbers
    <2>2. CASE sent[out[i].n].datagram.family = g
      <3>1. out[i].n < u[j]
        BY <1>10, <2>2 DEF Before
      <3> QED
        BY <2>1, <3>1
    <2>3. CASE sent[out[i].n].datagram.family # g
      BY <2>1, <2>3 DEF ForRaw
    <2> QED
      BY <2>2, <2>3
  <1>12. ASSUME NEW r \in Readers
         PROVE  NotIn(out, batch'[r]) /\ (Alone(r) => Before(out, sent, Family(r), batch'[r]))
    <2>1. CASE r = t
      BY <1>6, <1>10, <1>11, <2>1 DEF g
    <2>2. CASE r # t
      BY <1>6, <1>7, <2>2 DEF OldQueues
    <2> QED
      BY <2>1, <2>2
  <1>13. OldQueues(sent, sock', batch', ringGot')
    BY <1>1, <1>7, <1>8, <1>12 DEF OldQueues
  <1>14. Grown(sent, sent') /\ \A r \in Readers : Started(r)' <=> Started(r)
    BY <1>1 DEF Grown, WireInv, Started
  <1> QED
    BY <1>1, <1>4, <1>13, <1>14, OutStays

LEMMA TwoWorkers ==
    ASSUME NEW a \in WorkersOf(host), NEW b \in WorkersOf(host), a # b
    PROVE  ~(Cardinality(WorkersOf(host)) <= 1)
  <1>1. Workers = {<<"v4", 1>>} \cup {<<"v4", 2>>}
    <2>1. 1 .. 2 = {1, 2}
      OBVIOUS
    <2> QED
      BY <2>1 DEF Workers
  <1>2. IsFiniteSet(Workers)
    <2>1. IsFiniteSet({<<"v4", 1>>})
      BY FS_Singleton
    <2> QED
      BY <1>1, <2>1, FS_AddElement
  <1>3. WorkersOf(host) \subseteq Workers
    BY DEF WorkersOf
  <1>4. IsFiniteSet(WorkersOf(host)) /\ Cardinality(WorkersOf(host)) \in Nat
    BY <1>2, <1>3, FS_Subset, FS_CardinalityType
  <1>5. IsFiniteSet({a}) /\ Cardinality({a}) = 1
    BY FS_Singleton
  <1>6. {a} \cup {b} \in SUBSET WorkersOf(host) /\ b \notin {a}
    OBVIOUS
  <1>7. Cardinality({a} \cup {b}) = 2
    BY <1>5, <1>6, FS_AddElement
  <1>8. Cardinality({a} \cup {b}) <= Cardinality(WorkersOf(host))
    BY <1>4, <1>6, FS_Subset
  <1> QED
    BY <1>4, <1>7, <1>8

LEMMA FromRawIs ==
    ASSUME NEW n \in Nat, sent[n] \in Packets, NEW f \in Families, ForRaw(sent[n], f),
           f = "v4" => ~RingChosen(host)
    PROVE  OneFrame(FromRaw(n), n, sent[n])
  <1> DEFINE p == sent[n]
  <1>1. p.datagram.family = f
    BY DEF ForRaw
  <1>2. CASE f = "v4"
    <2>1. FromRaw(n) = ProcessV4(n, p.datagram.peer, p.datagram)
      BY <1>1, <1>2 DEF FromRaw
    <2>2. ForRaw(p, "v4")
      BY <1>2
    <2> HIDE DEF p
    <2>3. OneFrame(ProcessV4(n, p.datagram.peer, p.datagram), n, p)
      BY <1>2, <2>2, RawV4Hands DEF p
    <2> QED
      BY <2>1, <2>3 DEF p
  <1>3. CASE f = "v6"
    <2>1. FromRaw(n) = ProcessV6(n, p.datagram.peer, p.datagram)
      BY <1>1, <1>3 DEF FromRaw
    <2>2. ForRaw(p, "v6")
      BY <1>3
    <2> HIDE DEF p
    <2>3. OneFrame(ProcessV6(n, p.datagram.peer, p.datagram), n, p)
      BY <2>2, RawV6Hands DEF p
    <2> QED
      BY <2>1, <2>3 DEF p
  <1> QED
    BY <1>2, <1>3 DEF Families

LEMMA ProcessKeeps ==
    ASSUME WireInv, ThreadInv, QueueInv, OutInv, NEW t \in Readers, ProcessNext(t)
    PROVE  QueueInv' /\ OutInv'
  <1> DEFINE f == Family(t)
  <1>1. PICK n : n = Head(batch[t])
    OBVIOUS
  <1>2. /\ QueueInv'
        /\ n \in 1 .. Len(sent) /\ ForRaw(sent[n], f) /\ Started(t)
        /\ out' = out \o FromRaw(n) /\ UNCHANGED <<sock, sent, thread, ringGot>>
        /\ \A j \in DOMAIN sock[f] : n < sock[f][j]
        /\ 1 \in DOMAIN batch[t] /\ n = batch[t][1]
        /\ \A j \in DOMAIN batch'[t] : n < batch'[t][j]
        /\ Within(batch'[t], batch[t], 1)
        /\ \A u \in Readers : u # t => batch'[u] = batch[u]
    BY <1>1, ProcessQueues
  <1>3. host' = host /\ f \in Families /\ sent \in Seq(Packets) /\ Len(sent) \in Nat
    BY FamilyOfReader DEF ProcessNext, fixedVars, WireInv
  <1>4. f = "v4" => t \in Workers /\ t \in WorkersOf(host) /\ ~RingChosen(host)
    BY <1>2, ThreadsDiffer, StartedAre
  <1>5. sent[n] \in Packets /\ n \in Nat
    BY <1>2, <1>3
  <1>6. OneFrame(FromRaw(n), n, sent[n])
    BY <1>2, <1>3, <1>4, <1>5, FromRawIs
  <1>7. OldQueues(sent, sock, batch, ringGot)
    BY OldNow
  <1>8. HandedNext(n, sent, f)
    <2>1. sent[n].datagram.family = f
      BY <1>2 DEF ForRaw
    <2>2. \A i \in DOMAIN out : out[i].n # n
      BY <1>2, <1>7 DEF OldQueues, NotIn
    <2>3. ASSUME Cardinality(WorkersOf(host)) <= 1
          PROVE  \A i \in DOMAIN out : sent[out[i].n].datagram.family = f => out[i].n < n
      BY <1>2, <1>7, <2>3 DEF OldQueues, Alone, Before
    <2> QED
      BY <1>2, <2>1, <2>2, <2>3 DEF HandedNext
  <1>9. OldQueues(sent, sock', batch', ringGot')
    <2>1. ASSUME NEW u \in Readers
          PROVE  NotIn(out, batch'[u]) /\ (Alone(u) => Before(out, sent, Family(u), batch'[u]))
      <3>1. NotIn(out, batch[u]) /\ (Alone(u) => Before(out, sent, Family(u), batch[u]))
        BY <1>7 DEF OldQueues
      <3>2. CASE u = t
        BY <1>2, <3>1, <3>2, PartIsBefore
      <3>3. CASE u # t
        BY <1>2, <3>1, <3>3
      <3> QED
        BY <3>2, <3>3
    <2> QED
      BY <1>2, <1>7, <2>1 DEF OldQueues
  <1>10. LaterQueues(n, f, sock', batch')
    <2>1. ASSUME NEW u \in Readers, NEW j \in DOMAIN batch'[u]
          PROVE  /\ n # batch'[u][j]
                 /\ (Alone(u) /\ Family(u) = f) => n < batch'[u][j]
      <3>1. CASE u = t
        <4>1. n < batch'[u][j]
          BY <1>2, <2>1, <3>1
        <4>2. batch'[u][j] \in Nat
          <5>1. batch'[u] \in Seq(Nat)
            BY <1>2, <3>1 DEF Within
          <5> QED
            BY <2>1, <5>1
        <4> QED
          BY <1>5, <4>1, <4>2
      <3>2. CASE u # t
        <4>1. batch'[u] = batch[u] /\ j \in DOMAIN batch[u]
          BY <1>2, <2>1, <3>2
        <4>2. n # batch[u][j]
          BY <1>2, <3>2, <4>1 DEF QueueInv, Apart
        <4>3. ~(Alone(u) /\ Family(u) = f)
          <5> SUFFICES ASSUME Alone(u), Family(u) = f PROVE FALSE
            OBVIOUS
          <5>1. CASE u = V6Thread
            <6>1. t \notin Workers
              BY <5>1, ThreadsDiffer
            <6> QED
              BY <3>2, <5>1, <6>1, ThreadsDiffer
          <5>2. CASE u # V6Thread
            <6>1. u \in Workers /\ f = "v4"
              BY <5>2, ThreadsDiffer
            <6>2. Started(u)
              <7>1. batch[u] # <<>>
                BY <4>1, EmptyQueue, Bounds
              <7> QED
                BY <7>1 DEF QueueInv
            <6>3. u \in WorkersOf(host) /\ t \in WorkersOf(host)
              BY <1>4, <6>1, <6>2, StartedAre
            <6>4. Cardinality(WorkersOf(host)) <= 1
              BY <5>2 DEF Alone
            <6> QED
              BY <3>2, <6>3, <6>4, TwoWorkers
          <5> QED
            BY <5>1, <5>2
        <4> QED
          BY <4>1, <4>2, <4>3
      <3> QED
        BY <3>1, <3>2
    <2>2. \A j \in DOMAIN sock'[f] : n < sock'[f][j]
      BY <1>2
    <2> HIDE DEF f
    <2> QED
      BY <2>1, <2>2 DEF LaterQueues
  <1>11. \A u \in Readers : Started(u)' <=> Started(u)
    BY <1>2 DEF Started
  <1>12. (RingChosen(host) /\ f = "v4") => n <= ringGot'
    BY <1>4
  <1>13. PICK r : r = FromRaw(n)
    OBVIOUS
  <1>14. OneFrame(r, n, sent[n]) /\ out' = out \o r /\ sent' = sent
    BY <1>2, <1>6, <1>13
  <1>15. OutInv'
    <2> HIDE DEF f
    <2> QED
      BY <1>3, <1>8, <1>9, <1>10, <1>11, <1>12, <1>14, OutGrows
  <1> QED
    BY <1>2, <1>15

LEMMA ContentsNew ==
    ASSUME NEW top, NEW got, RingInv(top, got)
    PROVE  \A n \in RingContents : n > got
  BY DEF RingInv, Numbered, RingContents, Unwalked

LEMMA WalkKeeps ==
    ASSUME WireInv, ThreadInv, RingPath, QueueInv, OutInv, WalkRing
    PROVE  QueueInv' /\ OutInv'
  <1>1. UNCHANGED <<host, sent, sock, batch, thread>>
    BY DEF WalkRing, fixedVars, wireVars
  <1>2. \A t \in Readers : Started(t)' <=> Started(t)
    BY <1>1 DEF Started
  <1>3. CASE RingStays /\ out' = out
    BY <1>1, <1>2, <1>3, IdleKeeps DEF RingStays
  <1>4. CASE /\ RingTake /\ PassesFilter(sent[ringGot']) /\ ringGot' \in 1 .. Len(sent)
             /\ out' = out \o FromRing(ringGot')
    <2>1. PICK n : n = ringGot'
      OBVIOUS
    <2>2. /\ PassesFilter(sent[n]) /\ n \in 1 .. Len(sent) /\ n \in RingContents
          /\ out' = out \o FromRing(n)
      BY <1>4, <2>1 DEF RingTake
    <2>3. Started(RingThread) /\ RingChosen(host)
      <3>1. Started(RingThread)
        BY DEF WalkRing, Started
      <3> QED
        BY <3>1, StartedAre
    <2>4. sent \in Seq(Packets) /\ Len(sent) \in Nat /\ ringGot \in Nat /\ n \in Nat /\ sent[n] \in Packets
      <3>1. sent \in Seq(Packets)
        BY DEF WireInv
      <3>2. Len(sent) \in Nat /\ ringGot \in Nat
        BY <3>1 DEF RingPath
      <3> QED
        BY <2>2, <3>1, <3>2
    <2>5. n > ringGot
      BY <2>2, ContentsNew DEF RingPath
    <2>6. PICK r : r = FromRing(n)
      OBVIOUS
    <2>7. OneFrame(r, n, sent[n])
      <3>1. PICK p \in Packets : p = sent[n]
        BY <2>4
      <3>2. OneFrame(ProcessV4(n, p.datagram.peer, OnWire(p)), n, p)
        BY <2>2, <2>3, <2>4, <3>1, RingHands
      <3> QED
        BY <2>6, <3>1, <3>2 DEF FromRing
    <2>8. sent[n].datagram.family = "v4"
      BY <2>2 DEF PassesFilter
    <2>9. OldQueues(sent, sock, batch, ringGot)
      BY OldNow
    <2>10. \A i \in DOMAIN out : out[i].n \in Nat /\ (sent[out[i].n].datagram.family = "v4" => out[i].n <= ringGot)
      BY <2>3, <2>9 DEF OldQueues, UpTo, OutInv, OutFrames
    <2>11. HandedNext(n, sent, "v4")
      <3>1. \A i \in DOMAIN out : out[i].n # n
        BY <2>4, <2>5, <2>8, <2>10
      <3>2. \A i \in DOMAIN out : sent[out[i].n].datagram.family = "v4" => out[i].n < n
        BY <2>4, <2>5, <2>10
      <3> QED
        BY <2>2, <2>8, <3>1, <3>2 DEF HandedNext
    <2>12. \A t \in Readers : Family(t) = "v4" => ~Started(t)
      BY <2>3, StartedAre, ThreadsDiffer
    <2>13. LaterQueues(n, "v4", sock', batch')
      <3>1. ASSUME NEW t \in Readers, NEW j \in DOMAIN batch[t]
            PROVE  n # batch[t][j] /\ Family(t) # "v4"
        <4>1. Started(t)
          <5>1. batch[t] # <<>>
            BY <3>1, EmptyQueue, Bounds
          <5> QED
            BY <5>1 DEF QueueInv
        <4>2. Family(t) # "v4"
          BY <2>12, <4>1
        <4>3. ForRaw(sent[batch[t][j]], Family(t))
          BY <3>1 DEF QueueInv, Queue, RawNumbers
        <4> QED
          BY <2>8, <4>2, <4>3 DEF ForRaw
      <3> QED
        BY <1>1, <2>12, <3>1 DEF LaterQueues
    <2>14. OldQueues(sent, sock', batch', ringGot')
      <3>1. UpTo(out, sent, ringGot')
        BY <2>1, <2>4, <2>5, <2>10 DEF UpTo
      <3> QED
        BY <1>1, <2>9, <3>1 DEF OldQueues
    <2>15. n <= ringGot' /\ out' = out \o r
      BY <2>1, <2>2, <2>4, <2>6
    <2>16. OutInv'
      BY <1>1, <1>2, <2>7, <2>11, <2>13, <2>14, <2>15, OutGrows
    <2>17. QueueInv'
      BY <1>1, <1>2 DEF QueueInv
    <2> QED
      BY <2>16, <2>17
  <1> QED
    BY <1>3, <1>4, WalkRingRing

--------------------------------------------------------------------------------
LEMMA InitPath == Init => PathInv
  <1> SUFFICES ASSUME Init PROVE PathInv
    OBVIOUS
  <1>1. out = <<>> /\ sent = <<>>
    BY DEF Init
  <1>2. out \in Seq(Frames) /\ DOMAIN out = {}
    BY <1>1
  <1>3. OutInv
    BY <1>2 DEF OutInv, OutFrames, Once, OutOrdered, Ordered, OutBeforeSock, Before, OutNotInBatch, NotIn,
                OutBeforeRing, UpTo
  <1> QED
    BY <1>3, InitWire, InitThreads, InitRingPath, InitQueues DEF PathInv

LEMMA NextPath == PathInv /\ [Next]_vars => PathInv'
  <1> SUFFICES ASSUME PathInv, [Next]_vars PROVE PathInv'
    OBVIOUS
  <1>1. WireInv /\ ThreadInv /\ RingPath /\ QueueInv /\ OutInv
    BY DEF PathInv
  <1>2. WireInv' /\ ThreadInv' /\ RingPath'
    BY <1>1, NextWire, NextThreads, NextRing
  <1>3. \A t \in Readers : Started(t)' <=> Started(t)
    BY <1>1, ThreadSteps, FamilyOfReader
  <1>4. CASE Send \/ Lose \/ RingSetUp \/ KernelGives \/ Stop
    <2>1. UNCHANGED <<host, sent, sock, batch, ringGot, out>>
      BY <1>4 DEF Send, Lose, RingSetUp, KernelGives, Stop, fixedVars, wireVars
    <2> QED
      BY <1>1, <1>2, <1>3, <2>1, IdleKeeps DEF PathInv
  <1>5. CASE Arrive
    BY <1>1, <1>2, <1>5, ArriveKeeps DEF PathInv
  <1>6. CASE WalkRing
    BY <1>1, <1>2, <1>6, WalkKeeps DEF PathInv
  <1>7. ASSUME NEW t \in Readers, Reads(t) PROVE QueueInv' /\ OutInv'
    <2>1. CASE TestRecvmmsg(t)
      BY <1>1, <1>3, <2>1, TestKeeps
    <2>2. ASSUME NEW k \in {1, Least(Batch, Len(sock[Family(t)]))}, Takes(t, k), thread[t] # "none"
          PROVE  QueueInv' /\ OutInv'
      <3>1. Len(sock[Family(t)]) \in Nat
        BY <1>1, FamilyOfReader DEF QueueInv
      <3>2. k <= Batch
        BY <2>2, <3>1, Bounds DEF Least
      <3> QED
        BY <1>1, <2>2, <3>2, TakesKeeps
    <2>3. CASE ReceiveBatch(t) \/ ReceiveOne(t)
      BY <2>2, <2>3 DEF ReceiveBatch, ReceiveOne
    <2>4. CASE ProcessNext(t)
      BY <1>1, <2>4, ProcessKeeps
    <2> QED
      BY <1>7, <2>1, <2>3, <2>4 DEF Reads
  <1>8. CASE (\E t \in Threads : ThreadEnds(t)) \/ UNCHANGED vars
    <2>1. UNCHANGED <<host, sent, sock, batch, ringGot, out>>
      BY <1>8 DEF ThreadEnds, vars, fixedVars, wireVars
    <2> QED
      BY <1>1, <1>2, <1>3, <2>1, IdleKeeps DEF PathInv
  <1>9. CASE \E t \in Readers : Reads(t)
    BY <1>2, <1>7, <1>9 DEF PathInv
  <1> QED
    BY <1>4, <1>5, <1>6, <1>8, <1>9 DEF Next

--------------------------------------------------------------------------------
(* What the analyzer takes a packet for. *)

Tagged(p) ==
    /\ p.part # "later" /\ ~p.datagram.esp /\ p.datagram.meant # Nothing
    /\ p.datagram.proto = PROTO_UDP => p.datagram.expectedPort

SomePacket(e) == e.class \in Classes /\ e.tunnel \in Nat /\ e.keepalive \in BOOLEAN /\ e.deviations \in Nat
SeenAs(e, p) ==
    /\ e.class \in Classes /\ e.tunnel \in Nat /\ e.keepalive \in BOOLEAN /\ e.deviations = One(Odd(p))
    /\ Tagged(p) => Counts(e) /\ e.tunnel = p.datagram.meant.id
    /\ ~Tagged(p) => ~Counts(e) \/ e.tunnel = 0

LEMMA DecodedFields ==
    ASSUME NEW c, NEW t, NEW k, NEW n, NEW e, e = Decoded(c, t, k, n)
    PROVE  /\ e.class = c /\ e.tunnel = t /\ e.keepalive = k /\ e.deviations = n
           /\ Counts(e) <=> c \in {"eoip", "eoipv6", "udp"}
  BY DEF Decoded, Counts

LEMMA SomeDecoded ==
    ASSUME NEW c \in Classes, NEW t \in Nat, NEW k \in BOOLEAN, NEW n \in Nat,
           NEW e, e = Decoded(c, t, k, n)
    PROVE  SomePacket(e)
  BY DecodedFields DEF SomePacket

LEMMA NotTaggedIs ==
    ASSUME NEW p, ~Tagged(p), NEW c \in Classes, NEW k \in BOOLEAN, NEW n, n = One(Odd(p)),
           NEW e, e = Decoded(c, 0, k, n)
    PROVE  SeenAs(e, p)
  <1>1. e.class = c /\ e.tunnel = 0 /\ e.keepalive = k /\ e.deviations = n
    BY DecodedFields
  <1> QED
    BY <1>1 DEF SeenAs

LEMMA TaggedIs ==
    ASSUME NEW p, Tagged(p), p.datagram.meant.id \in Nat, NEW c \in {"eoip", "eoipv6", "udp"},
           NEW k \in BOOLEAN, NEW n, n = One(Odd(p)), NEW e, e = Decoded(c, p.datagram.meant.id, k, n)
    PROVE  SeenAs(e, p)
  <1>1. /\ e.class = c /\ e.tunnel = p.datagram.meant.id /\ e.keepalive = k /\ e.deviations = n
        /\ Counts(e)
    BY DecodedFields
  <1>2. c \in Classes
    BY DEF Classes
  <1> QED
    BY <1>1, <1>2 DEF SeenAs

(* Neither GRE nor EtherIP nor UDP on the wire. *)
LEMMA OtherSeen ==
    ASSUME NEW p \in Packets, WireProto(p.datagram) \notin {PROTO_GRE, PROTO_ETHERIP, PROTO_UDP},
           NEW e, e = Decoded("other", 0, FALSE, 0)
    PROVE  SeenAs(e, p)
  <1>1. p.datagram \in Datagrams
    BY DEF Packets
  <1>2. ~Tagged(p)
    <2>1. CASE p.datagram.esp
      BY <2>1 DEF Tagged
    <2>2. CASE ~p.datagram.esp
      <3>1. p.datagram.meant = Nothing
        BY <1>1, <2>2, HoldsByProto DEF WireProto
      <3> QED
        BY <3>1 DEF Tagged
    <2> QED
      BY <2>1, <2>2
  <1>3. 0 = One(Odd(p))
    BY DEF One, Odd
  <1>4. "other" \in Classes
    BY DEF Classes
  <1> QED
    BY <1>2, <1>3, <1>4, NotTaggedIs

(* A later fragment that begins like a header. *)
LEMMA MistakenSeen ==
    ASSUME NEW p \in Packets, Mistaken(p), NEW q, q.bytes = PartBytes(p), Size(q) = PartLen(p)
    PROVE  SomePacket(DecodeEoip(q))
  <1> DEFINE d == p.datagram
             header == DecodeEoipHeader(q)
  <1>1. d \in Datagrams /\ q.bytes = d.rest /\ SubSeq(q.bytes, 1, 4) = EOIP_MAGIC
    BY DEF Packets, Mistaken, PartBytes
  <1>2. /\ q.bytes[5] \in Nat /\ q.bytes[6] \in Nat /\ q.bytes[7] \in Nat /\ q.bytes[8] \in Nat
    BY <1>1, RestIsBytes
  <1>3. CASE Size(q) < 4 \/ Size(q) < EOIP_HEADER_LEN
    <2> DEFINE e == DecodeEoip(q)
    <2>1. e = Decoded("error", 0, FALSE, 0)
      BY <1>1, <1>3 DEF DecodeEoip, DecodeError
    <2>2. "error" \in Classes /\ 0 \in Nat /\ FALSE \in BOOLEAN
      BY DEF Classes
    <2> HIDE DEF e
    <2>3. SomePacket(e)
      BY <2>1, <2>2, SomeDecoded
    <2> QED
      BY <2>3 DEF e
  <1>4. CASE ~(Size(q) < 4) /\ ~(Size(q) < EOIP_HEADER_LEN)
    <2>1. header = Header(FromBigEndian(q.bytes[8], q.bytes[7]), FromBigEndian(q.bytes[5], q.bytes[6]), EOIP_HEADER_LEN)
      BY <1>1, <1>4 DEF DecodeEoipHeader
    <2>2. header.id \in Nat
      BY <1>2, <2>1, HeaderFields DEF FromBigEndian
    <2> DEFINE k == header.len = 0
               n == EoipDeviations(header.len, Size(q) - EOIP_HEADER_LEN)
    <2>3. DecodeEoip(q) = Decoded("eoip", header.id, k, n)
      BY <1>1, <1>4 DEF DecodeEoip
    <2>4. n \in Nat /\ k \in BOOLEAN
      BY DEF EoipDeviations
    <2> HIDE DEF header, k, n
    <2> QED
      BY <2>2, <2>3, <2>4, DecodedFields DEF SomePacket, Classes
  <1> QED
    BY <1>3, <1>4

LEMMA GreSeen ==
    ASSUME NEW p \in Packets, WireProto(p.datagram) = PROTO_GRE, NEW q,
           q.bytes = PartBytes(p), q.more = PartLen(p) - Len(q.bytes), Size(q) = PartLen(p), ~Mistaken(p)
    PROVE  SeenAs(DecodeEoip(q), p)
  <1> DEFINE d == p.datagram
             m == p.datagram.meant
             e == DecodeEoip(q)
  <1>1. d \in Datagrams /\ Genuine(p) /\ p.part \in Parts
    BY DEF Packets
  <1>2. ~d.esp /\ d.proto = PROTO_GRE
    BY DEF WireProto, PROTO_ESP, PROTO_GRE
  <1>3. d.family = "v4" /\ HoldsEoip(d, m)
    BY <1>1, <1>2, HoldsByProto
  <1>4. /\ Size(d) \in Nat /\ Len(d.bytes) \in Nat /\ d.more \in Nat
        /\ m # Nothing => m.id \in U16 /\ m.len \in U16 /\ m.id \in Nat
    BY <1>1, DatagramTypes DEF U16
  <1>5. d.proto # PROTO_UDP
    BY <1>2 DEF PROTO_GRE, PROTO_UDP
  <1>6. Size(d) = Len(d.bytes) + d.more
    BY DEF Size
  <1>7. FirstPart = 1480
    BY DEF FirstPart, LINK_MTU, IP_HEADER
  <1>8. Tagged(p) <=> p.part # "later" /\ m # Nothing
    BY <1>2, <1>5 DEF Tagged
  <1>9. "gre" \in Classes /\ "error" \in Classes /\ One(TRUE) = 1 /\ One(FALSE) = 0
    BY DEF Classes, One
  <1>10. CASE p.part = "later"
    <2>1. q.bytes = d.rest /\ SubSeq(q.bytes, 1, 4) # EOIP_MAGIC /\ Size(q) = Size(d) - 1480
      BY <1>7, <1>10 DEF PartBytes, PartLen, Mistaken
    <2>2. ~Tagged(p)
      BY <1>8, <1>10
    <2>3. Odd(p) <=> Size(d) - 1480 >= 4
      BY <1>7, <1>10 DEF Odd
    <2>4. CASE Size(q) < 4
      <3>1. e = Decoded("error", 0, FALSE, 0)
        BY <2>4 DEF DecodeEoip, DecodeError
      <3>2. 0 = One(Odd(p))
        BY <1>4, <2>1, <2>3, <2>4 DEF One
      <3> QED
        BY <1>9, <2>2, <3>1, <3>2, NotTaggedIs
    <2>5. CASE ~(Size(q) < 4)
      <3>1. e = Decoded("gre", 0, FALSE, 1)
        BY <2>1, <2>5 DEF DecodeEoip
      <3>2. 1 = One(Odd(p))
        BY <1>4, <2>1, <2>3, <2>5 DEF One
      <3> QED
        BY <1>9, <2>2, <3>1, <3>2, NotTaggedIs
    <2> QED
      BY <2>4, <2>5
  <1>11. CASE p.part = "whole"
    <2>1. q.bytes = d.bytes /\ Size(q) = Size(d) /\ q.more = Size(d) - Len(d.bytes)
      BY <1>2, <1>11 DEF PartBytes, PartLen
    <2>2. q.more = d.more
      BY <1>4, <1>6, <2>1
    <2>3. HoldsEoip(q, m)
      BY <1>3, <2>1, <2>2 DEF HoldsEoip
    <2>4. e = IF m = Nothing THEN Decoded("gre", 0, FALSE, 1)
              ELSE Decoded("eoip", m.id, m.len = 0, One(m.len \in 1 .. MIN_ETHERNET_FRAME - 1))
      <3>1. q.more \in Nat /\ Size(q) \in Int
        BY <1>4, <2>1, <2>2
      <3>2. m # Nothing => m.id \in U16 /\ m.len \in U16
        BY <1>4
      <3> HIDE DEF m, d
      <3> QED
        BY <2>3, <3>1, <3>2, EoipSeen
    <2>5. Odd(p) <=> (m = Nothing \/ m.len \in 1 .. MIN_ETHERNET_FRAME - 1)
      BY <1>11 DEF Odd
    <2>6. CASE m = Nothing
      <3>1. 1 = One(Odd(p))
        BY <2>5, <2>6 DEF One
      <3> QED
        BY <1>8, <1>9, <2>4, <2>6, <3>1, NotTaggedIs
    <2>7. CASE m # Nothing
      <3>1. One(m.len \in 1 .. MIN_ETHERNET_FRAME - 1) = One(Odd(p))
        BY <2>5, <2>7 DEF One
      <3>2. Tagged(p) /\ m.id \in Nat /\ (m.len = 0) \in BOOLEAN
        BY <1>4, <1>8, <1>11, <2>7
      <3> QED
        BY <2>4, <2>7, <3>1, <3>2, TaggedIs
    <2> QED
      BY <2>6, <2>7
  <1>12. CASE p.part = "first"
    <2>1. q.bytes = d.bytes /\ Size(q) = 1480 /\ q.more = 1480 - Len(d.bytes)
      BY <1>2, <1>7, <1>12 DEF PartBytes, PartLen
    <2>2. Size(d) > 1480
      <3>1. IP_HEADER + Size(d) > LINK_MTU
        BY <1>1, <1>12 DEF Genuine
      <3> QED
        BY <1>4, <3>1 DEF IP_HEADER, LINK_MTU
    <2>3. Odd(p)
      BY <1>12 DEF Odd
    <2>4. One(Odd(p)) = 1
      BY <2>3 DEF One
    <2>5. CASE m = Nothing
      <3>1. SubSeq(q.bytes, 1, 4) # EOIP_MAGIC
        BY <1>3, <2>1, <2>5 DEF HoldsEoip
      <3>2. e = Decoded("gre", 0, FALSE, 1)
        BY <2>1, <3>1 DEF DecodeEoip
      <3> QED
        BY <1>8, <1>9, <2>4, <2>5, <3>2, NotTaggedIs
    <2>6. CASE m # Nothing
      <3>1. d.bytes = EncodeEoip(m.id, m.len) /\ d.more = m.len
        BY <1>3, <2>6 DEF HoldsEoip
      <3>2. /\ SubSeq(d.bytes, 1, 4) = EOIP_MAGIC /\ Size(d) = 8 + d.more
        BY <1>4, <2>6, <3>1, EoipRoundTrip DEF EOIP_HEADER_LEN
      <3>3. Len(d.bytes) = 8
        <4>1. Len(d.bytes) + d.more = 8 + d.more
          BY <1>6, <3>2
        <4> QED
          BY <1>4, <4>1, Cancels, Zenon
      <3>4. q.more \in Nat
        BY <2>1, <3>3
      <3>5. e = Decoded("eoip", m.id, m.len = 0, EoipDeviations(m.len, q.more))
        <4>1. m.id \in U16 /\ m.len \in U16 /\ q.bytes = EncodeEoip(m.id, m.len)
          BY <1>4, <2>1, <2>6, <3>1
        <4> HIDE DEF m, d
        <4> QED
          BY <3>4, <4>1, EoipStart
      <3>6. EoipDeviations(m.len, q.more) = 1
        <4>1. m.len \in Nat /\ m.len > q.more
          BY <1>4, <2>1, <2>2, <2>6, <3>1, <3>2, <3>3 DEF U16
        <4>2. q.more >= MIN_ETHERNET_FRAME
          BY <2>1, <3>3 DEF MIN_ETHERNET_FRAME
        <4> QED
          BY <3>4, <4>1, <4>2, TooLong, Zenon
      <3>7. Tagged(p) /\ m.id \in Nat
        BY <1>4, <1>8, <1>12, <2>6
      <3> DEFINE k == m.len = 0
                 n == EoipDeviations(m.len, q.more)
      <3>8. e = Decoded("eoip", p.datagram.meant.id, k, n) /\ k \in BOOLEAN
        BY <3>5
      <3>9. n = One(Odd(p)) /\ p.datagram.meant.id \in Nat /\ "eoip" \in {"eoip", "eoipv6", "udp"}
        BY <2>4, <3>6, <3>7
      <3> HIDE DEF k, n
      <3> QED
        BY <3>7, <3>8, <3>9, TaggedIs
    <2> QED
      BY <2>5, <2>6
  <1>13. p.part = "later" \/ p.part = "whole" \/ p.part = "first"
    BY <1>1 DEF Parts
  <1> QED
    BY <1>10, <1>11, <1>12, <1>13

(* What is neither GRE nor ESP on the wire is not fragmented. *)
LEMMA WholeSeen ==
    ASSUME NEW p \in Packets, WireProto(p.datagram) \in {PROTO_ETHERIP, PROTO_UDP}, NEW q,
           q.bytes = PartBytes(p), q.more = PartLen(p) - Len(q.bytes), Size(q) = PartLen(p)
    PROVE  /\ p.part = "whole" /\ ~p.datagram.esp /\ p.datagram.proto = WireProto(p.datagram)
           /\ q.bytes = p.datagram.bytes /\ q.more = p.datagram.more /\ Size(q) = Size(p.datagram)
  <1> DEFINE d == p.datagram
  <1>1. d \in Datagrams /\ Genuine(p) /\ p.part \in Parts
    BY DEF Packets
  <1>2. ~d.esp /\ d.proto = WireProto(d)
    BY DEF WireProto, PROTO_ESP, PROTO_ETHERIP, PROTO_UDP
  <1>3. Size(d) \in Nat /\ Len(d.bytes) \in Nat /\ d.more \in Nat
        /\ (d.proto = PROTO_UDP => IP_HEADER + 8 + Size(d) <= LINK_MTU)
    BY <1>1, DatagramTypes
  <1>4. ~(d.family = "v4" /\ IP_HEADER + Size(d) > LINK_MTU)
    <2>1. CASE d.proto = PROTO_ETHERIP
      <3>1. d.family = "v6"
        BY <1>1, <2>1, HoldsByProto
      <3> QED
        BY <3>1
    <2>2. CASE d.proto = PROTO_UDP
      BY <1>3, <2>2 DEF IP_HEADER, LINK_MTU
    <2> QED
      BY <1>2, <2>1, <2>2
  <1>5. p.part = "whole"
    BY <1>1, <1>4 DEF Genuine
  <1>6. q.bytes = d.bytes /\ Size(q) = Size(d)
    BY <1>2, <1>5 DEF PartBytes, PartLen
  <1>7. Size(d) = Len(d.bytes) + d.more /\ q.more = Size(d) - Len(d.bytes)
    BY <1>5, <1>6 DEF PartLen, Size
  <1>8. q.more = d.more
    BY <1>3, <1>7
  <1> QED
    BY <1>2, <1>5, <1>6, <1>8

LEMMA EtherIpSeen ==
    ASSUME NEW p \in Packets, WireProto(p.datagram) = PROTO_ETHERIP, NEW q,
           q.bytes = PartBytes(p), q.more = PartLen(p) - Len(q.bytes), Size(q) = PartLen(p)
    PROVE  SeenAs(DecodeEoipV6(q), p)
  <1> DEFINE d == p.datagram
             m == p.datagram.meant
  <1>1. d \in Datagrams /\ Genuine(p)
    BY DEF Packets
  <1>2. /\ p.part = "whole" /\ ~d.esp /\ d.proto = PROTO_ETHERIP
        /\ q.bytes = d.bytes /\ q.more = d.more /\ Size(q) = Size(d)
    BY WholeSeen
  <1>3. d.family = "v6" /\ HoldsEoipV6(d, m)
    BY <1>1, <1>2, HoldsByProto
  <1>4. HoldsEoipV6(q, m)
    BY <1>2, <1>3 DEF HoldsEoipV6, DecodeEoipV6Header
  <1>5. /\ q.more \in Nat
        /\ m # Nothing => m.id \in U16 /\ m.len \in U16 /\ m.id \in Nat
    BY <1>1, <1>2, DatagramTypes DEF U16
  <1>6. m # Nothing => EncodesEoipV6(m.id)
    BY <1>1, <1>2, <1>3 DEF Genuine, Sends, PROTO_ETHERIP, PROTO_UDP
  <1>7. DecodeEoipV6(q) = IF m = Nothing THEN DecodeError ELSE Decoded("eoipv6", m.id, m.len = 0, 0)
    BY <1>4, <1>5, <1>6, EoipV6Seen
  <1>8. 0 = One(Odd(p)) /\ "error" \in Classes
    BY DEF One, Odd, Classes, PROTO_GRE, PROTO_ETHERIP, PROTO_UDP
  <1>9. Tagged(p) <=> m # Nothing
    BY <1>2 DEF Tagged, PROTO_ETHERIP, PROTO_UDP
  <1>10. CASE m = Nothing
    BY <1>7, <1>8, <1>9, <1>10, NotTaggedIs DEF DecodeError
  <1>11. CASE m # Nothing
    <2>1. (m.len = 0) \in BOOLEAN
      OBVIOUS
    <2> QED
      BY <1>5, <1>7, <1>8, <1>9, <1>11, <2>1, TaggedIs
  <1> QED
    BY <1>10, <1>11

(* What the analyzer makes of the inside of a shim. *)
Inner(b) ==
    LET rest == From(b, UDP_SHIM_HEADER_LEN)
    IN  IF b.bytes[3] = UDP_INNER_TYPE_EOIP THEN DecodeEoip(rest) ELSE DecodeEoipV6(rest)

LEMMA ShimIs ==
    ASSUME NEW b, IsUdpShim(b), b.bytes[4] = 0, NEW c, NEW t, NEW k, NEW n \in Int,
           Inner(b) = Decoded(c, t, k, n)
    PROVE  DecodeUdp(b, TRUE) = IF c = "error" THEN DecodeError ELSE Decoded("udp", t, k, n)
  <1> DEFINE inner == Inner(b)
  <1>1. inner.class = c
    BY DecodedFields
  <1>2. DecodeUdp(b, TRUE) = IF inner.class = "error" THEN DecodeError
                          ELSE [inner EXCEPT !.class = "udp",
                                             !.deviations = @ + IF b.bytes[4] # 0 THEN 1 ELSE 0]
    BY DEF DecodeUdp, Inner
  <1> HIDE DEF inner
  <1>3. [inner EXCEPT !.class = "udp", !.deviations = @ + IF b.bytes[4] # 0 THEN 1 ELSE 0]
          = Decoded("udp", t, k, n)
    <2>1. inner = [class |-> c, tunnel |-> t, keepalive |-> k, deviations |-> n]
      BY DEF Decoded, inner
    <2>2. PICK z : z = IF b.bytes[4] # 0 THEN 1 ELSE 0
      OBVIOUS
    <2>3. [inner EXCEPT !.class = "udp", !.deviations = @ + z]
            = [class |-> "udp", tunnel |-> t, keepalive |-> k, deviations |-> n + z]
      <3>1. PICK named : named = [inner EXCEPT !.class = "udp"]
        OBVIOUS
      <3>2. named = [class |-> "udp", tunnel |-> t, keepalive |-> k, deviations |-> n]
        BY <2>1, <3>1
      <3>3. [named EXCEPT !.deviations = @ + z]
              = [class |-> "udp", tunnel |-> t, keepalive |-> k, deviations |-> n + z]
        BY <3>2
      <3>4. [inner EXCEPT !.class = "udp", !.deviations = @ + z] = [named EXCEPT !.deviations = @ + z]
        BY <2>1, <3>1
      <3> QED
        BY <3>3, <3>4
    <2>4. n + z = n
      BY <2>2
    <2> QED
      BY <2>2, <2>3, <2>4 DEF Decoded
  <1> QED
    BY <1>1, <1>2, <1>3

LEMMA RestIs ==
    ASSUME NEW b, {"bytes", "more"} \subseteq DOMAIN b
    PROVE  /\ From(b, UDP_SHIM_HEADER_LEN).bytes = SubSeq(b.bytes, 5, Len(b.bytes))
           /\ From(b, UDP_SHIM_HEADER_LEN).more = b.more
  BY DEF From, UDP_SHIM_HEADER_LEN

LEMMA RestIsSeq ==
    ASSUME NEW s \in Seq(Nat)
    PROVE  Len(SubSeq(s, 5, Len(s))) \in Nat
  <1>1. Len(s) \in Nat /\ \A i \in 5 .. Len(s) : s[i] \in Nat
    BY LenProperties, ElementOfSeq
  <1>2. SubSeq(s, 5, Len(s)) \in Seq(Nat)
    BY <1>1, SubSeqProperties
  <1> QED
    BY <1>2, LenProperties

LEMMA UdpSeen ==
    ASSUME NEW p \in Packets, WireProto(p.datagram) = PROTO_UDP, NEW q,
           q.bytes = PartBytes(p), q.more = PartLen(p) - Len(q.bytes), Size(q) = PartLen(p),
           {"bytes", "more"} \subseteq DOMAIN q
    PROVE  SeenAs(DecodeUdp(q, p.datagram.expectedPort), p)
  <1> DEFINE d == p.datagram
             m == p.datagram.meant
             x == p.datagram.expectedPort
             e == DecodeUdp(q, x)
             rest == From(q, UDP_SHIM_HEADER_LEN)
             of == From(d, UDP_SHIM_HEADER_LEN)
  <1>1. d \in Datagrams
    BY DEF Packets
  <1>2. /\ p.part = "whole" /\ ~d.esp /\ d.proto = PROTO_UDP
        /\ q.bytes = d.bytes /\ q.more = d.more /\ Size(q) = Size(d)
    BY WholeSeen
  <1>3. HoldsUdp(d, m)
    BY <1>1, <1>2, HoldsByProto
  <1>4. /\ d.bytes \in Seq(Nat) /\ d.more \in Nat /\ x \in BOOLEAN
        /\ m # Nothing => m.id \in U16 /\ m.len \in U16 /\ m.id \in Nat
    BY <1>1, DatagramTypes DEF U16
  <1>5. IsUdpShim(q) <=> IsUdpShim(d)
    BY <1>2 DEF IsUdpShim
  <1>6. /\ "other" \in Classes /\ "error" \in Classes /\ "udp" \in Classes
        /\ One(TRUE) = 1 /\ One(FALSE) = 0
    BY DEF Classes, One
  <1>7. Tagged(p) <=> x /\ m # Nothing
    BY <1>2 DEF Tagged
  <1>8. Odd(p) <=> /\ x /\ IsUdpShim(d) /\ d.bytes[3] = UDP_INNER_TYPE_EOIP
                   /\ m = Nothing \/ m.len \in 1 .. MIN_ETHERNET_FRAME - 1
    BY <1>2 DEF Odd, PROTO_GRE, PROTO_UDP
  <1>9. CASE ~x \/ ~IsUdpShim(d)
    <2>1. e = Decoded("other", 0, FALSE, 0)
      BY <1>5, <1>9 DEF DecodeUdp
    <2>2. 0 = One(Odd(p))
      BY <1>8, <1>9 DEF One
    <2>3. ~Tagged(p)
      BY <1>3, <1>7, <1>9 DEF HoldsUdp
    <2> QED
      BY <1>6, <2>1, <2>2, <2>3, NotTaggedIs
  <1>10. CASE x /\ IsUdpShim(d)
    <2>1. /\ d.bytes[4] = 0
          /\ IF d.bytes[3] = UDP_INNER_TYPE_EOIP THEN HoldsEoip(of, m)
             ELSE HoldsEoipV6(of, m) /\ (m # Nothing => EncodesEoipV6(m.id))
      BY <1>3, <1>10 DEF HoldsUdp
    <2>2. rest.bytes = of.bytes /\ rest.more = of.more /\ rest.more \in Nat /\ Size(rest) \in Int
      <3>1. {"bytes", "more"} \subseteq DOMAIN d
        BY <1>1, DatagramTypes DEF Datagram
      <3>2. /\ rest.bytes = SubSeq(q.bytes, 5, Len(q.bytes)) /\ rest.more = q.more
            /\ of.bytes = SubSeq(d.bytes, 5, Len(d.bytes)) /\ of.more = d.more
        BY <3>1, RestIs
      <3>3. Len(SubSeq(d.bytes, 5, Len(d.bytes))) \in Nat
        BY <1>4, RestIsSeq
      <3> HIDE DEF rest, of
      <3>4. /\ rest.bytes = SubSeq(d.bytes, 5, Len(d.bytes)) /\ rest.more = d.more
        BY <1>2, <3>2
      <3>5. Len(rest.bytes) \in Nat /\ rest.more \in Nat
        BY <1>4, <3>3, <3>4
      <3>6. Size(rest) \in Int
        BY <3>5 DEF Size
      <3> QED
        BY <1>2, <3>2, <3>4, <3>5, <3>6
    <2>3. x = TRUE /\ IsUdpShim(q) /\ q.bytes[4] = 0
      BY <1>2, <1>4, <1>5, <1>10, <2>1
    <2>4. ASSUME NEW c, NEW t, NEW k, NEW n \in Int, Inner(q) = Decoded(c, t, k, n)
          PROVE  e = IF c = "error" THEN DecodeError ELSE Decoded("udp", t, k, n)
      <3>1. Inner(q) = Decoded(c, t, k, n) /\ n \in Int
        BY <2>4
      <3>2. DecodeUdp(q, TRUE) = IF c = "error" THEN DecodeError ELSE Decoded("udp", t, k, n)
        BY <2>3, <3>1, ShimIs
      <3> HIDE DEF x
      <3> QED
        BY <2>3, <3>2
    <2>5. CASE d.bytes[3] = UDP_INNER_TYPE_EOIP
      <3>1. HoldsEoip(rest, m)
        <4>1. Size(rest) = Size(of)
          BY <2>2 DEF Size
        <4> HIDE DEF rest, of
        <4> QED
          BY <2>1, <2>2, <2>5, <4>1 DEF HoldsEoip
      <3>2. m # Nothing => m.id \in U16 /\ m.len \in U16
        BY <1>4
      <3>3. DecodeEoip(rest) = IF m = Nothing THEN Decoded("gre", 0, FALSE, 1)
                               ELSE Decoded("eoip", m.id, m.len = 0, One(m.len \in 1 .. MIN_ETHERNET_FRAME - 1))
        <4> HIDE DEF rest, m
        <4> QED
          BY <2>2, <3>1, <3>2, EoipSeen
      <3>4. Inner(q) = DecodeEoip(rest)
        BY <1>2, <2>5 DEF Inner
      <3>5. CASE m = Nothing
        <4>1. e = Decoded("udp", 0, FALSE, 1)
          <5>1. Inner(q) = Decoded("gre", 0, FALSE, 1)
            BY <3>3, <3>4, <3>5
          <5> DEFINE no == FALSE
          <5>2. Inner(q) = Decoded("gre", 0, no, 1)
            BY <5>1
          <5> HIDE DEF e, no
          <5>3. e = IF "gre" = "error" THEN DecodeError ELSE Decoded("udp", 0, no, 1)
            BY <2>4, <5>2
          <5> QED
            BY <5>3 DEF no
        <4>2. 1 = One(Odd(p))
          BY <1>8, <1>10, <2>5, <3>5 DEF One
        <4>3. ~Tagged(p)
          BY <1>7, <3>5
        <4> QED
          BY <1>6, <4>1, <4>2, <4>3, NotTaggedIs
      <3>6. CASE m # Nothing
        <4> DEFINE k == m.len = 0
                   n == One(m.len \in 1 .. MIN_ETHERNET_FRAME - 1)
        <4>1. Inner(q) = Decoded("eoip", m.id, k, n)
          BY <3>3, <3>4, <3>6
        <4>2. n \in Int /\ k \in BOOLEAN
          BY DEF One
        <4>3. n = One(Odd(p))
          BY <1>8, <1>10, <2>5, <3>6 DEF One
        <4>4. Tagged(p) /\ p.datagram.meant.id \in Nat
          BY <1>4, <1>7, <1>10, <3>6
        <4> HIDE DEF k, n
        <4>5. e = Decoded("udp", p.datagram.meant.id, k, n)
          BY <2>4, <4>1, <4>2
        <4> QED
          BY <4>2, <4>3, <4>4, <4>5, TaggedIs
      <3> QED
        BY <3>5, <3>6
    <2>6. CASE d.bytes[3] # UDP_INNER_TYPE_EOIP
      <3>1. HoldsEoipV6(rest, m)
        <4>1. Size(rest) = Size(of)
          BY <2>2 DEF Size
        <4> HIDE DEF rest, of
        <4> QED
          BY <2>1, <2>2, <2>6, <4>1 DEF HoldsEoipV6, DecodeEoipV6Header
      <3>2. m # Nothing => m.id \in U16 /\ m.len \in U16 /\ EncodesEoipV6(m.id)
        BY <1>4, <2>1, <2>6
      <3>3. DecodeEoipV6(rest) = IF m = Nothing THEN DecodeError
                                 ELSE Decoded("eoipv6", m.id, m.len = 0, 0)
        <4> HIDE DEF rest, m
        <4> QED
          BY <2>2, <3>1, <3>2, EoipV6Seen
      <3>4. Inner(q) = DecodeEoipV6(rest)
        BY <1>2, <2>6 DEF Inner
      <3>5. 0 = One(Odd(p))
        BY <1>8, <2>6 DEF One
      <3>6. CASE m = Nothing
        <4>1. Inner(q) = Decoded("error", 0, FALSE, 0)
          BY <3>3, <3>4, <3>6 DEF DecodeError
        <4>2. e = Decoded("error", 0, FALSE, 0)
          <5> DEFINE no == FALSE
          <5>1. Inner(q) = Decoded("error", 0, no, 0)
            BY <4>1
          <5> HIDE DEF e, no
          <5>2. e = IF "error" = "error" THEN DecodeError ELSE Decoded("udp", 0, no, 0)
            BY <2>4, <5>1
          <5> QED
            BY <5>2 DEF DecodeError
        <4>3. ~Tagged(p)
          BY <1>7, <3>6
        <4> QED
          BY <1>6, <3>5, <4>2, <4>3, NotTaggedIs
      <3>7. CASE m # Nothing
        <4> DEFINE k == m.len = 0
        <4>1. Inner(q) = Decoded("eoipv6", m.id, k, 0) /\ k \in BOOLEAN
          BY <3>3, <3>4, <3>7
        <4>2. Tagged(p) /\ p.datagram.meant.id \in Nat
          BY <1>4, <1>7, <1>10, <3>7
        <4> HIDE DEF k
        <4>3. e = Decoded("udp", p.datagram.meant.id, k, 0)
          BY <2>4, <4>1
        <4> QED
          BY <3>5, <4>1, <4>2, <4>3, TaggedIs
      <3> QED
        BY <3>6, <3>7
    <2> QED
      BY <2>5, <2>6
  <1> QED
    BY <1>4, <1>9, <1>10

(* Every packet, on a link that the analyzer can read. *)
LEMMA PacketSeen ==
    ASSUME NEW p \in Packets, NEW link \in LinkTypes
    PROVE  IF link = "other" THEN DecodePacket(OnWire(p), link) = DecodeError
           ELSE IF Mistaken(p) THEN SomePacket(DecodePacket(OnWire(p), link))
           ELSE SeenAs(DecodePacket(OnWire(p), link), p)
  <1> DEFINE w == OnWire(p)
             q == IpPayload(w)
             d == p.datagram
  <1>1. CASE link = "other"
    BY <1>1 DEF DecodePacket, Strips
  <1>2. CASE link # "other"
    <2>1. /\ w.proto = WireProto(d) /\ w.expectedPort = d.expectedPort
          /\ q.bytes = PartBytes(p) /\ q.more = PartLen(p) - Len(q.bytes)
          /\ Size(q) = PartLen(p) /\ {"bytes", "more"} \subseteq DOMAIN q
      BY WireIs DEF ReadsAs
    <2> HIDE DEF w, q
    <2>2. CASE WireProto(d) = PROTO_GRE
      <3>1. DecodePacket(w, link) = DecodeEoip(q)
        BY <1>2, <2>1, <2>2 DEF DecodePacket, Strips, PROTO_GRE, PROTO_ETHERIP, PROTO_UDP, q
      <3> QED
        BY <1>2, <2>1, <2>2, <3>1, GreSeen, MistakenSeen DEF w
    <2>3. CASE WireProto(d) = PROTO_ETHERIP
      <3>1. DecodePacket(w, link) = DecodeEoipV6(q)
        BY <1>2, <2>1, <2>3 DEF DecodePacket, Strips, PROTO_GRE, PROTO_ETHERIP, PROTO_UDP, q
      <3> QED
        BY <1>2, <2>1, <2>3, <3>1, EtherIpSeen DEF w, Mistaken, PROTO_GRE, PROTO_ETHERIP, PROTO_UDP
    <2>4. CASE WireProto(d) = PROTO_UDP
      <3>1. DecodePacket(w, link) = DecodeUdp(q, d.expectedPort)
        BY <1>2, <2>1, <2>4 DEF DecodePacket, Strips, PROTO_GRE, PROTO_ETHERIP, PROTO_UDP, q
      <3> QED
        BY <1>2, <2>1, <2>4, <3>1, UdpSeen DEF w, Mistaken, PROTO_GRE, PROTO_ETHERIP, PROTO_UDP
    <2>5. CASE WireProto(d) \notin {PROTO_GRE, PROTO_ETHERIP, PROTO_UDP}
      <3>1. DecodePacket(w, link) = Decoded("other", 0, FALSE, 0)
        BY <1>2, <2>1, <2>5 DEF DecodePacket, Strips, PROTO_GRE, PROTO_ETHERIP, PROTO_UDP
      <3> QED
        BY <1>2, <2>5, <3>1, OtherSeen DEF w, Mistaken
    <2> QED
      BY <2>2, <2>3, <2>4, <2>5
  <1> QED
    BY <1>1, <1>2

--------------------------------------------------------------------------------
(* The counts. *)

OfIn(s, i) == {n \in DOMAIN s : Tagged(s[n]) /\ s[n].datagram.meant.id = i}
OddIn(s) == {n \in DOMAIN s : Odd(s[n])}
Unmistaken(s) == \A n \in DOMAIN s : ~Mistaken(s[n])
InClasses(f) == f["eoip"] + f["eoipv6"] + f["udp"] + f["gre"] + f["other"] + f["error"]
StatsTypes(s) ==
    /\ {"total", "deviations", "class", "tunnel"} \subseteq DOMAIN s
    /\ s.total \in Nat /\ s.deviations \in Nat
    /\ s.class \in [Classes -> Nat] /\ s.tunnel \in [Ids -> Nat]

StatsInv ==
    /\ StatsTypes(stats)
    /\ stats.total = InClasses(stats.class) /\ stats.total = Len(sent)
    /\ Unmistaken(sent) =>
          /\ \A i \in Ids \ {0} : stats.tunnel[i] = IF Reported(i) THEN Cardinality(OfIn(sent, i)) ELSE 0
          /\ Reported(NoFilter) => stats.deviations = Cardinality(OddIn(sent))

LEMMA OneClassMore ==
    ASSUME NEW f \in [Classes -> Nat], NEW c \in Classes, NEW g, g = [f EXCEPT ![c] = @ + 1]
    PROVE  g \in [Classes -> Nat] /\ InClasses(g) = InClasses(f) + 1
  <1>1. g \in [Classes -> Nat]
    OBVIOUS
  <1>2. \A a \in Classes : g[a] = IF a = c THEN f[a] + 1 ELSE f[a]
    OBVIOUS
  <1>3. Classes = {"eoip", "eoipv6", "udp", "gre", "other", "error"}
    BY DEF Classes
  <1>4. /\ f["eoip"] \in Nat /\ f["eoipv6"] \in Nat /\ f["udp"] \in Nat
        /\ f["gre"] \in Nat /\ f["other"] \in Nat /\ f["error"] \in Nat
    BY <1>3
  <1>5. /\ g["eoip"] = IF c = "eoip" THEN f["eoip"] + 1 ELSE f["eoip"]
        /\ g["eoipv6"] = IF c = "eoipv6" THEN f["eoipv6"] + 1 ELSE f["eoipv6"]
        /\ g["udp"] = IF c = "udp" THEN f["udp"] + 1 ELSE f["udp"]
        /\ g["gre"] = IF c = "gre" THEN f["gre"] + 1 ELSE f["gre"]
        /\ g["other"] = IF c = "other" THEN f["other"] + 1 ELSE f["other"]
        /\ g["error"] = IF c = "error" THEN f["error"] + 1 ELSE f["error"]
    BY <1>2, <1>3
  <1>6. InClasses(g) = InClasses(f) + 1
    BY <1>3, <1>4, <1>5 DEF InClasses
  <1> QED
    BY <1>1, <1>6

LEMMA OneMoreCounted ==
    ASSUME NEW A, NEW B, NEW k, NEW c \in BOOLEAN, IsFiniteSet(A), k \notin A,
           B = A \cup (IF c THEN {k} ELSE {})
    PROVE  Cardinality(B) = Cardinality(A) + One(c)
  <1>1. Cardinality(A) \in Nat
    BY FS_CardinalityType
  <1>2. CASE c
    <2>1. Cardinality(A \cup {k}) = Cardinality(A) + 1
      BY FS_AddElement
    <2> QED
      BY <1>2, <2>1 DEF One
  <1>3. CASE ~c
    <2>1. B = A
      BY <1>3
    <2> QED
      BY <1>1, <1>3, <2>1 DEF One
  <1> QED
    BY <1>2, <1>3

LEMMA FiniteIn ==
    ASSUME NEW s, NEW T, s \in Seq(T), NEW i
    PROVE  /\ IsFiniteSet(OfIn(s, i)) /\ IsFiniteSet(OddIn(s))
           /\ Len(s) + 1 \notin OfIn(s, i) /\ Len(s) + 1 \notin OddIn(s)
  <1>1. DOMAIN s = 1 .. Len(s) /\ Len(s) \in Nat
    BY LenProperties
  <1>2. IsFiniteSet(1 .. Len(s))
    BY <1>1, FS_Interval
  <1>3. OfIn(s, i) \subseteq 1 .. Len(s) /\ OddIn(s) \subseteq 1 .. Len(s)
    BY <1>1 DEF OfIn, OddIn
  <1>4. Len(s) + 1 \notin 1 .. Len(s)
    BY <1>1
  <1> QED
    BY <1>2, <1>3, <1>4, FS_Subset

LEMMA OfAppend ==
    ASSUME NEW s, NEW T, s \in Seq(T), NEW p \in T, NEW i
    PROVE  /\ OfIn(Append(s, p), i)
                = OfIn(s, i) \cup (IF Tagged(p) /\ p.datagram.meant.id = i THEN {Len(s) + 1} ELSE {})
           /\ OddIn(Append(s, p)) = OddIn(s) \cup (IF Odd(p) THEN {Len(s) + 1} ELSE {})
  <1> DEFINE r == Append(s, p)
  <1>1. /\ DOMAIN s = 1 .. Len(s) /\ Len(s) \in Nat /\ DOMAIN r = 1 .. Len(s) + 1
        /\ \A n \in 1 .. Len(s) : r[n] = s[n]
        /\ r[Len(s) + 1] = p
    BY AppendProperties, LenProperties
  <1> HIDE DEF r
  <1>2. DOMAIN r = DOMAIN s \cup {Len(s) + 1} /\ Len(s) + 1 \notin DOMAIN s
    BY <1>1
  <1>3. \A n \in DOMAIN s : r[n] = s[n]
    BY <1>1
  <1>4. OfIn(r, i) = OfIn(s, i) \cup (IF Tagged(p) /\ p.datagram.meant.id = i THEN {Len(s) + 1} ELSE {})
    BY <1>1, <1>2, <1>3 DEF OfIn
  <1>5. OddIn(r) = OddIn(s) \cup (IF Odd(p) THEN {Len(s) + 1} ELSE {})
    BY <1>1, <1>2, <1>3 DEF OddIn
  <1> QED
    BY <1>4, <1>5 DEF r

(* One packet more. *)
Known(p, i, link, filter) ==
    filter \in {NoFilter, i} /\ link # "other" /\ Tagged(p) /\ p.datagram.meant.id = i

LEMMA AnalyzeCounts ==
    ASSUME NEW s, StatsTypes(s), s.total = InClasses(s.class), NEW p \in Packets,
           NEW link \in LinkTypes, NEW filter \in Int,
           NEW r, r = Analyze(s, OnWire(p), link, filter)
    PROVE  /\ StatsTypes(r) /\ r.total = InClasses(r.class) /\ r.total = s.total + 1
           /\ ~Mistaken(p) =>
                 /\ \A i \in Ids \ {0} :
                       r.tunnel[i] = IF Known(p, i, link, filter) THEN s.tunnel[i] + 1 ELSE s.tunnel[i]
                 /\ (filter = NoFilter /\ link # "other")
                      => r.deviations = IF Odd(p) THEN s.deviations + 1 ELSE s.deviations
  <1> DEFINE e == DecodePacket(OnWire(p), link)
  <1>1. /\ link = "other" => e = DecodeError
        /\ (link # "other" /\ Mistaken(p)) => SomePacket(e)
        /\ (link # "other" /\ ~Mistaken(p)) => SeenAs(e, p)
    BY PacketSeen
  <1>2. /\ DecodeError.class = "error" /\ DecodeError.tunnel = 0 /\ DecodeError.deviations = 0
        /\ ~Counts(DecodeError) /\ "error" \in Classes /\ "other" \in Classes
    BY DEF DecodeError, Decoded, Counts, Classes
  <1>3. r = IF filter # NoFilter /\ e.class # "error" /\ e.tunnel # filter
            THEN RecordSkipped(s) ELSE Record(s, e)
    BY DEF Analyze
  <1> HIDE DEF e
  <1>4. e.class \in Classes /\ e.tunnel \in Nat /\ e.deviations \in Nat
    <2>1. CASE link = "other"
      BY <1>1, <1>2, <2>1
    <2>2. CASE link # "other"
      BY <1>1, <2>2 DEF SeenAs, SomePacket, One
    <2> QED
      BY <2>1, <2>2
  <1>5. ASSUME NEW i \in Ids \ {0}, ~Mistaken(p)
        PROVE  /\ Known(p, i, link, filter) => Counts(e) /\ e.tunnel = i
               /\ (Counts(e) /\ e.tunnel = i /\ filter \in {NoFilter, i}) => Known(p, i, link, filter)
    <2>1. CASE link = "other"
      BY <1>1, <1>2, <2>1 DEF Known
    <2>2. CASE link # "other"
      BY <1>1, <1>5, <2>2 DEF Known, SeenAs
    <2> QED
      BY <2>1, <2>2
  <1>6. s.total \in Nat /\ s.deviations \in Nat /\ s.class \in [Classes -> Nat] /\ s.tunnel \in [Ids -> Nat]
        /\ {"total", "deviations", "class", "tunnel"} \subseteq DOMAIN s
    BY DEF StatsTypes
  <1>7. CASE filter # NoFilter /\ e.class # "error" /\ e.tunnel # filter
    <2>1. r = [s EXCEPT !.total = @ + 1, !.class["other"] = @ + 1]
      BY <1>3, <1>7 DEF RecordSkipped
    <2>2. /\ r.total = s.total + 1 /\ r.class = [s.class EXCEPT !["other"] = @ + 1]
          /\ r.tunnel = s.tunnel /\ r.deviations = s.deviations /\ DOMAIN r = DOMAIN s
      BY <1>6, <2>1
    <2>3. r.class \in [Classes -> Nat] /\ InClasses(r.class) = InClasses(s.class) + 1
      BY <1>2, <1>6, <2>2, OneClassMore
    <2>4. StatsTypes(r)
      BY <1>6, <2>2, <2>3 DEF StatsTypes
    <2>5. ~Mistaken(p) =>
             \A i \in Ids \ {0} : r.tunnel[i] = IF Known(p, i, link, filter) THEN s.tunnel[i] + 1 ELSE s.tunnel[i]
      <3>1. SUFFICES ASSUME NEW i \in Ids \ {0}, ~Mistaken(p) PROVE ~Known(p, i, link, filter)
        BY <2>2
      <3> QED
        BY <1>5, <1>7, <3>1 DEF Known
    <2> QED
      BY <1>7, <2>2, <2>3, <2>4, <2>5
  <1>8. CASE ~(filter # NoFilter /\ e.class # "error" /\ e.tunnel # filter)
    <2>1. r = Record(s, e)
      BY <1>3, <1>8
    <2>2. /\ r.total = s.total + 1 /\ r.deviations = s.deviations + e.deviations
          /\ r.class = [s.class EXCEPT ![e.class] = @ + 1]
          /\ r.tunnel = [i \in Ids |-> s.tunnel[i] + One(Counts(e) /\ e.tunnel = i)]
          /\ {"total", "deviations", "class", "tunnel"} \subseteq DOMAIN r
      BY <2>1 DEF Record
    <2>3. r.class \in [Classes -> Nat] /\ InClasses(r.class) = InClasses(s.class) + 1
      BY <1>4, <1>6, <2>2, OneClassMore
    <2>4. \A i \in Ids : r.tunnel[i] = IF Counts(e) /\ e.tunnel = i THEN s.tunnel[i] + 1 ELSE s.tunnel[i]
      BY <1>6, <2>2 DEF One
    <2>5. r.tunnel \in [Ids -> Nat]
      BY <1>6, <2>2 DEF One
    <2>6. StatsTypes(r)
      BY <1>4, <1>6, <2>2, <2>3, <2>5 DEF StatsTypes
    <2>7. ~Mistaken(p) =>
             \A i \in Ids \ {0} : r.tunnel[i] = IF Known(p, i, link, filter) THEN s.tunnel[i] + 1 ELSE s.tunnel[i]
      <3>1. SUFFICES ASSUME NEW i \in Ids \ {0}, ~Mistaken(p)
                     PROVE  Known(p, i, link, filter) <=> Counts(e) /\ e.tunnel = i
        BY <2>4
      <3>2. (Counts(e) /\ e.tunnel = i) => filter \in {NoFilter, i}
        BY <1>8 DEF Counts
      <3> QED
        BY <1>5, <3>1, <3>2
    <2>8. (~Mistaken(p) /\ filter = NoFilter /\ link # "other")
             => r.deviations = IF Odd(p) THEN s.deviations + 1 ELSE s.deviations
      BY <1>1, <1>6, <2>2 DEF SeenAs, One
    <2> QED
      BY <2>2, <2>3, <2>6, <2>7, <2>8
  <1> QED
    BY <1>7, <1>8

LEMMA HostTypes == host \in Hosts => host.link \in LinkTypes /\ host.filter \in Int
  BY RxPathAssumption DEF Host

LEMMA InitStats == Init => StatsInv
  <1> SUFFICES ASSUME Init PROVE StatsInv
    OBVIOUS
  <1>1. sent = <<>> /\ stats = NoStats
    BY DEF Init
  <1>2. /\ stats.total = 0 /\ stats.deviations = 0
        /\ stats.class = [c \in Classes |-> 0] /\ stats.tunnel = [i \in Ids |-> 0]
        /\ {"total", "deviations", "class", "tunnel"} \subseteq DOMAIN stats
    BY <1>1 DEF NoStats
  <1>3. InClasses(stats.class) = 0
    BY <1>2 DEF InClasses, Classes
  <1>4. Len(sent) = 0 /\ DOMAIN sent = {}
    BY <1>1
  <1>5. OddIn(sent) = {} /\ \A i : OfIn(sent, i) = {}
    BY <1>4 DEF OddIn, OfIn
  <1>6. Cardinality({}) = 0
    BY FS_EmptySet
  <1>7. StatsTypes(stats) /\ \A i \in Ids : stats.tunnel[i] = 0
    BY <1>2 DEF StatsTypes
  <1>8. Cardinality(OddIn(sent)) = 0 /\ \A i : Cardinality(OfIn(sent, i)) = 0
    BY <1>5, <1>6
  <1>9. \A i \in Ids \ {0} : stats.tunnel[i] = IF Reported(i) THEN Cardinality(OfIn(sent, i)) ELSE 0
    BY <1>7, <1>8
  <1> QED
    BY <1>2, <1>3, <1>4, <1>7, <1>8, <1>9 DEF StatsInv

LEMMA ArriveStats ==
    ASSUME WireInv, WireInv', StatsInv, Arrive
    PROVE  StatsInv'
  <1> DEFINE p == Head(inFlight)
             link == host.link
             filter == host.filter
             s == stats
             r == stats'
             old == sent
             new == sent'
  <1>1. /\ p \in Packets /\ sent' = Append(sent, p) /\ sent \in Seq(Packets)
        /\ host' = host /\ Len(sent') = Len(sent) + 1 /\ Len(sent) \in Nat
    BY ArriveSends DEF Arrive, fixedVars, WireInv
  <1>2. stats' = Analyze(stats, OnWire(p), host.link, host.filter)
    BY DEF Arrive
  <1>3. host.link \in LinkTypes /\ host.filter \in Int
    BY HostTypes DEF WireInv
  <1>4. StatsTypes(s) /\ s.total = InClasses(s.class)
    BY DEF StatsInv
  <1> HIDE DEF p
  <1>5. /\ StatsTypes(r) /\ r.total = InClasses(r.class) /\ r.total = s.total + 1
        /\ ~Mistaken(p) =>
              /\ \A i \in Ids \ {0} :
                    r.tunnel[i] = IF Known(p, i, link, filter) THEN s.tunnel[i] + 1 ELSE s.tunnel[i]
              /\ (filter = NoFilter /\ link # "other")
                   => r.deviations = IF Odd(p) THEN s.deviations + 1 ELSE s.deviations
    <2> HIDE DEF link, filter, s, r
    <2>1. p \in Packets /\ link \in LinkTypes /\ filter \in Int
      BY <1>1, <1>3 DEF link, filter
    <2>2. r = Analyze(s, OnWire(p), link, filter)
      BY <1>2 DEF r, s, link, filter
    <2> QED
      BY <1>4, <2>1, <2>2, AnalyzeCounts
  <1>6. StatsTypes(stats)' /\ (stats.total = InClasses(stats.class))'
    BY <1>5 DEF StatsTypes, InClasses
  <1>7. (stats.total = Len(sent))'
    BY <1>1, <1>5 DEF StatsInv
  <1>10. ASSUME Unmistaken(sent)' PROVE Unmistaken(sent) /\ ~Mistaken(p)
    <2>1. /\ DOMAIN sent = 1 .. Len(sent) /\ DOMAIN sent' = 1 .. Len(sent) + 1
          /\ \A n \in 1 .. Len(sent) : sent'[n] = sent[n]
          /\ sent'[Len(sent) + 1] = p
      BY <1>1, AppendProperties, LenProperties
    <2>2. \A n \in DOMAIN sent' : ~Mistaken(sent'[n])
      BY <1>10 DEF Unmistaken, Mistaken
    <2>3. Len(sent) + 1 \in DOMAIN sent' /\ \A n \in DOMAIN sent : n \in DOMAIN sent'
      BY <1>1, <2>1
    <2> QED
      BY <2>1, <2>2, <2>3 DEF Unmistaken
  <1>8. ASSUME NEW i \in Ids \ {0}, Unmistaken(sent)'
        PROVE  (stats.tunnel[i] = IF Reported(i) THEN Cardinality(OfIn(sent, i)) ELSE 0)'
    <2> DEFINE c == Tagged(p) /\ p.datagram.meant.id = i
    <2>1. OfIn(new, i) = OfIn(old, i) \cup (IF c THEN {Len(old) + 1} ELSE {})
      BY <1>1, OfAppend
    <2>2. IsFiniteSet(OfIn(old, i)) /\ Len(old) + 1 \notin OfIn(old, i)
      BY <1>1, FiniteIn
    <2>3. c \in BOOLEAN
      BY DEF Tagged
    <2>4. Reported(i)' <=> Reported(i)
      BY <1>1 DEF Reported
    <2>5. Reported(i) <=> filter \in {NoFilter, i} /\ link # "other"
      BY DEF Reported
    <2>6. s.tunnel[i] = IF Reported(i) THEN Cardinality(OfIn(old, i)) ELSE 0
      BY <1>8, <1>10 DEF StatsInv
    <2>7. r.tunnel[i] = IF Known(p, i, link, filter) THEN s.tunnel[i] + 1 ELSE s.tunnel[i]
      BY <1>5, <1>8, <1>10
    <2>8. Known(p, i, link, filter) <=> Reported(i) /\ c
      BY <2>5 DEF Known
    <2> HIDE DEF c, r, s, new, old, filter, link
    <2>9. Cardinality(OfIn(new, i)) = Cardinality(OfIn(old, i)) + One(c) /\ Cardinality(OfIn(old, i)) \in Nat
      BY <2>1, <2>2, <2>3, OneMoreCounted, FS_CardinalityType
    <2>10. r.tunnel[i] = IF Reported(i) THEN Cardinality(OfIn(new, i)) ELSE 0
      BY <2>6, <2>7, <2>8, <2>9 DEF One
    <2> QED
      BY <2>4, <2>10 DEF r, new, OfIn, Tagged
  <1>9. ASSUME Unmistaken(sent)'
        PROVE  (Reported(NoFilter) => stats.deviations = Cardinality(OddIn(sent)))'
    <2> DEFINE c == Odd(p)
    <2>1. OddIn(new) = OddIn(old) \cup (IF c THEN {Len(old) + 1} ELSE {})
      BY <1>1, OfAppend
    <2>2. IsFiniteSet(OddIn(old)) /\ Len(old) + 1 \notin OddIn(old)
      BY <1>1, FiniteIn
    <2>3. c \in BOOLEAN
      BY DEF Odd
    <2>4. Reported(NoFilter)' <=> Reported(NoFilter)
      BY <1>1 DEF Reported
    <2>5. Reported(NoFilter) <=> filter = NoFilter /\ link # "other"
      BY DEF Reported
    <2>6. Reported(NoFilter) => s.deviations = Cardinality(OddIn(old))
      BY <1>9, <1>10 DEF StatsInv
    <2>7. Reported(NoFilter) => r.deviations = IF c THEN s.deviations + 1 ELSE s.deviations
      BY <1>5, <1>9, <1>10, <2>5
    <2> HIDE DEF c, r, s, new, old, filter, link
    <2>8. Cardinality(OddIn(new)) = Cardinality(OddIn(old)) + One(c) /\ Cardinality(OddIn(old)) \in Nat
      BY <2>1, <2>2, <2>3, OneMoreCounted, FS_CardinalityType
    <2>9. Reported(NoFilter) => r.deviations = Cardinality(OddIn(new))
      BY <2>6, <2>7, <2>8 DEF One
    <2> QED
      BY <2>4, <2>9 DEF r, new, OddIn
  <1> QED
    BY <1>6, <1>7, <1>8, <1>9 DEF StatsInv

LEMMA SentStays ==
    ASSUME [Next]_vars, ~Arrive
    PROVE  UNCHANGED <<host, sent, stats>>
  <1>1. ASSUME NEW t \in Readers, Reads(t) PROVE UNCHANGED <<host, sent, stats>>
    BY <1>1 DEF Reads, TestRecvmmsg, ReceiveBatch, ReceiveOne, Takes, ProcessNext, fixedVars, wireVars
  <1>2. ASSUME NEW t \in Threads, ThreadEnds(t) PROVE UNCHANGED <<host, sent, stats>>
    BY <1>2 DEF ThreadEnds, fixedVars, wireVars
  <1>3. CASE Send \/ Lose \/ RingSetUp \/ KernelGives \/ WalkRing \/ Stop
    BY <1>3 DEF Send, Lose, RingSetUp, KernelGives, WalkRing, Stop, fixedVars, wireVars
  <1>4. CASE UNCHANGED vars
    BY <1>4 DEF vars, fixedVars, wireVars
  <1> QED
    BY <1>1, <1>2, <1>3, <1>4 DEF Next

LEMMA NextStats == WireInv /\ WireInv' /\ StatsInv /\ [Next]_vars => StatsInv'
  <1> SUFFICES ASSUME WireInv, WireInv', StatsInv, [Next]_vars PROVE StatsInv'
    OBVIOUS
  <1>1. CASE Arrive
    BY <1>1, ArriveStats
  <1>2. CASE ~Arrive
    <2>1. UNCHANGED <<host, sent, stats>>
      BY <1>2, SentStays
    <2> QED
      BY <2>1 DEF StatsInv, StatsTypes, Reported, OfIn, OddIn, Tagged, Odd, Unmistaken, Mistaken
  <1> QED
    BY <1>1, <1>2

--------------------------------------------------------------------------------
(* The theorems. *)

RxInv == PathInv /\ StatsInv

LEMMA RxInvariant == Spec => []RxInv
  <1>1. Init => RxInv
    BY InitPath, InitStats DEF RxInv
  <1>2. RxInv /\ [Next]_vars => RxInv'
    <2> SUFFICES ASSUME RxInv, [Next]_vars PROVE RxInv'
      OBVIOUS
    <2>1. PathInv'
      BY NextPath DEF RxInv
    <2>2. WireInv /\ WireInv'
      BY <2>1 DEF RxInv, PathInv
    <2>3. StatsInv'
      BY <2>2, NextStats DEF RxInv
    <2> QED
      BY <2>1, <2>3 DEF RxInv
  <1> QED
    BY <1>1, <1>2, PTL DEF Spec

LEMMA Span ==
    ASSUME NEW n \in Nat
    PROVE  IsFiniteSet(1 .. n) /\ Cardinality(1 .. n) = n
  <1>1. Cardinality(1 .. n) = IF 1 > n THEN 0 ELSE n - 1 + 1
    BY FS_Interval
  <1> QED
    BY <1>1, FS_Interval

LEMMA OutIsShort ==
    ASSUME WireInv, OutInv
    PROVE  Len(out) <= Len(sent)
  <1> DEFINE S == 1 .. Len(out)
             T == 1 .. Len(sent)
             f == [i \in S |-> out[i].n]
  <1>1. out \in Seq(Frames) /\ sent \in Seq(Packets)
    BY DEF OutInv, WireInv
  <1>2. Len(out) \in Nat /\ Len(sent) \in Nat /\ DOMAIN out = S
    BY <1>1, LenProperties
  <1>3. IsFiniteSet(S) /\ Cardinality(S) = Len(out) /\ IsFiniteSet(T) /\ Cardinality(T) = Len(sent)
    BY <1>2, Span
  <1>4. f \in [S -> T]
    BY <1>2 DEF OutInv, OutFrames
  <1>5. \A i, j \in S : f[i] = f[j] => i = j
    BY <1>2 DEF OutInv, Once
  <1>6. f \in Injection(S, T)
    <2> HIDE DEF f, S, T
    <2> QED
      BY <1>4, <1>5 DEF Injection, IsInjective
  <1> HIDE DEF f, S, T
  <1>7. Cardinality(S) <= Cardinality(T)
    BY <1>3, <1>6, FS_Injection
  <1> QED
    BY <1>3, <1>7

(* The number of frames handed over never exceeds that of the packets,     *)
(* blocks and batches stay within their bounds, and what the ring holds has*)
(* arrived (packet_mmap.rs:226, rx.rs:353).                                *)
THEOREM RxTypes == Spec => []TypeOK
  <1>1. RxInv => TypeOK
    <2> SUFFICES ASSUME RxInv PROVE TypeOK
      OBVIOUS
    <2>1. WireInv /\ ThreadInv /\ RingPath /\ QueueInv /\ OutInv
      BY DEF RxInv, PathInv
    <2>2. RingInv(Len(sent), ringGot) /\ ringGot \in 0 .. Len(sent)
      BY <2>1 DEF RingPath
    <2>3. RingTypes /\ WalkInside /\ Numbered(Len(sent), ringGot)
      BY <2>2 DEF RingInv
    <2>4. RingTypeOK
      <3>1. walked \in Nat /\ walked <= Len(blocks[current]) /\ current \in BlockIds
        BY <2>3 DEF RingTypes, WalkInside
      <3>2. Len(blocks[current]) <= BlockCap /\ Len(blocks[current]) \in Nat /\ BlockCap \in Nat
        BY <2>3, <3>1, BlockIdsAre DEF RingTypes
      <3>3. walked \in 0 .. BlockCap
        BY <3>1, <3>2
      <3> QED
        BY <2>3, <3>3 DEF RingTypes, RingTypeOK
    <2>5. sent \in Seq(Packets) /\ Len(sent) \in Nat /\ DOMAIN sent = 1 .. Len(sent)
      BY <2>1 DEF WireInv
    <2>6. Len(sent) <= MaxPackets
      <3>1. Len(inFlight) \in Nat /\ Len(sent) + Len(inFlight) <= MaxPackets /\ MaxPackets \in Nat
        BY <2>1, Bounds DEF WireInv
      <3> QED
        BY <2>5, <3>1
    <2>7. \A b \in BlockIds : \A i \in DOMAIN blocks[b] : blocks[b][i] \in DOMAIN sent
      BY <2>3, <2>5 DEF Numbered
    <2>8. \A g \in {"v4", "v6"} : Len(sock[g]) <= SockCap
      BY <2>1 DEF QueueInv, Queue, Families
    <2>9. \A t \in Readers : Len(batch[t]) <= Batch
      BY <2>1 DEF QueueInv, Queue
    <2>10. Len(out) <= Len(sent)
      BY <2>1, OutIsShort
    <2>11. host \in Hosts /\ traffic \in Traffics /\ {broken, ringOpen, stopping} \subseteq BOOLEAN
      BY <2>1 DEF WireInv
    <2>12. thread \in [Threads -> {"none", "starting", "batching", "single", "ended"}]
      BY <2>1 DEF ThreadInv, Places
    <2> QED
      BY <2>2, <2>4, <2>6, <2>7, <2>8, <2>9, <2>10, <2>11, <2>12 DEF TypeOK
  <1> QED
    BY <1>1, RxInvariant, PTL

(* A frame that does not come from a later fragment goes to the tunnel it  *)
(* was sent in; every frame to a tunnel of its sender, once, and in order  *)
(* where one thread reads the socket.  It has the length it was sent with  *)
(* if the protocol has it handed over at all and the ring saw it whole and *)
(* without padding (rx.rs:244, 264; rawsock.rs:180).                       *)
THEOREM FramesAreIntact == Spec => []FrameIntact
  <1>1. RxInv => FrameIntact
    <2> SUFFICES ASSUME RxInv, NEW i \in DOMAIN out
                 PROVE  /\ Carries(sent[out[i].n], out[i])
                        /\ \A j \in 1 .. i - 1 :
                              /\ out[j].n # out[i].n
                              /\ (out[j].id = out[i].id /\ out[j].peer = out[i].peer
                                  /\ Cardinality(WorkersOf(host)) <= 1) => out[j].n < out[i].n
      BY DEF FrameIntact, Carries
    <2>1. /\ out \in Seq(Frames) /\ OutFrames /\ Once(out) /\ OutOrdered /\ sent \in Seq(Packets)
      BY DEF RxInv, PathInv, OutInv, WireInv
    <2>2. Carries(sent[out[i].n], out[i])
      BY <2>1 DEF OutFrames
    <2>3. ASSUME NEW j \in 1 .. i - 1
          PROVE  /\ out[j].n # out[i].n
                 /\ (out[j].id = out[i].id /\ out[j].peer = out[i].peer
                     /\ Cardinality(WorkersOf(host)) <= 1) => out[j].n < out[i].n
      <3>1. DOMAIN out = 1 .. Len(out) /\ Len(out) \in Nat
        BY <2>1, LenProperties
      <3>2. j \in DOMAIN out /\ i # j /\ j < i
        BY <3>1
      <3>3. out[j].n # out[i].n
        BY <2>1, <3>2 DEF Once
      <3>4. ASSUME out[j].peer = out[i].peer, Cardinality(WorkersOf(host)) <= 1
            PROVE  out[j].n < out[i].n
        <4> DEFINE p == sent[out[i].n]
                   r == sent[out[j].n]
        <4>1. Carries(p, out[i]) /\ Carries(r, out[j]) /\ out[i].n \in 1 .. Len(sent) /\ out[j].n \in 1 .. Len(sent)
          BY <2>1, <3>2 DEF OutFrames
        <4>2. p \in Packets /\ r \in Packets
          BY <2>1, <4>1, ElementOfSeq
        <4>3. p.datagram \in Datagrams /\ r.datagram \in Datagrams /\ p.datagram.peer = r.datagram.peer
          BY <3>4, <4>1, <4>2 DEF Packets, Carries
        <4>4. p.datagram.family = r.datagram.family
          BY <4>3, RxPathAssumption
        <4>5. Ordered(out, sent)
          BY <2>1, <3>4 DEF OutOrdered
        <4> QED
          BY <3>2, <4>4, <4>5 DEF Ordered
      <3> QED
        BY <3>3, <3>4
    <2> QED
      BY <2>2, <2>3
  <1> QED
    BY <1>1, RxInvariant, PTL

(* For every capture and filter the analyzer's classes add up to what it   *)
(* saw, the frames it finds on the wire cover those the daemon handed over,*)
(* and its counts of tunnels and deviations are right unless a later       *)
(* fragment began like a header (decode.rs:66, stats.rs:55).               *)
THEOREM AnalyzerCounts == Spec => []AnalyzerAgrees
  <1>1. RxInv => AnalyzerAgrees
    <2> SUFFICES ASSUME RxInv PROVE AnalyzerAgrees
      OBVIOUS
    <2>1. StatsInv /\ OutFrames /\ sent \in Seq(Packets)
      BY DEF RxInv, PathInv, OutInv, WireInv
    <2>2. ASSUME NEW i PROVE Of(i) = OfIn(sent, i)
      BY DEF Of, OfIn, Tagged
    <2>3. ASSUME NEW i PROVE HandedFromWire(i) \subseteq Of(i)
      <3> SUFFICES ASSUME NEW j \in DOMAIN out, out[j].id = i, sent[out[j].n].part # "later",
                          ~sent[out[j].n].datagram.esp
                   PROVE  out[j].n \in Of(i)
        BY DEF HandedFromWire
      <3>1. Carries(sent[out[j].n], out[j]) /\ out[j].n \in 1 .. Len(sent)
        BY <2>1 DEF OutFrames
      <3>2. out[j].n \in DOMAIN sent
        BY <2>1, <3>1
      <3> QED
        BY <3>1, <3>2 DEF Of, Carries, ByChance, PROTO_GRE, PROTO_ETHERIP, PROTO_UDP
    <2>4. {n \in DOMAIN sent : Odd(sent[n])} = OddIn(sent)
      BY DEF OddIn
    <2>5. Unmistaken(sent) =>
             \A i \in Ids \ {0} : stats.tunnel[i] = IF Reported(i) THEN Cardinality(Of(i)) ELSE 0
      BY <2>1, <2>2 DEF StatsInv
    <2>6. (Unmistaken(sent) /\ Reported(NoFilter)) => stats.deviations = Cardinality({n \in DOMAIN sent : Odd(sent[n])})
      BY <2>1, <2>4 DEF StatsInv
    <2>7. /\ stats.total = Len(sent)
          /\ stats.total = stats.class["eoip"] + stats.class["eoipv6"] + stats.class["udp"]
                           + stats.class["gre"] + stats.class["other"] + stats.class["error"]
      BY <2>1 DEF StatsInv, InClasses
    <2> QED
      BY <2>3, <2>5, <2>6, <2>7 DEF AnalyzerAgrees, Unmistaken
  <1> QED
    BY <1>1, RxInvariant, PTL
================================================================================
