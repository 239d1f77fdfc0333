--------------------------- MODULE HelperLinkProofs ----------------------------
(***************************************************************************)
(* What the helper's steps preserve of the link, and what a read of the    *)
(* stream returns.  Used by the proofs about both compositions.            *)
(***************************************************************************)
EXTENDS HelperLink, SequenceTheorems, TLAPS

(* A read takes a typed queue to a typed queue, and its first message is   *)
(* a message.                                                              *)
LEMMA ReadType ==
    ASSUME NEW q \in Seq(HelperMsgs), NEW n \in 1 .. Len(q)
    PROVE  After(q, n) \in Seq(HelperMsgs) /\ q[1] \in HelperMsgs /\ Head(q) = q[1]
  <1>1. q # <<>>
    OBVIOUS
  <1>2. n + 1 \in Int /\ Len(q) \in Int
    OBVIOUS
  <1>3. After(q, n) \in Seq(HelperMsgs)
    BY <1>2, SubSeqProperties DEF After
  <1> QED
    BY <1>1, <1>3

(* A read takes at least one message off a queue: all up to and with the   *)
(* first that carries a descriptor.                                        *)
LEMMA ReadFacts ==
    ASSUME LinkTypeOK, NEW n \in 1 .. Len(toDaemon), ReadsUpTo(toDaemon, n),
           toDaemon' = After(toDaemon, n)
    PROVE  /\ toDaemon' \in Seq(HelperMsgs)
           /\ Len(toDaemon') = Len(toDaemon) - n
           /\ DOMAIN toDaemon' = 1 .. Len(toDaemon')
           /\ \A i \in 1 .. Len(toDaemon') : toDaemon'[i] = toDaemon[i + n]
           /\ \A i \in 1 .. Len(toDaemon') : i + n \in 1 .. Len(toDaemon) /\ i + n # 1
           /\ Head(toDaemon) = toDaemon[1] /\ toDaemon[1] \in HelperMsgs
           /\ toDaemon[n] \in HelperMsgs
           /\ CarriesFd(toDaemon[1]) => n = 1
           /\ n = Len(toDaemon) \/ CarriesFd(toDaemon[n])
  <1>1. toDaemon \in Seq(HelperMsgs) /\ Len(toDaemon) \in Nat
    BY DEF LinkTypeOK
  <1>2. After(toDaemon, n) \in Seq(HelperMsgs) /\ toDaemon[1] \in HelperMsgs /\ Head(toDaemon) = toDaemon[1]
    BY <1>1, ReadType
  <1>3. toDaemon' = SubSeq(toDaemon, n + 1, Len(toDaemon))
    BY DEF After
  <1>4. /\ Len(toDaemon') = Len(toDaemon) - n
        /\ \A i \in 1 .. Len(toDaemon') : toDaemon'[i] = toDaemon[i + n]
    <2>1. n + 1 \in Int /\ Len(toDaemon) \in Int /\ n + 1 >= 1
      BY <1>1
    <2> QED
      BY <1>1, <1>3, <2>1, SubSeqProperties
  <1>5. \A i \in 1 .. Len(toDaemon') : i + n \in 1 .. Len(toDaemon) /\ i + n # 1
    BY <1>1, <1>4
  <1>6. CarriesFd(toDaemon[1]) => n = 1
    <2>1. n # 1 => 1 \in 1 .. n - 1
      BY <1>1
    <2> QED
      BY <2>1 DEF ReadsUpTo
  <1>7. n = Len(toDaemon) \/ CarriesFd(toDaemon[n])
    BY DEF ReadsUpTo
  <1>8. toDaemon[n] \in HelperMsgs
    BY <1>1
  <1>9. toDaemon' \in Seq(HelperMsgs) /\ DOMAIN toDaemon' = 1 .. Len(toDaemon')
    BY <1>2
  <1> QED
    BY <1>2, <1>4, <1>5, <1>6, <1>7, <1>8, <1>9

(* A queue of messages is indexed from 1 to its length. *)
LEMMA QueueFacts ==
    ASSUME LinkTypeOK
    PROVE  Len(toDaemon) \in Nat /\ DOMAIN toDaemon = 1 .. Len(toDaemon)
  BY DEF LinkTypeOK

(* Sending adds one message at the end. *)
LEMMA SendFacts ==
    ASSUME LinkTypeOK, NEW m, HelperSend(m)
    PROVE  /\ Len(toDaemon') = Len(toDaemon) + 1
           /\ DOMAIN toDaemon' = 1 .. Len(toDaemon) + 1
           /\ toDaemon'[Len(toDaemon) + 1] = m
           /\ \A i \in 1 .. Len(toDaemon) : toDaemon'[i] = toDaemon[i]
  BY DEF LinkTypeOK, HelperSend

(* Sending a message of the protocol keeps the daemon's queue typed.       *)
LEMMA HelperSendType ==
    ASSUME NEW m \in HelperMsgs, toDaemon \in Seq(HelperMsgs), HelperSend(m)
    PROVE  toDaemon' \in Seq(HelperMsgs)
  BY DEF HelperSend

LEMMA MsgType ==
    ASSUME NEW k \in {"HelperReady", "TapCreated", "RawSocket4", "RawSocket6", "Error"},
           NEW r \in Requests \cup {NoRequest}
    PROVE  Msg(k, r) \in HelperMsgs
  BY DEF Msg, HelperMsgs

(* Every step of the helper process keeps the link's variables typed.      *)
LEMMA HelperStepType ==
    ASSUME LinkTypeOK, HelperStep \/ HelperHangup \/ HelperDies
    PROVE  LinkTypeOK'
  <1> USE DEF LinkTypeOK
  <1>1. CASE HelperStart
    BY <1>1, MsgType, HelperSendType DEF HelperStart
  <1>2. CASE HelperReceive
    BY <1>2 DEF HelperReceive
  <1>3. CASE HelperCreateTap
    BY <1>3, MsgType, HelperSendType DEF HelperCreateTap
  <1>4. ASSUME HelperFails PROVE LinkTypeOK'
    <2>1. CASE host.exitMode
      BY <1>4, <2>1 DEF HelperFails
    <2>2. CASE ~host.exitMode
      BY <1>4, <2>2, MsgType, HelperSendType DEF HelperFails
    <2> QED
      BY <2>1, <2>2
  <1>5. CASE HelperTapFails
    BY <1>4, <1>5 DEF HelperTapFails
  <1>6. CASE HelperRawV4
    BY <1>6, MsgType, HelperSendType DEF HelperRawV4
  <1>7. CASE HelperRawV4Fails
    BY <1>4, <1>7 DEF HelperRawV4Fails
  <1>8. CASE HelperRawV6
    BY <1>8, MsgType, HelperSendType DEF HelperRawV6
  <1>9. CASE HelperHangup
    BY <1>9 DEF HelperHangup
  <1>10. CASE HelperDies
    BY <1>10 DEF HelperDies
  <1> QED
    BY <1>1, <1>2, <1>3, <1>5, <1>6, <1>7, <1>8, <1>9, <1>10 DEF HelperStep

================================================================================
