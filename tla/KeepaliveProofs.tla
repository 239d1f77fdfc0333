---------------------------- MODULE KeepaliveProofs ----------------------------
(***************************************************************************)
(* Proofs about Keepalive, for any number of receive threads, any rate of  *)
(* clock reads, any interval and any timeout.                              *)
(***************************************************************************)
EXTENDS Keepalive, TLAPS

LEMMA AgesAreNumbers ==
    /\ MaxAge \in Nat /\ Timeout \in Nat /\ Interval \in Nat \ {0}
    /\ Ages \subseteq Nat /\ NoTime \notin Ages /\ 0 \in Ages
    /\ MaxAge = Timeout + Interval + 1
  BY KeepaliveAssumption DEF MaxAge, Ages

(* Ageing keeps ages, and their order.                                     *)
LEMMA OlderAge ==
    ASSUME NEW a \in Ages
    PROVE  /\ Older(a) \in Ages /\ Older(a) # NoTime /\ Older(a) <= a + 1
           /\ \A b \in Ages : a <= b => Older(a) <= Older(b)
  BY AgesAreNumbers DEF Older, Ages

LEMMA OlderType ==
    ASSUME NEW a \in Ages \cup {NoTime}
    PROVE  Older(a) \in Ages \cup {NoTime} /\ (Older(a) = NoTime <=> a = NoTime)
  BY AgesAreNumbers, OlderAge DEF Older

--------------------------------------------------------------------------------
(* Types. *)

(* A thread that reads the clock keeps its counter below Refresh and gets  *)
(* an age.                                                                 *)
LEMMA ReadClockType ==
    ASSUME TypeOK, NEW t \in Threads, ReadClock(t)
    PROVE  /\ count' \in [Threads -> 0 .. Refresh - 1]
           /\ cached' \in [Threads -> Ages]
           /\ CoarseTime(t) \in Ages
  <1>1. (count[t] + 1) % Refresh \in 0 .. Refresh - 1
    BY KeepaliveAssumption DEF TypeOK
  <1>2. CoarseTime(t) \in Ages
    BY AgesAreNumbers DEF TypeOK, CoarseTime
  <1> QED
    BY <1>1, <1>2 DEF TypeOK, ReadClock

LEMMA TypeInit == Init => TypeOK
  <1>1. 0 \in 0 .. Refresh - 1 /\ MaxAge \in Ages /\ Interval \in 0 .. Interval
    BY AgesAreNumbers, KeepaliveAssumption DEF Ages
  <1> QED
    BY <1>1 DEF Init, TypeOK

LEMMA TypeNext == TypeOK /\ [Next]_vars => TypeOK'
  <1> SUFFICES ASSUME TypeOK, [Next]_vars PROVE TypeOK'
    OBVIOUS
  <1>1. ASSUME NEW t \in Threads, Receive(t) PROVE TypeOK'
    BY <1>1, ReadClockType, AgesAreNumbers DEF Receive, TypeOK
  <1>2. ASSUME NEW t \in Threads, StoreStamp(t) PROVE TypeOK'
    BY <1>2 DEF StoreStamp, TypeOK
  <1>3. ASSUME NEW t \in Threads, ReceiveOther(t) PROVE TypeOK'
    BY <1>3, ReadClockType DEF ReceiveOther, TypeOK
  <1>4. CASE Measure
    BY <1>4, AgesAreNumbers DEF Measure, TypeOK
  <1>5. CASE Decide
    BY <1>5 DEF Decide, TypeOK
  <1>6. CASE MoveState
    BY <1>6 DEF MoveState, TypeOK, AfterTransition
  <1>7. CASE Cancel
    BY <1>7 DEF Cancel, TypeOK
  <1>8. CASE Stop
    BY <1>8 DEF Stop, TypeOK
  <1>9. CASE Tick
    <2>1. \A t \in Threads : Older(cached[t]) \in Ages
      BY OlderAge DEF TypeOK
    <2>2. Older(last) \in Ages \cup {NoTime} /\ Older(heard) \in Ages \cup {NoTime}
      BY OlderType DEF TypeOK
    <2>3. due' \in 0 .. Interval
      BY <1>9, AgesAreNumbers DEF Tick, TypeOK
    <2> QED
      BY <1>9, <2>1, <2>2, <2>3 DEF Tick, TypeOK
  <1>10. CASE UNCHANGED vars
    BY <1>10 DEF vars, TypeOK
  <1> QED
    BY <1>1, <1>2, <1>3, <1>4, <1>5, <1>6, <1>7, <1>8, <1>9, <1>10 DEF Next, TaskStep

(* The state keeps its type; above all, no packet counter reaches Refresh  *)
(* (rx.rs:190).                                                            *)
THEOREM TypeCorrect == Spec => []TypeOK
  BY TypeInit, TypeNext, PTL DEF Spec

--------------------------------------------------------------------------------
(* Silence. *)

(* A packet whose stamp is not stored yet came just now; the stamp of a    *)
(* tunnel, and an age measured from it, is no younger than its last packet.*)
StampsAreOld ==
    /\ \A t \in Threads : stamp[t] # NoTime => heard = 0
    /\ last # NoTime => heard # NoTime /\ heard <= last
    /\ pc = "measured" => elapsed # NoTime /\ heard # NoTime /\ heard <= elapsed

(* Between two checks of an Active tunnel there is room for the rest of    *)
(* the interval; a check takes no time.                                    *)
InTime ==
    /\ pc \in {"measured", "Stale", "Active"} => due = Interval
    /\ pc = "Active" => heard # NoTime /\ heard <= Timeout
    /\ state = "Active" /\ last # NoTime /\ pc = "waiting" => heard + due <= Timeout + Interval
    /\ DetectsSilence

SilenceInv == TypeOK /\ StampsAreOld /\ InTime

LEMMA SilenceInit == Init => SilenceInv
  BY TypeInit DEF Init, SilenceInv, StampsAreOld, InTime, DetectsSilence

(* A packet comes: it was heard now. *)
LEMMA ReceiveKeeps ==
    ASSUME SilenceInv, TypeOK', NEW t \in Threads, Receive(t)
    PROVE  SilenceInv'
  <1>1. /\ heard' = 0 /\ 0 # NoTime
        /\ UNCHANGED <<last, state, pc, elapsed, due>>
    BY KeepaliveAssumption DEF Receive
  <1>2. last # NoTime => 0 <= last
    BY AgesAreNumbers DEF SilenceInv, TypeOK
  <1>3. pc = "measured" => elapsed # NoTime /\ 0 <= elapsed
    BY AgesAreNumbers DEF SilenceInv, StampsAreOld, TypeOK
  <1>4. 0 <= Timeout /\ 0 <= Timeout + Interval /\ 0 + due <= Timeout + Interval
    BY AgesAreNumbers DEF SilenceInv, TypeOK
  <1>5. StampsAreOld'
    BY <1>1, <1>2, <1>3 DEF StampsAreOld
  <1>6. InTime'
    BY <1>1, <1>4 DEF SilenceInv, InTime, DetectsSilence
  <1> QED
    BY <1>5, <1>6 DEF SilenceInv

(* Its stamp is stored, before any time has passed. *)
LEMMA StoreKeeps ==
    ASSUME SilenceInv, TypeOK', NEW t \in Threads, StoreStamp(t)
    PROVE  SilenceInv'
  <1>1. /\ heard = 0 /\ last' = stamp[t] /\ stamp[t] \in Ages /\ 0 # NoTime
        /\ UNCHANGED <<heard, state, pc, elapsed, due>>
    BY KeepaliveAssumption DEF StoreStamp, SilenceInv, StampsAreOld, TypeOK
  <1>2. 0 <= stamp[t] /\ 0 <= Timeout + Interval /\ 0 + due <= Timeout + Interval
    BY <1>1, AgesAreNumbers DEF SilenceInv, TypeOK
  <1>3. \A u \in Threads : stamp'[u] # NoTime => stamp[u] # NoTime
    BY DEF StoreStamp, SilenceInv, TypeOK
  <1>4. StampsAreOld'
    BY <1>1, <1>2, <1>3 DEF SilenceInv, StampsAreOld
  <1>5. InTime'
    BY <1>1, <1>2 DEF SilenceInv, InTime, DetectsSilence
  <1> QED
    BY <1>4, <1>5 DEF SilenceInv

(* The task measures the age of the stamp. *)
LEMMA MeasureKeeps ==
    ASSUME SilenceInv, TypeOK', Measure
    PROVE  SilenceInv'
  <1>1. StampsAreOld'
    BY DEF Measure, SilenceInv, StampsAreOld
  <1>2. InTime'
    BY DEF Measure, SilenceInv, InTime, DetectsSilence
  <1> QED
    BY <1>1, <1>2 DEF SilenceInv

(* It finds the tunnel silent for more than the timeout, or hears it.      *)
LEMMA DecideKeeps ==
    ASSUME SilenceInv, TypeOK', Decide
    PROVE  SilenceInv'
  <1>1. /\ pc = "measured" /\ due = Interval /\ elapsed \in Nat /\ heard \in Nat
        /\ heard <= elapsed
        /\ UNCHANGED <<stamp, last, heard, state, elapsed, due>>
    BY AgesAreNumbers DEF Decide, SilenceInv, StampsAreOld, InTime, TypeOK
  <1>2. StampsAreOld'
    BY <1>1 DEF Decide, SilenceInv, StampsAreOld
  <1>3. pc' = "Active" => heard <= Timeout
    BY <1>1, AgesAreNumbers DEF Decide
  <1>4. state = "Active" /\ pc' = "waiting" => elapsed <= Timeout
    BY <1>1, AgesAreNumbers DEF Decide
  <1>5. state = "Active" /\ pc' = "waiting" => heard + due <= Timeout + Interval
    BY <1>1, <1>4, AgesAreNumbers
  <1>6. heard # NoTime
    BY <1>1, KeepaliveAssumption
  <1>7. InTime'
    BY <1>1, <1>3, <1>5, <1>6 DEF SilenceInv, InTime, DetectsSilence
  <1> QED
    BY <1>2, <1>7 DEF SilenceInv

(* It moves the state. *)
LEMMA MoveKeeps ==
    ASSUME SilenceInv, TypeOK', MoveState
    PROVE  SilenceInv'
  <1>1. /\ pc' = "waiting" /\ due = Interval
        /\ UNCHANGED <<stamp, last, heard, elapsed, due>>
    BY DEF MoveState, SilenceInv, InTime
  <1>2. pc = "Stale" => state' = "Stale"
    BY DEF MoveState, SilenceInv, TypeOK, AfterTransition, IsValidTransition, ValidTransitions
  <1>3. pc = "Stale" \/ pc = "Active"
    BY DEF MoveState
  <1>4. pc = "Active" => heard \in Nat /\ heard <= Timeout
    BY AgesAreNumbers DEF SilenceInv, InTime, TypeOK
  <1>5. pc = "Active" => heard + due <= Timeout + Interval /\ heard <= Timeout + Interval
    BY <1>1, <1>4, AgesAreNumbers
  <1>6. StampsAreOld'
    BY <1>1 DEF SilenceInv, StampsAreOld
  <1>7. InTime'
    BY <1>1, <1>2, <1>3, <1>5 DEF InTime, DetectsSilence
  <1> QED
    BY <1>6, <1>7 DEF SilenceInv

LEMMA Shift ==
    ASSUME NEW silent \in Nat, NEW rest \in Nat, rest > 0, NEW n \in Nat, silent + rest <= n,
           NEW later \in Nat, later <= silent + 1
    PROVE  later + (rest - 1) <= n /\ later <= n
  OBVIOUS

(* Time passes: what the silence gains the rest of the interval loses.     *)
LEMMA TickKeeps ==
    ASSUME SilenceInv, TypeOK', Tick
    PROVE  SilenceInv'
  <1>1. /\ pc = "stopped" \/ (pc = "waiting" /\ due > 0)
        /\ last' = Older(last) /\ heard' = Older(heard)
        /\ UNCHANGED <<stamp, state, pc, elapsed>>
        /\ due > 0 => due' = due - 1
        /\ \A t \in Threads : stamp[t] = NoTime
    BY DEF Tick
  <1>2. last' # NoTime => last # NoTime /\ last \in Ages /\ heard \in Ages /\ heard <= last
    BY <1>1, OlderType DEF SilenceInv, StampsAreOld, TypeOK
  <1>3. last' # NoTime => heard' # NoTime /\ heard' <= last' /\ heard' \in Ages /\ heard' <= heard + 1
    BY <1>1, <1>2, OlderAge
  <1>4. StampsAreOld'
    BY <1>1, <1>3 DEF StampsAreOld
  <1>5. ASSUME state = "Active", last' # NoTime, pc = "waiting"
        PROVE  heard' + due' <= Timeout + Interval /\ heard' <= Timeout + Interval
    <2>1. heard + due <= Timeout + Interval /\ due \in Nat /\ due > 0 /\ due' = due - 1
      BY <1>1, <1>2, <1>5, AgesAreNumbers DEF SilenceInv, InTime, TypeOK
    <2>2. heard \in Nat /\ heard' \in Nat /\ heard' <= heard + 1
      BY <1>2, <1>3, <1>5, AgesAreNumbers
    <2> QED
      <3>1. Timeout + Interval \in Nat
        BY AgesAreNumbers
      <3>2. heard' + (due - 1) <= Timeout + Interval /\ heard' <= Timeout + Interval
        BY <2>1, <2>2, <3>1, Shift
      <3> QED
        BY <2>1, <3>2
  <1>6. InTime'
    BY <1>1, <1>5 DEF InTime, DetectsSilence
  <1> QED
    BY <1>4, <1>6 DEF SilenceInv

LEMMA SilenceNext == SilenceInv /\ [Next]_vars => SilenceInv'
  <1> SUFFICES ASSUME SilenceInv, [Next]_vars PROVE SilenceInv'
    OBVIOUS
  <1>1. TypeOK'
    BY TypeNext DEF SilenceInv
  <1>2. ASSUME NEW t \in Threads, ReceiveOther(t) PROVE SilenceInv'
    BY <1>1, <1>2 DEF ReceiveOther, SilenceInv, StampsAreOld, InTime, DetectsSilence
  <1>3. CASE Cancel
    BY <1>1, <1>3 DEF Cancel, SilenceInv, StampsAreOld, InTime, DetectsSilence
  <1>4. CASE Stop
    BY <1>1, <1>4 DEF Stop, SilenceInv, StampsAreOld, InTime, DetectsSilence
  <1>5. CASE UNCHANGED vars
    BY <1>1, <1>5 DEF vars, SilenceInv, StampsAreOld, InTime, DetectsSilence
  <1> QED
    BY <1>1, <1>2, <1>3, <1>4, <1>5, ReceiveKeeps, StoreKeeps, MeasureKeeps, DecideKeeps,
       MoveKeeps, TickKeeps DEF Next, TaskStep

(* "detect stale tunnels when no packets are received within the timeout"  *)
(* (keepalive.rs:2): an Active tunnel was heard within the timeout and one *)
(* interval, however rarely its threads read the clock.                    *)
THEOREM SilenceIsDetected == Spec => []DetectsSilence
  <1>1. SilenceInv => DetectsSilence
    BY DEF SilenceInv, InTime
  <1> QED
    BY <1>1, SilenceInit, SilenceNext, PTL DEF Spec
================================================================================
