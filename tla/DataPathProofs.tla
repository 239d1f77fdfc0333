---------------------------- MODULE DataPathProofs -----------------------------
(***************************************************************************)
(* Proofs about DataPath, for any number of handles, keys, threads and     *)
(* descriptors and any bounds.                                             *)
(***************************************************************************)
EXTENDS DataPath, FiniteSetTheorems, TLAPS

ReaderStates == {"none", "creating", "reading", "sending", "stopped"}

(* Who holds a TAP has its number in fd, and the number is that TAP's.     *)
TapTypes ==
    /\ fd \in [Handles -> Descriptors \cup {Nobody}]
    /\ open \in [Descriptors -> Handles \cup {Nobody}]
    /\ reader \in [Handles -> ReaderStates]
    /\ tracked \subseteq Handles

HeldIsOpen == \A h \in Handles : TapHeld(h) => fd[h] \in Descriptors /\ open[fd[h]] = h

TapInv == TapTypes /\ HeldIsOpen

LEMMA InitTapInv == Init => TapInv
  <1> SUFFICES ASSUME Init PROVE TapInv
    OBVIOUS
  <1> USE DataPathAssumption
  <1>1. AtStartup \subseteq Handles
    BY DEF AtStartup
  <1>2. /\ fd \in [Handles -> Descriptors \cup {Nobody}]
        /\ \A h \in Handles : fd[h] # Nobody <=> h \in AtStartup
        /\ \A g, h \in AtStartup : fd[g] = fd[h] => g = h
        /\ open = [d \in Descriptors |-> IF \E h \in AtStartup : fd[h] = d
                                         THEN CHOOSE h \in AtStartup : fd[h] = d
                                         ELSE Nobody]
        /\ tracked = AtStartup
        /\ reader = [h \in Handles |-> IF h \in AtStartup THEN "reading" ELSE "none"]
    BY DEF Init
  <1>3. \A d \in Descriptors : open[d] \in Handles \cup {Nobody}
    <2> TAKE d \in Descriptors
    <2>1. CASE \E h \in AtStartup : fd[h] = d
      <3>1. (CHOOSE h \in AtStartup : fd[h] = d) \in AtStartup
        BY <2>1
      <3> QED
        BY <1>1, <1>2, <2>1, <3>1
    <2>2. CASE ~ \E h \in AtStartup : fd[h] = d
      BY <1>2, <2>2
    <2> QED
      BY <2>1, <2>2
  <1>4. TapTypes
    BY <1>1, <1>2, <1>3 DEF TapTypes, ReaderStates
  <1>5. ASSUME NEW h \in Handles, TapHeld(h)
        PROVE  fd[h] \in Descriptors /\ open[fd[h]] = h
    <2>1. h \in AtStartup
      BY <1>2, <1>5 DEF TapHeld, ReaderRuns
    <2>2. fd[h] \in Descriptors
      BY <1>2, <2>1
    <2>3. (CHOOSE g \in AtStartup : fd[g] = fd[h]) = h
      BY <1>2, <2>1
    <2> QED
      BY <1>2, <2>1, <2>2, <2>3
  <1> QED
    BY <1>2, <1>4, <1>5 DEF TapInv, HeldIsOpen

(* Closing the TAP of a handle, if nobody holds it, disturbs no other.     *)
LEMMA DropTapInv ==
    ASSUME TapInv, NEW h \in Handles, DropTap(h), fd' = fd,
           tracked' \subseteq tracked,
           reader' \in [Handles -> ReaderStates],
           \A g \in Handles : ReaderRuns(g)' => ReaderRuns(g)
    PROVE  TapInv'
  <1> USE DEF TapInv
  <1>1. TapTypes'
    BY DEF TapTypes, DropTap
  <1>2. ASSUME NEW g \in Handles, TapHeld(g)'
        PROVE  fd'[g] \in Descriptors /\ open'[fd'[g]] = g
    <2>1. TapHeld(g)
      BY <1>2 DEF TapHeld
    <2>2. fd[g] \in Descriptors /\ open[fd[g]] = g
      BY <2>1 DEF HeldIsOpen
    <2>3. CASE g = h
      BY <1>2, <2>2, <2>3 DEF DropTap
    <2>4. CASE g # h
      BY <2>2, <2>4 DEF DropTap, TapTypes
    <2> QED
      BY <2>3, <2>4
  <1> QED
    BY <1>1, <1>2 DEF HeldIsOpen

LEMMA TunnelTapInv ==
    ASSUME TapInv, NEW h \in Handles, TunnelStep(h)
    PROVE  TapInv'
  <1> USE DEF TapInv
  <1>1. ASSUME NEW k \in Keys, Register(h, k)
        PROVE  TapInv'
    <2>1. /\ fd' = fd /\ open' = open /\ tracked' = tracked
          /\ reader[h] = "none"
          /\ reader' = [reader EXCEPT ![h] = "creating"]
      BY <1>1 DEF Register, fdVars
    <2> QED
      BY <2>1 DEF TapTypes, ReaderStates, HeldIsOpen, TapHeld, ReaderRuns
  <1>2. CASE CreateFails(h)
    <2>1. /\ fd' = fd /\ open' = open /\ tracked' = tracked
          /\ reader' = [reader EXCEPT ![h] = "stopped"]
      BY <1>2 DEF CreateFails, fdVars
    <2> QED
      BY <2>1 DEF TapTypes, ReaderStates, HeldIsOpen, TapHeld, ReaderRuns
  <1>3. CASE Start(h)
    <2>1. PICK d \in Descriptors : /\ LowestFree(d)
                                   /\ open' = [open EXCEPT ![d] = h]
                                   /\ fd' = [fd EXCEPT ![h] = d]
      BY <1>3 DEF Start
    <2>2. /\ reader[h] = "creating"
          /\ reader' = [reader EXCEPT ![h] = "reading"]
          /\ tracked' = tracked \cup {h}
      BY <1>3 DEF Start
    <2>3. open[d] = Nobody
      BY <2>1 DEF LowestFree
    <2>4. TapTypes'
      BY <2>1, <2>2 DEF TapTypes, ReaderStates
    <2>5. ASSUME NEW g \in Handles, TapHeld(g)'
          PROVE  fd'[g] \in Descriptors /\ open'[fd'[g]] = g
      <3>1. CASE g = h
        BY <2>1, <3>1 DEF TapTypes
      <3>2. CASE g # h
        <4>1. TapHeld(g)
          BY <2>2, <2>5, <3>2 DEF TapHeld, ReaderRuns, TapTypes
        <4>2. fd[g] \in Descriptors /\ open[fd[g]] = g
          BY <4>1 DEF HeldIsOpen
        <4>3. fd[g] # d
          BY <2>3, <4>2, DataPathAssumption
        <4> QED
          BY <2>1, <3>2, <4>2, <4>3 DEF TapTypes
      <3> QED
        BY <3>1, <3>2
    <2> QED
      BY <2>4, <2>5 DEF HeldIsOpen
  <1>4. CASE Cancel(h)
    <2>1. /\ DropTap(h) /\ fd' = fd /\ reader' = reader
          /\ tracked' \subseteq tracked
      BY <1>4 DEF Cancel
    <2> QED
      BY <2>1, DropTapInv DEF TapTypes, ReaderRuns
  <1>5. CASE Unregister(h)
    <2>1. fd' = fd /\ open' = open /\ tracked' = tracked /\ reader' = reader
      BY <1>5 DEF Unregister, fdVars, readerVars
    <2> QED
      BY <2>1 DEF TapTypes, HeldIsOpen, TapHeld, ReaderRuns
  <1> QED
    BY <1>1, <1>2, <1>3, <1>4, <1>5 DEF TunnelStep

LEMMA ReaderTapInv ==
    ASSUME TapInv, NEW h \in Handles, ReaderStep(h)
    PROVE  TapInv'
  <1> USE DEF TapInv
  <1>1. CASE ReaderReads(h) \/ ReaderSends(h)
    <2>1. /\ fd' = fd /\ open' = open /\ tracked' = tracked
          /\ ReaderRuns(h)
          /\ \E s \in {"reading", "sending"} : reader' = [reader EXCEPT ![h] = s]
      BY <1>1 DEF ReaderReads, ReaderSends, ReaderRuns, fdVars, tunnelVars
    <2> QED
      BY <2>1 DEF TapTypes, ReaderStates, HeldIsOpen, TapHeld, ReaderRuns
  <1>2. CASE ReaderSendFails(h) \/ ReaderStops(h) \/ ReaderFails(h)
    <2>1. ReaderEnds(h)
      BY <1>2 DEF ReaderSendFails, ReaderStops, ReaderFails
    <2>2. /\ DropTap(h) /\ fd' = fd /\ tracked' = tracked
          /\ reader' = [reader EXCEPT ![h] = "stopped"]
      BY <2>1 DEF ReaderEnds, tunnelVars
    <2> QED
      BY <2>2, DropTapInv DEF TapTypes, ReaderStates, ReaderRuns
  <1> QED
    BY <1>1, <1>2 DEF ReaderStep

(* The other steps change neither descriptors nor readers. *)
LEMMA OtherTapInv ==
    ASSUME TapInv, UNCHANGED <<fd, open, reader, tracked>>
    PROVE  TapInv'
  BY DEF TapInv, TapTypes, HeldIsOpen, TapHeld, ReaderRuns

LEMMA NextTapInv == TapInv /\ [Next]_vars => TapInv'
  <1> SUFFICES ASSUME TapInv, [Next]_vars PROVE TapInv'
    OBVIOUS
  <1>1. CASE \E h \in Handles : TunnelStep(h)
    BY <1>1, TunnelTapInv
  <1>2. CASE \E h \in Handles : ReaderStep(h)
    BY <1>2, ReaderTapInv
  <1>3. ASSUME NEW h \in Handles, WriterStep(h)
        PROVE  TapInv'
    <2>1. UNCHANGED <<fd, open, reader, tracked>>
      BY <1>3 DEF WriterStep, WriterReceives, WriterDrains, WriterWrites, WriterEnds,
                  tunnelVars, fdVars, readerVars
    <2> QED
      BY <2>1, OtherTapInv
  <1>4. ASSUME NEW t \in Threads, ReceiverStep(t)
        PROVE  TapInv'
    <2>1. UNCHANGED <<fd, open, reader, tracked>>
      BY <1>4 DEF ReceiverStep, Receive, Deliver, tunnelVars, fdVars, readerVars
    <2> QED
      BY <2>1, OtherTapInv
  <1>5. CASE BatcherStep
    <2>1. UNCHANGED <<fd, open, reader, tracked>>
      BY <1>5 DEF BatcherStep, BatcherTakes, BatcherAdds, BatcherDeadline, BatcherSends,
                  BatcherSendFails, BatcherStops, FlushOn, tunnelVars, fdVars, readerVars
    <2> QED
      BY <2>1, OtherTapInv
  <1>6. CASE Shutdown \/ UNCHANGED vars
    <2>1. UNCHANGED <<fd, open, reader, tracked>>
      BY <1>6 DEF Shutdown, vars, tunnelVars, fdVars, readerVars
    <2> QED
      BY <2>1, OtherTapInv
  <1> QED
    BY <1>1, <1>2, <1>3, <1>4, <1>5, <1>6 DEF Next

(* The number a writer keeps is its own TAP's while the tunnel is tracked  *)
(* or was made at startup (OwnTap), however many tunnels come and go.      *)
THEOREM NumbersAreOwn == Spec => []OwnTap
  <1>1. TapInv => OwnTap
    BY DEF TapInv, HeldIsOpen, OwnTap, TapHeld
  <1> QED
    BY <1>1, InitTapInv, NextTapInv, PTL DEF Spec

--------------------------------------------------------------------------------
(* The registry knows handles under their keys only, and a handle has      *)
(* frames only after it was registered.  A handle's key never changes      *)
(* then, so a frame keeps to the tunnel it was addressed to.               *)
FrameTypes ==
    /\ registry \in [Keys -> Handles \cup {Nobody}]
    /\ key \in [Handles -> Keys \cup {Nobody}]
    /\ reader \in [Handles -> ReaderStates]
    /\ chan \in [Handles -> Seq(RxFrames)]
    /\ batch \in [Handles -> Seq(RxFrames)]
    /\ writer \in [Handles -> {"none", "receiving", "draining", "writing", "ended"}]
    /\ held \in [Threads -> Seq(Received)]
    /\ traffic \in Numbers

RegisteredUnderKey ==
    \A k \in Keys : registry[k] # Nobody =>
        key[registry[k]] = k /\ reader[registry[k]] # "none"

EmptyAtFirst ==
    \A h \in Handles : reader[h] = "none" => chan[h] = <<>> /\ batch[h] = <<>>

WriterHasFrames ==
    \A h \in Handles : writer[h] \in {"draining", "writing"} => batch[h] # <<>>

FrameInv ==
    FrameTypes /\ RegisteredUnderKey /\ EmptyAtFirst /\ WriterHasFrames /\ OwnFrames

frameVars == <<registry, key, reader, chan, batch, writer, held, traffic>>

FramesFor(s, k) == \A i \in DOMAIN s : s[i].to = k

LEMMA AppendFor ==
    ASSUME NEW k, NEW s \in Seq(RxFrames), NEW f \in RxFrames, FramesFor(s, k), f.to = k
    PROVE  Append(s, f) \in Seq(RxFrames) /\ FramesFor(Append(s, f), k)
  BY DEF FramesFor

LEMMA TailFor ==
    ASSUME NEW k, NEW s \in Seq(RxFrames), FramesFor(s, k), s # <<>>
    PROVE  /\ Tail(s) \in Seq(RxFrames) /\ FramesFor(Tail(s), k)
           /\ Head(s) \in RxFrames /\ Head(s).to = k
  BY DEF FramesFor

LEMMA InitFrameInv == Init => FrameInv
  <1> SUFFICES ASSUME Init PROVE FrameInv
    OBVIOUS
  <1> USE DataPathAssumption
  <1>1. AtStartup \subseteq Handles
    BY DEF AtStartup
  <1>2. ASSUME NEW k \in Keys
        PROVE  /\ registry[k] \in Handles \cup {Nobody}
               /\ registry[k] # Nobody =>
                      key[registry[k]] = k /\ reader[registry[k]] # "none"
    <2>1. CASE \E h \in AtStartup : key[h] = k
      <3> DEFINE g == CHOOSE h \in AtStartup : key[h] = k
      <3>1. g \in AtStartup /\ key[g] = k
        BY <2>1
      <3>2. registry[k] = g
        BY <2>1 DEF Init
      <3>3. reader[g] = "reading"
        BY <1>1, <3>1 DEF Init
      <3> QED
        BY <1>1, <3>1, <3>2, <3>3
    <2>2. CASE ~ \E h \in AtStartup : key[h] = k
      <3>1. registry[k] = Nobody
        BY <2>2 DEF Init
      <3> QED
        BY <3>1
    <2> QED
      BY <2>1, <2>2
  <1>3. registry \in [Keys -> Handles \cup {Nobody}]
    <2>1. registry = [k \in Keys |-> registry[k]]
      BY DEF Init
    <2> QED
      BY <1>2, <2>1
  <1>4. key \in [Handles -> Keys \cup {Nobody}]
    BY <1>1 DEF Init, AtStartup
  <1>5. /\ chan = [h \in Handles |-> <<>>]
        /\ batch = [h \in Handles |-> <<>>]
        /\ held = [t \in Threads |-> <<>>]
        /\ writer \in [Handles -> {"none", "receiving"}]
        /\ reader \in [Handles -> {"none", "reading"}]
        /\ traffic = 0
    BY DEF Init
  <1>6. FrameTypes
    BY <1>3, <1>4, <1>5 DEF FrameTypes, ReaderStates, Numbers
  <1> QED
    BY <1>2, <1>5, <1>6 DEF FrameInv, RegisteredUnderKey, EmptyAtFirst, WriterHasFrames,
                            OwnFrames

(* A step of creating or deleting a tunnel can register it, drop frames    *)
(* and remove handles.                                                     *)
LEMMA TunnelFrameInv ==
    ASSUME FrameInv, NEW h \in Handles, TunnelStep(h)
    PROVE  FrameInv'
  <1> USE DEF FrameInv
  <1>1. ASSUME NEW k \in Keys, Register(h, k)
        PROVE  FrameInv'
    <2>1. /\ reader[h] = "none" /\ registry[k] = Nobody
          /\ registry' = [registry EXCEPT ![k] = h]
          /\ key' = [key EXCEPT ![h] = k]
          /\ reader' = [reader EXCEPT ![h] = "creating"]
          /\ UNCHANGED <<chan, batch, writer, held, traffic>>
      BY <1>1 DEF Register, writerVars
    <2>2. FrameTypes'
      BY <2>1 DEF FrameTypes, ReaderStates
    <2>3. RegisteredUnderKey'
      BY <2>1, DataPathAssumption DEF RegisteredUnderKey, FrameTypes
    <2>4. EmptyAtFirst' /\ WriterHasFrames'
      BY <2>1 DEF EmptyAtFirst, WriterHasFrames, FrameTypes
    <2>5. chan[h] = <<>> /\ batch[h] = <<>>
      BY <2>1 DEF EmptyAtFirst
    <2>6. OwnFrames'
      BY <2>1, <2>5 DEF OwnFrames, FrameTypes
    <2> QED
      BY <2>2, <2>3, <2>4, <2>6
  <1>2. ASSUME /\ \A k \in Keys : registry'[k] \in {registry[k], Nobody}
               /\ registry' \in [Keys -> Handles \cup {Nobody}]
               /\ reader' \in [Handles -> ReaderStates]
               /\ \A g \in Handles : reader[g] # "none" => reader'[g] # "none"
               /\ \A g \in Handles : chan'[g] \in {chan[g], <<>>}
               /\ chan' = [g \in Handles |-> chan'[g]]
               /\ UNCHANGED <<key, batch, writer, held, traffic>>
        PROVE  FrameInv'
    <2>1. chan' \in [Handles -> Seq(RxFrames)]
      <3>1. ASSUME NEW g \in Handles
            PROVE  chan'[g] \in Seq(RxFrames)
        <4>1. chan[g] \in Seq(RxFrames) /\ <<>> \in Seq(RxFrames)
          BY DEF FrameTypes
        <4> QED
          BY <1>2, <4>1
      <3> DEFINE c[g \in Handles] == chan'[g]
      <3>2. c \in [Handles -> Seq(RxFrames)]
        BY <3>1
      <3> QED
        BY <1>2, <3>2
    <2>2. FrameTypes'
      BY <1>2, <2>1 DEF FrameTypes
    <2>3. RegisteredUnderKey'
      BY <1>2 DEF RegisteredUnderKey, FrameTypes
    <2>4. \A g \in Handles : reader'[g] = "none" => reader[g] = "none"
      BY <1>2
    <2>5. EmptyAtFirst' /\ WriterHasFrames'
      BY <1>2, <2>4 DEF EmptyAtFirst, WriterHasFrames
    <2>6. OwnFrames'
      BY <1>2 DEF OwnFrames
    <2> QED
      BY <2>2, <2>3, <2>5, <2>6
  <1>3. CASE CreateFails(h)
    <2>1. /\ \/ registry' = registry
             \/ registry' = [registry EXCEPT ![key[h]] = Nobody]
          /\ reader' = [reader EXCEPT ![h] = "stopped"]
          /\ chan' = [g \in Handles |-> IF Orphaned(g)' THEN <<>> ELSE chan[g]]
          /\ UNCHANGED <<key, batch, writer, held, traffic>>
      BY <1>3 DEF CreateFails, DropHandles
    <2> QED
      BY <1>2, <2>1 DEF FrameTypes, ReaderStates
  <1>4. CASE Start(h)
    <2>1. /\ reader' = [reader EXCEPT ![h] = "reading"]
          /\ writer' = [writer EXCEPT ![h] = "receiving"]
          /\ UNCHANGED <<registry, key, chan, batch, held, traffic>>
      BY <1>4 DEF Start
    <2> QED
      BY <2>1 DEF FrameTypes, ReaderStates, RegisteredUnderKey, EmptyAtFirst,
                  WriterHasFrames, OwnFrames
  <1>5. CASE Cancel(h)
    <2>1. UNCHANGED frameVars
      BY <1>5 DEF Cancel, writerVars, frameVars
    <2> QED
      BY <2>1 DEF frameVars, FrameTypes, RegisteredUnderKey, EmptyAtFirst,
                  WriterHasFrames, OwnFrames
  <1>6. CASE Unregister(h)
    <2>1. /\ registry' = [registry EXCEPT ![key[h]] = Nobody]
          /\ chan' = [g \in Handles |-> IF Orphaned(g)' THEN <<>> ELSE chan[g]]
          /\ UNCHANGED <<key, reader, batch, writer, held, traffic>>
      BY <1>6 DEF Unregister, DropHandles, readerVars
    <2> QED
      BY <1>2, <2>1 DEF FrameTypes
  <1> QED
    BY <1>1, <1>3, <1>4, <1>5, <1>6 DEF TunnelStep

LEMMA ReceiverFrameInv ==
    ASSUME FrameInv, NEW t \in Threads, ReceiverStep(t)
    PROVE  FrameInv'
  <1> USE DEF FrameInv
  <1>1. CASE Receive(t)
    <2>1. PICK len \in 1 .. RecvBatch : \E to \in [1 .. len -> Keys] :
              /\ traffic + len <= MaxTraffic
              /\ held' = [held EXCEPT ![t] =
                     [i \in 1 .. len |-> [to |-> to[i], n |-> traffic + i, rx |-> t]]]
              /\ traffic' = traffic + len
      BY <1>1 DEF Receive
    <2>2. PICK to \in [1 .. len -> Keys] :
              /\ traffic + len <= MaxTraffic
              /\ held' = [held EXCEPT ![t] =
                     [i \in 1 .. len |-> [to |-> to[i], n |-> traffic + i, rx |-> t]]]
              /\ traffic' = traffic + len
      BY <2>1
    <2> DEFINE s == [i \in 1 .. len |-> [to |-> to[i], n |-> traffic + i, rx |-> t]]
    <2>3. traffic \in Nat /\ len \in Nat /\ MaxTraffic \in Nat /\ RecvBatch \in Nat
      BY DataPathAssumption DEF FrameTypes, Numbers
    <2>4. \A i \in 1 .. len : traffic + i \in Numbers
      BY <2>2, <2>3 DEF Numbers
    <2>5. \A i \in 1 .. len : s[i] \in Received
      BY <2>2, <2>4 DEF Received
    <2>6. s \in Seq(Received)
      BY <2>3, <2>5
    <2>7. traffic' \in Numbers
      BY <2>2, <2>3 DEF Numbers
    <2>8. held' \in [Threads -> Seq(Received)]
      BY <2>2, <2>6 DEF FrameTypes
    <2>9. UNCHANGED <<registry, key, reader, chan, batch, writer>>
      BY <1>1 DEF Receive, tunnelVars, readerVars, writerVars
    <2> QED
      BY <2>7, <2>8, <2>9 DEF FrameTypes, RegisteredUnderKey, EmptyAtFirst,
                              WriterHasFrames, OwnFrames
  <1>2. CASE Deliver(t)
    <2> DEFINE f == Head(held[t])
               h == registry[f.to]
    <2>1. /\ held[t] # <<>>
          /\ held' = [held EXCEPT ![t] = Tail(@)]
          /\ UNCHANGED <<registry, key, reader, batch, writer, traffic>>
      BY <1>2 DEF Deliver, tunnelVars, readerVars
    <2>2. held[t] \in Seq(Received)
      BY DEF FrameTypes
    <2>3. f \in Received /\ Tail(held[t]) \in Seq(Received)
      BY <2>1, <2>2
    <2>4. held' \in [Threads -> Seq(Received)]
      BY <2>1, <2>3 DEF FrameTypes
    <2>5. CASE chan' = chan
      BY <2>1, <2>4, <2>5 DEF FrameTypes, RegisteredUnderKey, EmptyAtFirst,
                              WriterHasFrames, OwnFrames
    <2>6. CASE /\ h # Nobody
               /\ chan' = [chan EXCEPT ![h] = Append(@, Buffered(f))]
      <3>1. f.to \in Keys
        BY <2>3 DEF Received
      <3>2. h \in Handles /\ key[h] = f.to /\ reader[h] # "none"
        BY <2>6, <3>1 DEF FrameTypes, RegisteredUnderKey
      <3>3. Buffered(f) \in RxFrames /\ Buffered(f).to = key[h]
        BY <2>3, <3>2 DEF Buffered, FromPool, Received, RxFrames
      <3>4. chan[h] \in Seq(RxFrames) /\ FramesFor(chan[h], key[h])
        BY <3>2 DEF FrameTypes, OwnFrames, FramesFor
      <3>5. /\ Append(chan[h], Buffered(f)) \in Seq(RxFrames)
            /\ FramesFor(Append(chan[h], Buffered(f)), key[h])
        BY <3>3, <3>4, AppendFor
      <3>6. FrameTypes'
        BY <2>1, <2>4, <2>6, <3>2, <3>5 DEF FrameTypes
      <3>7. \A g \in Handles : g # h => chan'[g] = chan[g]
        BY <2>6 DEF FrameTypes
      <3>8. chan'[h] = Append(chan[h], Buffered(f))
        BY <2>6, <3>2 DEF FrameTypes
      <3>9. OwnFrames'
        <4>1. ASSUME NEW g \in Handles
              PROVE  FramesFor(chan'[g], key[g])
          <5>1. CASE g = h
            BY <3>5, <3>8, <5>1
          <5>2. CASE g # h
            BY <3>7, <5>2 DEF OwnFrames, FramesFor
          <5> QED
            BY <5>1, <5>2
        <4> QED
          BY <2>1, <4>1 DEF OwnFrames, FramesFor
      <3>10. RegisteredUnderKey' /\ EmptyAtFirst' /\ WriterHasFrames'
        BY <2>1, <3>2, <3>7 DEF RegisteredUnderKey, EmptyAtFirst, WriterHasFrames
      <3> QED
        BY <3>6, <3>9, <3>10
    <2> QED
      BY <1>2, <2>5, <2>6 DEF Deliver
  <1> QED
    BY <1>1, <1>2 DEF ReceiverStep

(* A writer moves frames from its channel to its batch and out.            *)
LEMMA WriterFrameInv ==
    ASSUME FrameInv, NEW h \in Handles, WriterStep(h)
    PROVE  FrameInv'
  <1> USE DEF FrameInv
  <1>0. /\ chan[h] \in Seq(RxFrames) /\ FramesFor(chan[h], key[h])
        /\ batch[h] \in Seq(RxFrames) /\ FramesFor(batch[h], key[h])
    BY DEF FrameTypes, OwnFrames, FramesFor
  <1>1. ASSUME NEW c \in Seq(RxFrames), FramesFor(c, key[h]),
               NEW b \in Seq(RxFrames), FramesFor(b, key[h]),
               NEW w \in {"none", "receiving", "draining", "writing", "ended"},
               w \in {"draining", "writing"} => b # <<>>,
               reader[h] = "none" => c = <<>> /\ b = <<>>,
               chan' = [chan EXCEPT ![h] = c],
               batch' = [batch EXCEPT ![h] = b],
               writer' = [writer EXCEPT ![h] = w],
               UNCHANGED <<registry, key, reader, held, traffic>>
        PROVE  FrameInv'
    <2>1. FrameTypes' /\ RegisteredUnderKey'
      BY <1>1 DEF FrameTypes, RegisteredUnderKey
    <2>2. chan'[h] = c /\ batch'[h] = b /\ writer'[h] = w
      BY <1>1 DEF FrameTypes
    <2>3. \A g \in Handles \ {h} :
              chan'[g] = chan[g] /\ batch'[g] = batch[g] /\ writer'[g] = writer[g]
      BY <1>1 DEF FrameTypes
    <2>4. EmptyAtFirst' /\ WriterHasFrames'
      BY <1>1, <2>2, <2>3 DEF EmptyAtFirst, WriterHasFrames
    <2>5. OwnFrames'
      BY <1>1, <2>2, <2>3 DEF OwnFrames, FramesFor
    <2> QED
      BY <2>1, <2>4, <2>5
  <1>2. UNCHANGED <<registry, key, reader, held, traffic>>
    BY DEF WriterStep, WriterReceives, WriterDrains, WriterWrites, WriterEnds,
           tunnelVars, readerVars
  <1>3. chan = [chan EXCEPT ![h] = chan[h]] /\ writer = [writer EXCEPT ![h] = writer[h]]
    BY DEF FrameTypes
  <1>4. CASE WriterReceives(h)
    <2>1. /\ chan[h] # <<>>
          /\ batch' = [batch EXCEPT ![h] = <<Head(chan[h])>>]
          /\ chan' = [chan EXCEPT ![h] = Tail(chan[h])]
          /\ writer' = [writer EXCEPT ![h] = "draining"]
      BY <1>4 DEF WriterReceives
    <2>2. /\ Tail(chan[h]) \in Seq(RxFrames) /\ FramesFor(Tail(chan[h]), key[h])
          /\ Head(chan[h]) \in RxFrames /\ Head(chan[h]).to = key[h]
      BY <1>0, <2>1, TailFor
    <2>3. <<Head(chan[h])>> \in Seq(RxFrames) /\ FramesFor(<<Head(chan[h])>>, key[h])
      BY <2>2 DEF FramesFor
    <2>4. <<Head(chan[h])>> # <<>> /\ reader[h] # "none"
      BY <2>1 DEF EmptyAtFirst
    <2> QED
      BY <1>1, <1>2, <2>1, <2>2, <2>3, <2>4
  <1>5. CASE WriterDrains(h)
    <2>1. /\ chan[h] # <<>> /\ writer[h] = "draining"
          /\ batch' = [batch EXCEPT ![h] = Append(batch[h], Head(chan[h]))]
          /\ chan' = [chan EXCEPT ![h] = Tail(chan[h])]
          /\ writer' = [writer EXCEPT ![h] = "draining"]
      BY <1>3, <1>5 DEF WriterDrains
    <2>2. /\ Tail(chan[h]) \in Seq(RxFrames) /\ FramesFor(Tail(chan[h]), key[h])
          /\ Head(chan[h]) \in RxFrames /\ Head(chan[h]).to = key[h]
      BY <1>0, <2>1, TailFor
    <2>3. /\ Append(batch[h], Head(chan[h])) \in Seq(RxFrames)
          /\ FramesFor(Append(batch[h], Head(chan[h])), key[h])
      BY <1>0, <2>2, AppendFor
    <2>4. Len(Append(batch[h], Head(chan[h]))) = Len(batch[h]) + 1
      BY <1>0, <2>2
    <2>5. Append(batch[h], Head(chan[h])) # <<>>
      BY <1>0, <2>4
    <2>6. reader[h] # "none"
      BY <2>1 DEF EmptyAtFirst
    <2> HIDE DEF FrameInv
    <2> QED
      BY <1>1, <1>2, <2>1, <2>2, <2>3, <2>5, <2>6
  <1>6. CASE WriterWrites(h)
    <2> DEFINE rest == Tail(batch[h])
               w == IF rest = <<>> THEN "receiving" ELSE "writing"
    <2>1. /\ batch' = [batch EXCEPT ![h] = rest]
          /\ chan' = [chan EXCEPT ![h] = chan[h]]
          /\ writer' = [writer EXCEPT ![h] = w]
      BY <1>3, <1>6 DEF WriterWrites
    <2>2. batch[h] # <<>>
      BY <1>6 DEF WriterWrites, WriterMayWrite, WriterHasFrames
    <2>3. rest \in Seq(RxFrames) /\ FramesFor(rest, key[h])
      BY <1>0, <2>2, TailFor
    <2>4. reader[h] # "none"
      BY <2>2 DEF EmptyAtFirst
    <2>5. w \in {"receiving", "writing"} /\ (w = "writing" => rest # <<>>)
      OBVIOUS
    <2> HIDE DEF rest, w
    <2> QED
      BY <1>0, <1>1, <1>2, <2>1, <2>3, <2>4, <2>5
  <1>7. CASE WriterEnds(h)
    <2>1. /\ writer' = [writer EXCEPT ![h] = "ended"]
          /\ UNCHANGED <<chan, batch>>
      BY <1>7 DEF WriterEnds
    <2> QED
      BY <1>2, <2>1 DEF FrameTypes, RegisteredUnderKey, EmptyAtFirst, WriterHasFrames,
                        OwnFrames
  <1> QED
    BY <1>4, <1>5, <1>6, <1>7 DEF WriterStep

LEMMA ReaderFrameInv ==
    ASSUME FrameInv, NEW h \in Handles, ReaderStep(h)
    PROVE  FrameInv'
  <1>1. UNCHANGED <<registry, key, chan, batch, writer, held>>
    BY DEF ReaderStep, ReaderReads, ReaderSends, ReaderSendFails, ReaderStops, ReaderFails,
           ReaderEnds, tunnelVars, writerVars
  <1>2. /\ reader[h] # "none"
        /\ \E s \in {"reading", "sending", "stopped"} : reader' = [reader EXCEPT ![h] = s]
    BY DEF ReaderStep, ReaderReads, ReaderSends, ReaderSendFails, ReaderStops, ReaderFails,
           ReaderEnds
  <1>3. traffic' \in Numbers
    <2>1. traffic \in Numbers /\ MaxTraffic \in Nat
      BY DataPathAssumption DEF FrameInv, FrameTypes
    <2>2. traffic' = traffic \/ (traffic < MaxTraffic /\ traffic' = traffic + 1)
      BY DEF ReaderStep, ReaderReads, ReaderSends, ReaderSendFails, ReaderStops, ReaderFails,
             ReaderEnds
    <2> QED
      BY <2>1, <2>2 DEF Numbers
  <1> QED
    BY <1>1, <1>2, <1>3 DEF FrameInv, FrameTypes, ReaderStates, RegisteredUnderKey,
                            EmptyAtFirst, WriterHasFrames, OwnFrames

LEMMA NextFrameInv == FrameInv /\ [Next]_vars => FrameInv'
  <1> SUFFICES ASSUME FrameInv, [Next]_vars PROVE FrameInv'
    OBVIOUS
  <1>1. CASE \E h \in Handles : TunnelStep(h) \/ WriterStep(h) \/ ReaderStep(h)
    BY <1>1, TunnelFrameInv, WriterFrameInv, ReaderFrameInv
  <1>2. CASE \E t \in Threads : ReceiverStep(t)
    BY <1>2, ReceiverFrameInv
  <1>3. CASE BatcherStep \/ Shutdown \/ UNCHANGED vars
    <2>1. UNCHANGED frameVars
      BY <1>3 DEF BatcherStep, BatcherTakes, BatcherAdds, BatcherDeadline, BatcherSends,
                  BatcherSendFails, BatcherStops, FlushOn, Shutdown, vars, tunnelVars,
                  readerVars, writerVars, frameVars
    <2> QED
      BY <2>1 DEF frameVars, FrameInv, FrameTypes, RegisteredUnderKey, EmptyAtFirst,
                  WriterHasFrames, OwnFrames
  <1> QED
    BY <1>1, <1>2, <1>3 DEF Next

(* Frames wait for a TAP only if they were addressed to its tunnel         *)
(* (OwnFrames), over any sequence of creations and deletions.              *)
THEOREM FramesAreOwn == Spec => []OwnFrames
  <1>1. FrameInv => OwnFrames
    BY DEF FrameInv
  <1> QED
    BY <1>1, InitFrameInv, NextFrameInv, PTL DEF Spec

--------------------------------------------------------------------------------
(* Counting buffers of the pool. *)

(* The places of a sequence with a buffer of the pool. *)
Pooled(s) == {i \in DOMAIN s : s[i].pooled}

LEMMA SameSize ==
    ASSUME NEW S, NEW T, NEW f \in [S -> T], IsFiniteSet(S),
           \A x, y \in S : f[x] = f[y] => x = y,
           \A y \in T : \E x \in S : f[x] = y
    PROVE  IsFiniteSet(T) /\ Cardinality(T) = Cardinality(S)
  <1>1. f \in Bijection(S, T)
    BY DEF Bijection, Injection, Surjection, IsInjective
  <1>2. ExistsBijection(S, T)
    BY <1>1 DEF ExistsBijection
  <1> QED
    BY <1>2, FS_Bijection

(* Counting the parts of a finite set. *)
LEMMA Parts ==
    ASSUME NEW A, NEW B, IsFiniteSet(A \cup B), A \cap B = {}
    PROVE  /\ IsFiniteSet(A) /\ IsFiniteSet(B)
           /\ Cardinality(A) \in Nat /\ Cardinality(B) \in Nat
           /\ Cardinality(A \cup B) = Cardinality(A) + Cardinality(B)
  <1>1. IsFiniteSet(A) /\ IsFiniteSet(B)
    BY FS_Subset
  <1>2. Cardinality(A \cap B) = 0
    BY FS_EmptySet
  <1>3. Cardinality(A) \in Nat /\ Cardinality(B) \in Nat
    BY <1>1, FS_CardinalityType
  <1>4. Cardinality(A \cup B) = Cardinality(A) + Cardinality(B) - Cardinality(A \cap B)
    BY <1>1, FS_Union
  <1> QED
    BY <1>1, <1>2, <1>3, <1>4

LEMMA PooledFinite ==
    ASSUME NEW S, NEW s \in Seq(S)
    PROVE  IsFiniteSet(Pooled(s)) /\ PooledIn(s) \in Nat /\ PooledIn(s) = Cardinality(Pooled(s))
  <1>1. IsFiniteSet(1 .. Len(s)) /\ Pooled(s) \subseteq 1 .. Len(s)
    BY FS_Interval DEF Pooled
  <1>2. IsFiniteSet(Pooled(s))
    BY <1>1, FS_Subset
  <1>3. PooledIn(s) = Cardinality(Pooled(s))
    BY DEF PooledIn, Pooled
  <1> QED
    BY <1>2, <1>3, FS_CardinalityType

LEMMA PooledEmpty == PooledIn(<<>>) = 0
  <1>1. {i \in DOMAIN <<>> : <<>>[i].pooled} = {}
    OBVIOUS
  <1> QED
    BY <1>1, FS_EmptySet DEF PooledIn

LEMMA PooledAppend ==
    ASSUME NEW S, NEW s \in Seq(S), NEW f \in S
    PROVE  PooledIn(Append(s, f)) = PooledIn(s) + Returned(f.pooled)
  <1> DEFINE a == Append(s, f)
             n == Len(s) + 1
  <1>1. /\ a \in Seq(S) /\ DOMAIN a = 1 .. n /\ a[n] = f /\ n \in DOMAIN a /\ n \notin DOMAIN s
        /\ \A i \in DOMAIN a : i \in DOMAIN s \/ i = n
        /\ \A i \in DOMAIN s : i \in DOMAIN a /\ a[i] = s[i]
    OBVIOUS
  <1> HIDE DEF a, n
  <1>2. IsFiniteSet(Pooled(s)) /\ Cardinality(Pooled(s)) = PooledIn(s) /\ PooledIn(s) \in Nat
    BY PooledFinite
  <1>3. Cardinality(Pooled(a)) = PooledIn(a)
    BY <1>1, PooledFinite
  <1>4. CASE f.pooled
    <2>0. n \in Pooled(a) /\ n \notin Pooled(s) /\ Pooled(s) \subseteq Pooled(a)
      BY <1>1, <1>4 DEF Pooled
    <2>1. \A i \in Pooled(a) : i \in Pooled(s) \/ i = n
      BY <1>1 DEF Pooled
    <2>2. Pooled(a) = Pooled(s) \cup {n}
      BY <2>0, <2>1
    <2>3. Cardinality(Pooled(a)) = Cardinality(Pooled(s)) + 1
      BY <1>2, <2>0, <2>2, FS_AddElement
    <2> QED
      BY <1>2, <1>3, <1>4, <2>3 DEF Returned, a
  <1>5. CASE ~f.pooled
    <2>1. Pooled(a) = Pooled(s)
      BY <1>1, <1>5 DEF Pooled
    <2> QED
      BY <1>2, <1>3, <1>5, <2>1 DEF Returned, a
  <1> QED
    BY <1>4, <1>5

LEMMA PooledTail ==
    ASSUME NEW S, NEW s \in Seq(S), s # <<>>
    PROVE  PooledIn(s) = PooledIn(Tail(s)) + Returned(Head(s).pooled)
  <1> DEFINE r == Tail(s)
             f == [i \in Pooled(r) |-> i + 1]
  <1>1. /\ r \in Seq(S) /\ Len(s) \in Nat /\ Len(s) # 0 /\ DOMAIN s = 1 .. Len(s)
        /\ DOMAIN r = 1 .. Len(s) - 1 /\ Head(s) = s[1]
        /\ \A i \in DOMAIN r : r[i] = s[i + 1]
    OBVIOUS
  <1> HIDE DEF r
  <1>2. IsFiniteSet(Pooled(r)) /\ Cardinality(Pooled(r)) = PooledIn(r) /\ PooledIn(r) \in Nat
    BY <1>1, PooledFinite
  <1>3. IsFiniteSet(Pooled(s)) /\ Cardinality(Pooled(s)) = PooledIn(s) /\ PooledIn(s) \in Nat
    BY PooledFinite
  <1> DEFINE T == Pooled(s) \ {1}
  <1>4. Cardinality(T) = Cardinality(Pooled(r))
    <2>1. Pooled(r) \subseteq Nat
      BY <1>1 DEF Pooled
    <2>2. \A i \in Pooled(r) : i + 1 \in T
      BY <1>1 DEF Pooled
    <2>3. \A j \in T : j - 1 \in Pooled(r) /\ (j - 1) + 1 = j
      <3> TAKE j \in T
      <3>1. j \in 2 .. Len(s) /\ s[j].pooled
        BY <1>1 DEF Pooled
      <3>2. j - 1 \in DOMAIN r /\ (j - 1) + 1 = j
        BY <1>1, <3>1
      <3> QED
        BY <1>1, <3>1, <3>2 DEF Pooled
    <2>4. f \in [Pooled(r) -> T] /\ \A i \in Pooled(r) : f[i] = i + 1
      BY <2>2
    <2> HIDE DEF f, T
    <2>5. \A x, y \in Pooled(r) : f[x] = f[y] => x = y
      BY <2>1, <2>4
    <2>6. \A y \in T : \E x \in Pooled(r) : f[x] = y
      BY <2>3, <2>4
    <2> QED
      BY <1>2, <2>4, <2>5, <2>6, SameSize
  <1>5. Cardinality(T) = IF 1 \in Pooled(s) THEN Cardinality(Pooled(s)) - 1 ELSE Cardinality(Pooled(s))
    BY <1>3, FS_RemoveElement
  <1>6. 1 \in Pooled(s) <=> Head(s).pooled
    BY <1>1 DEF Pooled
  <1> HIDE DEF T
  <1>7. PooledIn(s) = PooledIn(r) + Returned(Head(s).pooled)
    BY <1>2, <1>3, <1>4, <1>5, <1>6 DEF Returned
  <1> QED
    BY <1>7 DEF r

LEMMA PooledOne ==
    ASSUME NEW S, NEW f \in S
    PROVE  PooledIn(<<f>>) = Returned(f.pooled)
  <1>1. <<>> \in Seq(S) /\ Append(<<>>, f) = <<f>>
    OBVIOUS
  <1>2. PooledIn(Append(<<>>, f)) = PooledIn(<<>>) + Returned(f.pooled)
    BY <1>1, PooledAppend
  <1> QED
    BY <1>1, <1>2, PooledEmpty DEF Returned

(* The places with a buffer of the pool in a sequence for every handle. *)
PooledPlaces(c, cap) ==
    {p \in Handles \X (1 .. cap) : p[2] <= Len(c[p[1]]) /\ c[p[1]][p[2]].pooled}

PlacesOf(c, cap, h) == {p \in PooledPlaces(c, cap) : p[1] = h}

(* Those of one handle are counted by PooledIn. *)
LEMMA PooledAt ==
    ASSUME NEW S, NEW c \in [Handles -> Seq(S)], NEW cap \in Nat, NEW h \in Handles,
           Len(c[h]) <= cap
    PROVE  /\ IsFiniteSet(PlacesOf(c, cap, h))
           /\ Cardinality(PlacesOf(c, cap, h)) = PooledIn(c[h])
  <1> DEFINE A == PlacesOf(c, cap, h)
             s == c[h]
             f == [i \in Pooled(s) |-> <<h, i>>]
  <1>1. s \in Seq(S) /\ Len(s) \in Nat /\ DOMAIN s = 1 .. Len(s) /\ Len(s) <= cap
    OBVIOUS
  <1>2. IsFiniteSet(Pooled(s)) /\ Cardinality(Pooled(s)) = PooledIn(s)
    BY <1>1, PooledFinite
  <1>3. \A i \in Pooled(s) : <<h, i>> \in A
    <2> TAKE i \in Pooled(s)
    <2>1. i \in 1 .. Len(s) /\ s[i].pooled
      BY <1>1 DEF Pooled
    <2>2. i \in 1 .. cap /\ i <= Len(s)
      BY <1>1, <2>1
    <2> QED
      BY <2>1, <2>2 DEF PooledPlaces, PlacesOf
  <1>4. \A p \in A : p[2] \in Pooled(s) /\ p = <<h, p[2]>>
    <2> TAKE p \in A
    <2>1. p \in Handles \X (1 .. cap) /\ p[1] = h /\ p[2] <= Len(s) /\ s[p[2]].pooled
      BY DEF PooledPlaces, PlacesOf
    <2>2. p[2] \in 1 .. cap /\ p = <<p[1], p[2]>>
      BY <2>1
    <2>3. p[2] \in DOMAIN s
      BY <1>1, <2>1, <2>2
    <2> QED
      BY <2>1, <2>2, <2>3 DEF Pooled
  <1>5. f \in [Pooled(s) -> A] /\ \A i \in Pooled(s) : f[i] = <<h, i>>
    BY <1>3
  <1> HIDE DEF f, A
  <1>6. \A x, y \in Pooled(s) : f[x] = f[y] => x = y
    BY <1>5
  <1>7. \A y \in A : \E x \in Pooled(s) : f[x] = y
    BY <1>4, <1>5
  <1>8. IsFiniteSet(A) /\ Cardinality(A) = Cardinality(Pooled(s))
    BY <1>2, <1>5, <1>6, <1>7, SameSize
  <1> QED
    BY <1>2, <1>8 DEF A

(* A change for one handle counts as its change of PooledIn. *)
CountsAs(d, c, cap, s, r) ==
    /\ IsFiniteSet(PooledPlaces(d, cap))
    /\ PooledOf(c, cap) \in Nat /\ PooledOf(d, cap) \in Nat
    /\ PooledIn(r) \in Nat /\ PooledIn(s) \in Nat
    /\ PooledOf(d, cap) + PooledIn(r) = PooledOf(c, cap) + PooledIn(s)

LEMMA PooledChange ==
    ASSUME NEW c \in [Handles -> Seq(RxFrames)], NEW cap \in Nat, NEW h \in Handles,
           NEW s \in Seq(RxFrames), Len(c[h]) <= cap, Len(s) <= cap,
           NEW d, d = [c EXCEPT ![h] = s],
           IsFiniteSet(PooledPlaces(c, cap))
    PROVE  CountsAs(d, c, cap, s, c[h])
  <1> DEFINE A == PlacesOf(c, cap, h)
             B == {p \in PooledPlaces(c, cap) : p[1] # h}
             E == PlacesOf(d, cap, h)
  <1>1. d \in [Handles -> Seq(RxFrames)] /\ d[h] = s /\ \A g \in Handles : g # h => d[g] = c[g]
    OBVIOUS
  <1>2. IsFiniteSet(A) /\ Cardinality(A) = PooledIn(c[h])
    BY PooledAt
  <1>3. IsFiniteSet(E) /\ Cardinality(E) = PooledIn(s)
    <2>1. Len(d[h]) <= cap
      BY <1>1
    <2>2. IsFiniteSet(PlacesOf(d, cap, h)) /\ Cardinality(PlacesOf(d, cap, h)) = PooledIn(d[h])
      <3> HIDE DEF E
      <3> QED
        BY <1>1, <2>1, PooledAt
    <2> QED
      BY <1>1, <2>2
  <1>4. PooledPlaces(c, cap) = A \cup B /\ A \cap B = {}
    BY DEF PlacesOf
  <1>5. PooledPlaces(d, cap) = E \cup B /\ E \cap B = {}
    <2>1. {p \in PooledPlaces(d, cap) : p[1] # h} = B
      BY <1>1 DEF PooledPlaces
    <2> QED
      BY <2>1 DEF PlacesOf
  <1> HIDE DEF A, B, E
  <1>6. IsFiniteSet(A \cup B)
    BY <1>4, Zenon
  <1>7. /\ IsFiniteSet(B) /\ Cardinality(A) \in Nat /\ Cardinality(B) \in Nat
        /\ Cardinality(A \cup B) = Cardinality(A) + Cardinality(B)
    BY <1>4, <1>6, Parts, Zenon
  <1>8. IsFiniteSet(E \cup B)
    BY <1>3, <1>7, FS_Union, Zenon
  <1>9. /\ Cardinality(E) \in Nat
        /\ Cardinality(E \cup B) = Cardinality(E) + Cardinality(B)
    BY <1>5, <1>8, Parts, Zenon
  <1>10. /\ PooledOf(c, cap) = Cardinality(A \cup B)
         /\ PooledOf(d, cap) = Cardinality(E \cup B)
    <2>1. /\ PooledOf(c, cap) = Cardinality(PooledPlaces(c, cap))
          /\ PooledOf(d, cap) = Cardinality(PooledPlaces(d, cap))
      BY DEF PooledOf, PooledPlaces
    <2> QED
      BY <1>4, <1>5, <2>1, Zenon
  <1>11. IsFiniteSet(PooledPlaces(d, cap))
    BY <1>5, <1>8, Zenon
  <1> QED
    BY <1>2, <1>3, <1>7, <1>9, <1>10, <1>11 DEF CountsAs

(* A reader gets a buffer or gives it up. *)
LEMMA ReaderBuffer ==
    ASSUME readBuf \in [Handles -> BOOLEAN], IsFiniteSet({g \in Handles : readBuf[g]}),
           NEW h \in Handles, NEW b \in BOOLEAN, readBuf' = [readBuf EXCEPT ![h] = b]
    PROVE  /\ IsFiniteSet({g \in Handles : readBuf'[g]})
           /\ Cardinality({g \in Handles : readBuf[g]}) \in Nat
           /\ Cardinality({g \in Handles : readBuf'[g]}) \in Nat
           /\ Cardinality({g \in Handles : readBuf'[g]}) + Returned(readBuf[h])
                  = Cardinality({g \in Handles : readBuf[g]}) + Returned(b)
  <1> DEFINE A == {g \in Handles : readBuf[g]}
             E == {g \in Handles : readBuf'[g]}
             B == {g \in Handles : readBuf[g] /\ g # h}
  <1>1. A = IF readBuf[h] THEN B \cup {h} ELSE B
    OBVIOUS
  <1>2. E = IF b THEN B \cup {h} ELSE B
    OBVIOUS
  <1>3. h \notin B /\ B \subseteq A
    OBVIOUS
  <1>4. IsFiniteSet(A)
    OBVIOUS
  <1> HIDE DEF A, B, E
  <1>5. IsFiniteSet(B) /\ Cardinality(B) \in Nat
    BY <1>3, <1>4, FS_Subset, FS_CardinalityType
  <1>6. IsFiniteSet(B \cup {h}) /\ Cardinality(B \cup {h}) = Cardinality(B) + 1
    BY <1>3, <1>5, FS_AddElement
  <1>7. Cardinality(A) = Cardinality(B) + Returned(readBuf[h])
    BY <1>1, <1>5, <1>6 DEF Returned
  <1>8. IsFiniteSet(E) /\ Cardinality(E) = Cardinality(B) + Returned(b)
    BY <1>2, <1>5, <1>6 DEF Returned
  <1>9. Returned(readBuf[h]) \in Nat /\ Returned(b) \in Nat
    BY DEF Returned
  <1>10. /\ Cardinality(A) \in Nat /\ Cardinality(E) \in Nat
         /\ Cardinality(E) + Returned(readBuf[h]) = Cardinality(A) + Returned(b)
    BY <1>5, <1>7, <1>8, <1>9
  <1> QED
    BY <1>8, <1>10 DEF A, E

--------------------------------------------------------------------------------
(* Readers, writers and the batcher hold frames only in the states that    *)
(* mean to, and in bounded numbers.                                        *)
FlowTypes ==
    /\ stopping \in BOOLEAN
    /\ readBuf \in [Handles -> BOOLEAN]
    /\ readNum \in [Handles -> Numbers]
    /\ queue \in Seq(TxPackets)
    /\ Len(queue) <= QueueCap
    /\ batcher \in {"waiting", "filling", "flushing", "stopped"}
    /\ txBatch \in Seq(TxPackets)
    /\ Len(txBatch) <= HighWater
    /\ unsent \subseteq DOMAIN txBatch
    /\ written \in [Handles -> [Threads -> Numbers]]
    /\ wire \in [Handles -> Numbers]

ChannelsBounded ==
    \A h \in Handles : Len(chan[h]) <= ChannelCap /\ Len(batch[h]) <= MaxBatch

(* A writer has no batch while it waits, and none before it started.       *)
WriterIdle ==
    \A h \in Handles :
        /\ writer[h] \notin {"draining", "writing"} => batch[h] = <<>>
        /\ reader[h] \in {"none", "creating"} => writer[h] = "none"

BufferOfReader == \A h \in Handles : readBuf[h] => ReaderRuns(h)

BatchOfBatcher ==
    /\ batcher \in {"waiting", "stopped"} => txBatch = <<>>
    /\ batcher = "filling" => Len(txBatch) < HighWater

FlowInv ==
    FlowTypes /\ ChannelsBounded /\ WriterIdle /\ BufferOfReader /\ BatchOfBatcher

LEMMA InitFlowInv == Init => FlowInv
  <1> SUFFICES ASSUME Init PROVE FlowInv
    OBVIOUS
  <1> USE DataPathAssumption
  <1>1. /\ stopping = FALSE
        /\ readBuf = [h \in Handles |-> h \in AtStartup]
        /\ readNum = [h \in Handles |-> 0]
        /\ reader = [h \in Handles |-> IF h \in AtStartup THEN "reading" ELSE "none"]
        /\ writer = [h \in Handles |-> IF h \in AtStartup THEN "receiving" ELSE "none"]
        /\ chan = [h \in Handles |-> <<>>]
        /\ batch = [h \in Handles |-> <<>>]
        /\ queue = <<>> /\ txBatch = <<>> /\ batcher = "waiting" /\ unsent = {}
        /\ written = [h \in Handles |-> [t \in Threads |-> 0]]
        /\ wire = [h \in Handles |-> 0]
    BY DEF Init
  <1>2. 0 \in Numbers /\ 0 <= QueueCap /\ 0 <= HighWater /\ 0 <= ChannelCap /\ 0 <= MaxBatch
    BY DEF Numbers
  <1>3. FlowTypes
    <2>1. readBuf \in [Handles -> BOOLEAN]
      <3>1. readBuf = [h \in Handles |-> h \in AtStartup]
        BY <1>1
      <3> QED
        BY <3>1
    <2>2. written \in [Handles -> [Threads -> Numbers]]
      BY <1>1, <1>2, Zenon
    <2>3. queue \in Seq(TxPackets) /\ Len(queue) = 0 /\ txBatch \in Seq(TxPackets) /\ Len(txBatch) = 0
      BY <1>1
    <2>4. unsent \subseteq DOMAIN txBatch
      BY <1>1
    <2> QED
      BY <1>1, <1>2, <2>1, <2>2, <2>3, <2>4 DEF FlowTypes
  <1> QED
    BY <1>1, <1>2, <1>3 DEF FlowInv, ChannelsBounded, WriterIdle, BufferOfReader, ReaderRuns,
                            BatchOfBatcher

LEMMA TunnelFlowInv ==
    ASSUME FrameInv, FlowInv, NEW h \in Handles, TunnelStep(h)
    PROVE  FlowInv'
  <1> USE DEF FlowInv, FrameInv
  <1>1. UNCHANGED <<readNum, batch, written, queue, batcher, txBatch, unsent, wire, stopping>>
    BY DEF TunnelStep, Register, CreateFails, Start, Cancel, Unregister, readerVars, writerVars,
           txVars
  <1>2. \A g \in Handles : Len(chan'[g]) <= Len(chan[g])
    <2>1. ASSUME NEW g \in Handles
          PROVE  Len(chan'[g]) <= Len(chan[g])
      <3>1. Len(chan[g]) \in Nat /\ Len(<<>>) = 0
        BY DEF FrameTypes
      <3>2. chan'[g] = chan[g] \/ chan'[g] = <<>>
        BY DEF TunnelStep, Register, CreateFails, Start, Cancel, Unregister, DropHandles,
               writerVars
      <3> QED
        BY <3>1, <3>2
    <2> QED
      BY <2>1
  <1>3. ChannelsBounded'
    <2>1. ASSUME NEW g \in Handles
          PROVE  Len(chan'[g]) <= ChannelCap
      <3>1. Len(chan[g]) \in Nat /\ ChannelCap \in Nat /\ Len(chan[g]) <= ChannelCap
        BY DataPathAssumption DEF FrameTypes, ChannelsBounded
      <3>2. Len(chan'[g]) \in Nat
        BY TunnelFrameInv DEF FrameTypes
      <3> QED
        BY <1>2, <3>1, <3>2
    <2> QED
      BY <1>1, <2>1 DEF ChannelsBounded
  <1>4. /\ readBuf' \in [Handles -> BOOLEAN] /\ BufferOfReader' /\ WriterIdle'
    <2>1. CASE Start(h)
      <3>1. /\ reader[h] = "creating"
            /\ reader' = [reader EXCEPT ![h] = "reading"]
            /\ readBuf' = [readBuf EXCEPT ![h] = FromPool]
            /\ writer' = [writer EXCEPT ![h] = "receiving"]
            /\ batch' = batch
            /\ FromPool \in BOOLEAN
        BY <2>1 DEF Start, FromPool
      <3>2. batch[h] = <<>>
        BY <3>1 DEF WriterIdle
      <3> QED
        BY <3>1, <3>2 DEF FlowTypes, FrameTypes, BufferOfReader, WriterIdle, ReaderRuns
    <2>2. CASE Cancel(h) \/ Unregister(h)
      <3>1. UNCHANGED <<reader, readBuf, writer, batch>>
        BY <2>2 DEF Cancel, Unregister, readerVars, writerVars
      <3> QED
        BY <3>1 DEF FlowTypes, BufferOfReader, WriterIdle, ReaderRuns
    <2>3. CASE (\E k \in Keys : Register(h, k)) \/ CreateFails(h)
      <3>1. /\ UNCHANGED <<readBuf, writer, batch>>
            /\ reader[h] \in {"none", "creating"}
            /\ \E s \in {"creating", "stopped"} : reader' = [reader EXCEPT ![h] = s]
        BY <2>3 DEF Register, CreateFails, writerVars
      <3> QED
        BY <3>1 DEF FlowTypes, FrameTypes, BufferOfReader, WriterIdle, ReaderRuns
    <2> QED
      BY <2>1, <2>2, <2>3 DEF TunnelStep
  <1> QED
    BY <1>1, <1>3, <1>4 DEF FlowTypes, BatchOfBatcher

LEMMA ReceiverFlowInv ==
    ASSUME FrameInv, FlowInv, NEW t \in Threads, ReceiverStep(t)
    PROVE  FlowInv'
  <1> USE DEF FlowInv, FrameInv
  <1>1. UNCHANGED <<readNum, batch, written, queue, batcher, txBatch, unsent, wire, stopping,
                    reader, readBuf, writer>>
    BY DEF ReceiverStep, Receive, Deliver, tunnelVars, readerVars, writerVars, txVars
  <1>2. ChannelsBounded'
    <2>1. CASE chan' = chan
      BY <1>1, <2>1 DEF ChannelsBounded
    <2>2. ASSUME NEW g \in Handles \cup {Nobody}, NEW f,
                 g # Nobody, Len(chan[g]) # ChannelCap,
                 chan' = [chan EXCEPT ![g] = Append(@, f)]
          PROVE  ChannelsBounded'
      <3>1. g \in Handles /\ chan[g] \in Seq(RxFrames) /\ ChannelCap \in Nat
        BY <2>2, DataPathAssumption DEF FrameTypes
      <3>2. Len(Append(chan[g], f)) = Len(chan[g]) + 1 /\ Len(chan[g]) <= ChannelCap
        BY <3>1 DEF ChannelsBounded
      <3>3. Len(Append(chan[g], f)) <= ChannelCap
        BY <2>2, <3>1, <3>2
      <3>4. \A e \in Handles : chan'[e] = IF e = g THEN Append(chan[g], f) ELSE chan[e]
        BY <2>2 DEF FrameTypes
      <3> QED
        BY <1>1, <3>3, <3>4 DEF ChannelsBounded
    <2>3. CASE Receive(t)
      BY <2>1, <2>3 DEF Receive, writerVars
    <2>4. CASE Deliver(t)
      <3>1. registry[Head(held[t]).to] \in Handles \cup {Nobody}
        <4>1. held[t] \in Seq(Received) /\ held[t] # <<>>
          BY <2>4 DEF Deliver, FrameTypes
        <4>2. Head(held[t]) \in Received
          BY <4>1
        <4> QED
          BY <4>2 DEF FrameTypes, Received
      <3> QED
        BY <2>1, <2>2, <2>4, <3>1 DEF Deliver
    <2> QED
      BY <2>3, <2>4 DEF ReceiverStep
  <1> QED
    BY <1>1, <1>2 DEF FlowTypes, WriterIdle, BufferOfReader, ReaderRuns, BatchOfBatcher

LEMMA WriterFlowInv ==
    ASSUME FrameInv, FlowInv, NEW h \in Handles, WriterStep(h)
    PROVE  FlowInv'
  <1> USE DEF FlowInv, FrameInv
  <1>1. UNCHANGED <<readNum, queue, batcher, txBatch, unsent, wire, stopping, reader, readBuf>>
    BY DEF WriterStep, WriterReceives, WriterDrains, WriterWrites, WriterEnds,
           tunnelVars, readerVars, txVars
  <1>2. /\ chan[h] \in Seq(RxFrames) /\ batch[h] \in Seq(RxFrames)
        /\ Len(chan[h]) \in Nat /\ Len(batch[h]) \in Nat
        /\ Len(chan[h]) <= ChannelCap /\ Len(batch[h]) <= MaxBatch
        /\ ChannelCap \in Nat /\ MaxBatch \in Nat \ {0}
    BY DataPathAssumption DEF FrameTypes, ChannelsBounded
  <1>3. ASSUME NEW c, NEW b, NEW w,
               Len(c) <= ChannelCap, Len(b) <= MaxBatch,
               w \notin {"draining", "writing"} => b = <<>>,
               w # "none", writer[h] # "none",
               chan' = [chan EXCEPT ![h] = c],
               batch' = [batch EXCEPT ![h] = b],
               writer' = [writer EXCEPT ![h] = w],
               written' \in [Handles -> [Threads -> Numbers]]
        PROVE  FlowInv'
    <2>1. \A g \in Handles : /\ chan'[g] = IF g = h THEN c ELSE chan[g]
                             /\ batch'[g] = IF g = h THEN b ELSE batch[g]
                             /\ writer'[g] = IF g = h THEN w ELSE writer[g]
      BY <1>3 DEF FrameTypes
    <2>2. ChannelsBounded'
      BY <1>3, <2>1 DEF ChannelsBounded
    <2>3. WriterIdle'
      BY <1>1, <1>3, <2>1 DEF WriterIdle
    <2> QED
      BY <1>1, <1>3, <2>2, <2>3 DEF FlowTypes, BufferOfReader, ReaderRuns, BatchOfBatcher
  <1>4. /\ chan = [chan EXCEPT ![h] = chan[h]] /\ batch = [batch EXCEPT ![h] = batch[h]]
        /\ writer = [writer EXCEPT ![h] = writer[h]]
        /\ written \in [Handles -> [Threads -> Numbers]]
    BY DEF FrameTypes, FlowTypes
  <1>5. chan[h] # <<>> => Len(Tail(chan[h])) <= ChannelCap
    BY <1>2
  <1>6. CASE WriterReceives(h)
    <2>1. /\ chan[h] # <<>> /\ writer[h] # "none"
          /\ batch' = [batch EXCEPT ![h] = <<Head(chan[h])>>]
          /\ chan' = [chan EXCEPT ![h] = Tail(chan[h])]
          /\ writer' = [writer EXCEPT ![h] = "draining"]
          /\ written' = written
      BY <1>6 DEF WriterReceives
    <2>2. Len(<<Head(chan[h])>>) <= MaxBatch
      BY <1>2
    <2> HIDE DEF FlowInv, FrameInv
    <2> QED
      BY <1>3, <1>4, <1>5, <2>1, <2>2
  <1>7. CASE WriterDrains(h)
    <2>1. /\ chan[h] # <<>> /\ writer[h] = "draining" /\ Len(batch[h]) < MaxBatch
          /\ batch' = [batch EXCEPT ![h] = Append(batch[h], Head(chan[h]))]
          /\ chan' = [chan EXCEPT ![h] = Tail(chan[h])]
          /\ writer' = [writer EXCEPT ![h] = "draining"]
          /\ written' = written
      BY <1>4, <1>7 DEF WriterDrains
    <2>2. Len(Append(batch[h], Head(chan[h]))) <= MaxBatch
      BY <1>2, <2>1
    <2> HIDE DEF FlowInv, FrameInv
    <2> QED
      BY <1>3, <1>4, <1>5, <2>1, <2>2
  <1>8. CASE WriterWrites(h)
    <2> DEFINE rest == Tail(batch[h])
               w == IF rest = <<>> THEN "receiving" ELSE "writing"
    <2>1. /\ batch' = [batch EXCEPT ![h] = rest]
          /\ chan' = [chan EXCEPT ![h] = chan[h]]
          /\ writer' = [writer EXCEPT ![h] = w]
          /\ writer[h] \in {"draining", "writing"}
          /\ WriteFrame(h, Head(batch[h]))
      BY <1>4, <1>8 DEF WriterWrites, WriterMayWrite
    <2>2. batch[h] # <<>>
      BY <2>1 DEF WriterHasFrames
    <2>3. Head(batch[h]) \in RxFrames /\ Len(rest) <= MaxBatch
      BY <1>2, <2>2
    <2>4. written' \in [Handles -> [Threads -> Numbers]]
      <3> DEFINE f == Head(batch[h])
      <3>1. f.rx \in Threads /\ f.n \in Numbers
        BY <2>3 DEF RxFrames
      <3>2. written' \in {written, [written EXCEPT ![h][f.rx] = f.n]}
        BY <2>1 DEF WriteFrame
      <3> HIDE DEF f, FlowInv, FrameInv
      <3>3. written \in [Handles -> [Threads -> Numbers]]
        BY <1>4
      <3> QED
        BY <3>1, <3>2, <3>3
    <2>5. w # "none" /\ (w \notin {"draining", "writing"} => rest = <<>>)
      OBVIOUS
    <2>6. writer[h] # "none"
      BY <2>1
    <2> HIDE DEF rest, w, FlowInv, FrameInv
    <2> QED
      BY <1>2, <1>3, <2>1, <2>3, <2>4, <2>5, <2>6
  <1>9. CASE WriterEnds(h)
    <2>1. /\ writer[h] = "receiving" /\ writer' = [writer EXCEPT ![h] = "ended"]
          /\ chan' = [chan EXCEPT ![h] = chan[h]]
          /\ batch' = [batch EXCEPT ![h] = batch[h]]
          /\ written' = written
      BY <1>4, <1>9 DEF WriterEnds
    <2>2. batch[h] = <<>> /\ writer[h] # "none"
      BY <2>1 DEF WriterIdle
    <2> HIDE DEF FlowInv, FrameInv
    <2> QED
      BY <1>2, <1>3, <1>4, <2>1, <2>2
  <1> QED
    BY <1>6, <1>7, <1>8, <1>9 DEF WriterStep

LEMMA ReaderFlowInv ==
    ASSUME FrameInv, FlowInv, NEW h \in Handles, ReaderStep(h)
    PROVE  FlowInv'
  <1> USE DEF FlowInv, FrameInv
  <1>1. UNCHANGED <<chan, batch, written, batcher, txBatch, unsent, wire, stopping, writer>>
    BY DEF ReaderStep, ReaderReads, ReaderSends, ReaderSendFails, ReaderStops, ReaderFails,
           ReaderEnds, tunnelVars, writerVars, txVars
  <1>2. ASSUME NEW s \in {"reading", "sending", "stopped"}, NEW b \in BOOLEAN,
               NEW n \in Numbers, NEW q \in Seq(TxPackets),
               b => s # "stopped", Len(q) <= QueueCap,
               ReaderRuns(h), reader' = [reader EXCEPT ![h] = s],
               readBuf' = [readBuf EXCEPT ![h] = b],
               readNum' = [readNum EXCEPT ![h] = n],
               queue' = q
        PROVE  FlowInv'
    <2>1. FlowTypes'
      BY <1>1, <1>2 DEF FlowTypes
    <2>2. WriterIdle' /\ BufferOfReader'
      BY <1>1, <1>2 DEF WriterIdle, BufferOfReader, ReaderRuns, FlowTypes, FrameTypes
    <2> QED
      BY <1>1, <2>1, <2>2 DEF ChannelsBounded, BatchOfBatcher
  <1>3. /\ queue \in Seq(TxPackets) /\ Len(queue) <= QueueCap /\ Len(queue) \in Nat
        /\ QueueCap \in Nat /\ MaxTraffic \in Nat /\ 0 \in Numbers
        /\ readBuf[h] \in BOOLEAN /\ readNum[h] \in Numbers /\ FromPool \in BOOLEAN
        /\ readBuf = [readBuf EXCEPT ![h] = readBuf[h]]
    BY DataPathAssumption DEF FlowTypes, Numbers, FromPool
  <1>4. CASE ReaderReads(h)
    <2>1. /\ reader[h] = "reading" /\ traffic < MaxTraffic
          /\ reader' = [reader EXCEPT ![h] = "sending"]
          /\ readBuf' = readBuf /\ queue' = queue
          /\ readNum' = [readNum EXCEPT ![h] = traffic + 1]
      BY <1>4 DEF ReaderReads, txVars
    <2>2. traffic + 1 \in Numbers
      BY <1>3, <2>1 DEF FrameTypes, Numbers
    <2>3. ReaderRuns(h)
      BY <2>1 DEF ReaderRuns
    <2> HIDE DEF FlowInv, FrameInv
    <2> QED
      BY <1>2, <1>3, <2>1, <2>2, <2>3
  <1>5. CASE ReaderSends(h)
    <2>1. /\ reader[h] = "sending" /\ Len(queue) < QueueCap
          /\ reader' = [reader EXCEPT ![h] = "reading"]
          /\ readBuf' = [readBuf EXCEPT ![h] = FromPool]
          /\ queue' = Append(queue, Packet(h))
          /\ readNum' = [readNum EXCEPT ![h] = 0]
      BY <1>5 DEF ReaderSends
    <2>2. Packet(h) \in TxPackets
      BY <1>3 DEF Packet, TxPackets
    <2>3. Append(queue, Packet(h)) \in Seq(TxPackets) /\ Len(Append(queue, Packet(h))) <= QueueCap
      BY <1>3, <2>1, <2>2
    <2>4. ReaderRuns(h)
      BY <2>1 DEF ReaderRuns
    <2> HIDE DEF FlowInv, FrameInv
    <2> QED
      BY <1>2, <1>3, <2>1, <2>3, <2>4
  <1>6. CASE ReaderSendFails(h) \/ ReaderStops(h) \/ ReaderFails(h)
    <2>1. ReaderEnds(h) /\ ReaderRuns(h)
      BY <1>6 DEF ReaderSendFails, ReaderStops, ReaderFails, ReaderRuns
    <2>2. /\ reader' = [reader EXCEPT ![h] = "stopped"]
          /\ readBuf' = [readBuf EXCEPT ![h] = FALSE]
          /\ queue' = queue
          /\ readNum' = [readNum EXCEPT ![h] = 0]
      BY <2>1 DEF ReaderEnds, txVars
    <2> HIDE DEF FlowInv, FrameInv
    <2> QED
      BY <1>2, <1>3, <2>1, <2>2
  <1> QED
    BY <1>4, <1>5, <1>6 DEF ReaderStep

(* The batch that is filled or cleared keeps within its bounds.            *)
LEMMA FillFlow ==
    ASSUME NEW s \in Seq(TxPackets), Len(s) <= HighWater, Fill(s)
    PROVE  /\ txBatch' \in Seq(TxPackets) /\ Len(txBatch') <= HighWater
           /\ unsent' \subseteq DOMAIN txBatch'
           /\ batcher' \in {"waiting", "filling", "flushing", "stopped"}
           /\ BatchOfBatcher'
  <1>1. Len(s) \in Nat /\ HighWater \in Nat /\ txBatch' = s
    BY DataPathAssumption DEF Fill
  <1>2. CASE Len(s) < LowWater \/ Len(s) >= HighWater
    BY <1>1, <1>2 DEF Fill, BatchOfBatcher
  <1>3. CASE ~(Len(s) < LowWater \/ Len(s) >= HighWater)
    <2>1. Len(s) < HighWater
      BY <1>1, <1>3
    <2>2. batcher' = "filling" /\ unsent' = {}
      BY <1>3 DEF Fill
    <2> QED
      BY <1>1, <2>1, <2>2 DEF BatchOfBatcher
  <1> QED
    BY <1>2, <1>3

LEMMA BatcherFlowInv ==
    ASSUME FrameInv, FlowInv, BatcherStep
    PROVE  FlowInv'
  <1> USE DEF FlowInv, FrameInv
  <1>1. UNCHANGED <<chan, batch, written, stopping, writer, reader, readBuf, readNum>>
    BY DEF BatcherStep, BatcherTakes, BatcherAdds, BatcherDeadline, BatcherSends,
           BatcherSendFails, BatcherStops, FlushOn, tunnelVars, readerVars, writerVars
  <1>2. ASSUME queue' \in Seq(TxPackets), Len(queue') <= QueueCap,
               batcher' \in {"waiting", "filling", "flushing", "stopped"},
               txBatch' \in Seq(TxPackets), Len(txBatch') <= HighWater,
               unsent' \subseteq DOMAIN txBatch', BatchOfBatcher',
               wire' \in [Handles -> Numbers]
        PROVE  FlowInv'
    <2>1. FlowTypes'
      BY <1>1, <1>2 DEF FlowTypes
    <2> QED
      BY <1>1, <1>2, <2>1 DEF ChannelsBounded, WriterIdle, BufferOfReader, ReaderRuns
  <1>3. /\ queue \in Seq(TxPackets) /\ Len(queue) <= QueueCap /\ Len(queue) \in Nat
        /\ QueueCap \in Nat /\ HighWater \in Nat \ {0}
        /\ txBatch \in Seq(TxPackets) /\ Len(txBatch) <= HighWater /\ Len(txBatch) \in Nat
        /\ unsent \subseteq DOMAIN txBatch
        /\ wire \in [Handles -> Numbers]
        /\ <<>> \in Seq(TxPackets) /\ Len(<<>>) = 0
    BY DataPathAssumption DEF FlowTypes
  <1>4. queue # <<>> => /\ Tail(queue) \in Seq(TxPackets) /\ Len(Tail(queue)) <= QueueCap
                        /\ Head(queue) \in TxPackets
    BY <1>3
  <1>5. CASE BatcherTakes
    <2>1. /\ queue # <<>> /\ queue' = Tail(queue) /\ Fill(<<Head(queue)>>) /\ wire' = wire
      BY <1>5 DEF BatcherTakes
    <2>2. <<Head(queue)>> \in Seq(TxPackets) /\ Len(<<Head(queue)>>) <= HighWater
      BY <1>3, <1>4, <2>1
    <2> HIDE DEF FlowInv, FrameInv
    <2> QED
      BY <1>2, <1>3, <1>4, <2>1, <2>2, FillFlow
  <1>6. CASE BatcherAdds
    <2>1. /\ queue # <<>> /\ queue' = Tail(queue) /\ Fill(Append(txBatch, Head(queue)))
          /\ batcher = "filling" /\ wire' = wire
      BY <1>6 DEF BatcherAdds
    <2>2. Len(txBatch) < HighWater
      BY <2>1 DEF BatchOfBatcher
    <2>3. /\ Append(txBatch, Head(queue)) \in Seq(TxPackets)
          /\ Len(Append(txBatch, Head(queue))) <= HighWater
      BY <1>3, <1>4, <2>1, <2>2
    <2> HIDE DEF FlowInv, FrameInv
    <2> QED
      BY <1>2, <1>3, <1>4, <2>1, <2>3, FillFlow
  <1>7. CASE BatcherDeadline
    <2>1. /\ batcher' = "flushing" /\ unsent' = DOMAIN txBatch /\ UNCHANGED <<txBatch, queue, wire>>
      BY <1>7 DEF BatcherDeadline
    <2>2. BatchOfBatcher'
      BY <2>1 DEF BatchOfBatcher
    <2> HIDE DEF FlowInv, FrameInv
    <2> QED
      BY <1>2, <1>3, <2>1, <2>2
  <1>8. ASSUME NEW u \in SUBSET unsent, FlushOn(u), batcher = "flushing",
               wire' \in [Handles -> Numbers]
        PROVE  FlowInv'
    <2>1. queue' = queue /\ unsent' = u
      BY <1>8 DEF FlushOn
    <2>2. CASE u = {}
      <3>1. txBatch' = <<>> /\ batcher' = "waiting"
        BY <1>8, <2>2 DEF FlushOn
      <3>2. BatchOfBatcher' /\ unsent' \subseteq DOMAIN txBatch'
        BY <2>1, <2>2, <3>1 DEF BatchOfBatcher
      <3>3. txBatch' \in Seq(TxPackets) /\ Len(txBatch') <= HighWater
        BY <1>3, <3>1
      <3> HIDE DEF FlowInv, FrameInv
      <3> QED
        BY <1>2, <1>3, <1>8, <2>1, <3>1, <3>2, <3>3
    <2>3. CASE u # {}
      <3>1. txBatch' = txBatch /\ batcher' = batcher
        BY <1>8, <2>3 DEF FlushOn
      <3>2. BatchOfBatcher' /\ unsent' \subseteq DOMAIN txBatch'
        BY <1>3, <1>8, <2>1, <3>1 DEF BatchOfBatcher
      <3> HIDE DEF FlowInv, FrameInv
      <3> QED
        BY <1>2, <1>3, <1>8, <2>1, <3>1, <3>2
    <2> QED
      BY <2>2, <2>3
  <1>9. CASE BatcherSends
    <2>1. PICK i \in unsent : /\ wire' = [wire EXCEPT ![txBatch[i].from] = txBatch[i].n]
                              /\ FlushOn(unsent \ {i})
      BY <1>9 DEF BatcherSends
    <2>2. txBatch[i] \in TxPackets
      BY <1>3, <2>1
    <2>3. wire' \in [Handles -> Numbers]
      BY <1>3, <2>1, <2>2 DEF TxPackets
    <2>4. batcher = "flushing" /\ unsent \ {i} \in SUBSET unsent
      BY <1>9 DEF BatcherSends
    <2> HIDE DEF FlowInv, FrameInv
    <2> QED
      BY <1>8, <2>1, <2>3, <2>4
  <1>10. CASE BatcherSendFails
    <2>1. PICK i \in unsent : FlushOn({j \in unsent : IsV6(j) # IsV6(i)})
      BY <1>10 DEF BatcherSendFails
    <2>2. batcher = "flushing" /\ wire' = wire
      BY <1>10 DEF BatcherSendFails
    <2>3. {j \in unsent : IsV6(j) # IsV6(i)} \in SUBSET unsent
      OBVIOUS
    <2> HIDE DEF FlowInv, FrameInv
    <2> QED
      BY <1>3, <1>8, <2>1, <2>2, <2>3
  <1>11. CASE BatcherStops
    <2>1. /\ batcher = "waiting" /\ batcher' = "stopped" /\ queue' = <<>>
          /\ UNCHANGED <<txBatch, unsent, wire>>
      BY <1>11 DEF BatcherStops
    <2>2. BatchOfBatcher'
      BY <2>1 DEF BatchOfBatcher
    <2>3. Len(queue') <= QueueCap
      BY <1>3, <2>1
    <2> HIDE DEF FlowInv, FrameInv
    <2> QED
      BY <1>2, <1>3, <2>1, <2>2, <2>3
  <1> QED
    BY <1>5, <1>6, <1>7, <1>9, <1>10, <1>11 DEF BatcherStep

LEMMA NextFlowInv == FrameInv /\ FlowInv /\ [Next]_vars => FlowInv'
  <1> SUFFICES ASSUME FrameInv, FlowInv, [Next]_vars PROVE FlowInv'
    OBVIOUS
  <1>1. CASE \E h \in Handles : TunnelStep(h) \/ WriterStep(h) \/ ReaderStep(h)
    BY <1>1, TunnelFlowInv, WriterFlowInv, ReaderFlowInv
  <1>2. CASE (\E t \in Threads : ReceiverStep(t)) \/ BatcherStep
    BY <1>2, ReceiverFlowInv, BatcherFlowInv
  <1>3. CASE Shutdown \/ UNCHANGED vars
    <2>1. /\ UNCHANGED <<chan, batch, written, writer, reader, readBuf, readNum,
                         queue, batcher, txBatch, unsent, wire>>
          /\ stopping' \in {stopping, TRUE}
      BY <1>3 DEF Shutdown, vars, tunnelVars, readerVars, writerVars, txVars
    <2> QED
      BY <2>1 DEF FlowInv, FlowTypes, ChannelsBounded, WriterIdle, BufferOfReader, ReaderRuns,
                  BatchOfBatcher
  <1> QED
    BY <1>1, <1>2, <1>3 DEF Next

--------------------------------------------------------------------------------
(* Every buffer of the pool is in it or in one place of the data path.     *)
PoolInv ==
    /\ free \in Nat
    /\ IsFiniteSet({h \in Handles : readBuf[h]})
    /\ IsFiniteSet(PooledPlaces(chan, ChannelCap))
    /\ IsFiniteSet(PooledPlaces(batch, MaxBatch))
    /\ PoolConserved

(* The buffers the readers have taken. *)
AtReaders == Cardinality({h \in Handles : readBuf[h]})

LEMMA InitPoolInv == Init => PoolInv
  <1> SUFFICES ASSUME Init PROVE PoolInv
    OBVIOUS
  <1>1. /\ readBuf = [h \in Handles |-> h \in AtStartup]
        /\ free = Capacity - Cardinality(AtStartup)
        /\ chan = [h \in Handles |-> <<>>] /\ batch = [h \in Handles |-> <<>>]
        /\ queue = <<>> /\ txBatch = <<>>
    BY DEF Init
  <1>2. /\ AtStartup \subseteq Handles /\ IsFiniteSet(AtStartup)
        /\ Cardinality(AtStartup) <= Capacity /\ Capacity \in Nat
    BY DataPathAssumption DEF AtStartup
  <1>3. Cardinality(AtStartup) \in Nat
    BY <1>2, FS_CardinalityType
  <1>4. {h \in Handles : readBuf[h]} = AtStartup
    <2>1. \A h \in Handles : readBuf[h] <=> h \in AtStartup
      BY <1>1
    <2> QED
      BY <1>2, <2>1
  <1>5. PooledPlaces(chan, ChannelCap) = {} /\ PooledPlaces(batch, MaxBatch) = {}
    <2>1. ASSUME NEW cap, NEW c, c = [h \in Handles |-> <<>>], NEW p \in Handles \X (1 .. cap)
          PROVE  ~(p[2] <= Len(c[p[1]]))
      <3>1. p[2] \in 1 .. cap /\ p[1] \in Handles
        BY <2>1
      <3>2. Len(c[p[1]]) = 0
        BY <2>1, <3>1
      <3> QED
        BY <3>1, <3>2
    <2> QED
      BY <1>1, <2>1 DEF PooledPlaces
  <1>6. /\ PooledOf(chan, ChannelCap) = 0 /\ PooledOf(batch, MaxBatch) = 0
        /\ IsFiniteSet(PooledPlaces(chan, ChannelCap)) /\ IsFiniteSet(PooledPlaces(batch, MaxBatch))
    <2>1. /\ PooledOf(chan, ChannelCap) = Cardinality(PooledPlaces(chan, ChannelCap))
          /\ PooledOf(batch, MaxBatch) = Cardinality(PooledPlaces(batch, MaxBatch))
      BY DEF PooledOf, PooledPlaces
    <2> QED
      BY <1>5, <2>1, FS_EmptySet
  <1>7. InFlight = Cardinality(AtStartup) + 0 + 0 + 0 + 0
    <2>1. PooledIn(queue) = 0 /\ PooledIn(txBatch) = 0
      BY <1>1, PooledEmpty
    <2>2. Cardinality({h \in Handles : readBuf[h]}) = Cardinality(AtStartup)
      BY <1>4
    <2> QED
      BY <1>6, <2>1, <2>2 DEF InFlight
  <1>8. free \in Nat /\ PoolConserved
    BY <1>1, <1>2, <1>3, <1>7 DEF PoolConserved
  <1> QED
    BY <1>2, <1>4, <1>6, <1>8 DEF PoolInv

(* What is counted is a number; a step that moves buffers keeps the sum.   *)
LEMMA Counts ==
    ASSUME FrameInv, FlowInv, PoolInv
    PROVE  /\ free \in Nat /\ AtReaders \in Nat
           /\ PooledOf(chan, ChannelCap) \in Nat /\ PooledOf(batch, MaxBatch) \in Nat
           /\ PooledIn(queue) \in Nat /\ PooledIn(txBatch) \in Nat
           /\ free + (AtReaders + PooledOf(chan, ChannelCap) + PooledOf(batch, MaxBatch)
                          + PooledIn(queue) + PooledIn(txBatch)) = Capacity
  <1>1. AtReaders \in Nat
    BY FS_CardinalityType DEF PoolInv, AtReaders
  <1>2. PooledOf(chan, ChannelCap) \in Nat /\ PooledOf(batch, MaxBatch) \in Nat
    <2>1. /\ PooledOf(chan, ChannelCap) = Cardinality(PooledPlaces(chan, ChannelCap))
          /\ PooledOf(batch, MaxBatch) = Cardinality(PooledPlaces(batch, MaxBatch))
      BY DEF PooledOf, PooledPlaces
    <2> QED
      BY <2>1, FS_CardinalityType DEF PoolInv
  <1>3. PooledIn(queue) \in Nat /\ PooledIn(txBatch) \in Nat
    BY PooledFinite DEF FlowInv, FlowTypes
  <1> QED
    BY <1>1, <1>2, <1>3 DEF PoolInv, PoolConserved, InFlight, AtReaders

LEMMA PoolKept ==
    ASSUME free' \in Nat,
           IsFiniteSet({h \in Handles : readBuf'[h]}),
           IsFiniteSet(PooledPlaces(chan', ChannelCap)),
           IsFiniteSet(PooledPlaces(batch', MaxBatch)),
           free' + (AtReaders' + PooledOf(chan', ChannelCap) + PooledOf(batch', MaxBatch)
                        + PooledIn(queue') + PooledIn(txBatch')) = Capacity
    PROVE  PoolInv'
  BY DEF PoolInv, PoolConserved, InFlight, AtReaders

LEMMA GetBuffer ==
    ASSUME free \in Nat
    PROVE  /\ AfterGet(free) \in Nat /\ FromPool \in BOOLEAN
           /\ AfterGet(free) + Returned(FromPool) = free
  BY DEF AfterGet, Returned, FromPool

(* Frames that go with their handles give their buffers back.              *)
LEMMA DropsPool ==
    ASSUME FrameInv, FlowInv, PoolInv, DropHandles, UNCHANGED <<readBuf, batch, queue, txBatch>>
    PROVE  PoolInv'
  <1> DEFINE O == {g \in Handles : Orphaned(g)'}
             D == {p \in Handles \X (1 .. ChannelCap) :
                       p[1] \in O /\ p[2] <= Len(chan[p[1]]) /\ chan[p[1]][p[2]].pooled}
             E == PooledPlaces(chan', ChannelCap)
  <1>1. \A g \in Handles : chan'[g] = IF g \in O THEN <<>> ELSE chan[g]
    BY DEF DropHandles
  <1>2. free' = free + Cardinality(D)
    <2>1. D = {p \in Handles \X (1 .. ChannelCap) :
                  /\ Orphaned(p[1])'
                  /\ p[2] <= Len(chan[p[1]])
                  /\ chan[p[1]][p[2]].pooled}
      OBVIOUS
    <2> QED
      BY <2>1 DEF DropHandles
  <1> HIDE DEF O
  <1>3. \A p \in Handles \X (1 .. ChannelCap) : p[1] \in O => ~(p[2] <= Len(chan'[p[1]]))
    <2> TAKE p \in Handles \X (1 .. ChannelCap)
    <2> HAVE p[1] \in O
    <2>1. p[1] \in Handles /\ p[2] \in 1 .. ChannelCap
      OBVIOUS
    <2>2. Len(chan'[p[1]]) = 0
      BY <1>1, <2>1
    <2> QED
      BY <2>1, <2>2
  <1>4. \A p \in Handles \X (1 .. ChannelCap) : p[1] \notin O => chan'[p[1]] = chan[p[1]]
    BY <1>1
  <1>5. PooledPlaces(chan, ChannelCap) = D \cup E /\ D \cap E = {}
    BY <1>3, <1>4 DEF PooledPlaces
  <1>6. /\ PooledOf(chan, ChannelCap) = Cardinality(PooledPlaces(chan, ChannelCap))
        /\ PooledOf(chan', ChannelCap) = Cardinality(E)
    BY DEF PooledOf, PooledPlaces
  <1> HIDE DEF D, E
  <1>7. IsFiniteSet(D \cup E)
    <2>1. IsFiniteSet(PooledPlaces(chan, ChannelCap))
      BY DEF PoolInv
    <2> QED
      BY <1>5, <2>1, Zenon
  <1>8. /\ IsFiniteSet(E) /\ Cardinality(D) \in Nat /\ Cardinality(E) \in Nat
        /\ Cardinality(D \cup E) = Cardinality(D) + Cardinality(E)
    BY <1>5, <1>7, Parts, Zenon
  <1>9. PooledOf(chan, ChannelCap) = Cardinality(D \cup E)
    BY <1>5, <1>6, Zenon
  <1>10. free' \in Nat /\ free' + PooledOf(chan', ChannelCap) = free + PooledOf(chan, ChannelCap)
    BY <1>2, <1>6, <1>8, <1>9, Counts
  <1>11. AtReaders' = AtReaders /\ IsFiniteSet({h \in Handles : readBuf'[h]})
    BY DEF AtReaders, PoolInv
  <1>12. /\ PooledOf(batch', MaxBatch) = PooledOf(batch, MaxBatch)
         /\ IsFiniteSet(PooledPlaces(batch', MaxBatch))
    BY DEF PoolInv
  <1>13. IsFiniteSet(PooledPlaces(chan', ChannelCap))
    BY <1>8 DEF E
  <1>14. free' + (AtReaders' + PooledOf(chan', ChannelCap) + PooledOf(batch', MaxBatch)
                      + PooledIn(queue') + PooledIn(txBatch')) = Capacity
    <2>1. PooledIn(queue') = PooledIn(queue) /\ PooledIn(txBatch') = PooledIn(txBatch)
      OBVIOUS
    <2>2. PooledOf(chan', ChannelCap) \in Nat
      BY <1>6, <1>8
    <2> QED
      BY <1>10, <1>11, <1>12, <2>1, <2>2, Counts
  <1> QED
    BY <1>10, <1>11, <1>12, <1>13, <1>14, PoolKept

(* A reader takes a buffer, or gives up the one it has.                    *)
LEMMA ReaderPool ==
    ASSUME FrameInv, FlowInv, PoolInv, NEW h \in Handles, NEW b \in BOOLEAN,
           readBuf' = [readBuf EXCEPT ![h] = b], UNCHANGED <<chan, batch, txBatch>>,
           free' \in Nat, PooledIn(queue') \in Nat,
           free' + Returned(b) + PooledIn(queue') = free + Returned(readBuf[h]) + PooledIn(queue)
    PROVE  PoolInv'
  <1>1. readBuf \in [Handles -> BOOLEAN] /\ IsFiniteSet({g \in Handles : readBuf[g]})
    BY DEF FlowInv, FlowTypes, PoolInv
  <1>2. /\ IsFiniteSet({g \in Handles : readBuf'[g]})
        /\ AtReaders \in Nat /\ AtReaders' \in Nat
        /\ AtReaders' + Returned(readBuf[h]) = AtReaders + Returned(b)
    BY <1>1, ReaderBuffer DEF AtReaders
  <1>3. Returned(b) \in Nat /\ Returned(readBuf[h]) \in Nat
    BY DEF Returned
  <1>4. /\ PooledOf(chan', ChannelCap) = PooledOf(chan, ChannelCap)
        /\ PooledOf(batch', MaxBatch) = PooledOf(batch, MaxBatch)
        /\ PooledIn(txBatch') = PooledIn(txBatch)
        /\ IsFiniteSet(PooledPlaces(chan', ChannelCap))
        /\ IsFiniteSet(PooledPlaces(batch', MaxBatch))
    BY DEF PoolInv
  <1>5. free' + (AtReaders' + PooledOf(chan', ChannelCap) + PooledOf(batch', MaxBatch)
                     + PooledIn(queue') + PooledIn(txBatch')) = Capacity
    BY <1>2, <1>3, <1>4, Counts
  <1> QED
    BY <1>2, <1>4, <1>5, PoolKept

(* Frames move between a channel, a batch and the outside.                 *)
NowHolds(h, c, b) == chan' = [chan EXCEPT ![h] = c] /\ batch' = [batch EXCEPT ![h] = b]

LEMMA FramesPool ==
    ASSUME FrameInv, FlowInv, PoolInv, NEW h \in Handles,
           NEW c \in Seq(RxFrames), Len(c) <= ChannelCap,
           NEW b \in Seq(RxFrames), Len(b) <= MaxBatch, NowHolds(h, c, b),
           UNCHANGED <<readBuf, queue, txBatch>>, free' \in Nat,
           free' + PooledIn(c) + PooledIn(b) = free + PooledIn(chan[h]) + PooledIn(batch[h])
    PROVE  PoolInv'
  <1>1. /\ chan \in [Handles -> Seq(RxFrames)] /\ batch \in [Handles -> Seq(RxFrames)]
        /\ Len(chan[h]) <= ChannelCap /\ Len(batch[h]) <= MaxBatch
        /\ ChannelCap \in Nat /\ MaxBatch \in Nat
    BY DataPathAssumption DEF FrameInv, FrameTypes, FlowInv, ChannelsBounded
  <1>2. IsFiniteSet(PooledPlaces(chan, ChannelCap)) /\ IsFiniteSet(PooledPlaces(batch, MaxBatch))
    BY DEF PoolInv
  <1> DEFINE atChan == PooledOf(chan', ChannelCap)
             atBatch == PooledOf(batch', MaxBatch)
             inChan == PooledIn(chan[h])
             inBatch == PooledIn(batch[h])
  <1>3. /\ IsFiniteSet(PooledPlaces(chan', ChannelCap))
        /\ atChan \in Nat /\ inChan \in Nat /\ PooledIn(c) \in Nat
        /\ atChan + inChan = PooledOf(chan, ChannelCap) + PooledIn(c)
    <2>1. CountsAs(chan', chan, ChannelCap, c, chan[h])
      BY <1>1, <1>2, PooledChange DEF NowHolds
    <2> QED
      BY <2>1 DEF CountsAs
  <1>4. /\ IsFiniteSet(PooledPlaces(batch', MaxBatch))
        /\ atBatch \in Nat /\ inBatch \in Nat /\ PooledIn(b) \in Nat
        /\ atBatch + inBatch = PooledOf(batch, MaxBatch) + PooledIn(b)
    <2>1. CountsAs(batch', batch, MaxBatch, b, batch[h])
      BY <1>1, <1>2, PooledChange DEF NowHolds
    <2> QED
      BY <2>1 DEF CountsAs
  <1>5. /\ AtReaders' = AtReaders /\ IsFiniteSet({g \in Handles : readBuf'[g]})
        /\ PooledIn(queue') = PooledIn(queue) /\ PooledIn(txBatch') = PooledIn(txBatch)
    BY DEF AtReaders, PoolInv
  <1>6. free' + PooledIn(c) + PooledIn(b) = free + inChan + inBatch
    OBVIOUS
  <1>7. /\ free \in Nat /\ AtReaders \in Nat
        /\ PooledOf(chan, ChannelCap) \in Nat /\ PooledOf(batch, MaxBatch) \in Nat
        /\ PooledIn(queue) \in Nat /\ PooledIn(txBatch) \in Nat
        /\ free + (AtReaders + PooledOf(chan, ChannelCap) + PooledOf(batch, MaxBatch)
                       + PooledIn(queue) + PooledIn(txBatch)) = Capacity
    BY Counts
  <1>8. free' + (AtReaders' + atChan + atBatch + PooledIn(queue') + PooledIn(txBatch')) = Capacity
    <2> HIDE DEF atChan, atBatch, inChan, inBatch
    <2>1. PICK x \in Nat, xx \in Nat : x = PooledOf(chan, ChannelCap) /\ xx = atChan
      BY <1>3, <1>7
    <2>2. PICK y \in Nat, yy \in Nat : y = PooledOf(batch, MaxBatch) /\ yy = atBatch
      BY <1>4, <1>7
    <2>3. PICK m \in Nat, mm \in Nat : m = inChan /\ mm = PooledIn(c)
      BY <1>3
    <2>4. PICK n \in Nat, nn \in Nat : n = inBatch /\ nn = PooledIn(b)
      BY <1>4
    <2>5. PICK f \in Nat, ff \in Nat : f = free /\ ff = free'
      BY <1>7
    <2>6. PICK r \in Nat, q \in Nat, t \in Nat :
              r = AtReaders /\ q = PooledIn(queue) /\ t = PooledIn(txBatch)
      BY <1>7
    <2>7. xx + m = x + mm
      BY <1>3, <2>1, <2>3
    <2>8. yy + n = y + nn
      BY <1>4, <2>2, <2>4
    <2>9. ff + mm + nn = f + m + n
      BY <1>6, <2>3, <2>4, <2>5
    <2>10. f + (r + x + y + q + t) = Capacity
      BY <1>7, <2>1, <2>2, <2>5, <2>6
    <2>11. ff + (xx + yy) = f + (x + y)
      BY <2>7, <2>8, <2>9
    <2>12. ff + (r + xx + yy + q + t) = Capacity
      BY <2>10, <2>11
    <2> QED
      BY <1>5, <2>1, <2>2, <2>5, <2>6, <2>12
  <1> QED
    BY <1>3, <1>4, <1>5, <1>8, PoolKept

(* Packets move between the queue, the batch and the outside.              *)
LEMMA PacketsPool ==
    ASSUME FrameInv, FlowInv, PoolInv, UNCHANGED <<readBuf, chan, batch>>, free' \in Nat,
           PooledIn(queue') \in Nat, PooledIn(txBatch') \in Nat,
           free' + PooledIn(queue') + PooledIn(txBatch') = free + PooledIn(queue) + PooledIn(txBatch)
    PROVE  PoolInv'
  <1>1. /\ AtReaders' = AtReaders /\ IsFiniteSet({g \in Handles : readBuf'[g]})
        /\ PooledOf(chan', ChannelCap) = PooledOf(chan, ChannelCap)
        /\ PooledOf(batch', MaxBatch) = PooledOf(batch, MaxBatch)
        /\ IsFiniteSet(PooledPlaces(chan', ChannelCap))
        /\ IsFiniteSet(PooledPlaces(batch', MaxBatch))
    BY DEF AtReaders, PoolInv
  <1>2. free' + (AtReaders' + PooledOf(chan', ChannelCap) + PooledOf(batch', MaxBatch)
                     + PooledIn(queue') + PooledIn(txBatch')) = Capacity
    BY <1>1, Counts
  <1> QED
    BY <1>1, <1>2, PoolKept

LEMMA TunnelPool ==
    ASSUME FrameInv, FlowInv, PoolInv, NEW h \in Handles, TunnelStep(h)
    PROVE  PoolInv'
  <1>1. ASSUME NEW k \in Keys, Register(h, k)
        PROVE  PoolInv'
    <2>1. UNCHANGED <<free, readBuf, chan, batch, queue, txBatch>>
      BY <1>1 DEF Register, writerVars, txVars
    <2> QED
      BY <2>1 DEF PoolInv, PoolConserved, InFlight
  <1>2. CASE CreateFails(h)
    BY <1>2, DropsPool DEF CreateFails, txVars
  <1>3. CASE Start(h)
    <2>1. /\ reader[h] = "creating" /\ readBuf' = [readBuf EXCEPT ![h] = FromPool]
          /\ free' = AfterGet(free) /\ UNCHANGED <<chan, batch, queue, txBatch>>
      BY <1>3 DEF Start, txVars
    <2>2. readBuf[h] = FALSE
      BY <2>1 DEF FlowInv, FlowTypes, BufferOfReader, ReaderRuns
    <2>3. /\ AfterGet(free) \in Nat /\ FromPool \in BOOLEAN
          /\ AfterGet(free) + Returned(FromPool) = free
          /\ PooledIn(queue) \in Nat /\ Returned(readBuf[h]) = 0 /\ Returned(FromPool) \in Nat
          /\ free \in Nat
      BY <2>2, Counts, GetBuffer DEF Returned
    <2>4. /\ free' \in Nat /\ PooledIn(queue') \in Nat
          /\ free' + Returned(FromPool) + PooledIn(queue')
                 = free + Returned(readBuf[h]) + PooledIn(queue)
      BY <2>1, <2>3
    <2> QED
      BY <2>1, <2>3, <2>4, ReaderPool
  <1>4. CASE Cancel(h)
    <2>1. UNCHANGED <<free, readBuf, chan, batch, queue, txBatch>>
      BY <1>4 DEF Cancel, writerVars, txVars
    <2> QED
      BY <2>1 DEF PoolInv, PoolConserved, InFlight
  <1>5. CASE Unregister(h)
    BY <1>5, DropsPool DEF Unregister, txVars, readerVars
  <1> QED
    BY <1>1, <1>2, <1>3, <1>4, <1>5 DEF TunnelStep

(* A frame that is delivered takes a buffer; one that is not, none.        *)
LEMMA ReceiverPool ==
    ASSUME FrameInv, FlowInv, PoolInv, NEW t \in Threads, ReceiverStep(t)
    PROVE  PoolInv'
  <1>1. UNCHANGED <<readBuf, batch, queue, txBatch>>
    BY DEF ReceiverStep, Receive, Deliver, readerVars, writerVars, txVars
  <1>2. CASE UNCHANGED <<chan, free>>
    BY <1>1, <1>2 DEF PoolInv, PoolConserved, InFlight
  <1>3. ASSUME NEW h \in Handles, NEW f \in RxFrames, f.pooled = FromPool,
               Len(chan[h]) # ChannelCap,
               chan' = [chan EXCEPT ![h] = Append(chan[h], f)], free' = AfterGet(free)
        PROVE  PoolInv'
    <2>1. /\ chan[h] \in Seq(RxFrames) /\ Len(chan[h]) \in Nat /\ Len(chan[h]) <= ChannelCap
          /\ batch[h] \in Seq(RxFrames) /\ Len(batch[h]) <= MaxBatch
          /\ batch = [batch EXCEPT ![h] = batch[h]] /\ ChannelCap \in Nat
      BY DataPathAssumption DEF FrameInv, FrameTypes, FlowInv, ChannelsBounded
    <2>2. Append(chan[h], f) \in Seq(RxFrames) /\ Len(Append(chan[h], f)) <= ChannelCap
      BY <1>3, <2>1
    <2>3. PooledIn(Append(chan[h], f)) = PooledIn(chan[h]) + Returned(f.pooled)
      BY <2>1, PooledAppend
    <2>4. /\ PooledIn(chan[h]) \in Nat /\ PooledIn(batch[h]) \in Nat
      BY <2>1, PooledFinite
    <2>5. /\ AfterGet(free) \in Nat /\ AfterGet(free) + Returned(FromPool) = free
          /\ Returned(FromPool) \in Nat /\ free \in Nat
      BY Counts, GetBuffer DEF Returned
    <2>6. /\ free' \in Nat
          /\ free' + PooledIn(Append(chan[h], f)) + PooledIn(batch[h])
                 = free + PooledIn(chan[h]) + PooledIn(batch[h])
      BY <1>3, <2>3, <2>4, <2>5
    <2>7. batch' = [batch EXCEPT ![h] = batch[h]]
      BY <1>1, <2>1
    <2>8. UNCHANGED <<readBuf, queue, txBatch>>
      BY <1>1
    <2> QED
      BY <1>3, <2>1, <2>2, <2>6, <2>7, <2>8, FramesPool DEF NowHolds
  <1>4. CASE Receive(t)
    BY <1>2, <1>4 DEF Receive, writerVars
  <1>5. CASE Deliver(t)
    <2> DEFINE f == Head(held[t])
               h == registry[f.to]
    <2>1. held[t] \in Seq(Received) /\ held[t] # <<>>
      BY <1>5 DEF Deliver, FrameInv, FrameTypes
    <2>2. f \in Received
      BY <2>1
    <2>3. h \in Handles \cup {Nobody}
      BY <2>2 DEF FrameInv, FrameTypes, Received
    <2>4. Buffered(f) \in RxFrames /\ Buffered(f).pooled = FromPool
      BY <2>2 DEF Buffered, FromPool, Received, RxFrames
    <2>5. \/ UNCHANGED <<chan, free>>
          \/ /\ h # Nobody /\ Len(chan[h]) # ChannelCap
             /\ chan' = [chan EXCEPT ![h] = Append(chan[h], Buffered(f))]
             /\ free' = AfterGet(free)
      BY <1>5 DEF Deliver
    <2> HIDE DEF f, h
    <2> QED
      BY <1>2, <1>3, <2>3, <2>4, <2>5
  <1> QED
    BY <1>4, <1>5 DEF ReceiverStep

LEMMA WriterPool ==
    ASSUME FrameInv, FlowInv, PoolInv, NEW h \in Handles, WriterStep(h)
    PROVE  PoolInv'
  <1>1. UNCHANGED <<readBuf, queue, txBatch>>
    BY DEF WriterStep, WriterReceives, WriterDrains, WriterWrites, WriterEnds, readerVars, txVars
  <1>2. /\ chan[h] \in Seq(RxFrames) /\ batch[h] \in Seq(RxFrames)
        /\ Len(chan[h]) <= ChannelCap /\ Len(batch[h]) <= MaxBatch
        /\ Len(chan[h]) \in Nat /\ Len(batch[h]) \in Nat
        /\ ChannelCap \in Nat /\ MaxBatch \in Nat \ {0}
        /\ chan = [chan EXCEPT ![h] = chan[h]]
    BY DataPathAssumption DEF FrameInv, FrameTypes, FlowInv, ChannelsBounded
  <1>3. /\ PooledIn(chan[h]) \in Nat /\ PooledIn(batch[h]) \in Nat /\ free \in Nat
    BY <1>2, PooledFinite, Counts
  <1>4. chan[h] # <<>> =>
            /\ Tail(chan[h]) \in Seq(RxFrames) /\ Len(Tail(chan[h])) <= ChannelCap
            /\ Head(chan[h]) \in RxFrames
            /\ PooledIn(Tail(chan[h])) \in Nat
            /\ Returned(Head(chan[h]).pooled) \in Nat
            /\ PooledIn(chan[h]) = PooledIn(Tail(chan[h])) + Returned(Head(chan[h]).pooled)
    <2> HAVE chan[h] # <<>>
    <2>1. /\ Tail(chan[h]) \in Seq(RxFrames) /\ Len(Tail(chan[h])) <= ChannelCap
          /\ Head(chan[h]) \in RxFrames
      BY <1>2
    <2>2. PooledIn(Tail(chan[h])) \in Nat
      BY <2>1, PooledFinite
    <2>3. Returned(Head(chan[h]).pooled) \in Nat
      BY DEF Returned
    <2>4. PooledIn(chan[h]) = PooledIn(Tail(chan[h])) + Returned(Head(chan[h]).pooled)
      BY <1>2, PooledTail
    <2> QED
      BY <2>1, <2>2, <2>3, <2>4
  <1>5. CASE WriterReceives(h)
    <2>1. /\ chan[h] # <<>> /\ writer[h] = "receiving" /\ free' = free
          /\ batch' = [batch EXCEPT ![h] = <<Head(chan[h])>>]
          /\ chan' = [chan EXCEPT ![h] = Tail(chan[h])]
      BY <1>5 DEF WriterReceives
    <2>2. batch[h] = <<>>
      BY <2>1 DEF FlowInv, WriterIdle
    <2>3. PooledIn(batch[h]) = 0
      BY <2>2, PooledEmpty
    <2>4. /\ <<Head(chan[h])>> \in Seq(RxFrames) /\ Len(<<Head(chan[h])>>) <= MaxBatch
          /\ PooledIn(<<Head(chan[h])>>) = Returned(Head(chan[h]).pooled)
      BY <1>2, <1>4, <2>1, PooledOne
    <2>5. /\ free' \in Nat
          /\ free' + PooledIn(Tail(chan[h])) + PooledIn(<<Head(chan[h])>>)
                 = free + PooledIn(chan[h]) + PooledIn(batch[h])
      BY <1>3, <1>4, <2>1, <2>3, <2>4
    <2> QED
      BY <1>1, <1>4, <2>1, <2>4, <2>5, FramesPool DEF NowHolds
  <1>6. CASE WriterDrains(h)
    <2>1. /\ chan[h] # <<>> /\ Len(batch[h]) < MaxBatch /\ free' = free
          /\ batch' = [batch EXCEPT ![h] = Append(batch[h], Head(chan[h]))]
          /\ chan' = [chan EXCEPT ![h] = Tail(chan[h])]
      BY <1>6 DEF WriterDrains
    <2>2. /\ Append(batch[h], Head(chan[h])) \in Seq(RxFrames)
          /\ Len(Append(batch[h], Head(chan[h]))) <= MaxBatch
      BY <1>2, <1>4, <2>1
    <2>3. PooledIn(Append(batch[h], Head(chan[h])))
              = PooledIn(batch[h]) + Returned(Head(chan[h]).pooled)
      BY <1>2, <1>4, <2>1, PooledAppend
    <2>4. /\ free' \in Nat
          /\ free' + PooledIn(Tail(chan[h])) + PooledIn(Append(batch[h], Head(chan[h])))
                 = free + PooledIn(chan[h]) + PooledIn(batch[h])
      BY <1>3, <1>4, <2>1, <2>3
    <2> QED
      BY <1>1, <1>4, <2>1, <2>2, <2>4, FramesPool DEF NowHolds
  <1>7. CASE WriterWrites(h)
    <2>1. /\ batch' = [batch EXCEPT ![h] = Tail(batch[h])]
          /\ chan' = [chan EXCEPT ![h] = chan[h]]
          /\ free' = free + Returned(Head(batch[h]).pooled)
          /\ writer[h] \in {"draining", "writing"}
      BY <1>2, <1>7 DEF WriterWrites, WriterMayWrite
    <2>2. batch[h] # <<>>
      BY <2>1 DEF FrameInv, WriterHasFrames
    <2>3. Tail(batch[h]) \in Seq(RxFrames) /\ Len(Tail(batch[h])) <= MaxBatch
      BY <1>2, <2>2
    <2>4. PooledIn(Tail(batch[h])) \in Nat
      BY <2>3, PooledFinite
    <2>5. Returned(Head(batch[h]).pooled) \in Nat
      BY DEF Returned
    <2>6. PooledIn(batch[h]) = PooledIn(Tail(batch[h])) + Returned(Head(batch[h]).pooled)
      BY <1>2, <2>2, PooledTail
    <2>7. /\ free' \in Nat
          /\ free' + PooledIn(chan[h]) + PooledIn(Tail(batch[h]))
                 = free + PooledIn(chan[h]) + PooledIn(batch[h])
      BY <1>3, <2>1, <2>4, <2>5, <2>6
    <2> QED
      BY <1>1, <1>2, <2>1, <2>3, <2>7, FramesPool DEF NowHolds
  <1>8. CASE WriterEnds(h)
    <2>1. UNCHANGED <<free, chan, batch>>
      BY <1>8 DEF WriterEnds
    <2> QED
      BY <1>1, <2>1 DEF PoolInv, PoolConserved, InFlight
  <1> QED
    BY <1>5, <1>6, <1>7, <1>8 DEF WriterStep

LEMMA ReaderStepPool ==
    ASSUME FrameInv, FlowInv, PoolInv, NEW h \in Handles, ReaderStep(h)
    PROVE  PoolInv'
  <1>1. UNCHANGED <<chan, batch, txBatch>>
    BY DEF ReaderStep, ReaderReads, ReaderSends, ReaderSendFails, ReaderStops, ReaderFails,
           ReaderEnds, writerVars, txVars
  <1>2. /\ free \in Nat /\ PooledIn(queue) \in Nat /\ queue \in Seq(TxPackets)
        /\ Returned(readBuf[h]) \in Nat /\ readBuf[h] \in BOOLEAN /\ readNum[h] \in Numbers
    BY Counts DEF Returned, FlowInv, FlowTypes
  <1>3. CASE ReaderReads(h)
    <2>1. UNCHANGED <<free, readBuf, queue>>
      BY <1>3 DEF ReaderReads, txVars
    <2> QED
      BY <1>1, <2>1 DEF PoolInv, PoolConserved, InFlight
  <1>4. CASE ReaderSends(h)
    <2>1. /\ queue' = Append(queue, Packet(h))
          /\ readBuf' = [readBuf EXCEPT ![h] = FromPool]
          /\ free' = AfterGet(free)
      BY <1>4 DEF ReaderSends
    <2>2. Packet(h) \in TxPackets /\ Packet(h).pooled = readBuf[h]
      BY <1>2 DEF Packet, TxPackets
    <2>3. PooledIn(queue') = PooledIn(queue) + Returned(readBuf[h])
      BY <1>2, <2>1, <2>2, PooledAppend
    <2>4. /\ AfterGet(free) \in Nat /\ FromPool \in BOOLEAN
          /\ AfterGet(free) + Returned(FromPool) = free /\ Returned(FromPool) \in Nat
      BY <1>2, GetBuffer DEF Returned
    <2>5. /\ free' \in Nat /\ PooledIn(queue') \in Nat
          /\ free' + Returned(FromPool) + PooledIn(queue')
                 = free + Returned(readBuf[h]) + PooledIn(queue)
      BY <1>2, <2>1, <2>3, <2>4
    <2> QED
      BY <1>1, <2>1, <2>4, <2>5, ReaderPool
  <1>5. CASE ReaderSendFails(h) \/ ReaderStops(h) \/ ReaderFails(h)
    <2>1. ReaderEnds(h)
      BY <1>5 DEF ReaderSendFails, ReaderStops, ReaderFails
    <2> DEFINE b == FALSE
    <2>2. /\ readBuf' = [readBuf EXCEPT ![h] = b]
          /\ free' = free + Returned(readBuf[h]) /\ queue' = queue
      BY <2>1 DEF ReaderEnds, txVars
    <2>3. Returned(b) = 0 /\ b \in BOOLEAN
      BY DEF Returned
    <2> HIDE DEF b
    <2>4. /\ free' \in Nat /\ PooledIn(queue') \in Nat
          /\ free' + Returned(b) + PooledIn(queue')
                 = free + Returned(readBuf[h]) + PooledIn(queue)
      BY <1>2, <2>2, <2>3
    <2> QED
      BY <1>1, <2>2, <2>3, <2>4, ReaderPool
  <1> QED
    BY <1>3, <1>4, <1>5 DEF ReaderStep

LEMMA BatcherPool ==
    ASSUME FrameInv, FlowInv, PoolInv, BatcherStep
    PROVE  PoolInv'
  <1>1. UNCHANGED <<readBuf, chan, batch>>
    BY DEF BatcherStep, BatcherTakes, BatcherAdds, BatcherDeadline, BatcherSends,
           BatcherSendFails, BatcherStops, FlushOn, readerVars, writerVars
  <1>2. /\ free \in Nat /\ PooledIn(queue) \in Nat /\ PooledIn(txBatch) \in Nat
        /\ queue \in Seq(TxPackets) /\ txBatch \in Seq(TxPackets)
    BY Counts DEF FlowInv, FlowTypes
  <1>3. queue # <<>> =>
            /\ Head(queue) \in TxPackets /\ PooledIn(Tail(queue)) \in Nat
            /\ Returned(Head(queue).pooled) \in Nat
            /\ PooledIn(queue) = PooledIn(Tail(queue)) + Returned(Head(queue).pooled)
    <2> HAVE queue # <<>>
    <2>1. Tail(queue) \in Seq(TxPackets) /\ Head(queue) \in TxPackets
      BY <1>2
    <2>2. PooledIn(Tail(queue)) \in Nat
      BY <2>1, PooledFinite
    <2>3. Returned(Head(queue).pooled) \in Nat
      BY DEF Returned
    <2>4. PooledIn(queue) = PooledIn(Tail(queue)) + Returned(Head(queue).pooled)
      BY <1>2, PooledTail
    <2> QED
      BY <2>1, <2>2, <2>3, <2>4
  <1>4. CASE BatcherTakes
    <2>1. /\ queue # <<>> /\ queue' = Tail(queue) /\ txBatch' = <<Head(queue)>>
          /\ batcher = "waiting" /\ free' = free
      BY <1>4 DEF BatcherTakes, Fill
    <2>2. txBatch = <<>>
      BY <2>1 DEF FlowInv, BatchOfBatcher
    <2>3. PooledIn(txBatch) = 0 /\ PooledIn(txBatch') = Returned(Head(queue).pooled)
      BY <1>3, <2>1, <2>2, PooledEmpty, PooledOne
    <2> QED
      BY <1>1, <1>2, <1>3, <2>1, <2>3, PacketsPool
  <1>5. CASE BatcherAdds
    <2>1. /\ queue # <<>> /\ queue' = Tail(queue) /\ txBatch' = Append(txBatch, Head(queue))
          /\ free' = free
      BY <1>5 DEF BatcherAdds, Fill
    <2>2. PooledIn(txBatch') = PooledIn(txBatch) + Returned(Head(queue).pooled)
      BY <1>2, <1>3, <2>1, PooledAppend
    <2> QED
      BY <1>1, <1>2, <1>3, <2>1, <2>2, PacketsPool
  <1>6. CASE BatcherDeadline
    <2>1. UNCHANGED <<free, queue, txBatch>>
      BY <1>6 DEF BatcherDeadline
    <2> QED
      BY <1>1, <1>2, <2>1, PacketsPool
  <1>7. ASSUME NEW u, FlushOn(u)
        PROVE  PoolInv'
    <2>1. CASE u = {}
      <3>1. free' = free + PooledIn(txBatch) /\ txBatch' = <<>> /\ queue' = queue
        BY <1>7, <2>1 DEF FlushOn
      <3>2. PooledIn(txBatch') = 0
        BY <3>1, PooledEmpty
      <3> QED
        BY <1>1, <1>2, <3>1, <3>2, PacketsPool
    <2>2. CASE u # {}
      <3>1. UNCHANGED <<free, queue, txBatch>>
        BY <1>7, <2>2 DEF FlushOn
      <3> QED
        BY <1>1, <1>2, <3>1, PacketsPool
    <2> QED
      BY <2>1, <2>2
  <1>8. CASE BatcherSends \/ BatcherSendFails
    BY <1>7, <1>8 DEF BatcherSends, BatcherSendFails
  <1>9. CASE BatcherStops
    <2>1. free' = free + PooledIn(queue) /\ queue' = <<>> /\ txBatch' = txBatch
      BY <1>9 DEF BatcherStops
    <2>2. PooledIn(queue') = 0
      BY <2>1, PooledEmpty
    <2> QED
      BY <1>1, <1>2, <2>1, <2>2, PacketsPool
  <1> QED
    BY <1>4, <1>5, <1>6, <1>8, <1>9 DEF BatcherStep

LEMMA NextPoolInv == FrameInv /\ FlowInv /\ PoolInv /\ [Next]_vars => PoolInv'
  <1> SUFFICES ASSUME FrameInv, FlowInv, PoolInv, [Next]_vars PROVE PoolInv'
    OBVIOUS
  <1>1. CASE \E h \in Handles : TunnelStep(h) \/ WriterStep(h) \/ ReaderStep(h)
    BY <1>1, TunnelPool, WriterPool, ReaderStepPool
  <1>2. CASE (\E t \in Threads : ReceiverStep(t)) \/ BatcherStep
    BY <1>2, ReceiverPool, BatcherPool
  <1>3. CASE Shutdown \/ UNCHANGED vars
    <2>1. UNCHANGED <<free, readBuf, chan, batch, queue, txBatch>>
      BY <1>3 DEF Shutdown, vars, readerVars, writerVars, txVars
    <2> QED
      BY <2>1 DEF PoolInv, PoolConserved, InFlight
  <1> QED
    BY <1>1, <1>2, <1>3 DEF Next

(* No buffer of the pool is lost or returned twice (PoolConserved),        *)
(* whichever thread drops it and however tunnels come and go.              *)
THEOREM BuffersAreConserved == Spec => []PoolConserved
  <1>1. PoolInv => PoolConserved
    BY DEF PoolInv
  <1> QED
    BY <1>1, InitFrameInv, NextFrameInv, InitFlowInv, NextFlowInv, InitPoolInv, NextPoolInv,
       PTL DEF Spec

(* The variables have their types; the channels, the queue and the batches *)
(* keep to their capacities and the pool to its own.                       *)
THEOREM DataPathTypes == Spec => []TypeOK
  <1>1. TapInv /\ FrameInv /\ FlowInv /\ PoolInv => TypeOK
    <2> SUFFICES ASSUME TapInv, FrameInv, FlowInv, PoolInv PROVE TypeOK
      OBVIOUS
    <2>1. free \in 0 .. Capacity
      BY Counts, DataPathAssumption
    <2> QED
      BY <2>1 DEF TapInv, TapTypes, FrameInv, FrameTypes, FlowInv, FlowTypes, ChannelsBounded,
                  TypeOK, ReaderStates
  <1> QED
    BY <1>1, InitTapInv, NextTapInv, InitFrameInv, NextFrameInv, InitFlowInv, NextFlowInv,
       InitPoolInv, NextPoolInv, PTL DEF Spec

--------------------------------------------------------------------------------
(* Frames in line.  X is the set of frames whose order counts: those of    *)
(* one receive thread, or of one TAP.                                      *)
Increasing(s, X) ==
    \A i, j \in DOMAIN s : i < j /\ s[i] \in X /\ s[j] \in X => s[i].n < s[j].n

Above(s, X, m) == \A i \in DOMAIN s : s[i] \in X => s[i].n > m
Below(s, X, m) == \A i \in DOMAIN s : s[i] \in X => s[i].n < m

Ahead(s, u, X) ==
    \A i \in DOMAIN s : \A j \in DOMAIN u : s[i] \in X /\ u[j] \in X => s[i].n < u[j].n

UpTo(s, m) == \A i \in DOMAIN s : s[i].n \in Nat /\ s[i].n <= m

LEMMA EmptyLine ==
    ASSUME NEW X
    PROVE  /\ Increasing(<<>>, X)
           /\ \A m : Above(<<>>, X, m) /\ UpTo(<<>>, m)
           /\ \A u : Ahead(<<>>, u, X) /\ Ahead(u, <<>>, X)
  BY DEF Increasing, Above, Ahead, UpTo

LEMMA AppendLine ==
    ASSUME NEW S, NEW s \in Seq(S), NEW f \in S, NEW X
    PROVE  /\ Increasing(s, X) /\ (f \in X => Below(s, X, f.n)) => Increasing(Append(s, f), X)
           /\ \A m : Above(s, X, m) /\ (f \in X => f.n > m) => Above(Append(s, f), X, m)
           /\ \A u : Ahead(s, u, X) /\ (f \in X => Above(u, X, f.n)) => Ahead(Append(s, f), u, X)
           /\ \A u : Ahead(u, s, X) /\ (f \in X => Below(u, X, f.n)) => Ahead(u, Append(s, f), X)
           /\ \A m : UpTo(s, m) /\ f.n \in Nat /\ f.n <= m => UpTo(Append(s, f), m)
  <1> DEFINE a == Append(s, f)
  <1>1. \A i \in DOMAIN a : (i \in DOMAIN s /\ a[i] = s[i]) \/ a[i] = f
    OBVIOUS
  <1>2. \A i, j \in DOMAIN a : i < j => i \in DOMAIN s /\ a[i] = s[i]
    OBVIOUS
  <1> HIDE DEF a
  <1>3. Increasing(s, X) /\ (f \in X => Below(s, X, f.n)) => Increasing(a, X)
    BY <1>1, <1>2 DEF Increasing, Below
  <1>4. \A m : Above(s, X, m) /\ (f \in X => f.n > m) => Above(a, X, m)
    BY <1>1 DEF Above
  <1>5. \A u : Ahead(s, u, X) /\ (f \in X => Above(u, X, f.n)) => Ahead(a, u, X)
    <2> TAKE u
    <2> HAVE Ahead(s, u, X) /\ (f \in X => Above(u, X, f.n))
    <2>1. ASSUME NEW i \in DOMAIN a, NEW j \in DOMAIN u, a[i] \in X, u[j] \in X
          PROVE  a[i].n < u[j].n
      <3>1. CASE i \in DOMAIN s /\ a[i] = s[i]
        BY <2>1, <3>1 DEF Ahead
      <3>2. CASE a[i] = f
        BY <2>1, <3>2 DEF Above
      <3> QED
        BY <1>1, <3>1, <3>2
    <2> QED
      BY <2>1 DEF Ahead
  <1>6. \A u : Ahead(u, s, X) /\ (f \in X => Below(u, X, f.n)) => Ahead(u, a, X)
    BY <1>1 DEF Ahead, Below
  <1>7. \A m : UpTo(s, m) /\ f.n \in Nat /\ f.n <= m => UpTo(a, m)
    BY <1>1 DEF UpTo
  <1> QED
    BY <1>3, <1>4, <1>5, <1>6, <1>7 DEF a

LEMMA TailLine ==
    ASSUME NEW S, NEW s \in Seq(S), s # <<>>, NEW X
    PROVE  /\ Increasing(s, X) =>
                  /\ Increasing(Tail(s), X)
                  /\ Head(s) \in X => Above(Tail(s), X, Head(s).n)
           /\ \A m : Above(s, X, m) =>
                  Above(Tail(s), X, m) /\ (Head(s) \in X => Head(s).n > m)
           /\ \A u : Ahead(s, u, X) =>
                  Ahead(Tail(s), u, X) /\ (Head(s) \in X => Above(u, X, Head(s).n))
           /\ \A u : Ahead(u, s, X) =>
                  Ahead(u, Tail(s), X) /\ (Head(s) \in X => Below(u, X, Head(s).n))
           /\ \A m : UpTo(s, m) => UpTo(Tail(s), m) /\ Head(s).n \in Nat /\ Head(s).n <= m
  <1> DEFINE r == Tail(s)
             f == Head(s)
  <1>1. 1 \in DOMAIN s /\ f = s[1]
    OBVIOUS
  <1>2. \A i \in DOMAIN r : i + 1 \in DOMAIN s /\ r[i] = s[i + 1] /\ i \in Nat /\ 1 < i + 1
    OBVIOUS
  <1> HIDE DEF r, f
  <1>3. Increasing(s, X) => Increasing(r, X) /\ (f \in X => Above(r, X, f.n))
    <2> HAVE Increasing(s, X)
    <2>1. Increasing(r, X)
      <3>1. \A i, j \in DOMAIN r : i < j => i + 1 < j + 1
        BY <1>2
      <3> QED
        BY <1>2, <3>1 DEF Increasing
    <2>2. f \in X => Above(r, X, f.n)
      <3> HAVE f \in X
      <3>1. ASSUME NEW i \in DOMAIN r, r[i] \in X
            PROVE  f.n < r[i].n
        BY <1>1, <1>2, <3>1 DEF Increasing
      <3>2. ASSUME NEW i \in DOMAIN r, r[i] \in X
            PROVE  r[i].n > f.n
        BY <3>1, <3>2
      <3> QED
        BY <3>2 DEF Above
    <2> QED
      BY <2>1, <2>2
  <1>4. \A m : Above(s, X, m) => Above(r, X, m) /\ (f \in X => f.n > m)
    BY <1>1, <1>2 DEF Above
  <1>5. \A u : Ahead(s, u, X) => Ahead(r, u, X) /\ (f \in X => Above(u, X, f.n))
    <2> TAKE u
    <2> HAVE Ahead(s, u, X)
    <2>1. Ahead(r, u, X)
      BY <1>2 DEF Ahead
    <2>2. f \in X => Above(u, X, f.n)
      BY <1>1 DEF Ahead, Above
    <2> QED
      BY <2>1, <2>2
  <1>6. \A u : Ahead(u, s, X) => Ahead(u, r, X) /\ (f \in X => Below(u, X, f.n))
    BY <1>1, <1>2 DEF Ahead, Below
  <1>7. \A m : UpTo(s, m) => UpTo(r, m) /\ f.n \in Nat /\ f.n <= m
    BY <1>1, <1>2 DEF UpTo
  <1> QED
    BY <1>3, <1>4, <1>5, <1>6, <1>7 DEF r, f

(* A batch b goes before a channel c, and that before what waits in q.     *)
Line(b, c, q, X, top) ==
    /\ Increasing(b, X) /\ Increasing(c, X) /\ Increasing(q, X)
    /\ Ahead(b, c, X) /\ Ahead(b, q, X) /\ Ahead(c, q, X)
    /\ UpTo(b, top) /\ UpTo(c, top) /\ UpTo(q, top)

(* The next of the channel is added to the batch. *)
LEMMA LineMoves ==
    ASSUME NEW S, NEW b \in Seq(S), NEW c \in Seq(S), c # <<>>, NEW q, NEW X, NEW top,
           Line(b, c, q, X, top)
    PROVE  Line(Append(b, Head(c)), Tail(c), q, X, top)
  <1> DEFINE f == Head(c)
             r == Tail(c)
             a == Append(b, f)
  <1>0. f \in S
    OBVIOUS
  <1>1. /\ Increasing(r, X) /\ Ahead(r, q, X) /\ Ahead(b, r, X) /\ UpTo(r, top)
        /\ f \in X => Above(r, X, f.n) /\ Above(q, X, f.n) /\ Below(b, X, f.n)
        /\ f.n \in Nat /\ f.n <= top
    BY TailLine DEF Line
  <1> HIDE DEF f, r
  <1>2. Increasing(a, X) /\ Ahead(a, r, X) /\ Ahead(a, q, X) /\ UpTo(a, top)
    BY <1>0, <1>1, AppendLine DEF Line
  <1> HIDE DEF a
  <1>3. Line(a, r, q, X, top)
    BY <1>1, <1>2 DEF Line
  <1> QED
    BY <1>3 DEF a, f, r

(* The first that waits is added to the channel, in other clothes.         *)
LEMMA LineDelivers ==
    ASSUME NEW S, NEW c \in Seq(S), NEW f \in S, NEW T, NEW q \in Seq(T), q # <<>>,
           NEW b, NEW X, NEW top, Line(b, c, q, X, top),
           f \in X => Head(q) \in X, f.n = Head(q).n
    PROVE  Line(b, Append(c, f), Tail(q), X, top)
  <1> DEFINE r == Tail(q)
             a == Append(c, f)
  <1>1. /\ Increasing(r, X) /\ Ahead(c, r, X) /\ Ahead(b, r, X) /\ UpTo(r, top)
        /\ Head(q) \in X => /\ Above(r, X, Head(q).n)
                            /\ Below(c, X, Head(q).n) /\ Below(b, X, Head(q).n)
        /\ Head(q).n \in Nat /\ Head(q).n <= top
    BY TailLine DEF Line
  <1>2. /\ f \in X => Above(r, X, f.n) /\ Below(c, X, f.n) /\ Below(b, X, f.n)
        /\ f.n \in Nat /\ f.n <= top
    BY <1>1
  <1> HIDE DEF r
  <1>3. Increasing(a, X) /\ Ahead(b, a, X) /\ Ahead(a, r, X) /\ UpTo(a, top)
    BY <1>1, <1>2, AppendLine DEF Line
  <1> HIDE DEF a
  <1>4. Line(b, a, r, X, top)
    BY <1>1, <1>3 DEF Line
  <1> QED
    BY <1>4 DEF a, r

(* One that does not count is added to the channel. *)
LEMMA LineOther ==
    ASSUME NEW S, NEW c \in Seq(S), NEW f \in S, NEW b, NEW q, NEW X, NEW top,
           Line(b, c, q, X, top), f \notin X, f.n \in Nat, f.n <= top
    PROVE  Line(b, Append(c, f), q, X, top)
  <1> DEFINE a == Append(c, f)
  <1>1. Increasing(a, X) /\ Ahead(b, a, X) /\ Ahead(a, q, X) /\ UpTo(a, top)
    BY AppendLine DEF Line
  <1> HIDE DEF a
  <1>2. Line(b, a, q, X, top)
    BY <1>1 DEF Line
  <1> QED
    BY <1>2 DEF a

(* Some of the line leave it. *)
LEMMA LineShortens ==
    ASSUME NEW b, NEW c, NEW q, NEW X, NEW top, Line(b, c, q, X, top)
    PROVE  /\ Line(<<>>, c, q, X, top) /\ Line(b, <<>>, q, X, top) /\ Line(b, c, <<>>, X, top)
           /\ \A S : q \in Seq(S) /\ q # <<>> => Line(b, c, Tail(q), X, top)
           /\ \A S : b \in Seq(S) /\ b # <<>> => Line(Tail(b), c, q, X, top)
  <1>1. /\ Line(<<>>, c, q, X, top) /\ Line(b, <<>>, q, X, top) /\ Line(b, c, <<>>, X, top)
    BY EmptyLine DEF Line
  <1>2. ASSUME NEW S, q \in Seq(S), q # <<>>
        PROVE  Line(b, c, Tail(q), X, top)
    <2>1. Increasing(Tail(q), X) /\ Ahead(b, Tail(q), X) /\ Ahead(c, Tail(q), X) /\ UpTo(Tail(q), top)
      BY <1>2, TailLine DEF Line
    <2> QED
      BY <2>1 DEF Line
  <1>3. ASSUME NEW S, b \in Seq(S), b # <<>>
        PROVE  Line(Tail(b), c, q, X, top)
    <2>1. Increasing(Tail(b), X) /\ Ahead(Tail(b), c, X) /\ Ahead(Tail(b), q, X) /\ UpTo(Tail(b), top)
      BY <1>3, TailLine DEF Line
    <2> QED
      BY <2>1 DEF Line
  <1> QED
    BY <1>1, <1>2, <1>3

(* New ones come, with higher numbers. *)
LEMMA LineGrows ==
    ASSUME NEW b, NEW c, NEW q, NEW X, NEW top \in Nat, NEW k \in Nat, Line(b, c, q, X, top)
    PROVE  /\ Line(b, c, q, X, top + k)
           /\ \A s : Increasing(s, X) /\ UpTo(s, top + k) /\ (\A i \in DOMAIN s : s[i].n > top)
                     => Line(b, c, s, X, top + k)
  <1>1. \A s : UpTo(s, top) => UpTo(s, top + k)
    BY DEF UpTo
  <1>2. Line(b, c, q, X, top + k)
    BY <1>1 DEF Line
  <1>3. ASSUME NEW s, NEW u, UpTo(s, top), UpTo(u, top + k), \A i \in DOMAIN u : u[i].n > top
        PROVE  Ahead(s, u, X)
    <2>1. ASSUME NEW i \in DOMAIN s, NEW j \in DOMAIN u
          PROVE  s[i].n < u[j].n
      <3>1. s[i].n \in Nat /\ s[i].n <= top /\ u[j].n \in Nat /\ u[j].n > top
        BY <1>3, <2>1 DEF UpTo
      <3> QED
        BY <3>1
    <2> QED
      BY <2>1 DEF Ahead
  <1>4. ASSUME NEW s, Increasing(s, X), UpTo(s, top + k), \A i \in DOMAIN s : s[i].n > top
        PROVE  Line(b, c, s, X, top + k)
    <2>1. Ahead(b, s, X) /\ Ahead(c, s, X)
      BY <1>3, <1>4 DEF Line
    <2> QED
      BY <1>2, <1>4, <2>1 DEF Line
  <1> QED
    BY <1>2, <1>4

--------------------------------------------------------------------------------
(* Frames of one receive thread stay in line on their way to every TAP:    *)
(* what is written, then the batch, then the channel, then what the thread *)
(* holds.                                                                  *)
Through(t) == {f \in RxFrames \cup Received : f.rx = t}

HeldByThread == \A t \in Threads : \A i \in DOMAIN held[t] : held[t][i].rx = t

RxLine(h, t) ==
    /\ Line(batch[h], chan[h], held[t], Through(t), traffic)
    /\ Above(batch[h], Through(t), written[h][t])
    /\ Above(chan[h], Through(t), written[h][t])
    /\ Above(held[t], Through(t), written[h][t])
    /\ written[h][t] <= traffic

RxOrder == HeldByThread /\ \A h \in Handles : \A t \in Threads : RxLine(h, t)

LEMMA InitRxOrder == Init => RxOrder
  <1> SUFFICES ASSUME Init PROVE RxOrder
    OBVIOUS
  <1>1. /\ chan = [h \in Handles |-> <<>>] /\ batch = [h \in Handles |-> <<>>]
        /\ held = [t \in Threads |-> <<>>]
        /\ written = [h \in Handles |-> [t \in Threads |-> 0]] /\ traffic = 0
    BY DEF Init
  <1>2. HeldByThread
    BY <1>1 DEF HeldByThread
  <1>3. ASSUME NEW h \in Handles, NEW t \in Threads
        PROVE  RxLine(h, t)
    <2>1. /\ batch[h] = <<>> /\ chan[h] = <<>> /\ held[t] = <<>> /\ written[h][t] = 0
      BY <1>1
    <2>2. Line(<<>>, <<>>, <<>>, Through(t), traffic)
      BY EmptyLine DEF Line
    <2>3. traffic = 0
      BY <1>1
    <2>4. Above(<<>>, Through(t), written[h][t])
      BY EmptyLine
    <2>5. written[h][t] <= traffic
      BY <2>1, <2>3
    <2> QED
      BY <2>1, <2>2, <2>4, <2>5 DEF RxLine
  <1> QED
    BY <1>2, <1>3 DEF RxOrder

(* Most steps touch no line; those that remove handles empty some channels. *)
LEMMA RxKept ==
    ASSUME FrameInv, FlowInv, RxOrder, NEW k \in Nat, traffic' = traffic + k,
           UNCHANGED <<batch, held, written>>,
           \A h \in Handles : chan'[h] \in {chan[h], <<>>}
    PROVE  RxOrder'
  <1>1. ASSUME NEW h \in Handles, NEW t \in Threads
        PROVE  RxLine(h, t)'
    <2>1. /\ Line(batch[h], chan[h], held[t], Through(t), traffic)
          /\ Above(batch[h], Through(t), written[h][t])
          /\ Above(chan[h], Through(t), written[h][t])
          /\ Above(held[t], Through(t), written[h][t])
          /\ written[h][t] <= traffic
      BY DEF RxOrder, RxLine
    <2>2. traffic \in Nat /\ written[h][t] \in Nat
      BY DataPathAssumption DEF FrameInv, FrameTypes, FlowInv, FlowTypes, Numbers
    <2>3. Line(batch[h], chan'[h], held[t], Through(t), traffic)
      BY <2>1, LineShortens
    <2>4. Line(batch[h], chan'[h], held[t], Through(t), traffic + k)
      BY <2>2, <2>3, LineGrows
    <2>5. Above(chan'[h], Through(t), written[h][t])
      BY <2>1, EmptyLine
    <2>6. written[h][t] <= traffic + k
      BY <2>1, <2>2
    <2> QED
      BY <2>1, <2>4, <2>5, <2>6 DEF RxLine
  <1> QED
    BY <1>1 DEF RxOrder, HeldByThread

LEMMA ReceiveRxOrder ==
    ASSUME FrameInv, FlowInv, RxOrder, NEW u \in Threads, Receive(u)
    PROVE  RxOrder'
  <1>1. PICK len \in 1 .. RecvBatch : \E to \in [1 .. len -> Keys] :
            /\ traffic + len <= MaxTraffic
            /\ held' = [held EXCEPT ![u] =
                   [i \in 1 .. len |-> [to |-> to[i], n |-> traffic + i, rx |-> u]]]
            /\ traffic' = traffic + len
    BY DEF Receive
  <1>2. PICK to \in [1 .. len -> Keys] :
            held' = [held EXCEPT ![u] =
                [i \in 1 .. len |-> [to |-> to[i], n |-> traffic + i, rx |-> u]]]
    BY <1>1
  <1> DEFINE s == [i \in 1 .. len |-> [to |-> to[i], n |-> traffic + i, rx |-> u]]
  <1>3. /\ traffic \in Nat /\ len \in Nat /\ held \in [Threads -> Seq(Received)]
        /\ UNCHANGED <<batch, chan, written>> /\ held[u] = <<>>
        /\ written \in [Handles -> [Threads -> Numbers]]
    <2>1. UNCHANGED <<batch, chan, written>> /\ held[u] = <<>>
      BY DEF Receive, writerVars
    <2>2. traffic \in Nat /\ len \in Nat
      BY DataPathAssumption DEF FrameInv, FrameTypes, Numbers
    <2> QED
      BY <2>1, <2>2 DEF FrameInv, FrameTypes, FlowInv, FlowTypes
  <1>4. \A i \in DOMAIN s : s[i].n = traffic + i /\ s[i].rx = u /\ i \in Nat /\ i > 0 /\ i <= len
    OBVIOUS
  <1>5. \A t \in Threads : held'[t] = IF t = u THEN s ELSE held[t]
    BY <1>2, <1>3
  <1> HIDE DEF s
  <1>6. \A X : Increasing(s, X)
    BY <1>3, <1>4 DEF Increasing
  <1>7. UpTo(s, traffic + len)
    BY <1>3, <1>4 DEF UpTo
  <1>8. \A i \in DOMAIN s : s[i].n > traffic
    BY <1>3, <1>4
  <1>9. HeldByThread'
    BY <1>4, <1>5 DEF HeldByThread, RxOrder
  <1>10. ASSUME NEW h \in Handles, NEW t \in Threads
         PROVE  RxLine(h, t)'
    <2>1. /\ Line(batch[h], chan[h], held[t], Through(t), traffic)
          /\ Above(batch[h], Through(t), written[h][t])
          /\ Above(chan[h], Through(t), written[h][t])
          /\ Above(held[t], Through(t), written[h][t])
          /\ written[h][t] <= traffic
      BY DEF RxOrder, RxLine
    <2>2. written[h][t] \in Nat /\ traffic' = traffic + len
      BY <1>1, <1>3, DataPathAssumption DEF Numbers
    <2>3. written[h][t] <= traffic'
      BY <1>3, <2>1, <2>2
    <2>4. CASE t = u
      <3>1. Line(batch[h], chan[h], s, Through(t), traffic + len)
        BY <1>3, <1>6, <1>7, <1>8, <2>1, LineGrows
      <3>2. Above(s, Through(t), written[h][t])
        <4>1. \A i \in DOMAIN s : s[i].n > written[h][t]
          BY <1>3, <1>4, <2>1, <2>2
        <4> QED
          BY <4>1 DEF Above
      <3> QED
        BY <1>3, <1>5, <2>1, <2>2, <2>3, <2>4, <3>1, <3>2 DEF RxLine
    <2>5. CASE t # u
      <3>1. Line(batch[h], chan[h], held[t], Through(t), traffic + len)
        BY <1>3, <2>1, LineGrows
      <3> QED
        BY <1>3, <1>5, <2>1, <2>2, <2>3, <2>5, <3>1 DEF RxLine
    <2> QED
      BY <2>4, <2>5
  <1> QED
    BY <1>9, <1>10 DEF RxOrder

LEMMA DeliverRxOrder ==
    ASSUME FrameInv, FlowInv, RxOrder, NEW u \in Threads, Deliver(u)
    PROVE  RxOrder'
  <1> DEFINE f == Head(held[u])
             g == registry[f.to]
  <1>1. /\ held[u] \in Seq(Received) /\ held[u] # <<>>
        /\ held \in [Threads -> Seq(Received)] /\ chan \in [Handles -> Seq(RxFrames)]
        /\ written \in [Handles -> [Threads -> Numbers]]
        /\ UNCHANGED <<batch, written, traffic>>
    BY DEF Deliver, FrameInv, FrameTypes, FlowInv, FlowTypes
  <1>2. f \in Received /\ f.rx = u
    BY <1>1 DEF RxOrder, HeldByThread
  <1>3. /\ Buffered(f) \in RxFrames /\ Buffered(f).n = f.n /\ Buffered(f).rx = u
    BY <1>2 DEF Buffered, FromPool, Received, RxFrames
  <1>4. \A t \in Threads : held'[t] = IF t = u THEN Tail(held[u]) ELSE held[t]
    BY <1>1 DEF Deliver
  <1>5. g \in Handles \cup {Nobody}
    BY <1>2 DEF FrameInv, FrameTypes, Received
  <1>6. \A h \in Handles : \/ chan'[h] = chan[h]
                           \/ chan'[h] = Append(chan[h], Buffered(f))
    <2>1. \/ chan' = chan
          \/ g # Nobody /\ chan' = [chan EXCEPT ![g] = Append(@, Buffered(f))]
      BY DEF Deliver
    <2> HIDE DEF f, g
    <2> QED
      BY <1>1, <1>5, <2>1
  <1> HIDE DEF f, g
  <1>7. HeldByThread'
    <2>1. \A i \in DOMAIN Tail(held[u]) : Tail(held[u])[i].rx = u
      BY <1>1 DEF RxOrder, HeldByThread
    <2> QED
      BY <1>4, <2>1 DEF RxOrder, HeldByThread
  <1>8. ASSUME NEW h \in Handles, NEW t \in Threads
        PROVE  RxLine(h, t)'
    <2>1. /\ Line(batch[h], chan[h], held[t], Through(t), traffic)
          /\ Above(batch[h], Through(t), written[h][t])
          /\ Above(chan[h], Through(t), written[h][t])
          /\ Above(held[t], Through(t), written[h][t])
          /\ written[h][t] <= traffic
      BY DEF RxOrder, RxLine
    <2>2. chan[h] \in Seq(RxFrames)
      BY <1>1
    <2>3. f.n \in Nat /\ f.n <= traffic
      <3>1. UpTo(held[u], traffic)
        BY DEF RxOrder, RxLine, Line
      <3> QED
        BY <1>1, <3>1, TailLine DEF f
    <2>4. Buffered(f) \in Through(t) <=> t = u
      BY <1>3 DEF Through
    <2>5. CASE t = u
      <3>1. f \in Through(t)
        BY <1>2, <2>5 DEF Through
      <3>2. held[t] \in Seq(Received) /\ held[t] # <<>> /\ Head(held[t]) = f
        BY <1>1, <2>5 DEF f
      <3>3. Above(Tail(held[t]), Through(t), written[h][t]) /\ f.n > written[h][t]
        BY <2>1, <3>1, <3>2, TailLine
      <3>4. Line(batch[h], chan'[h], Tail(held[t]), Through(t), traffic)
        <4>1. CASE chan'[h] = chan[h]
          BY <2>1, <3>2, <4>1, LineShortens
        <4>2. CASE chan'[h] = Append(chan[h], Buffered(f))
          BY <1>3, <2>1, <2>2, <3>1, <3>2, <4>2, LineDelivers
        <4> QED
          BY <1>6, <4>1, <4>2
      <3>5. Above(chan'[h], Through(t), written[h][t])
        BY <1>3, <1>6, <2>1, <2>2, <3>3, AppendLine
      <3>6. held'[t] = Tail(held[t])
        BY <1>4, <2>5
      <3> QED
        BY <1>1, <2>1, <3>3, <3>4, <3>5, <3>6 DEF RxLine
    <2>6. CASE t # u
      <3>1. Buffered(f) \notin Through(t)
        BY <2>4, <2>6
      <3>2. Line(batch[h], chan'[h], held[t], Through(t), traffic)
        <4>1. CASE chan'[h] = chan[h]
          BY <2>1, <4>1
        <4>2. CASE chan'[h] = Append(chan[h], Buffered(f))
          BY <1>3, <2>1, <2>2, <2>3, <3>1, <4>2, LineOther
        <4> QED
          BY <1>6, <4>1, <4>2
      <3>3. Above(chan'[h], Through(t), written[h][t])
        BY <1>3, <1>6, <2>1, <2>2, <3>1, AppendLine
      <3>4. held'[t] = held[t]
        BY <1>4, <2>6
      <3> QED
        BY <1>1, <2>1, <3>2, <3>3, <3>4 DEF RxLine
    <2> QED
      BY <2>5, <2>6
  <1> QED
    BY <1>7, <1>8 DEF RxOrder

LEMMA WriterRxOrder ==
    ASSUME FrameInv, FlowInv, RxOrder, NEW g \in Handles, WriterStep(g)
    PROVE  RxOrder'
  <1>1. /\ chan \in [Handles -> Seq(RxFrames)] /\ batch \in [Handles -> Seq(RxFrames)]
        /\ written \in [Handles -> [Threads -> Numbers]] /\ traffic \in Nat
    BY DataPathAssumption DEF FrameInv, FrameTypes, FlowInv, FlowTypes, Numbers
  <1>2. UNCHANGED <<held, traffic>>
    BY DEF WriterStep, WriterReceives, WriterDrains, WriterWrites, WriterEnds
  <1>3. ASSUME NEW h \in Handles, NEW t \in Threads
        PROVE  /\ Line(batch[h], chan[h], held[t], Through(t), traffic)
               /\ Above(batch[h], Through(t), written[h][t])
               /\ Above(chan[h], Through(t), written[h][t])
               /\ Above(held[t], Through(t), written[h][t])
               /\ written[h][t] <= traffic
    BY <1>3 DEF RxOrder, RxLine
  <1>4. CASE WriterReceives(g) \/ WriterDrains(g)
    <2>1. /\ chan[g] # <<>> /\ written' = written
          /\ chan' = [chan EXCEPT ![g] = Tail(chan[g])]
          /\ batch' = [batch EXCEPT ![g] = Append(batch[g], Head(chan[g]))]
      <3>1. CASE WriterReceives(g)
        <4>1. batch[g] = <<>>
          BY <3>1 DEF WriterReceives, FlowInv, WriterIdle
        <4>2. <<Head(chan[g])>> = Append(<<>>, Head(chan[g]))
          OBVIOUS
        <4>3. /\ chan[g] # <<>> /\ written' = written
              /\ chan' = [chan EXCEPT ![g] = Tail(chan[g])]
              /\ batch' = [batch EXCEPT ![g] = <<Head(chan[g])>>]
          BY <3>1 DEF WriterReceives
        <4> QED
          BY <4>1, <4>2, <4>3
      <3>2. CASE WriterDrains(g)
        BY <3>2 DEF WriterDrains
      <3> QED
        BY <1>4, <3>1, <3>2
    <2>2. ASSUME NEW h \in Handles, NEW t \in Threads
          PROVE  RxLine(h, t)'
      <3>1. CASE h = g
        <4>1. chan'[h] = Tail(chan[h]) /\ batch'[h] = Append(batch[h], Head(chan[h]))
          BY <1>1, <2>1, <3>1
        <4>2. /\ chan[h] \in Seq(RxFrames) /\ batch[h] \in Seq(RxFrames) /\ chan[h] # <<>>
              /\ Head(chan[h]) \in RxFrames
          BY <1>1, <2>1, <3>1
        <4>3. Line(batch'[h], chan'[h], held[t], Through(t), traffic)
          BY <1>3, <4>1, <4>2, LineMoves
        <4>4. /\ Above(Tail(chan[h]), Through(t), written[h][t])
              /\ Head(chan[h]) \in Through(t) => Head(chan[h]).n > written[h][t]
          BY <1>3, <4>2, TailLine
        <4>5. Above(batch'[h], Through(t), written[h][t])
          BY <1>3, <4>1, <4>2, <4>4, AppendLine
        <4> QED
          BY <1>2, <1>3, <2>1, <4>1, <4>3, <4>4, <4>5 DEF RxLine
      <3>2. CASE h # g
        <4>1. chan'[h] = chan[h] /\ batch'[h] = batch[h]
          BY <1>1, <2>1, <3>2
        <4> QED
          BY <1>2, <1>3, <2>1, <4>1 DEF RxLine
      <3> QED
        BY <3>1, <3>2
    <2> QED
      BY <1>2, <2>2 DEF RxOrder, HeldByThread
  <1>5. CASE WriterWrites(g)
    <2> DEFINE f == Head(batch[g])
    <2>1. /\ batch[g] # <<>> /\ chan' = chan /\ WriteFrame(g, f)
          /\ batch' = [batch EXCEPT ![g] = Tail(batch[g])]
      <3>1. writer[g] \in {"draining", "writing"}
        BY <1>5 DEF WriterWrites, WriterMayWrite
      <3>2. batch[g] # <<>>
        BY <3>1 DEF FrameInv, WriterHasFrames
      <3> QED
        BY <1>5, <3>2 DEF WriterWrites
    <2>2. f \in RxFrames /\ f.rx \in Threads /\ batch[g] \in Seq(RxFrames)
      <3>1. batch[g] \in Seq(RxFrames)
        BY <1>1
      <3>2. f \in RxFrames
        BY <2>1, <3>1
      <3> QED
        BY <3>1, <3>2 DEF RxFrames
    <2> HIDE DEF f
    <2>3. ASSUME NEW h \in Handles, NEW t \in Threads
          PROVE  RxLine(h, t)'
      <3>1. CASE h # g
        <4>1. batch'[h] = batch[h] /\ written'[h] = written[h]
          BY <1>1, <2>1, <2>2, <3>1 DEF WriteFrame
        <4> QED
          BY <1>2, <1>3, <2>1, <4>1 DEF RxLine
      <3>2. CASE h = g
        <4>1. /\ batch'[h] = Tail(batch[h]) /\ Head(batch[h]) = f
              /\ batch[h] \in Seq(RxFrames) /\ batch[h] # <<>>
          BY <1>1, <2>1, <3>2 DEF f
        <4>2. Line(Tail(batch[h]), chan[h], held[t], Through(t), traffic)
          BY <1>3, <4>1, LineShortens
        <4>3. \/ written'[h][t] = written[h][t]
              \/ f.rx = t /\ written'[h][t] = f.n
          BY <1>1, <2>1, <2>2, <3>2 DEF WriteFrame
        <4>4. CASE written'[h][t] = written[h][t]
          <5>1. Above(Tail(batch[h]), Through(t), written[h][t])
            BY <1>3, <4>1, TailLine
          <5> QED
            BY <1>2, <1>3, <2>1, <4>1, <4>2, <4>4, <5>1 DEF RxLine
        <4>5. CASE f.rx = t /\ written'[h][t] = f.n
          <5>1. f \in Through(t)
            BY <2>2, <4>5 DEF Through
          <5>2. /\ Increasing(batch[h], Through(t)) /\ UpTo(batch[h], traffic)
                /\ Ahead(batch[h], chan[h], Through(t)) /\ Ahead(batch[h], held[t], Through(t))
            BY <1>3 DEF Line
          <5>3. /\ Above(Tail(batch[h]), Through(t), f.n) /\ Above(chan[h], Through(t), f.n)
                /\ Above(held[t], Through(t), f.n) /\ f.n <= traffic
            BY <4>1, <5>1, <5>2, TailLine
          <5> QED
            BY <1>2, <2>1, <4>1, <4>2, <4>5, <5>3 DEF RxLine
        <4> QED
          BY <4>3, <4>4, <4>5
      <3> QED
        BY <3>1, <3>2
    <2> QED
      BY <1>2, <2>3 DEF RxOrder, HeldByThread
  <1>6. CASE WriterEnds(g)
    <2>1. UNCHANGED <<batch, chan, written>> /\ traffic' = traffic + 0
      BY <1>1, <1>2, <1>6 DEF WriterEnds
    <2> QED
      BY <1>2, <2>1, RxKept
  <1> QED
    BY <1>4, <1>5, <1>6 DEF WriterStep

LEMMA NextRxOrder == FrameInv /\ FlowInv /\ RxOrder /\ [Next]_vars => RxOrder'
  <1> SUFFICES ASSUME FrameInv, FlowInv, RxOrder, [Next]_vars PROVE RxOrder'
    OBVIOUS
  <1>1. traffic \in Nat
    BY DataPathAssumption DEF FrameInv, FrameTypes, Numbers
  <1>2. ASSUME NEW h \in Handles, TunnelStep(h)
        PROVE  RxOrder'
    <2>1. UNCHANGED <<batch, held, written>> /\ traffic' = traffic + 0
      BY <1>1, <1>2 DEF TunnelStep, Register, CreateFails, Start, Cancel, Unregister, writerVars
    <2>2. \A g \in Handles : chan'[g] \in {chan[g], <<>>}
      BY <1>2 DEF TunnelStep, Register, CreateFails, Start, Cancel, Unregister, DropHandles,
                  writerVars
    <2> QED
      BY <2>1, <2>2, RxKept
  <1>3. ASSUME NEW h \in Handles, ReaderStep(h)
        PROVE  RxOrder'
    <2>1. UNCHANGED <<batch, held, written, chan>>
      BY <1>3 DEF ReaderStep, ReaderReads, ReaderSends, ReaderSendFails, ReaderStops,
                  ReaderFails, ReaderEnds, writerVars
    <2>2. traffic' = traffic + 1 \/ traffic' = traffic + 0
      BY <1>1, <1>3 DEF ReaderStep, ReaderReads, ReaderSends, ReaderSendFails, ReaderStops,
                        ReaderFails, ReaderEnds
    <2> QED
      BY <2>1, <2>2, RxKept
  <1>4. CASE BatcherStep \/ Shutdown \/ UNCHANGED vars
    <2>1. UNCHANGED <<batch, held, written, chan>> /\ traffic' = traffic + 0
      BY <1>1, <1>4 DEF BatcherStep, BatcherTakes, BatcherAdds, BatcherDeadline, BatcherSends,
                  BatcherSendFails, BatcherStops, FlushOn, Shutdown, vars, writerVars
    <2> QED
      BY <2>1, RxKept
  <1>5. CASE \E h \in Handles : WriterStep(h)
    BY <1>5, WriterRxOrder
  <1>6. CASE \E t \in Threads : ReceiverStep(t)
    BY <1>6, ReceiveRxOrder, DeliverRxOrder DEF ReceiverStep
  <1> QED
    BY <1>2, <1>3, <1>4, <1>5, <1>6 DEF Next

(* A writer puts a frame on its TAP only if it is later than the last one  *)
(* of the same receive thread.                                             *)
LEMMA WritesInOrder ==
    ASSUME FrameInv, FlowInv, RxOrder, [Next]_vars, NEW h \in Handles, NEW t \in Threads
    PROVE  written'[h][t] >= written[h][t]
  <1>1. written \in [Handles -> [Threads -> Numbers]] /\ written[h][t] \in Nat
    BY DataPathAssumption DEF FlowInv, FlowTypes, Numbers
  <1>2. CASE written' = written
    BY <1>1, <1>2
  <1>3. ASSUME NEW g \in Handles, WriterWrites(g)
        PROVE  written'[h][t] >= written[h][t]
    <2> DEFINE f == Head(batch[g])
    <2>1. /\ batch[g] # <<>> /\ batch[g] \in Seq(RxFrames) /\ WriteFrame(g, f)
      BY <1>3 DEF WriterWrites, WriterMayWrite, FrameInv, FrameTypes, WriterHasFrames
    <2>2. f \in RxFrames
      BY <2>1
    <2>3. CASE h = g /\ f.rx = t
      <3>1. f \in Through(t) /\ Above(batch[h], Through(t), written[h][t])
        BY <2>2, <2>3 DEF Through, RxOrder, RxLine
      <3>2. f.n > written[h][t]
        BY <2>1, <2>3, <3>1, TailLine
      <3>3. f.n \in Nat
        BY <2>2, DataPathAssumption DEF RxFrames, Numbers
      <3>4. written'[h][t] \in {written[h][t], f.n}
        BY <1>1, <2>1, <2>3 DEF WriteFrame
      <3> HIDE DEF f
      <3> QED
        BY <1>1, <3>2, <3>3, <3>4
    <2>4. CASE ~(h = g /\ f.rx = t)
      <3>1. written'[h][t] = written[h][t]
        BY <1>1, <2>1, <2>4 DEF WriteFrame
      <3> QED
        BY <1>1, <3>1
    <2> QED
      BY <2>3, <2>4
  <1>4. written' = written \/ \E g \in Handles : WriterWrites(g)
    BY DEF Next, TunnelStep, Register, CreateFails, Start, Cancel, Unregister,
           WriterStep, WriterReceives, WriterDrains, WriterEnds,
           ReaderStep, ReaderReads, ReaderSends, ReaderSendFails, ReaderStops, ReaderFails,
           ReaderEnds, ReceiverStep, Receive, Deliver, BatcherStep, BatcherTakes, BatcherAdds,
           BatcherDeadline, BatcherSends, BatcherSendFails, BatcherStops, FlushOn, Shutdown,
           vars, writerVars
  <1> QED
    BY <1>2, <1>3, <1>4

--------------------------------------------------------------------------------
(* Frames of one TAP stay in line on their way to the wire: what is sent,  *)
(* then the packets of the batch that are left, then the queue, then the   *)
(* packet its reader waits to send.  A flush takes the two families of a   *)
(* batch one after the other, but the packets of one TAP have one peer.    *)
From(h) == {p \in TxPackets : p.from = h}

Pending(h) == IF reader[h] = "sending" THEN <<Packet(h)>> ELSE <<>>

Left == IF batcher = "flushing" THEN unsent ELSE DOMAIN txBatch

LeftAbove(h) == \A i \in Left : txBatch[i] \in From(h) => txBatch[i].n > wire[h]

TxLine(h) ==
    /\ Line(txBatch, queue, Pending(h), From(h), traffic)
    /\ LeftAbove(h)
    /\ Above(queue, From(h), wire[h])
    /\ Above(Pending(h), From(h), wire[h])
    /\ wire[h] <= traffic

TxOrder == \A h \in Handles : TxLine(h)

LEMMA InitTxOrder == Init => TxOrder
  <1> SUFFICES ASSUME Init, NEW h \in Handles PROVE TxLine(h)
    BY DEF TxOrder
  <1>1. txBatch = <<>> /\ queue = <<>> /\ traffic = 0 /\ batcher = "waiting"
    BY DEF Init
  <1>2. wire[h] = 0 /\ reader[h] # "sending"
    BY DEF Init
  <1>3. Pending(h) = <<>>
    BY <1>2 DEF Pending
  <1>4. Line(<<>>, <<>>, <<>>, From(h), traffic) /\ Above(<<>>, From(h), wire[h])
    BY EmptyLine DEF Line
  <1>5. LeftAbove(h)
    BY <1>1 DEF LeftAbove, Left
  <1>6. wire[h] <= traffic
    BY <1>1, <1>2
  <1> QED
    BY <1>1, <1>3, <1>4, <1>5, <1>6 DEF TxLine

(* Most steps move no packet; at most a reader that ends drops its own.    *)
LEMMA TxKept ==
    ASSUME FrameInv, FlowInv, NEW h \in Handles, TxLine(h), NEW k \in Nat, traffic' = traffic + k,
           UNCHANGED <<txBatch, queue, batcher, unsent, wire>>,
           Pending(h)' \in {Pending(h), <<>>}
    PROVE  TxLine(h)'
  <1>1. /\ Line(txBatch, queue, Pending(h), From(h), traffic)
        /\ LeftAbove(h)
        /\ Above(queue, From(h), wire[h])
        /\ Above(Pending(h), From(h), wire[h])
        /\ wire[h] <= traffic
    BY DEF TxLine
  <1>2. traffic \in Nat /\ wire[h] \in Nat
    BY DataPathAssumption DEF FrameInv, FrameTypes, FlowInv, FlowTypes, Numbers
  <1> DEFINE q == Pending(h)'
  <1>3. q \in {Pending(h), <<>>}
    OBVIOUS
  <1> HIDE DEF q
  <1>4. Line(txBatch, queue, q, From(h), traffic)
    <2>1. CASE q = Pending(h)
      BY <1>1, <2>1, Zenon
    <2>2. CASE q = <<>>
      <3>1. Line(txBatch, queue, <<>>, From(h), traffic)
        BY <1>1, LineShortens, Zenon
      <3> QED
        BY <2>2, <3>1, Zenon
    <2> QED
      BY <1>3, <2>1, <2>2
  <1>5. Line(txBatch, queue, q, From(h), traffic + k)
    BY <1>2, <1>4, LineGrows
  <1>6. Above(q, From(h), wire[h])
    BY <1>1, <1>3, EmptyLine
  <1>7. wire[h] <= traffic + k
    BY <1>1, <1>2
  <1>8. LeftAbove(h)'
    BY <1>1 DEF LeftAbove, Left
  <1> QED
    BY <1>1, <1>5, <1>6, <1>7, <1>8 DEF TxLine, q

(* What a packet that waits depends on. *)
LEMMA PendingKept ==
    ASSUME NEW g \in Handles,
           \/ /\ reader'[g] = "sending" <=> reader[g] = "sending"
              /\ readNum'[g] = readNum[g] /\ readBuf'[g] = readBuf[g]
           \/ reader'[g] # "sending"
    PROVE  Pending(g)' \in {Pending(g), <<>>}
  BY DEF Pending, Packet

LEMMA ReaderTxOrder ==
    ASSUME FrameInv, FlowInv, TxOrder, NEW h \in Handles, ReaderStep(h), NEW g \in Handles
    PROVE  TxLine(g)'
  <1>1. /\ reader \in [Handles -> ReaderStates] /\ readNum \in [Handles -> Numbers]
        /\ readBuf \in [Handles -> BOOLEAN] /\ queue \in Seq(TxPackets) /\ TxLine(g)
        /\ traffic \in Nat /\ wire[g] \in Nat
    BY DataPathAssumption DEF FrameInv, FrameTypes, FlowInv, FlowTypes, TxOrder, Numbers
  <1>2. UNCHANGED <<txBatch, batcher, unsent, wire>>
    BY DEF ReaderStep, ReaderReads, ReaderSends, ReaderSendFails, ReaderStops, ReaderFails,
           ReaderEnds, txVars
  <1>3. CASE ReaderReads(h)
    <2>1. /\ reader[h] = "reading" /\ traffic' = traffic + 1 /\ queue' = queue
          /\ readNum' = [readNum EXCEPT ![h] = traffic + 1]
          /\ reader' = [reader EXCEPT ![h] = "sending"]
          /\ readBuf' = readBuf
      BY <1>3 DEF ReaderReads, txVars
    <2>2. CASE g # h
      <3>1. Pending(g)' \in {Pending(g), <<>>}
        BY <1>1, <2>1, <2>2, PendingKept
      <3> QED
        BY <1>1, <1>2, <2>1, <3>1, TxKept
    <2>3. CASE g = h
      <3> DEFINE p == Packet(h)'
                 s == <<p>>
      <3>1. p.n = traffic + 1 /\ Pending(h)' = s
        BY <1>1, <2>1 DEF Packet, Pending
      <3> HIDE DEF p
      <3>2. Len(s) = 1 /\ DOMAIN s = {1} /\ s[1] = p
        OBVIOUS
      <3> HIDE DEF s
      <3>3. /\ Increasing(s, From(h)) /\ UpTo(s, traffic + 1)
            /\ \A i \in DOMAIN s : s[i].n > traffic
        BY <1>1, <3>1, <3>2 DEF Increasing, UpTo
      <3>4. Line(txBatch, queue, s, From(h), traffic + 1)
        <4>1. Line(txBatch, queue, Pending(h), From(h), traffic)
          BY DEF TxOrder, TxLine
        <4> QED
          BY <1>1, <3>3, <4>1, LineGrows
      <3>5. wire[h] <= traffic /\ wire[h] \in Nat
        BY <1>1, <2>3 DEF TxLine
      <3>6. Above(s, From(h), wire[h]) /\ wire[h] <= traffic + 1
        BY <1>1, <3>1, <3>2, <3>5 DEF Above
      <3>7. LeftAbove(h)' /\ Above(queue, From(h), wire[h])
        BY <1>1, <1>2, <2>3 DEF TxLine, LeftAbove, Left
      <3> QED
        BY <1>2, <2>1, <2>3, <3>1, <3>4, <3>6, <3>7 DEF TxLine
    <2> QED
      BY <2>2, <2>3
  <1>4. CASE ReaderSends(h)
    <2>1. /\ reader[h] = "sending" /\ queue' = Append(queue, Packet(h)) /\ traffic' = traffic
          /\ reader' = [reader EXCEPT ![h] = "reading"]
          /\ readBuf' = [readBuf EXCEPT ![h] = FromPool]
          /\ readNum' = [readNum EXCEPT ![h] = 0]
      BY <1>4 DEF ReaderSends
    <2> DEFINE p == Packet(h)
    <2>2. p \in TxPackets /\ p.from = h /\ Pending(h) = <<p>>
      BY <1>1, <2>1 DEF Packet, TxPackets, Pending
    <2>3. p.n \in Nat /\ p.n <= traffic
      <3>1. UpTo(<<p>>, traffic)
        BY <2>2 DEF TxOrder, TxLine, Line
      <3>2. 1 \in DOMAIN <<p>> /\ <<p>>[1] = p
        OBVIOUS
      <3> HIDE DEF p
      <3> QED
        BY <3>1, <3>2 DEF UpTo
    <2> HIDE DEF p
    <2>4. /\ Line(txBatch, queue, Pending(g), From(g), traffic)
          /\ LeftAbove(g)
          /\ Above(queue, From(g), wire[g])
          /\ Above(Pending(g), From(g), wire[g])
          /\ wire[g] <= traffic
      BY <1>1 DEF TxLine
    <2>5. LeftAbove(g)'
      BY <1>2, <2>4 DEF LeftAbove, Left
    <2>6. CASE g = h
      <3>1. Pending(g)' = <<>>
        BY <1>1, <2>1, <2>6 DEF Pending
      <3>2. /\ <<p>> \in Seq(TxPackets) /\ <<p>> # <<>> /\ Head(<<p>>) = p /\ Tail(<<p>>) = <<>>
        BY <2>2
      <3>3. Line(txBatch, queue, <<p>>, From(g), traffic) /\ Above(<<p>>, From(g), wire[g])
        BY <2>2, <2>4, <2>6
      <3>4. Line(txBatch, Append(queue, p), <<>>, From(g), traffic)
        <4>1. Line(txBatch, Append(queue, p), Tail(<<p>>), From(g), traffic)
          BY <1>1, <2>2, <3>2, <3>3, LineDelivers
        <4> QED
          BY <3>2, <4>1
      <3>5. p \in From(g) => p.n > wire[g]
        BY <3>2, <3>3, TailLine
      <3>6. Above(Append(queue, p), From(g), wire[g])
        BY <1>1, <2>2, <2>4, <3>5, AppendLine
      <3>7. queue' = Append(queue, p)
        BY <2>1 DEF p
      <3>8. Above(<<>>, From(g), wire[g])
        BY EmptyLine
      <3> QED
        BY <1>2, <2>1, <2>4, <2>5, <3>1, <3>4, <3>6, <3>7, <3>8 DEF TxLine
    <2>7. CASE g # h
      <3>1. Pending(g)' = Pending(g)
        BY <1>1, <2>1, <2>7 DEF Pending, Packet
      <3>2. p \notin From(g)
        BY <2>2, <2>7 DEF From
      <3>3. Line(txBatch, Append(queue, p), Pending(g), From(g), traffic)
        BY <1>1, <2>2, <2>3, <2>4, <3>2, LineOther
      <3>4. Above(Append(queue, p), From(g), wire[g])
        BY <1>1, <2>2, <2>4, <3>2, AppendLine
      <3>5. queue' = Append(queue, p)
        BY <2>1 DEF p
      <3> QED
        BY <1>2, <2>1, <2>4, <2>5, <3>1, <3>3, <3>4, <3>5 DEF TxLine
    <2> QED
      BY <2>6, <2>7
  <1>5. CASE ReaderSendFails(h) \/ ReaderStops(h) \/ ReaderFails(h)
    <2>1. ReaderEnds(h)
      BY <1>5 DEF ReaderSendFails, ReaderStops, ReaderFails
    <2>2. /\ reader' = [reader EXCEPT ![h] = "stopped"]
          /\ readBuf' = [readBuf EXCEPT ![h] = FALSE]
          /\ readNum' = [readNum EXCEPT ![h] = 0]
          /\ UNCHANGED <<traffic, queue>>
      BY <2>1 DEF ReaderEnds, txVars
    <2>3. Pending(g)' \in {Pending(g), <<>>}
      <3>1. CASE g = h
        BY <1>1, <2>2, <3>1, PendingKept
      <3>2. CASE g # h
        BY <1>1, <2>2, <3>2, PendingKept
      <3> QED
        BY <3>1, <3>2
    <2>4. traffic' = traffic + 0
      BY <1>1, <2>2
    <2> QED
      BY <1>1, <1>2, <2>2, <2>3, <2>4, TxKept
  <1> QED
    BY <1>3, <1>4, <1>5 DEF ReaderStep

(* The batcher takes the next packet of the queue into its batch.          *)
LEMMA FillTxOrder ==
    ASSUME FrameInv, FlowInv, NEW h \in Handles, TxLine(h), batcher # "flushing",
           queue # <<>>, queue' = Tail(queue), Fill(Append(txBatch, Head(queue))),
           Pending(h)' = Pending(h), UNCHANGED <<wire, traffic>>
    PROVE  TxLine(h)'
  <1> DEFINE p == Head(queue)
             b == Append(txBatch, p)
  <1>1. /\ queue \in Seq(TxPackets) /\ txBatch \in Seq(TxPackets) /\ p \in TxPackets
    BY DEF FlowInv, FlowTypes
  <1>2. /\ Line(txBatch, queue, Pending(h), From(h), traffic)
        /\ Above(queue, From(h), wire[h])
        /\ Above(Pending(h), From(h), wire[h])
        /\ wire[h] <= traffic
        /\ Above(txBatch, From(h), wire[h])
    BY DEF TxLine, LeftAbove, Left, Above
  <1>3. Line(b, Tail(queue), Pending(h), From(h), traffic)
    BY <1>1, <1>2, LineMoves
  <1>4. /\ Above(Tail(queue), From(h), wire[h])
        /\ p \in From(h) => p.n > wire[h]
    BY <1>1, <1>2, TailLine
  <1> HIDE DEF p
  <1>5. Above(b, From(h), wire[h])
    BY <1>1, <1>2, <1>4, AppendLine
  <1>6. txBatch' = b
    BY DEF Fill, p
  <1>7. Left' = DOMAIN b
    BY DEF Fill, Left, p
  <1> HIDE DEF b
  <1>8. LeftAbove(h)'
    BY <1>5, <1>6, <1>7 DEF LeftAbove, Above
  <1> QED
    BY <1>2, <1>3, <1>4, <1>6, <1>8 DEF TxLine

(* A flush goes on with fewer packets, and what was sent was their first.  *)
LEMMA FlushTxOrder ==
    ASSUME FrameInv, FlowInv, NEW h \in Handles, TxLine(h), batcher = "flushing",
           NEW u \in SUBSET unsent, FlushOn(u), Pending(h)' = Pending(h),
           \/ wire'[h] = wire[h]
           \/ \E i \in unsent : /\ txBatch[i] \in From(h) /\ wire'[h] = txBatch[i].n
                                /\ \A j \in u : txBatch[j] \in From(h) => txBatch[j].n > wire'[h]
    PROVE  TxLine(h)'
  <1>1. /\ Line(txBatch, queue, Pending(h), From(h), traffic)
        /\ LeftAbove(h)
        /\ Above(queue, From(h), wire[h])
        /\ Above(Pending(h), From(h), wire[h])
        /\ wire[h] <= traffic
    BY DEF TxLine
  <1>2. /\ \A j \in u : txBatch[j] \in From(h) => txBatch[j].n > wire'[h]
        /\ Above(queue, From(h), wire'[h])
        /\ Above(Pending(h), From(h), wire'[h])
        /\ wire'[h] <= traffic
    <2>1. CASE wire'[h] = wire[h]
      BY <1>1, <2>1 DEF LeftAbove, Left
    <2>2. ASSUME NEW i \in unsent, txBatch[i] \in From(h), wire'[h] = txBatch[i].n,
                 \A j \in u : txBatch[j] \in From(h) => txBatch[j].n > wire'[h]
          PROVE  /\ Above(queue, From(h), wire'[h])
                 /\ Above(Pending(h), From(h), wire'[h])
                 /\ wire'[h] <= traffic
      <3>1. i \in DOMAIN txBatch
        BY <2>2 DEF FlowInv, FlowTypes
      <3>2. Ahead(txBatch, queue, From(h)) /\ Ahead(txBatch, Pending(h), From(h)) /\ UpTo(txBatch, traffic)
        BY <1>1 DEF Line
      <3>3. \A s : Ahead(txBatch, s, From(h)) => Above(s, From(h), txBatch[i].n)
        <4> TAKE s
        <4> HAVE Ahead(txBatch, s, From(h))
        <4>1. ASSUME NEW j \in DOMAIN s, s[j] \in From(h)
              PROVE  txBatch[i].n < s[j].n
          BY <2>2, <3>1, <4>1 DEF Ahead
        <4> QED
          BY <4>1 DEF Above
      <3>4. txBatch[i].n <= traffic
        BY <3>1, <3>2 DEF UpTo
      <3> QED
        BY <2>2, <3>2, <3>3, <3>4
    <2> QED
      BY <2>1, <2>2
  <1>3. queue' = queue /\ traffic' = traffic /\ unsent' = u
    BY DEF FlushOn
  <1>4. CASE u = {}
    <2>1. txBatch' = <<>> /\ batcher' = "waiting"
      BY <1>4 DEF FlushOn
    <2>2. Line(<<>>, queue, Pending(h), From(h), traffic)
      BY <1>1, LineShortens
    <2>3. LeftAbove(h)'
      BY <2>1 DEF LeftAbove, Left
    <2> QED
      BY <1>2, <1>3, <2>1, <2>2, <2>3 DEF TxLine
  <1>5. CASE u # {}
    <2>1. txBatch' = txBatch /\ batcher' = "flushing"
      BY <1>5 DEF FlushOn
    <2>2. LeftAbove(h)'
      BY <1>2, <1>3, <2>1 DEF LeftAbove, Left
    <2> QED
      BY <1>1, <1>2, <1>3, <2>1, <2>2 DEF TxLine
  <1> QED
    BY <1>4, <1>5

(* The packet that is sent is the first left of its TAP: those of one TAP  *)
(* have one family, and a family is sent in the order of the batch.        *)
LEMMA SentIsFirst ==
    ASSUME FrameInv, FlowInv, TxOrder, batcher = "flushing", NEW i \in unsent, FlushedNext(i)
    PROVE  /\ txBatch[i] \in TxPackets
           /\ txBatch[i].n > wire[txBatch[i].from]
           /\ \A j \in unsent \ {i} :
                  txBatch[j] \in From(txBatch[i].from) => txBatch[j].n > txBatch[i].n
  <1> DEFINE h == txBatch[i].from
  <1>1. /\ txBatch \in Seq(TxPackets) /\ unsent \subseteq DOMAIN txBatch
    BY DEF FlowInv, FlowTypes
  <1>2. txBatch[i] \in TxPackets /\ i \in DOMAIN txBatch
    BY <1>1
  <1>3. h \in Handles /\ txBatch[i] \in From(h)
    BY <1>2 DEF TxPackets, From
  <1>4. Increasing(txBatch, From(h)) /\ LeftAbove(h)
    BY <1>3 DEF TxOrder, TxLine, Line
  <1>5. txBatch[i].n > wire[h]
    BY <1>3, <1>4 DEF LeftAbove, Left
  <1>6. ASSUME NEW j \in unsent \ {i}, txBatch[j] \in From(h)
        PROVE  txBatch[j].n > txBatch[i].n
    <2>1. txBatch[j].from = h /\ j \in DOMAIN txBatch
      BY <1>1, <1>6 DEF From
    <2>2. IsV6(i) = IsV6(j)
      BY <2>1 DEF IsV6
    <2>3. i < j
      BY <1>6, <2>2 DEF FlushedNext, FlushedBefore
    <2>4. txBatch[i].n < txBatch[j].n
      BY <1>2, <1>3, <1>4, <1>6, <2>1, <2>3 DEF Increasing
    <2> QED
      BY <2>4
  <1> QED
    BY <1>2, <1>5, <1>6

LEMMA BatcherTxOrder ==
    ASSUME FrameInv, FlowInv, TxOrder, BatcherStep, NEW h \in Handles
    PROVE  TxLine(h)'
  <1>1. Pending(h)' = Pending(h) /\ traffic' = traffic
    BY DEF BatcherStep, BatcherTakes, BatcherAdds, BatcherDeadline, BatcherSends,
           BatcherSendFails, BatcherStops, FlushOn, readerVars, Pending, Packet
  <1>2. TxLine(h)
    BY DEF TxOrder
  <1>3. CASE BatcherTakes \/ BatcherAdds
    <2>1. CASE BatcherTakes
      <3>1. txBatch = <<>>
        BY <2>1 DEF BatcherTakes, FlowInv, BatchOfBatcher
      <3>2. <<Head(queue)>> = Append(txBatch, Head(queue))
        BY <3>1
      <3>3. /\ batcher # "flushing" /\ queue # <<>> /\ queue' = Tail(queue) /\ wire' = wire
            /\ Fill(<<Head(queue)>>)
        BY <2>1 DEF BatcherTakes
      <3>4. Fill(Append(txBatch, Head(queue)))
        BY <3>2, <3>3, Zenon
      <3> QED
        BY <1>1, <1>2, <3>3, <3>4, FillTxOrder
    <2>2. CASE BatcherAdds
      <3>1. /\ batcher # "flushing" /\ queue # <<>> /\ queue' = Tail(queue) /\ wire' = wire
            /\ Fill(Append(txBatch, Head(queue)))
        BY <2>2 DEF BatcherAdds
      <3> QED
        BY <1>1, <1>2, <3>1, FillTxOrder
    <2> QED
      BY <1>3, <2>1, <2>2
  <1>4. CASE BatcherDeadline
    <2>1. /\ batcher = "filling" /\ batcher' = "flushing" /\ unsent' = DOMAIN txBatch
          /\ UNCHANGED <<txBatch, queue, wire>>
      BY <1>4 DEF BatcherDeadline
    <2>2. LeftAbove(h)'
      BY <1>2, <2>1 DEF TxLine, LeftAbove, Left
    <2> QED
      BY <1>1, <1>2, <2>1, <2>2 DEF TxLine
  <1>5. CASE BatcherSends
    <2>1. PICK i \in unsent : /\ FlushedNext(i)
                              /\ wire' = [wire EXCEPT ![txBatch[i].from] = txBatch[i].n]
                              /\ FlushOn(unsent \ {i})
      BY <1>5 DEF BatcherSends
    <2>2. batcher = "flushing"
      BY <1>5 DEF BatcherSends
    <2>3. /\ txBatch[i] \in TxPackets
          /\ \A j \in unsent \ {i} :
                 txBatch[j] \in From(txBatch[i].from) => txBatch[j].n > txBatch[i].n
      BY <2>1, <2>2, SentIsFirst
    <2>4. wire \in [Handles -> Numbers]
      BY DEF FlowInv, FlowTypes
    <2>5. CASE txBatch[i].from = h
      <3>1. txBatch[i] \in From(h) /\ wire'[h] = txBatch[i].n
        BY <2>1, <2>3, <2>4, <2>5 DEF From
      <3>2. \A j \in unsent \ {i} : txBatch[j] \in From(h) => txBatch[j].n > wire'[h]
        BY <2>3, <2>5, <3>1
      <3>3. unsent \ {i} \in SUBSET unsent
        OBVIOUS
      <3> QED
        BY <1>1, <1>2, <2>1, <2>2, <3>1, <3>2, <3>3, FlushTxOrder
    <2>6. CASE txBatch[i].from # h
      <3>1. wire'[h] = wire[h]
        BY <2>1, <2>4, <2>6
      <3>2. unsent \ {i} \in SUBSET unsent
        OBVIOUS
      <3> QED
        BY <1>1, <1>2, <2>1, <2>2, <3>1, <3>2, FlushTxOrder
    <2> QED
      BY <2>5, <2>6
  <1>6. CASE BatcherSendFails
    <2>1. PICK i \in unsent : FlushOn({j \in unsent : IsV6(j) # IsV6(i)})
      BY <1>6 DEF BatcherSendFails
    <2>2. batcher = "flushing" /\ wire' = wire
      BY <1>6 DEF BatcherSendFails
    <2>3. {j \in unsent : IsV6(j) # IsV6(i)} \in SUBSET unsent
      OBVIOUS
    <2>4. wire'[h] = wire[h]
      BY <2>2
    <2> QED
      BY <1>1, <1>2, <2>1, <2>2, <2>3, <2>4, FlushTxOrder
  <1>7. CASE BatcherStops
    <2>1. /\ batcher # "flushing" /\ batcher' # "flushing" /\ queue' = <<>>
          /\ UNCHANGED <<txBatch, unsent, wire>>
      BY <1>7 DEF BatcherStops
    <2>2. Line(txBatch, <<>>, Pending(h), From(h), traffic) /\ Above(<<>>, From(h), wire[h])
      BY <1>2, LineShortens, EmptyLine DEF TxLine
    <2>3. LeftAbove(h)'
      BY <1>2, <2>1 DEF TxLine, LeftAbove, Left
    <2> QED
      BY <1>1, <1>2, <2>1, <2>2, <2>3 DEF TxLine
  <1> QED
    BY <1>3, <1>4, <1>5, <1>6, <1>7 DEF BatcherStep

LEMMA NextTxOrder == FrameInv /\ FlowInv /\ TxOrder /\ [Next]_vars => TxOrder'
  <1> SUFFICES ASSUME FrameInv, FlowInv, TxOrder, [Next]_vars, NEW g \in Handles
               PROVE  TxLine(g)'
    BY DEF TxOrder
  <1>1. TxLine(g) /\ traffic \in Nat /\ reader \in [Handles -> ReaderStates]
    BY DataPathAssumption DEF TxOrder, FrameInv, FrameTypes, Numbers
  <1>2. ASSUME NEW h \in Handles, TunnelStep(h)
        PROVE  TxLine(g)'
    <2>1. UNCHANGED txVars /\ traffic' = traffic + 0 /\ readNum' = readNum
      BY <1>1, <1>2 DEF TunnelStep, Register, CreateFails, Start, Cancel, Unregister, readerVars
    <2>2. /\ reader'[g] = "sending" <=> reader[g] = "sending"
          /\ readBuf'[g] = readBuf[g] \/ reader'[g] # "sending"
      <3>1. CASE Start(h)
        <4>1. /\ reader[h] = "creating" /\ reader' = [reader EXCEPT ![h] = "reading"]
              /\ readBuf' = [readBuf EXCEPT ![h] = FromPool]
          BY <3>1 DEF Start
        <4>2. readBuf \in [Handles -> BOOLEAN]
          BY DEF FlowInv, FlowTypes
        <4>3. CASE g = h
          BY <1>1, <4>1, <4>3
        <4>4. CASE g # h
          BY <1>1, <4>1, <4>2, <4>4
        <4> QED
          BY <4>3, <4>4
      <3>2. CASE Cancel(h) \/ Unregister(h)
        BY <3>2 DEF Cancel, Unregister, readerVars
      <3>3. CASE (\E k \in Keys : Register(h, k)) \/ CreateFails(h)
        <4>1. /\ readBuf' = readBuf /\ reader[h] \in {"none", "creating"}
              /\ \E s \in {"creating", "stopped"} : reader' = [reader EXCEPT ![h] = s]
          BY <3>3 DEF Register, CreateFails
        <4> QED
          BY <1>1, <4>1
      <3> QED
        BY <1>2, <3>1, <3>2, <3>3 DEF TunnelStep
    <2>3. Pending(g)' \in {Pending(g), <<>>}
      BY <2>1, <2>2, PendingKept
    <2> QED
      BY <1>1, <2>1, <2>3, TxKept DEF txVars
  <1>3. ASSUME UNCHANGED <<txVars, readerVars>>, NEW k \in Nat, traffic' = traffic + k
        PROVE  TxLine(g)'
    <2>1. Pending(g)' = Pending(g)
      BY <1>3 DEF Pending, Packet, readerVars
    <2> QED
      BY <1>1, <1>3, <2>1, TxKept DEF txVars
  <1>4. ASSUME NEW h \in Handles, WriterStep(h)
        PROVE  TxLine(g)'
    <2>1. UNCHANGED <<txVars, readerVars>> /\ traffic' = traffic + 0
      BY <1>1, <1>4 DEF WriterStep, WriterReceives, WriterDrains, WriterWrites, WriterEnds
    <2> QED
      BY <1>3, <2>1
  <1>5. ASSUME NEW t \in Threads, ReceiverStep(t)
        PROVE  TxLine(g)'
    <2>1. UNCHANGED <<txVars, readerVars>>
      BY <1>5 DEF ReceiverStep, Receive, Deliver
    <2>2. \E k \in Nat : traffic' = traffic + k
      <3>1. CASE Receive(t)
        BY <3>1 DEF Receive
      <3>2. CASE Deliver(t)
        <4>0. traffic' = traffic
          BY <3>2 DEF Deliver
        <4>1. traffic' = traffic + 0
          BY <1>1, <4>0
        <4> QED
          BY <4>1
      <3> QED
        BY <1>5, <3>1, <3>2 DEF ReceiverStep
    <2> QED
      BY <1>3, <2>1, <2>2
  <1>6. CASE Shutdown \/ UNCHANGED vars
    <2>1. UNCHANGED <<txVars, readerVars>> /\ traffic' = traffic + 0
      BY <1>1, <1>6 DEF Shutdown, vars
    <2> QED
      BY <1>3, <2>1
  <1> QED
    BY <1>2, <1>4, <1>5, <1>6, ReaderTxOrder, BatcherTxOrder DEF Next

LEMMA SendsInOrder ==
    ASSUME FrameInv, FlowInv, TxOrder, [Next]_vars, NEW h \in Handles
    PROVE  wire'[h] >= wire[h]
  <1>1. wire \in [Handles -> Numbers] /\ wire[h] \in Nat
    BY DataPathAssumption DEF FlowInv, FlowTypes, Numbers
  <1>2. CASE wire' = wire
    BY <1>1, <1>2
  <1>3. CASE BatcherSends
    <2>1. PICK i \in unsent : /\ FlushedNext(i)
                              /\ wire' = [wire EXCEPT ![txBatch[i].from] = txBatch[i].n]
      BY <1>3 DEF BatcherSends
    <2>2. txBatch[i] \in TxPackets /\ txBatch[i].n > wire[txBatch[i].from]
      BY <1>3, <2>1, SentIsFirst DEF BatcherSends
    <2>3. txBatch[i].n \in Nat
      BY <2>2, DataPathAssumption DEF TxPackets, Numbers
    <2>4. CASE txBatch[i].from = h
      <3>1. wire'[h] = txBatch[i].n
        BY <1>1, <2>1, <2>4
      <3> QED
        BY <1>1, <2>2, <2>3, <2>4, <3>1
    <2>5. CASE txBatch[i].from # h
      <3>1. wire'[h] = wire[h]
        BY <1>1, <2>1, <2>5
      <3> QED
        BY <1>1, <3>1
    <2> QED
      BY <2>4, <2>5
  <1>4. wire' = wire \/ BatcherSends
    BY DEF Next, TunnelStep, Register, CreateFails, Start, Cancel, Unregister,
           WriterStep, WriterReceives, WriterDrains, WriterWrites, WriterEnds,
           ReaderStep, ReaderReads, ReaderSends, ReaderSendFails, ReaderStops, ReaderFails,
           ReaderEnds, ReceiverStep, Receive, Deliver, BatcherStep, BatcherTakes, BatcherAdds,
           BatcherDeadline, BatcherSendFails, BatcherStops, Shutdown, vars, txVars
  <1> QED
    BY <1>2, <1>3, <1>4

(* Frames of one receive thread reach a TAP, and those of one TAP the      *)
(* wire, in the order they came (InOrder), whatever is dropped.            *)
THEOREM FramesInOrder == Spec => InOrder
  <1>1. FrameInv /\ FlowInv /\ RxOrder /\ TxOrder /\ [Next]_vars =>
            [\A h \in Handles :
                 /\ \A t \in Threads : written'[h][t] >= written[h][t]
                 /\ wire'[h] >= wire[h]]_vars
    BY WritesInOrder, SendsInOrder
  <1> QED
    BY <1>1, InitFrameInv, NextFrameInv, InitFlowInv, NextFlowInv, InitRxOrder, NextRxOrder,
       InitTxOrder, NextTxOrder, PTL DEF Spec, InOrder

================================================================================
