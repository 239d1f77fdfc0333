------------------------------- MODULE DataPath -------------------------------
(***************************************************************************)
(* Frames between the raw sockets and the TAP devices: the receive threads *)
(* of packet/rx.rs, the channel and the writer thread of each tunnel, the  *)
(* TAP readers and the batcher of packet/tx.rs, and the buffer pool they   *)
(* share, while tunnels are created and deleted.                           *)
(*                                                                         *)
(* A writer thread keeps the number of its TAP descriptor, not a share in  *)
(* the TAP, so the descriptor table of the process is part of the model.   *)
(* How long a call takes to create a tunnel, and what it says to the       *)
(* helper, is the subject of TunnelManager; here a creation succeeds or    *)
(* fails at some time.  Keepalives, packets that do not decode and the     *)
(* statistics are left out: they carry no frame.                           *)
(***************************************************************************)
EXTENDS Naturals, FiniteSets, Sequences

CONSTANTS
    Handles,         \* one per creation of a tunnel
    Keys,            \* DemuxKeys
    V6,              \* those with an IPv6 peer
    Startup,         \* the handles made at startup, with their keys
    Threads,         \* receive threads
    Descriptors,     \* file descriptor numbers, given out lowest first
    Capacity,        \* of the buffer pool
    ChannelCap,      \* of rx_channel: 1024
    MaxBatch,        \* MAX_BATCH of a writer: 32
    RecvBatch,       \* RECV_BATCH: 32
    QueueCap,        \* channel_buffer, of the queue to the batcher
    LowWater,        \* low_water_mark
    HighWater,       \* high_water_mark
    MaxTraffic,      \* bound on the frames of a behaviour
    Nobody           \* no handle, no owner of a descriptor

ASSUME DataPathAssumption ==
    /\ V6 \subseteq Keys
    /\ DOMAIN Startup \subseteq Handles
    /\ \A h \in DOMAIN Startup : Startup[h] \in Keys
    /\ \A g, h \in DOMAIN Startup : Startup[g] = Startup[h] => g = h
    /\ IsFiniteSet(DOMAIN Startup) /\ Cardinality(DOMAIN Startup) <= Capacity
    /\ Descriptors \subseteq Nat
    /\ Capacity \in Nat
    /\ {ChannelCap, MaxBatch, RecvBatch, QueueCap, HighWater} \subseteq Nat \ {0}
    /\ LowWater \in Nat
    /\ MaxTraffic \in Nat
    /\ Nobody \notin Handles /\ Nobody \notin Keys /\ Nobody \notin Descriptors

(* The tunnels of the configuration: startup_tunnels of run() holds their  *)
(* TAPs until the daemon ends.                                             *)
AtStartup == DOMAIN Startup

VARIABLES
    registry,        \* TunnelRegistry.map
    key,             \* the key of a handle, Nobody before it is made
    tracked,         \* handles in TunnelManager.tasks, with token and TAP
    stopping,        \* the root token is cancelled
    open,            \* the descriptor table
    fd,              \* the number the writer of a handle keeps
    reader,          \* the TAP reader of a handle
    readBuf,         \* its buffer: from the pool?
    readNum,         \* the frame in it
    chan,            \* rx_channel of a handle
    writer,          \* its writer thread
    batch,           \* the frames that thread has taken
    held,            \* what such a thread got from recvmmsg
    queue,           \* from the readers to the batcher
    batcher,         \* the TX batcher
    txBatch,         \* its batch
    unsent,          \* the packets of it that flush_batch has yet to send
    free,            \* buffers in the pool
    traffic,         \* frames so far: their numbers
    written,         \* last frame a writer put on its TAP, per receive thread
    wire             \* last frame of a tunnel the batcher sent

tunnelVars == <<registry, key, tracked, stopping>>
fdVars == <<open, fd>>
readerVars == <<reader, readBuf, readNum>>
writerVars == <<chan, writer, batch, written>>
txVars == <<queue, batcher, txBatch, unsent, wire>>

vars == <<tunnelVars, fdVars, readerVars, writerVars, held, txVars, free, traffic>>

Numbers == 0 .. MaxTraffic
Received == [to : Keys, n : Numbers, rx : Threads]
RxFrames == [to : Keys, n : Numbers, rx : Threads, pooled : BOOLEAN]
TxPackets == [from : Handles, n : Numbers, pooled : BOOLEAN]

TypeOK ==
    /\ registry \in [Keys -> Handles \cup {Nobody}]
    /\ key \in [Handles -> Keys \cup {Nobody}]
    /\ tracked \subseteq Handles
    /\ stopping \in BOOLEAN
    /\ open \in [Descriptors -> Handles \cup {Nobody}]
    /\ fd \in [Handles -> Descriptors \cup {Nobody}]
    /\ reader \in [Handles -> {"none", "creating", "reading", "sending", "stopped"}]
    /\ readBuf \in [Handles -> BOOLEAN]
    /\ readNum \in [Handles -> Numbers]
    /\ chan \in [Handles -> Seq(RxFrames)]
    /\ \A h \in Handles : Len(chan[h]) <= ChannelCap
    /\ writer \in [Handles -> {"none", "receiving", "draining", "writing", "ended"}]
    /\ batch \in [Handles -> Seq(RxFrames)]
    /\ \A h \in Handles : Len(batch[h]) <= MaxBatch
    /\ held \in [Threads -> Seq(Received)]
    /\ queue \in Seq(TxPackets)
    /\ Len(queue) <= QueueCap
    /\ batcher \in {"waiting", "filling", "flushing", "stopped"}
    /\ txBatch \in Seq(TxPackets)
    /\ Len(txBatch) <= HighWater
    /\ unsent \subseteq DOMAIN txBatch
    /\ free \in 0 .. Capacity
    /\ traffic \in Numbers
    /\ written \in [Handles -> [Threads -> Numbers]]
    /\ wire \in [Handles -> Numbers]

--------------------------------------------------------------------------------
(* Who holds what. *)

Registered(h) == key[h] # Nobody /\ registry[key[h]] = h

ReaderRuns(h) == reader[h] \in {"reading", "sending"}

(* The token of a tunnel is a child of the root token. *)
Cancelled(h) == stopping \/ h \notin tracked

(* Mutant: the thread of the writer keeps the handle itself. *)
AliveForWriter(h) ==
    \/ Registered(h) \/ ReaderRuns(h) \/ reader[h] = "creating" \/ h \in tracked
    \/ writer[h] \notin {"none", "ended"}

(* Somebody has an Arc<TunnelHandle>, and with it the sender of rx_channel. *)
Alive(h) ==
    Registered(h) \/ ReaderRuns(h) \/ reader[h] = "creating" \/ h \in tracked

(* Mutant: the manager tracks the token only. *)
TapHeldByReader(h) == ReaderRuns(h) \/ h \in AtStartup

(* Somebody has an Arc<TapDevice>. *)
TapHeld(h) == ReaderRuns(h) \/ h \in tracked \/ h \in AtStartup

(* The TAP is closed as the last Arc to it goes. *)
DropTap(h) ==
    open' = IF TapHeld(h)' THEN open
            ELSE [d \in Descriptors |-> IF open[d] = h THEN Nobody ELSE open[d]]

LowestFree(d) ==
    /\ open[d] = Nobody
    /\ \A e \in Descriptors : e < d => open[e] # Nobody

PooledIn(s) == Cardinality({i \in DOMAIN s : s[i].pooled})

(* BufferPool::get: a buffer of the pool, or a new one when it is empty.   *)
FromPool == free > 0
AfterGet(n) == IF n > 0 THEN n - 1 ELSE 0

(* PacketBuf::drop *)
Returned(pooled) == IF pooled THEN 1 ELSE 0

(* A handle without a writer takes what is in its channel with it. *)
Orphaned(h) == writer[h] = "none" /\ ~Alive(h)

DropHandles ==
    /\ chan' = [h \in Handles |-> IF Orphaned(h)' THEN <<>> ELSE chan[h]]
    /\ free' = free + Cardinality({p \in Handles \X (1 .. ChannelCap) :
                           /\ Orphaned(p[1])'
                           /\ p[2] <= Len(chan[p[1]])
                           /\ chan[p[1]][p[2]].pooled})

--------------------------------------------------------------------------------
(* Tunnels come and go. *)

(* The daemon has started: run() made the tunnels of the configuration and *)
(* spawned their tasks, and the readers have taken their first buffer.     *)
Init ==
    /\ key = [h \in Handles |-> IF h \in AtStartup THEN Startup[h] ELSE Nobody]
    /\ registry = [k \in Keys |-> IF \E h \in AtStartup : key[h] = k
                                  THEN CHOOSE h \in AtStartup : key[h] = k
                                  ELSE Nobody]
    /\ fd \in [Handles -> Descriptors \cup {Nobody}]
    /\ \A h \in Handles : fd[h] # Nobody <=> h \in AtStartup
    /\ \A g, h \in AtStartup : fd[g] = fd[h] => g = h
    /\ \A h \in AtStartup : \A e \in Descriptors :
           e < fd[h] => \E g \in AtStartup : fd[g] = e
    /\ open = [d \in Descriptors |-> IF \E h \in AtStartup : fd[h] = d
                                     THEN CHOOSE h \in AtStartup : fd[h] = d
                                     ELSE Nobody]
    /\ tracked = AtStartup
    /\ stopping = FALSE
    /\ reader = [h \in Handles |-> IF h \in AtStartup THEN "reading" ELSE "none"]
    /\ readBuf = [h \in Handles |-> h \in AtStartup]
    /\ free = Capacity - Cardinality(AtStartup)
    /\ readNum = [h \in Handles |-> 0]
    /\ chan = [h \in Handles |-> <<>>]
    /\ writer = [h \in Handles |-> IF h \in AtStartup THEN "receiving" ELSE "none"]
    /\ batch = [h \in Handles |-> <<>>]
    /\ held = [t \in Threads |-> <<>>]
    /\ queue = <<>>
    /\ batcher = "waiting"
    /\ txBatch = <<>>
    /\ unsent = {}
    /\ traffic = 0
    /\ written = [h \in Handles |-> [t \in Threads |-> 0]]
    /\ wire = [h \in Handles |-> 0]

(* create_tunnel registers a new handle, with its channel but no tasks.    *)
Register(h, k) ==
    /\ ~stopping
    /\ reader[h] = "none"
    /\ registry[k] = Nobody
    /\ registry' = [registry EXCEPT ![k] = h]
    /\ key' = [key EXCEPT ![h] = k]
    /\ reader' = [reader EXCEPT ![h] = "creating"]
    /\ UNCHANGED <<tracked, stopping, fdVars, readBuf, readNum,
                   writerVars, held, txVars, free, traffic>>

(* It fails; some of its error returns leave the handle registered, the    *)
(* others remove whatever has its key.                                     *)
CreateFails(h) ==
    /\ reader[h] = "creating"
    /\ \/ registry' = registry
       \/ registry' = [registry EXCEPT ![key[h]] = Nobody]
    /\ reader' = [reader EXCEPT ![h] = "stopped"]
    /\ UNCHANGED <<key, tracked, stopping, writer>>
    /\ DropHandles
    /\ UNCHANGED <<fdVars, readBuf, readNum, batch, written, held, txVars, traffic>>

(* It has its TAP, spawns the tasks and tracks them. *)
Start(h) ==
    /\ reader[h] = "creating"
    /\ \E d \in Descriptors :
           /\ LowestFree(d)
           /\ open' = [open EXCEPT ![d] = h]
           /\ fd' = [fd EXCEPT ![h] = d]
    /\ reader' = [reader EXCEPT ![h] = "reading"]
    /\ readBuf' = [readBuf EXCEPT ![h] = FromPool]
    /\ free' = AfterGet(free)
    /\ writer' = [writer EXCEPT ![h] = "receiving"]
    /\ tracked' = tracked \cup {h}
    /\ UNCHANGED <<registry, key, stopping, readNum, chan, batch, written,
                   held, txVars, traffic>>

(* destroy_tunnel: the token is cancelled and the share in the TAP given   *)
(* up ...                                                                  *)
Cancel(h) ==
    /\ h \in tracked
    /\ tracked' = tracked \ {h}
    /\ UNCHANGED reader
    /\ DropTap(h)
    /\ UNCHANGED <<registry, key, stopping, fd, readBuf, readNum,
                   writerVars, held, txVars, free, traffic>>

(* ... and then the handle leaves the registry.  A tunnel that is being    *)
(* created has nothing to cancel yet.                                      *)
Unregister(h) ==
    /\ Registered(h)
    /\ h \notin tracked
    /\ registry' = [registry EXCEPT ![key[h]] = Nobody]
    /\ UNCHANGED <<key, tracked, stopping, readerVars, writer>>
    /\ DropHandles
    /\ UNCHANGED <<fdVars, batch, written, held, txVars, traffic>>

Shutdown ==
    /\ ~stopping
    /\ stopping' = TRUE
    /\ UNCHANGED <<registry, key, tracked, fdVars, readerVars,
                   writerVars, held, txVars, free, traffic>>

--------------------------------------------------------------------------------
(* From the raw sockets to the TAP devices. *)

(* recvmmsg: frames for any key, waiting in the buffers of the thread. *)
Receive(t) ==
    /\ ~stopping
    /\ held[t] = <<>>
    /\ \E len \in 1 .. RecvBatch : \E to \in [1 .. len -> Keys] :
           /\ traffic + len <= MaxTraffic
           /\ held' = [held EXCEPT ![t] =
                  [i \in 1 .. len |-> [to |-> to[i], n |-> traffic + i, rx |-> t]]]
           /\ traffic' = traffic + len
    /\ UNCHANGED <<tunnelVars, fdVars, readerVars, writerVars, txVars, free>>

(* The buffer a received frame is copied to. *)
Buffered(f) == [to |-> f.to, n |-> f.n, rx |-> f.rx, pooled |-> FromPool]

(* Mutant: the buffer of a frame that does not fit is not dropped. *)
DeliverKeepsBuffer(t) ==
    /\ held[t] # <<>>
    /\ held' = [held EXCEPT ![t] = Tail(@)]
    /\ LET f == Head(held[t])
           h == registry[f.to]
       IN  IF h = Nobody
           THEN UNCHANGED <<chan, free>>
           ELSE /\ chan' = IF Len(chan[h]) < ChannelCap
                           THEN [chan EXCEPT ![h] = Append(@, Buffered(f))] ELSE chan
                /\ free' = AfterGet(free)
    /\ UNCHANGED <<tunnelVars, fdVars, readerVars, writer, batch, written, txVars,
                   traffic>>

(* Mutant: a tunnel with the same peer serves, whatever its id. *)
DeliverByPeer(t) ==
    /\ held[t] # <<>>
    /\ held' = [held EXCEPT ![t] = Tail(@)]
    /\ LET f == Head(held[t])
       IN  \/ /\ \A k \in Keys : registry[k] = Nobody
              /\ UNCHANGED <<chan, free>>
           \/ \E k \in Keys :
                  /\ registry[k] # Nobody
                  /\ Len(chan[registry[k]]) < ChannelCap
                  /\ chan' = [chan EXCEPT ![registry[k]] = Append(@, Buffered(f))]
                  /\ free' = AfterGet(free)
    /\ UNCHANGED <<tunnelVars, fdVars, readerVars, writer, batch, written, txVars,
                   traffic>>

(* process_v4_packet, process_v6_packet: get_ref keeps the handle in the   *)
(* registry until the frame is in its channel.  A frame nobody serves, or  *)
(* one that does not fit, is dropped, the latter with its buffer.          *)
Deliver(t) ==
    /\ held[t] # <<>>
    /\ held' = [held EXCEPT ![t] = Tail(@)]
    /\ LET f == Head(held[t])
           h == registry[f.to]
       IN  IF h = Nobody \/ Len(chan[h]) = ChannelCap
           THEN UNCHANGED <<chan, free>>
           ELSE /\ chan' = [chan EXCEPT ![h] = Append(@, Buffered(f))]
                /\ free' = AfterGet(free)
    /\ UNCHANGED <<tunnelVars, fdVars, readerVars, writer, batch, written, txVars,
                   traffic>>

(* The thread tap-wr: recv, then try_recv while the batch has room. *)
WriterReceives(h) ==
    /\ writer[h] = "receiving"
    /\ chan[h] # <<>>
    /\ batch' = [batch EXCEPT ![h] = <<Head(chan[h])>>]
    /\ chan' = [chan EXCEPT ![h] = Tail(@)]
    /\ writer' = [writer EXCEPT ![h] = "draining"]
    /\ UNCHANGED <<tunnelVars, fdVars, readerVars, written, held, txVars, free, traffic>>

WriterDrains(h) ==
    /\ writer[h] = "draining"
    /\ Len(batch[h]) < MaxBatch
    /\ chan[h] # <<>>
    /\ batch' = [batch EXCEPT ![h] = Append(@, Head(chan[h]))]
    /\ chan' = [chan EXCEPT ![h] = Tail(@)]
    /\ UNCHANGED <<tunnelVars, fdVars, readerVars, writer, written, held, txVars, free,
                   traffic>>

(* The writer leaves the draining loop on an empty channel or a full batch. *)
WriterMayWrite(h) ==
    \/ writer[h] = "writing"
    \/ writer[h] = "draining" /\ (chan[h] = <<>> \/ Len(batch[h]) = MaxBatch)

(* write(2) on the number: the frame reaches whoever owns that number now, *)
(* and is lost when that is nobody or the TAP has no room.                 *)
WriteFrame(h, f) ==
    \/ UNCHANGED written
    \/ /\ open[fd[h]] = h
       /\ written' = [written EXCEPT ![h][f.rx] = f.n]

(* Mutant: the batch is popped from its end. *)
WriterWritesLast(h) ==
    /\ WriterMayWrite(h)
    /\ LET f == batch[h][Len(batch[h])]
           rest == SubSeq(batch[h], 1, Len(batch[h]) - 1)
       IN  /\ WriteFrame(h, f)
           /\ batch' = [batch EXCEPT ![h] = rest]
           /\ writer' = [writer EXCEPT ![h] = IF rest = <<>> THEN "receiving" ELSE "writing"]
           /\ free' = free + Returned(f.pooled)
    /\ UNCHANGED <<tunnelVars, fdVars, readerVars, chan, held, txVars, traffic>>

WriterWrites(h) ==
    /\ WriterMayWrite(h)
    /\ LET f == Head(batch[h])
           rest == Tail(batch[h])
       IN  /\ WriteFrame(h, f)
           /\ batch' = [batch EXCEPT ![h] = rest]
           /\ writer' = [writer EXCEPT ![h] = IF rest = <<>> THEN "receiving" ELSE "writing"]
           /\ free' = free + Returned(f.pooled)
    /\ UNCHANGED <<tunnelVars, fdVars, readerVars, chan, held, txVars, traffic>>

(* recv fails once the channel is empty and its last sender is dropped. *)
WriterEnds(h) ==
    /\ writer[h] = "receiving"
    /\ chan[h] = <<>>
    /\ ~Alive(h)
    /\ writer' = [writer EXCEPT ![h] = "ended"]
    /\ UNCHANGED <<tunnelVars, fdVars, readerVars, chan, batch, written, held, txVars,
                   free, traffic>>

--------------------------------------------------------------------------------
(* From the TAP devices to the raw sockets. *)

(* read_and_encode returns a frame in the buffer it took. *)
ReaderReads(h) ==
    /\ reader[h] = "reading"
    /\ traffic < MaxTraffic
    /\ traffic' = traffic + 1
    /\ readNum' = [readNum EXCEPT ![h] = traffic + 1]
    /\ reader' = [reader EXCEPT ![h] = "sending"]
    /\ UNCHANGED <<tunnelVars, fdVars, readBuf, writerVars, held, txVars, free>>

Packet(h) == [from |-> h, n |-> readNum[h], pooled |-> readBuf[h]]

(* Mutant: an unbounded queue. *)
ReaderSendsAnyway(h) ==
    /\ reader[h] = "sending"
    /\ batcher # "stopped"
    /\ queue' = Append(queue, Packet(h))
    /\ reader' = [reader EXCEPT ![h] = "reading"]
    /\ readBuf' = [readBuf EXCEPT ![h] = FromPool]
    /\ readNum' = [readNum EXCEPT ![h] = 0]
    /\ free' = AfterGet(free)
    /\ UNCHANGED <<tunnelVars, fdVars, writerVars, held, batcher, txBatch,
                   unsent, wire, traffic>>

(* The send waits for room, cancelled or not; then the next read takes the *)
(* next buffer.                                                            *)
ReaderSends(h) ==
    /\ reader[h] = "sending"
    /\ batcher # "stopped"
    /\ Len(queue) < QueueCap
    /\ queue' = Append(queue, Packet(h))
    /\ reader' = [reader EXCEPT ![h] = "reading"]
    /\ readBuf' = [readBuf EXCEPT ![h] = FromPool]
    /\ readNum' = [readNum EXCEPT ![h] = 0]
    /\ free' = AfterGet(free)
    /\ UNCHANGED <<tunnelVars, fdVars, writerVars, held, batcher, txBatch,
                   unsent, wire, traffic>>

(* The reader ends, and its buffer and its share in the TAP go. *)
ReaderEnds(h) ==
    /\ reader' = [reader EXCEPT ![h] = "stopped"]
    /\ free' = free + Returned(readBuf[h])
    /\ readBuf' = [readBuf EXCEPT ![h] = FALSE]
    /\ readNum' = [readNum EXCEPT ![h] = 0]
    /\ UNCHANGED tunnelVars
    /\ DropTap(h)
    /\ UNCHANGED <<fd, writerVars, held, txVars, traffic>>

(* The send fails when the batcher is gone. *)
ReaderSendFails(h) ==
    /\ reader[h] = "sending"
    /\ batcher = "stopped"
    /\ ReaderEnds(h)

(* select! sees the token. *)
ReaderStops(h) ==
    /\ reader[h] = "reading"
    /\ Cancelled(h)
    /\ ReaderEnds(h)

(* The TAP cannot be read, or the header not be encoded. *)
ReaderFails(h) ==
    /\ reader[h] = "reading"
    /\ ReaderEnds(h)

IsV6(i) == key[txBatch[i].from] \in V6

(* flush_batch sends what goes to IPv4 peers first, each family in the     *)
(* order of the batch.                                                     *)
FlushedBefore(i, j) == IF IsV6(i) = IsV6(j) THEN i < j ELSE IsV6(j)

FlushedNext(i) == i \in unsent /\ \A j \in unsent \ {i} : FlushedBefore(i, j)

(* Below the low water mark, or full, the batch s is flushed; in between   *)
(* the batcher waits for more.                                             *)
Fill(s) ==
    /\ txBatch' = s
    /\ IF Len(s) < LowWater \/ Len(s) >= HighWater
       THEN batcher' = "flushing" /\ unsent' = DOMAIN s
       ELSE batcher' = "filling" /\ unsent' = {}

BatcherTakes ==
    /\ batcher = "waiting"
    /\ queue # <<>>
    /\ queue' = Tail(queue)
    /\ Fill(<<Head(queue)>>)
    /\ UNCHANGED <<tunnelVars, fdVars, readerVars, writerVars, held, wire,
                   free, traffic>>

(* The low water mark was passed with the first packet. *)
BatcherAdds ==
    /\ batcher = "filling"
    /\ queue # <<>>
    /\ queue' = Tail(queue)
    /\ Fill(Append(txBatch, Head(queue)))
    /\ UNCHANGED <<tunnelVars, fdVars, readerVars, writerVars, held, wire,
                   free, traffic>>

(* Mutant: the deadline is looked at when a packet arrives. *)
BatcherDeadlineOnPacket ==
    /\ batcher = "filling"
    /\ queue # <<>>
    /\ batcher' = "flushing"
    /\ unsent' = DOMAIN txBatch
    /\ UNCHANGED <<tunnelVars, fdVars, readerVars, writerVars, held, queue, txBatch,
                   wire, free, traffic>>

BatcherDeadline ==
    /\ batcher = "filling"
    /\ batcher' = "flushing"
    /\ unsent' = DOMAIN txBatch
    /\ UNCHANGED <<tunnelVars, fdVars, readerVars, writerVars, held, queue, txBatch,
                   wire, free, traffic>>

(* The packets left to send are u; after the last the batch is cleared.    *)
FlushOn(u) ==
    /\ unsent' = u
    /\ IF u = {}
       THEN /\ txBatch' = <<>>
            /\ batcher' = "waiting"
            /\ free' = free + PooledIn(txBatch)
       ELSE UNCHANGED <<txBatch, batcher, free>>
    /\ UNCHANGED <<tunnelVars, fdVars, readerVars, writerVars, held, queue, traffic>>

(* sendmmsg sends the packets of one family in order ... *)
BatcherSends ==
    /\ batcher = "flushing"
    /\ \E i \in unsent :
           /\ FlushedNext(i)
           /\ wire' = [wire EXCEPT ![txBatch[i].from] = txBatch[i].n]
           /\ FlushOn(unsent \ {i})

(* ... or stops, and the others of that family are lost. *)
BatcherSendFails ==
    /\ batcher = "flushing"
    /\ \E i \in unsent :
           /\ FlushedNext(i)
           /\ FlushOn({j \in unsent : IsV6(j) # IsV6(i)})
    /\ UNCHANGED wire

(* The batcher sees the token and ends; what is queued is dropped. *)
BatcherStops ==
    /\ batcher = "waiting"
    /\ stopping
    /\ batcher' = "stopped"
    /\ queue' = <<>>
    /\ free' = free + PooledIn(queue)
    /\ UNCHANGED <<tunnelVars, fdVars, readerVars, writerVars, held, txBatch, unsent,
                   wire, traffic>>

--------------------------------------------------------------------------------
TunnelStep(h) ==
    \/ \E k \in Keys : Register(h, k)
    \/ CreateFails(h) \/ Start(h) \/ Cancel(h) \/ Unregister(h)

ReceiverStep(t) == Receive(t) \/ Deliver(t)

WriterStep(h) ==
    WriterReceives(h) \/ WriterDrains(h) \/ WriterWrites(h) \/ WriterEnds(h)

ReaderStep(h) ==
    \/ ReaderReads(h) \/ ReaderSends(h)
    \/ ReaderSendFails(h) \/ ReaderStops(h) \/ ReaderFails(h)

BatcherStep ==
    \/ BatcherTakes \/ BatcherAdds \/ BatcherDeadline
    \/ BatcherSends \/ BatcherSendFails \/ BatcherStops

Next ==
    \/ \E h \in Handles : TunnelStep(h) \/ WriterStep(h) \/ ReaderStep(h)
    \/ \E t \in Threads : ReceiverStep(t)
    \/ BatcherStep
    \/ Shutdown

Spec == Init /\ [][Next]_vars

(* Threads are scheduled and tasks are polled.  A cancelled task can lose  *)
(* a select! to the other branch, and a waiting sender its place in the    *)
(* queue to another one, but not for ever.  A deletion that cancelled goes *)
(* on.  Nothing makes frames, calls, failures or signals happen.           *)
Fairness ==
    /\ \A h \in Handles :
           /\ WF_vars(WriterStep(h))
           /\ SF_vars(ReaderSends(h))
           /\ WF_vars(ReaderSendFails(h))
           /\ SF_vars(ReaderStops(h))
           /\ WF_vars(fd[h] # Nobody /\ Unregister(h))
    /\ \A t \in Threads : WF_vars(Deliver(t))
    /\ WF_vars(BatcherStep)

FairSpec == Spec /\ Fairness

--------------------------------------------------------------------------------
(* Properties. *)

(* Buffers of the pool are in it or in one place of the data path,         *)
(* whichever thread drops them: on a full channel, at the end of a batch,  *)
(* with a queue or with a handle nobody serves (packet/buffer.rs).         *)
PooledOf(c, cap) ==
    Cardinality({p \in Handles \X (1 .. cap) :
                     p[2] <= Len(c[p[1]]) /\ c[p[1]][p[2]].pooled})

InFlight ==
    Cardinality({h \in Handles : readBuf[h]}) + PooledOf(chan, ChannelCap)
    + PooledOf(batch, MaxBatch) + PooledIn(queue) + PooledIn(txBatch)

PoolConserved == free + InFlight = Capacity

(* The number a writer thread keeps is its own TAP's as long as the tunnel *)
(* is not deleted, also when its reader has failed, and for ever when the  *)
(* tunnel was made at startup; other numbers come and go in the meantime.  *)
(* After a deletion the number may be a connection's or another TAP's      *)
(* while the writer still has frames: see the hazards.                     *)
OwnTap ==
    \A h \in Handles :
        (writer[h] # "none" /\ (h \in tracked \/ h \in AtStartup)) => open[fd[h]] = h

(* Frames wait for a TAP only if they were addressed to the tunnel, over   *)
(* deletions and new tunnels with the same key or id.                      *)
OwnFrames ==
    \A h \in Handles :
        /\ \A i \in DOMAIN chan[h] : chan[h][i].to = key[h]
        /\ \A i \in DOMAIN batch[h] : batch[h][i].to = key[h]

(* Frames of one receive thread reach a TAP in the order they came, and    *)
(* frames of one TAP reach the wire in the order they were read, whatever  *)
(* is dropped on the way and however the batches fall.                     *)
InOrder ==
    [][\A h \in Handles :
           /\ \A t \in Threads : written'[h][t] >= written[h][t]
           /\ wire'[h] >= wire[h]]_vars

(* The batcher holds no packet for ever, even if no other packet follows.  *)
FlushesInTheEnd == txBatch # <<>> ~> txBatch = <<>>

(* After a deletion the writer thread ends, having passed on what was in   *)
(* the channel, and a TAP not made at startup is closed, also when the     *)
(* reader was waiting for the batcher, and when the daemon stops.          *)
Closed(h) == \A d \in Descriptors : open[d] # h

DeletedIsReleased ==
    \A h \in Handles :
        (fd[h] # Nobody /\ h \notin tracked)
            ~> (writer[h] = "ended" /\ (h \in AtStartup \/ Closed(h)))

================================================================================
