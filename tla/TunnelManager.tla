----------------------------- MODULE TunnelManager -----------------------------
(***************************************************************************)
(* Dynamic tunnel creation and removal: tunnel/manager.rs with the         *)
(* registry, the per-tunnel tasks, the lifecycle states and the helper.    *)
(*                                                                         *)
(* The API handlers call create_tunnel and destroy_tunnel without awaiting *)
(* inside, so a call occupies the runtime's worker thread it runs on from  *)
(* its first step to its last, blocked in a read or on a mutex or not.     *)
(* Workers are those threads; the tunnels' own tasks need one of them to   *)
(* be free.  The model starts where startup ends (see DaemonStartup).      *)
(***************************************************************************)
EXTENDS HelperLink, TunnelState, FiniteSets

CONSTANTS
    Workers,         \* the worker threads of the tokio runtime
    Tids,            \* tunnel ids
    Peers,           \* remote addresses
    NoKey,           \* not a DemuxKey
    NoWorker,        \* not a worker
    Startups,        \* the sets of tunnels a configuration file may list
    MaxDestroys      \* bound: DeleteTunnel calls in a behaviour

Handles == Requests          \* a create attempt makes one handle, one request
Keys == Tids \X Peers        \* DemuxKey: tunnel_id, peer_addr

(* A startup: the DemuxKey of each tunnel made from the configuration      *)
(* file, and which of them was made last.                                  *)
IsStartup(s) ==
    /\ DOMAIN s.key \subseteq Handles
    /\ s.key \in [DOMAIN s.key -> Keys]
    /\ \A g, h \in DOMAIN s.key : s.key[g][1] = s.key[h][1] => g = h
    /\ IF DOMAIN s.key = {} THEN s.last = NoRequest ELSE s.last \in DOMAIN s.key

(* Startup completes without IPv4 sockets only when it makes no tunnel,    *)
(* and without IPv6 sockets only when it makes at most two (see            *)
(* DaemonStartup).                                                         *)
Completes(s, m) ==
    LET made == DOMAIN s.key
    IN  /\ m.v4 \/ made = {}
        /\ m.v6 \/ \E h \in Handles : made \subseteq {h, s.last}

ASSUME ManagerAssumption ==
    /\ NoKey \notin Keys
    /\ NoWorker \notin Workers
    /\ \A s \in Startups : IsStartup(s)
    /\ MaxDestroys \in Nat

VARIABLES
    registry,        \* TunnelRegistry.map
    key,             \* the key a handle was made for, NoKey while unused
    state,           \* TunnelHandle.state
    tap,             \* whose TAP a handle's tasks read and write
    tasks,           \* TunnelManager.tasks: whose token is tracked for a tid
    task,            \* a handle's TAP reader and keepalive tasks (see Running)
    recheck,         \* keepalive: the state it is about to move the handle to
    cancelled,       \* handles whose token destroy_tunnel cancelled
    helperLock,      \* who holds TunnelManager.helper
    pc,              \* where each worker is
    cur,             \* the handle a worker is creating
    tid,             \* the tunnel id a worker is destroying
    found,           \* destroy_tunnel: entries still to remove
    seen,            \* destroy_tunnel: the state just loaded
    destroys,        \* DeleteTunnel calls so far
    daemon           \* shutdown: the root token and the process

managerVars == <<registry, key, state, tap, tasks, task, recheck, cancelled,
                 helperLock, pc, cur, tid, found, seen, destroys, daemon>>
vars == <<managerVars, linkVars>>

CreateSteps == {"insert", "lock", "send", "receive", "drain",
                "configure", "activate", "spawn", "track"}
DestroySteps == {"find", "load", "mark", "unregister"}
Exchange == {"send", "receive", "drain"}

(* Which of a tunnel's tasks are left: all of them, all but a TAP reader    *)
(* that ended on an error, none.                                           *)
Running == {"running", "noReader"}

(* The variables keep their types, and the helper mutex is held by no one  *)
(* or by a call that is between LockHelper and the end of the drain loop.  *)
ManagerTypeOK ==
    /\ registry \in [Keys -> Handles \cup {NoRequest}]
    /\ key \in [Handles -> Keys \cup {NoKey}]
    /\ state \in [Handles -> TunnelStates]
    /\ tap \in [Handles -> Handles \cup {NoRequest}]
    /\ tasks \in [Tids -> Handles \cup {NoRequest}]
    /\ task \in [Handles -> {"none", "stopped"} \cup Running]
    /\ recheck \in [Handles -> {"none", "Stale", "Active"}]
    /\ cancelled \subseteq Handles
    /\ pc \in [Workers -> {"idle"} \cup CreateSteps \cup DestroySteps]
    /\ helperLock \in {w \in Workers : pc[w] \in Exchange} \cup {NoWorker}
    /\ cur \in [Workers -> Handles \cup {NoRequest}]
    /\ tid \in [Workers -> Tids \cup {NoKey}]
    /\ found \in [Workers -> SUBSET (Keys \X Handles)]
    /\ seen \in [Workers -> TunnelStates]
    /\ destroys \in 0 .. MaxDestroys
    /\ daemon \in {"running", "stopping", "exited"}

TypeOK == LinkTypeOK /\ ManagerTypeOK

TheOne(S) == IF S = {} THEN NoRequest ELSE CHOOSE h \in S : TRUE

(* The startup tunnels are registered, active and tracked.  The helper has *)
(* answered the first of them completely; when there are more it may still *)
(* be about to look at the raw sockets for the last.                       *)
InitAfter(s) ==
    LET made == DOMAIN s.key
    IN  /\ Completes(s, host)
        /\ helper = IF made \subseteq {s.last} THEN "waiting" ELSE "rawV4"
        /\ serving = s.last
        /\ rawV4Created = (made # {})
        /\ rawV6Created = (made # {} /\ host.v6)
        /\ registry = [k \in Keys |-> TheOne({h \in made : s.key[h] = k})]
        /\ tasks = [t \in Tids |-> TheOne({h \in made : s.key[h][1] = t})]
        /\ key = [h \in Handles |-> IF h \in made THEN s.key[h] ELSE NoKey]
        /\ state = [h \in Handles |-> IF h \in made THEN "Active" ELSE "Initializing"]
        /\ tap = [h \in Handles |-> IF h \in made THEN h ELSE NoRequest]
        /\ task = [h \in Handles |-> IF h \in made THEN "running" ELSE "none"]

Init ==
    /\ host \in Hosts
    /\ toHelper = <<>>
    /\ toDaemon = <<>>
    /\ \E s \in Startups : InitAfter(s)
    /\ recheck = [h \in Handles |-> "none"]
    /\ cancelled = {}
    /\ helperLock = NoWorker
    /\ pc = [w \in Workers |-> "idle"]
    /\ cur = [w \in Workers |-> NoRequest]
    /\ tid = [w \in Workers |-> NoKey]
    /\ found = [w \in Workers |-> {}]
    /\ seen = [w \in Workers |-> "Destroyed"]
    /\ destroys = 0
    /\ daemon = "running"

--------------------------------------------------------------------------------
(* TunnelRegistry::find_by_tunnel_id, taken as one read of the map. *)
FindByTunnelId(t) ==
    { <<k, registry[k]>> : k \in {k \in Keys : k[1] = t /\ registry[k] # NoRequest} }

Goto(w, from, to) ==
    /\ pc[w] = from
    /\ pc' = [pc EXCEPT ![w] = to]

(* TunnelRegistry::remove: whatever handle is there under the key. *)
Unregister(k) == registry' = [registry EXCEPT ![k] = NoRequest]

(* A task runs when some worker thread is not occupied by a call. *)
WorkerFree == \E w \in Workers : pc[w] = "idle"

--------------------------------------------------------------------------------
(* create_tunnel.  A call whose tunnel id is registered returns at once    *)
(* and changes nothing, so only the calls that pass the check appear.      *)
CreateTunnel(w, h, k) ==
    /\ daemon = "running"
    /\ key[h] = NoKey
    /\ FindByTunnelId(k[1]) = {}
    /\ Goto(w, "idle", "insert")
    /\ cur' = [cur EXCEPT ![w] = h]
    /\ key' = [key EXCEPT ![h] = k]
    /\ UNCHANGED <<registry, state, tap, tasks, task, recheck, cancelled,
                   helperLock, tid, found, seen, destroys, daemon, linkVars>>

InsertHandle(w) ==
    /\ Goto(w, "insert", "lock")
    /\ registry' = [registry EXCEPT ![key[cur[w]]] = cur[w]]
    /\ UNCHANGED <<key, state, tap, tasks, task, recheck, cancelled,
                   helperLock, cur, tid, found, seen, destroys, daemon, linkVars>>

(* Mutant: the helper mutex is not held by another call. *)
LockHelperShared(w) ==
    /\ Goto(w, "lock", "send")
    /\ helperLock' = w
    /\ UNCHANGED <<registry, key, state, tap, tasks, task, recheck, cancelled,
                   cur, tid, found, seen, destroys, daemon, linkVars>>

LockHelper(w) ==
    /\ helperLock = NoWorker
    /\ Goto(w, "lock", "send")
    /\ helperLock' = w
    /\ UNCHANGED <<registry, key, state, tap, tasks, task, recheck, cancelled,
                   cur, tid, found, seen, destroys, daemon, linkVars>>

(* A failed call drops the guard of the helper mutex.  The "?" returns     *)
(* leave the handle registered; the answers that are not TapCreated remove *)
(* it first.                                                               *)
CreateFails(w, from) ==
    /\ Goto(w, from, "idle")
    /\ helperLock' = NoWorker
    /\ cur' = [cur EXCEPT ![w] = NoRequest]
    /\ UNCHANGED <<key, state, tap, tasks, task, recheck, cancelled,
                   tid, found, seen, destroys, daemon>>

(* Mutant: the guard is a temporary dropped after the send. *)
SendCreateTunnelUnguarded(w) ==
    /\ Connected
    /\ Goto(w, "send", "receive")
    /\ toHelper' = Append(toHelper, cur[w])
    /\ helperLock' = NoWorker
    /\ UNCHANGED <<registry, key, state, tap, tasks, task, recheck, cancelled,
                   cur, tid, found, seen, destroys, daemon, toDaemon, helperVars>>

SendCreateTunnel(w) ==
    /\ Connected
    /\ Goto(w, "send", "receive")
    /\ toHelper' = Append(toHelper, cur[w])
    /\ UNCHANGED <<registry, key, state, tap, tasks, task, recheck, cancelled,
                   helperLock, cur, tid, found, seen, destroys, daemon,
                   toDaemon, helperVars>>

SendFails(w) ==
    /\ ~Connected
    /\ CreateFails(w, "send")
    /\ UNCHANGED <<registry, linkVars>>

(* The answer to the request is whatever message comes next. *)
ReceiveTapCreated(w) ==
    /\ Goto(w, "receive", "drain")
    /\ toDaemon # <<>>
    /\ Head(toDaemon).kind = "TapCreated"
    /\ tap' = [tap EXCEPT ![cur[w]] = Head(toDaemon).for]
    /\ toDaemon' = Tail(toDaemon)
    /\ UNCHANGED <<registry, key, state, tasks, task, recheck, cancelled,
                   helperLock, cur, tid, found, seen, destroys, daemon,
                   toHelper, helperVars>>

ReceiveOther(w) ==
    /\ pc[w] = "receive"
    /\ \E n \in 1 .. Len(toDaemon) :
          /\ ReadsUpTo(toDaemon, n)
          /\ Head(toDaemon).kind # "TapCreated"
          /\ toDaemon' = After(toDaemon, n)
    /\ CreateFails(w, "receive")
    /\ Unregister(key[cur[w]])
    /\ UNCHANGED <<toHelper, helperVars>>

ReceiveFails(w) ==
    /\ EndOfStream
    /\ CreateFails(w, "receive")
    /\ UNCHANGED <<registry, linkVars>>

(* The drain loop: RawSocket and Error messages are dropped until another  *)
(* message or an error ends it.  While the socket is open and empty the    *)
(* read blocks with the mutex held.                                        *)
DrainMessage(w) ==
    /\ pc[w] = "drain"
    /\ \E n \in 1 .. Len(toDaemon) :
          /\ ReadsUpTo(toDaemon, n)
          /\ Head(toDaemon).kind \in {"RawSocket4", "RawSocket6", "Error"}
          /\ toDaemon' = After(toDaemon, n)
    /\ UNCHANGED <<managerVars, toHelper, helperVars>>

(* Mutants: a read error does not end the loop; the scope of the guard     *)
(* reaches past the loop to the end of the call.                           *)
DrainEndsOnMessage(w) ==
    /\ \E n \in 1 .. Len(toDaemon) :
          /\ ReadsUpTo(toDaemon, n)
          /\ Head(toDaemon).kind \notin {"RawSocket4", "RawSocket6", "Error"}
          /\ toDaemon' = After(toDaemon, n)
    /\ Goto(w, "drain", "configure")
    /\ helperLock' = NoWorker
    /\ UNCHANGED <<registry, key, state, tap, tasks, task, recheck, cancelled,
                   cur, tid, found, seen, destroys, daemon, toHelper, helperVars>>

DrainEndsHoldingLock(w) ==
    /\ \/ EndOfStream /\ UNCHANGED toDaemon
       \/ \E n \in 1 .. Len(toDaemon) :
             /\ ReadsUpTo(toDaemon, n)
             /\ Head(toDaemon).kind \notin {"RawSocket4", "RawSocket6", "Error"}
             /\ toDaemon' = After(toDaemon, n)
    /\ Goto(w, "drain", "configure")
    /\ UNCHANGED <<registry, key, state, tap, tasks, task, recheck, cancelled,
                   helperLock, cur, tid, found, seen, destroys, daemon,
                   toHelper, helperVars>>

DrainEnds(w) ==
    /\ \/ EndOfStream /\ UNCHANGED toDaemon
       \/ \E n \in 1 .. Len(toDaemon) :
             /\ ReadsUpTo(toDaemon, n)
             /\ Head(toDaemon).kind \notin {"RawSocket4", "RawSocket6", "Error"}
             /\ toDaemon' = After(toDaemon, n)
    /\ Goto(w, "drain", "configure")
    /\ helperLock' = NoWorker
    /\ UNCHANGED <<registry, key, state, tap, tasks, task, recheck, cancelled,
                   cur, tid, found, seen, destroys, daemon, toHelper, helperVars>>

(* The results of both transitions are ignored. *)
Configure(w) ==
    /\ Goto(w, "configure", "activate")
    /\ state' = [state EXCEPT ![cur[w]] = AfterTransition(@, "Initializing", "Configured")]
    /\ UNCHANGED <<registry, key, tap, tasks, task, recheck, cancelled,
                   helperLock, cur, tid, found, seen, destroys, daemon, linkVars>>

(* Mutant: the tunnel is taken to be Initializing still. *)
ActivateFromInitializing(w) ==
    /\ Goto(w, "activate", "spawn")
    /\ state' = [state EXCEPT ![cur[w]] = AfterTransition(@, "Initializing", "Active")]
    /\ UNCHANGED <<registry, key, tap, tasks, task, recheck, cancelled,
                   helperLock, cur, tid, found, seen, destroys, daemon, linkVars>>

Activate(w) ==
    /\ Goto(w, "activate", "spawn")
    /\ state' = [state EXCEPT ![cur[w]] = AfterTransition(@, "Configured", "Active")]
    /\ UNCHANGED <<registry, key, tap, tasks, task, recheck, cancelled,
                   helperLock, cur, tid, found, seen, destroys, daemon, linkVars>>

SpawnTasks(w) ==
    /\ Goto(w, "spawn", "track")
    /\ task' = [task EXCEPT ![cur[w]] = "running"]
    /\ UNCHANGED <<registry, key, state, tap, tasks, recheck, cancelled,
                   helperLock, cur, tid, found, seen, destroys, daemon, linkVars>>

(* HashMap::insert: a token tracked before for the id is dropped, which    *)
(* does not cancel it.                                                     *)
TrackTasks(w) ==
    /\ Goto(w, "track", "idle")
    /\ tasks' = [tasks EXCEPT ![key[cur[w]][1]] = cur[w]]
    /\ cur' = [cur EXCEPT ![w] = NoRequest]
    /\ UNCHANGED <<registry, key, state, tap, task, recheck, cancelled,
                   helperLock, tid, found, seen, destroys, daemon, linkVars>>

--------------------------------------------------------------------------------
(* destroy_tunnel.  The tunnels here have no IPsec, whose teardown is a    *)
(* no-op for them.                                                         *)
(* Mutants: the token is cancelled but stays tracked; it is dropped without *)
(* being cancelled.                                                        *)
DestroyTunnelKeepsToken(w, t) ==
    /\ daemon = "running"
    /\ destroys < MaxDestroys
    /\ destroys' = destroys + 1
    /\ Goto(w, "idle", "find")
    /\ tid' = [tid EXCEPT ![w] = t]
    /\ cancelled' = cancelled \cup ({tasks[t]} \ {NoRequest})
    /\ UNCHANGED <<registry, key, state, tap, tasks, task, recheck,
                   helperLock, cur, found, seen, daemon, linkVars>>

DestroyTunnelDropsToken(w, t) ==
    /\ daemon = "running"
    /\ destroys < MaxDestroys
    /\ destroys' = destroys + 1
    /\ Goto(w, "idle", "find")
    /\ tid' = [tid EXCEPT ![w] = t]
    /\ tasks' = [tasks EXCEPT ![t] = NoRequest]
    /\ UNCHANGED <<registry, key, state, tap, task, recheck, cancelled,
                   helperLock, cur, found, seen, daemon, linkVars>>

DestroyTunnel(w, t) ==
    /\ daemon = "running"
    /\ destroys < MaxDestroys
    /\ destroys' = destroys + 1
    /\ Goto(w, "idle", "find")
    /\ tid' = [tid EXCEPT ![w] = t]
    /\ cancelled' = cancelled \cup ({tasks[t]} \ {NoRequest})
    /\ tasks' = [tasks EXCEPT ![t] = NoRequest]
    /\ UNCHANGED <<registry, key, state, tap, task, recheck,
                   helperLock, cur, found, seen, daemon, linkVars>>

FindEntries(w) ==
    /\ LET entries == FindByTunnelId(tid[w])
       IN  /\ Goto(w, "find", IF entries = {} THEN "idle" ELSE "load")
           /\ found' = [found EXCEPT ![w] = entries]
    /\ tid' = [tid EXCEPT ![w] = NoKey]
    /\ UNCHANGED <<registry, key, state, tap, tasks, task, recheck, cancelled,
                   helperLock, cur, seen, destroys, daemon, linkVars>>

(* transition(state.load(), TearingDown): a load, then a compare-exchange  *)
(* whose failure is ignored.                                               *)
LoadState(w, e) ==
    /\ e \in found[w]
    /\ Goto(w, "load", "mark")
    /\ seen' = [seen EXCEPT ![w] = state[e[2]]]
    /\ cur' = [cur EXCEPT ![w] = e[2]]
    /\ UNCHANGED <<registry, key, state, tap, tasks, task, recheck, cancelled,
                   helperLock, tid, found, destroys, daemon, linkVars>>

MarkTearingDown(w) ==
    /\ Goto(w, "mark", "unregister")
    /\ state' = [state EXCEPT ![cur[w]] = AfterTransition(@, seen[w], "TearingDown")]
    /\ seen' = [seen EXCEPT ![w] = "Destroyed"]
    /\ UNCHANGED <<registry, key, tap, tasks, task, recheck, cancelled,
                   helperLock, cur, tid, found, destroys, daemon, linkVars>>

(* Mutant: only an entry whose transition succeeded is removed. *)
RemoveEntryIfMarked(w) ==
    LET h == cur[w]
        rest == found[w] \ {<<key[h], h>>}
    IN  /\ Goto(w, "unregister", IF rest = {} THEN "idle" ELSE "load")
        /\ IF state[h] = "TearingDown" THEN Unregister(key[h]) ELSE UNCHANGED registry
        /\ found' = [found EXCEPT ![w] = rest]
        /\ cur' = [cur EXCEPT ![w] = NoRequest]
        /\ UNCHANGED <<key, state, tap, tasks, task, recheck, cancelled,
                       helperLock, tid, seen, destroys, daemon, linkVars>>

RemoveEntry(w) ==
    LET h == cur[w]
        rest == found[w] \ {<<key[h], h>>}
    IN  /\ Goto(w, "unregister", IF rest = {} THEN "idle" ELSE "load")
        /\ Unregister(key[h])
        /\ found' = [found EXCEPT ![w] = rest]
        /\ cur' = [cur EXCEPT ![w] = NoRequest]
        /\ UNCHANGED <<key, state, tap, tasks, task, recheck, cancelled,
                       helperLock, tid, seen, destroys, daemon, linkVars>>

--------------------------------------------------------------------------------
(* The keepalive task of handle h: it loads the state, and decides from    *)
(* the time since the last packet, which is left open here (see            *)
(* Keepalive), to try one of two transitions.                              *)
KeepaliveLoad(h) ==
    /\ daemon # "exited"
    /\ WorkerFree
    /\ task[h] \in Running
    /\ recheck[h] = "none"
    /\ \/ state[h] = "Active" /\ recheck' = [recheck EXCEPT ![h] = "Stale"]
       \/ state[h] = "Stale" /\ recheck' = [recheck EXCEPT ![h] = "Active"]
    /\ UNCHANGED <<registry, key, state, tap, tasks, task, cancelled, helperLock,
                   pc, cur, tid, found, seen, destroys, daemon, linkVars>>

(* Mutant: the new state is stored, not compared and exchanged. *)
KeepaliveStore(h) ==
    /\ recheck[h] # "none"
    /\ state' = [state EXCEPT ![h] = recheck[h]]
    /\ recheck' = [recheck EXCEPT ![h] = "none"]
    /\ UNCHANGED <<registry, key, tap, tasks, task, cancelled, helperLock,
                   pc, cur, tid, found, seen, destroys, daemon, linkVars>>

KeepaliveTransition(h) ==
    /\ recheck[h] # "none"
    /\ state' = [state EXCEPT ![h] =
                    IF recheck[h] = "Stale"
                    THEN AfterTransition(@, "Active", "Stale")
                    ELSE AfterTransition(@, "Stale", "Active")]
    /\ recheck' = [recheck EXCEPT ![h] = "none"]
    /\ UNCHANGED <<registry, key, tap, tasks, task, cancelled, helperLock,
                   pc, cur, tid, found, seen, destroys, daemon, linkVars>>

(* Mutant: the tasks watch the root token instead of their own. *)
TasksStopAtShutdown(h) ==
    /\ daemon # "exited"
    /\ WorkerFree
    /\ task[h] \in Running
    /\ recheck[h] = "none"
    /\ daemon = "stopping"
    /\ task' = [task EXCEPT ![h] = "stopped"]
    /\ UNCHANGED <<registry, key, state, tap, tasks, recheck, cancelled, helperLock,
                   pc, cur, tid, found, seen, destroys, daemon, linkVars>>

(* The tasks of h see their token cancelled, by destroy_tunnel or through  *)
(* the root token it is a child of.                                        *)
TasksStop(h) ==
    /\ daemon # "exited"
    /\ WorkerFree
    /\ task[h] \in Running
    /\ recheck[h] = "none"
    /\ h \in cancelled \/ daemon = "stopping"
    /\ task' = [task EXCEPT ![h] = "stopped"]
    /\ UNCHANGED <<registry, key, state, tap, tasks, recheck, cancelled, helperLock,
                   pc, cur, tid, found, seen, destroys, daemon, linkVars>>

(* The TAP reader of h ends on an error of the read, or of the encoding (an *)
(* id above 4095 does not fit an EtherIP header).  Nothing else hears of   *)
(* it: the tunnel keeps its state, its entry, its token and its keepalive. *)
ReaderFails(h) ==
    /\ daemon # "exited"
    /\ WorkerFree
    /\ task[h] = "running"
    /\ task' = [task EXCEPT ![h] = "noReader"]
    /\ UNCHANGED <<registry, key, state, tap, tasks, recheck, cancelled, helperLock,
                   pc, cur, tid, found, seen, destroys, daemon, linkVars>>

--------------------------------------------------------------------------------
(* SIGTERM or SIGINT, seen by a task of the runtime, cancels the root      *)
(* token; main returns and the runtime waits for its worker threads.       *)
Signal ==
    /\ daemon = "running"
    /\ WorkerFree
    /\ daemon' = "stopping"
    /\ UNCHANGED <<registry, key, state, tap, tasks, task, recheck, cancelled,
                   helperLock, pc, cur, tid, found, seen, destroys, linkVars>>

Exit ==
    /\ daemon = "stopping"
    /\ \A w \in Workers : pc[w] = "idle"
    /\ \A h \in Handles : recheck[h] = "none"
    /\ daemon' = "exited"
    /\ UNCHANGED <<registry, key, state, tap, tasks, task, recheck, cancelled,
                   helperLock, pc, cur, tid, found, seen, destroys, linkVars>>

--------------------------------------------------------------------------------
CreateStep(w) ==
    \/ InsertHandle(w)
    \/ LockHelper(w)
    \/ SendCreateTunnel(w)
    \/ SendFails(w)
    \/ ReceiveTapCreated(w)
    \/ ReceiveOther(w)
    \/ ReceiveFails(w)
    \/ DrainMessage(w)
    \/ DrainEnds(w)
    \/ Configure(w)
    \/ Activate(w)
    \/ SpawnTasks(w)
    \/ TrackTasks(w)

DestroyStep(w) ==
    \/ FindEntries(w)
    \/ \E e \in found[w] : LoadState(w, e)
    \/ MarkTearingDown(w)
    \/ RemoveEntry(w)

TaskStep(h) ==
    \/ KeepaliveLoad(h)
    \/ KeepaliveTransition(h)
    \/ TasksStop(h)
    \/ ReaderFails(h)

Link == (HelperStep \/ HelperDies) /\ UNCHANGED managerVars

Next ==
    \/ \E w \in Workers, h \in Handles, k \in Keys : CreateTunnel(w, h, k)
    \/ \E w \in Workers : CreateStep(w)
    \/ \E w \in Workers, t \in Tids : DestroyTunnel(w, t)
    \/ \E w \in Workers : DestroyStep(w)
    \/ \E h \in Handles : TaskStep(h)
    \/ Signal
    \/ Exit
    \/ Link

Spec == Init /\ [][Next]_vars

(* A worker thread inside a call and the helper process are scheduled.  A  *)
(* task of the runtime is polled again and again while workers are free:   *)
(* after its token is cancelled the select! of a task can take at most one *)
(* more tick, so stopping is strongly fair.  Calls and signals may never   *)
(* come.                                                                   *)
Fairness ==
    /\ \A w \in Workers : WF_vars(CreateStep(w) \/ DestroyStep(w))
    /\ \A h \in Handles : WF_vars(KeepaliveTransition(h)) /\ SF_vars(TasksStop(h))
    /\ WF_vars(HelperStep /\ UNCHANGED managerVars)
    /\ WF_vars(Exit)

FairSpec == Spec /\ Fairness

--------------------------------------------------------------------------------
(* Safety. *)

Live(h) == task[h] \in Running /\ h \notin cancelled
Quiet == \A w \in Workers : pc[w] = "idle"

(* At most one worker at a time is between sending CreateTunnel and the    *)
(* end of the drain loop, so no two requests are ever answered together    *)
(* (the helper mutex, manager.rs:114).                                     *)
OneExchange ==
    \A v, w \in Workers : pc[v] \in Exchange /\ pc[w] \in Exchange => v = w

(* The reader and the keepalive never meet a tunnel that is still being    *)
(* set up (manager.rs:179 before 187).  It was made active, or else a      *)
(* DestroyTunnel found it half made, so that both transitions to Active    *)
(* failed and were ignored: tasks then run on a tunnel in TearingDown that *)
(* was never active, and it has left the registry or is about to.          *)
RunningIsSetUp ==
    \A h \in Handles : task[h] \in Running =>
        /\ state[h] \in {"Active", "Stale", "TearingDown"}
        /\ state[h] = "TearingDown" =>
              \/ registry[key[h]] # h
              \/ \E w \in Workers : pc[w] = "unregister" /\ cur[w] = h

(* A token the manager tracks for a tunnel id belongs to a tunnel of that  *)
(* id whose tasks were started, and destroy_tunnel has not cancelled it    *)
(* yet (manager.rs:248 and 273).                                           *)
TrackedIsLive ==
    \A t \in Tids : tasks[t] # NoRequest =>
        /\ key[tasks[t]] # NoKey /\ key[tasks[t]][1] = t
        /\ task[tasks[t]] # "none"
        /\ tasks[t] \notin cancelled

(* Running tasks can always be stopped by DeleteTunnel: their token is     *)
(* cancelled or tracked, or the call that made them is about to track it.  *)
(* It takes that no two CreateTunnel calls for one id both complete, which *)
(* the duplicate check alone does not give (see WrongTap in the README).   *)
NoLostToken ==
    host.v6 => \A h \in Handles : Live(h) =>
        \/ tasks[key[h][1]] = h
        \/ \E w \in Workers : cur[w] = h /\ pc[w] = "track"

(* With no call in progress, a tunnel the API lists as active or stale can *)
(* still be stopped by DeleteTunnel: its tasks run and their token, not    *)
(* cancelled, is the one tracked for its id.  This is less than being      *)
(* served: its TAP reader may have ended on an error (tx.rs:63), and       *)
(* "TAP read `EIO` | Critical | TAP gone. Tear down tunnel."               *)
(* (docs/design/architecture.md:435) is not what the code does then.       *)
ListedIsTracked ==
    (Quiet /\ daemon = "running" /\ host.v6) =>
        \A k \in Keys : LET h == registry[k] IN
            (h # NoRequest /\ state[h] \in {"Active", "Stale"}) =>
                Live(h) /\ tasks[k[1]] = h

(* A tunnel's tasks read and write the TAP interface the helper made for   *)
(* that tunnel: "to keep the protocol in sync" (manager.rs:167).           *)
OwnTap == \A h \in Handles : task[h] \in Running => tap[h] = h

(* On a host with IPv6 the protocol does stay in sync.                     *)
OwnTapWithIPv6 == host.v6 => OwnTap

(* Refinement: keepalive tasks, create_tunnel and destroy_tunnel together  *)
(* move a handle's state only along the lifecycle table, in particular     *)
(* never out of TearingDown (lifecycle.rs:42).                             *)
Lifecycle == INSTANCE TunnelLifecycle WITH Handles <- Handles, state <- state
LifecycleSpec == Lifecycle!Spec

--------------------------------------------------------------------------------
(* Liveness. *)

(* "Helper disconnect: Disable dynamic creation. Existing tunnels          *)
(* continue." (docs/design/architecture.md:439): once the helper is gone   *)
(* every call that was waiting for it returns.                             *)
HangupReleasesCalls ==
    \A w \in Workers : helper = "exited" ~> pc[w] = "idle"

(* After DeleteTunnel cancelled a tunnel's token its tasks stop, unless    *)
(* all worker threads are blocked in calls for good (manager.rs:274).      *)
CancelledTasksStop ==
    \A h \in Handles :
        h \in cancelled ~> \/ task[h] \notin Running
                           \/ daemon = "exited"
                           \/ []~WorkerFree

(* "add/remove tunnels at runtime via gRPC API" (README.md:21): a          *)
(* CreateTunnel call that passed the duplicate check returns.              *)
CreateReturns ==
    \A w \in Workers : pc[w] = "insert" ~> pc[w] = "idle"

================================================================================
