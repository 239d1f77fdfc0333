-------------------------- MODULE TunnelManagerProofs --------------------------
(***************************************************************************)
(* Proofs about TunnelManager, for any number of workers, handles, tunnel  *)
(* ids, peers, hosts and startups.                                         *)
(***************************************************************************)
EXTENDS TunnelManager, HelperLinkProofs

--------------------------------------------------------------------------------
(* Type correctness.  The type invariant is not inductive: a worker writes *)
(* at the handle it is working on, and must have one.                      *)
Busy ==
    \A w \in Workers :
        pc[w] \in CreateSteps \cup {"mark", "unregister"} => cur[w] \in Handles

TypeInv == TypeOK /\ Busy

LEMMA InitTypeInv == Init => TypeInv
  <1> SUFFICES ASSUME Init PROVE TypeInv
    OBVIOUS
  <1>1. PICK s \in Startups : InitAfter(s)
    BY DEF Init
  <1>2. /\ DOMAIN s.key \subseteq Handles
        /\ s.key \in [DOMAIN s.key -> Keys]
        /\ s.last \in Handles \cup {NoRequest}
    BY ManagerAssumption DEF IsStartup
  <1>3. \A S \in SUBSET Handles : TheOne(S) \in Handles \cup {NoRequest}
    BY DEF TheOne
  <1>4. /\ registry \in [Keys -> Handles \cup {NoRequest}]
        /\ tasks \in [Tids -> Handles \cup {NoRequest}]
    <2>1. \A k \in Keys : {h \in DOMAIN s.key : s.key[h] = k} \in SUBSET Handles
      BY <1>2
    <2>2. \A t \in Tids : {h \in DOMAIN s.key : s.key[h][1] = t} \in SUBSET Handles
      BY <1>2
    <2> QED
      BY <1>1, <1>3, <2>1, <2>2 DEF InitAfter
  <1>5. LinkTypeOK
    <2>1. helper \in {"waiting", "rawV4"}
      BY <1>1 DEF InitAfter
    <2>2. serving \in Requests \cup {NoRequest}
      BY <1>1, <1>2 DEF InitAfter, Handles
    <2>3. rawV4Created \in BOOLEAN
      BY <1>1 DEF InitAfter
    <2>4. rawV6Created \in BOOLEAN
      BY <1>1 DEF InitAfter
    <2> QED
      BY <2>1, <2>2, <2>3, <2>4 DEF Init, LinkTypeOK
  <1>6. /\ key \in [Handles -> Keys \cup {NoKey}]
        /\ state \in [Handles -> TunnelStates]
        /\ tap \in [Handles -> Handles \cup {NoRequest}]
        /\ task \in [Handles -> {"none", "stopped"} \cup Running]
    BY <1>1, <1>2 DEF InitAfter, TunnelStates, Running
  <1>7. ManagerTypeOK
    BY <1>4, <1>6, ManagerAssumption DEF Init, ManagerTypeOK, TunnelStates
  <1>8. Busy
    BY DEF Init, Busy, CreateSteps
  <1> QED
    BY <1>5, <1>7, <1>8 DEF TypeInv, TypeOK

(* What a worker's step of create_tunnel does to the link.                 *)
LEMMA CreateLinkType ==
    ASSUME TypeInv, NEW w \in Workers, CreateStep(w)
    PROVE  LinkTypeOK'
  <1> USE DEF TypeInv, TypeOK, LinkTypeOK
  <1>1. ASSUME NEW n \in 1 .. Len(toDaemon), toDaemon' = After(toDaemon, n),
               UNCHANGED <<toHelper, helperVars>>
        PROVE  LinkTypeOK'
    BY <1>1, ReadType DEF helperVars
  <1>2. CASE UNCHANGED linkVars
    BY <1>2 DEF linkVars, helperVars
  <1>3. CASE SendCreateTunnel(w)
    BY <1>3 DEF SendCreateTunnel, Goto, Busy, CreateSteps, Handles, helperVars
  <1>4. CASE ReceiveTapCreated(w)
    BY <1>4 DEF ReceiveTapCreated, helperVars
  <1>5. CASE ReceiveOther(w)
    BY <1>1, <1>5 DEF ReceiveOther
  <1>6. CASE DrainMessage(w)
    BY <1>1, <1>6 DEF DrainMessage
  <1>7. CASE DrainEnds(w)
    <2>1. CASE \E n \in 1 .. Len(toDaemon) : toDaemon' = After(toDaemon, n)
      BY <1>1, <1>7, <2>1 DEF DrainEnds
    <2>2. CASE UNCHANGED toDaemon
      BY <1>7, <2>2 DEF DrainEnds, helperVars
    <2> QED
      BY <1>7, <2>1, <2>2 DEF DrainEnds
  <1> QED
    BY <1>2, <1>3, <1>4, <1>5, <1>6, <1>7
       DEF CreateStep, InsertHandle, LockHelper, SendFails, ReceiveFails,
           Configure, Activate, SpawnTasks, TrackTasks

LEMMA AfterTransitionType ==
    ASSUME NEW s \in TunnelStates, NEW from, NEW to \in TunnelStates
    PROVE  AfterTransition(s, from, to) \in TunnelStates
  BY DEF AfterTransition

(* Every step of create_tunnel keeps the manager's variables typed, and    *)
(* the worker's handle.                                                    *)
LEMMA CreateStepType ==
    ASSUME TypeInv, NEW w \in Workers, CreateStep(w)
    PROVE  ManagerTypeOK' /\ Busy'
  <1> USE DEF TypeInv, TypeOK, ManagerTypeOK, Exchange, Busy, CreateSteps, Goto
  <1>1. CASE InsertHandle(w)
    BY <1>1 DEF InsertHandle
  <1>2. CASE LockHelper(w)
    BY <1>2 DEF LockHelper
  <1>3. CASE SendCreateTunnel(w)
    BY <1>3 DEF SendCreateTunnel
  <1>4. CASE SendFails(w)
    BY <1>4 DEF SendFails, CreateFails
  <1>5. CASE ReceiveTapCreated(w)
    <2>1. Head(toDaemon) \in HelperMsgs
      BY <1>5 DEF ReceiveTapCreated, LinkTypeOK
    <2>2. Head(toDaemon).for \in Handles \cup {NoRequest}
      BY <2>1 DEF HelperMsgs, Handles
    <2> QED
      BY <1>5, <2>2 DEF ReceiveTapCreated
  <1>6. CASE ReceiveOther(w)
    BY <1>6 DEF ReceiveOther, CreateFails, Unregister
  <1>7. CASE ReceiveFails(w)
    BY <1>7 DEF ReceiveFails, CreateFails
  <1>8. CASE DrainMessage(w)
    BY <1>8 DEF DrainMessage, managerVars
  <1>9. CASE DrainEnds(w)
    BY <1>9 DEF DrainEnds
  <1>10. CASE Configure(w)
    BY <1>10, AfterTransitionType DEF Configure, TunnelStates
  <1>11. CASE Activate(w)
    BY <1>11, AfterTransitionType DEF Activate, TunnelStates
  <1>12. CASE SpawnTasks(w)
    BY <1>12 DEF SpawnTasks, Running
  <1>13. CASE TrackTasks(w)
    BY <1>13 DEF TrackTasks
  <1> QED
    BY <1>1, <1>2, <1>3, <1>4, <1>5, <1>6, <1>7, <1>8, <1>9, <1>10, <1>11,
       <1>12, <1>13 DEF CreateStep

(* The other steps. *)
LEMMA FoundType ==
    ASSUME ManagerTypeOK, NEW t
    PROVE  FindByTunnelId(t) \subseteq Keys \X Handles
  BY DEF ManagerTypeOK, FindByTunnelId

LEMMA DestroyStepType ==
    ASSUME TypeInv, NEW w \in Workers, DestroyStep(w)
    PROVE  ManagerTypeOK' /\ Busy'
  <1> USE DEF TypeInv, TypeOK, ManagerTypeOK, Exchange, Busy, CreateSteps, DestroySteps, Goto
  <1>1. CASE FindEntries(w)
    <2>1. FindByTunnelId(tid[w]) \in SUBSET (Keys \X Handles)
      BY FoundType
    <2> QED
      BY <1>1, <2>1 DEF FindEntries
  <1>2. ASSUME NEW e \in found[w], LoadState(w, e)
        PROVE  ManagerTypeOK' /\ Busy'
    <2>1. e[2] \in Handles
      OBVIOUS
    <2> QED
      BY <1>2, <2>1 DEF LoadState
  <1>3. CASE MarkTearingDown(w)
    BY <1>3, AfterTransitionType DEF MarkTearingDown, TunnelStates
  <1>4. CASE RemoveEntry(w)
    BY <1>4 DEF RemoveEntry, Unregister
  <1> QED
    BY <1>1, <1>2, <1>3, <1>4 DEF DestroyStep

LEMMA TaskStepType ==
    ASSUME TypeInv, NEW h \in Handles, TaskStep(h)
    PROVE  ManagerTypeOK' /\ Busy'
  <1> USE DEF TypeInv, TypeOK, ManagerTypeOK, Exchange, Busy
  <1>1. CASE KeepaliveLoad(h)
    BY <1>1 DEF KeepaliveLoad
  <1>2. CASE KeepaliveTransition(h)
    <2>1. /\ AfterTransition(state[h], "Active", "Stale") \in TunnelStates
          /\ AfterTransition(state[h], "Stale", "Active") \in TunnelStates
      BY AfterTransitionType DEF TunnelStates
    <2> QED
      BY <1>2, <2>1 DEF KeepaliveTransition
  <1>3. CASE TasksStop(h)
    BY <1>3 DEF TasksStop
  <1>4. CASE ReaderFails(h)
    BY <1>4 DEF ReaderFails, Running
  <1> QED
    BY <1>1, <1>2, <1>3, <1>4 DEF TaskStep

LEMMA CallType ==
    ASSUME TypeInv,
           \/ \E w \in Workers, h \in Handles, k \in Keys : CreateTunnel(w, h, k)
           \/ \E w \in Workers, t \in Tids : DestroyTunnel(w, t)
           \/ Signal
           \/ Exit
    PROVE  ManagerTypeOK' /\ Busy'
  <1> USE DEF TypeInv, TypeOK, ManagerTypeOK, Exchange, Busy, CreateSteps, DestroySteps, Goto
  <1>1. ASSUME NEW w \in Workers, NEW h \in Handles, NEW k \in Keys, CreateTunnel(w, h, k)
        PROVE  ManagerTypeOK' /\ Busy'
    BY <1>1 DEF CreateTunnel
  <1>2. ASSUME NEW w \in Workers, NEW t \in Tids, DestroyTunnel(w, t)
        PROVE  ManagerTypeOK' /\ Busy'
    BY <1>2, ManagerAssumption DEF DestroyTunnel
  <1>3. CASE Signal
    BY <1>3 DEF Signal
  <1>4. CASE Exit
    BY <1>4 DEF Exit
  <1> QED
    BY <1>1, <1>2, <1>3, <1>4

(* Steps that are not of create_tunnel or the helper leave the link alone. *)
LEMMA NextTypeInv == TypeInv /\ [Next]_vars => TypeInv'
  <1> SUFFICES ASSUME TypeInv, [Next]_vars PROVE TypeInv'
    OBVIOUS
  <1> USE DEF TypeInv, TypeOK
  <1>1. ASSUME UNCHANGED linkVars PROVE LinkTypeOK'
    BY <1>1 DEF LinkTypeOK, linkVars, helperVars
  <1>2. ASSUME UNCHANGED managerVars PROVE ManagerTypeOK' /\ Busy'
    BY <1>2 DEF ManagerTypeOK, Busy, managerVars
  <1>3. ASSUME NEW w \in Workers, NEW h \in Handles, NEW k \in Keys, CreateTunnel(w, h, k)
        PROVE  TypeInv'
    BY <1>1, <1>3, CallType DEF CreateTunnel
  <1>4. ASSUME NEW w \in Workers, CreateStep(w) PROVE TypeInv'
    BY <1>4, CreateLinkType, CreateStepType
  <1>5. ASSUME NEW w \in Workers, NEW t \in Tids, DestroyTunnel(w, t)
        PROVE  TypeInv'
    BY <1>1, <1>5, CallType DEF DestroyTunnel
  <1>6. ASSUME NEW w \in Workers, DestroyStep(w) PROVE TypeInv'
    BY <1>1, <1>6, DestroyStepType
       DEF DestroyStep, FindEntries, LoadState, MarkTearingDown, RemoveEntry
  <1>7. ASSUME NEW h \in Handles, TaskStep(h) PROVE TypeInv'
    BY <1>1, <1>7, TaskStepType
       DEF TaskStep, KeepaliveLoad, KeepaliveTransition, TasksStop, ReaderFails
  <1>8. CASE Signal \/ Exit
    BY <1>1, <1>8, CallType DEF Signal, Exit
  <1>9. CASE Link
    BY <1>2, <1>9, HelperStepType DEF Link
  <1>10. CASE UNCHANGED vars
    BY <1>1, <1>2, <1>10 DEF vars
  <1> QED
    BY <1>3, <1>4, <1>5, <1>6, <1>7, <1>8, <1>9, <1>10 DEF Next

LEMMA TypeInvariance == Spec => []TypeInv
  BY InitTypeInv, NextTypeInv, PTL DEF Spec

(* The variables of the daemon and of its link keep their types.           *)
THEOREM TypeCorrect == Spec => []TypeOK
  <1>1. TypeInv => TypeOK
    BY DEF TypeInv
  <1> QED
    BY <1>1, TypeInvariance, PTL

--------------------------------------------------------------------------------
(* Mutual exclusion of the exchanges with the helper: who is in one holds  *)
(* the helper mutex.                                                       *)
LockInv == \A w \in Workers : pc[w] \in Exchange => helperLock = w

LEMMA InitLockInv == Init => LockInv
  BY DEF Init, LockInv, Exchange

LEMMA NextLockInv == TypeInv /\ LockInv /\ [Next]_vars => LockInv'
  <1> SUFFICES ASSUME TypeInv, LockInv, [Next]_vars PROVE LockInv'
    OBVIOUS
  <1> USE DEF TypeInv, TypeOK, ManagerTypeOK, LockInv, Exchange, Goto
  <1>1. ASSUME NEW w \in Workers, CreateStep(w) PROVE LockInv'
    <2>1. CASE LockHelper(w)
      BY <2>1, ManagerAssumption DEF LockHelper
    <2>2. CASE SendFails(w) \/ ReceiveOther(w) \/ ReceiveFails(w)
      BY <2>2 DEF SendFails, ReceiveOther, ReceiveFails, CreateFails
    <2>3. CASE DrainEnds(w)
      BY <2>3 DEF DrainEnds
    <2>4. CASE InsertHandle(w) \/ SendCreateTunnel(w) \/ ReceiveTapCreated(w)
      BY <2>4 DEF InsertHandle, SendCreateTunnel, ReceiveTapCreated
    <2>5. CASE DrainMessage(w)
      BY <2>5 DEF DrainMessage, managerVars
    <2>6. CASE Configure(w) \/ Activate(w) \/ SpawnTasks(w) \/ TrackTasks(w)
      BY <2>6 DEF Configure, Activate, SpawnTasks, TrackTasks
    <2> QED
      BY <1>1, <2>1, <2>2, <2>3, <2>4, <2>5, <2>6 DEF CreateStep
  <1>2. ASSUME NEW w \in Workers, NEW h \in Handles, NEW k \in Keys, CreateTunnel(w, h, k)
        PROVE  LockInv'
    BY <1>2 DEF CreateTunnel
  <1>3. ASSUME NEW w \in Workers, NEW t \in Tids, DestroyTunnel(w, t)
        PROVE  LockInv'
    BY <1>3 DEF DestroyTunnel
  <1>4. ASSUME NEW w \in Workers, DestroyStep(w) PROVE LockInv'
    BY <1>4 DEF DestroyStep, FindEntries, LoadState, MarkTearingDown, RemoveEntry
  <1>5. ASSUME NEW h \in Handles, TaskStep(h) PROVE LockInv'
    BY <1>5 DEF TaskStep, KeepaliveLoad, KeepaliveTransition, TasksStop, ReaderFails
  <1>6. CASE Signal \/ Exit \/ Link \/ UNCHANGED vars
    BY <1>6 DEF Signal, Exit, Link, vars, managerVars
  <1> QED
    BY <1>1, <1>2, <1>3, <1>4, <1>5, <1>6 DEF Next

(* At most one worker at a time is in an exchange with the helper.         *)
THEOREM ExchangesExclude == Spec => []OneExchange
  <1>1. LockInv => OneExchange
    BY DEF LockInv, OneExchange
  <1>2. Spec => []LockInv
    BY TypeInvariance, InitLockInv, NextLockInv, PTL DEF Spec
  <1> QED
    BY <1>1, <1>2, PTL

--------------------------------------------------------------------------------
(* The refinement of the lifecycle: whatever interleaving of create_tunnel,*)
(* destroy_tunnel and keepalive tasks, a handle's state moves along the    *)
(* table only.                                                             *)
LEMMA OneHandleMoves ==
    ASSUME TypeInv, NEW h \in Handles, NEW from \in TunnelStates, NEW to \in TunnelStates,
           state' = [state EXCEPT ![h] = AfterTransition(@, from, to)]
    PROVE  [Lifecycle!Next]_state
  <1>1. CASE IsValidTransition(from, to) /\ state[h] = from
    <2>1. Lifecycle!Transition(h, from, to)
      BY <1>1 DEF Lifecycle!Transition, Lifecycle!IsValidTransition, Lifecycle!ValidTransitions,
                  IsValidTransition, ValidTransitions, AfterTransition
    <2> QED
      BY <2>1 DEF Lifecycle!Next, Lifecycle!TunnelStates, TunnelStates
  <1>2. CASE ~(IsValidTransition(from, to) /\ state[h] = from)
    BY <1>2 DEF AfterTransition, TypeInv, TypeOK, ManagerTypeOK
  <1> QED
    BY <1>1, <1>2

LEMMA NextRefines == TypeInv /\ [Next]_vars => [Lifecycle!Next]_state
  <1> SUFFICES ASSUME TypeInv, [Next]_vars, state' # state
               PROVE  [Lifecycle!Next]_state
    OBVIOUS
  <1>1. ASSUME NEW w \in Workers, Configure(w) \/ Activate(w) \/ MarkTearingDown(w)
        PROVE  [Lifecycle!Next]_state
    <2>1. cur[w] \in Handles /\ seen[w] \in TunnelStates
      BY <1>1 DEF Configure, Activate, MarkTearingDown, Goto, TypeInv, Busy,
                  CreateSteps, TypeOK, ManagerTypeOK
    <2>2. CASE Configure(w)
      BY <2>1, <2>2, OneHandleMoves DEF Configure, TunnelStates
    <2>3. CASE Activate(w)
      BY <2>1, <2>3, OneHandleMoves DEF Activate, TunnelStates
    <2>4. CASE MarkTearingDown(w)
      BY <2>1, <2>4, OneHandleMoves DEF MarkTearingDown, TunnelStates
    <2> QED
      BY <1>1, <2>2, <2>3, <2>4
  <1>2. ASSUME NEW h \in Handles, KeepaliveTransition(h)
        PROVE  [Lifecycle!Next]_state
    <2>1. CASE recheck[h] = "Stale"
      BY <1>2, <2>1, OneHandleMoves DEF KeepaliveTransition, TunnelStates
    <2>2. CASE recheck[h] # "Stale"
      BY <1>2, <2>2, OneHandleMoves DEF KeepaliveTransition, TunnelStates
    <2> QED
      BY <2>1, <2>2
  <1>3. ASSUME NEW w \in Workers, CreateStep(w) PROVE Configure(w) \/ Activate(w)
    BY <1>3 DEF CreateStep, InsertHandle, LockHelper, SendCreateTunnel, SendFails,
        ReceiveTapCreated, ReceiveOther, ReceiveFails, CreateFails, DrainMessage,
        DrainEnds, SpawnTasks, TrackTasks, managerVars
  <1>4. ASSUME NEW w \in Workers, DestroyStep(w) PROVE MarkTearingDown(w)
    BY <1>4 DEF DestroyStep, FindEntries, LoadState, RemoveEntry
  <1>5. ASSUME NEW h \in Handles, TaskStep(h) PROVE KeepaliveTransition(h)
    BY <1>5 DEF TaskStep, KeepaliveLoad, TasksStop, ReaderFails
  <1>6. /\ ~(\E w \in Workers, h \in Handles, k \in Keys : CreateTunnel(w, h, k))
        /\ ~(\E w \in Workers, t \in Tids : DestroyTunnel(w, t))
        /\ ~(Signal \/ Exit \/ Link \/ UNCHANGED vars)
    BY DEF CreateTunnel, DestroyTunnel, Signal, Exit, Link, vars, managerVars
  <1> QED
    BY <1>1, <1>2, <1>3, <1>4, <1>5, <1>6 DEF Next

(* TunnelManager implements TunnelLifecycle.                               *)
THEOREM ManagerRefinesLifecycle == Spec => LifecycleSpec
  <1>1. TypeInv => Lifecycle!Init
    BY DEF TypeInv, TypeOK, ManagerTypeOK, Lifecycle!Init, Lifecycle!TunnelStates, TunnelStates
  <1>2. TypeInv /\ [Next]_vars => [Lifecycle!Next]_state
    BY NextRefines
  <1> QED
    BY <1>1, <1>2, TypeInvariance, PTL DEF Spec, LifecycleSpec, Lifecycle!Spec

--------------------------------------------------------------------------------
(* What a handle's state, tasks and token are at each step of its life.    *)
Unready == {"insert", "lock", "send", "receive", "drain", "configure"}

(* A handle is made by one create_tunnel call, has a key from then on, and *)
(* is untouched before.                                                    *)
OwnHandle ==
    /\ \A w \in Workers : pc[w] \in CreateSteps \cup {"mark", "unregister"} =>
          key[cur[w]] # NoKey
    /\ \A v, w \in Workers :
          (pc[v] \in CreateSteps /\ pc[w] \in CreateSteps /\ cur[v] = cur[w]) => v = w
    /\ \A h \in Handles : key[h] = NoKey =>
          state[h] = "Initializing" /\ task[h] = "none" /\ h \notin cancelled

(* What the registry holds, and what destroy_tunnel found there, is under  *)
(* its own key.                                                            *)
OwnKey ==
    /\ \A k \in Keys : registry[k] # NoRequest => key[registry[k]] = k
    /\ \A w \in Workers : \A e \in found[w] : key[e[2]] = e[1]

(* The state of the handle that a create_tunnel call is at work on: its    *)
(* own transitions or, when a DeleteTunnel overtook it, TearingDown.       *)
CreateStates ==
    \A w \in Workers :
        /\ pc[w] \in Unready => state[cur[w]] \in {"Initializing", "TearingDown"}
        /\ pc[w] = "activate" => state[cur[w]] \in {"Configured", "TearingDown"}
        /\ pc[w] \in {"spawn", "track"} =>
              state[cur[w]] \in {"Active", "Stale", "TearingDown"}

(* Tasks run on a tunnel that is past its own set-up, or was overtaken.    *)
RunningStates ==
    \A h \in Handles :
        task[h] \in Running => state[h] \in {"Active", "Stale", "TearingDown"}

(* Its tasks are started after activation, and tracked as the last step.   *)
CreateTasks ==
    \A w \in Workers :
        /\ pc[w] \in CreateSteps \ {"track"} => task[cur[w]] = "none"
        /\ pc[w] = "track" => task[cur[w]] # "none"
        /\ pc[w] \in CreateSteps =>
              cur[w] \notin cancelled /\ \A t \in Tids : tasks[t] # cur[w]

HandleInv ==
    /\ OwnHandle
    /\ OwnKey
    /\ CreateStates
    /\ CreateTasks
    /\ RunningStates
    /\ TrackedIsLive

LEMMA TheOneIn ==
    ASSUME NEW S \in SUBSET Handles, TheOne(S) # NoRequest
    PROVE  TheOne(S) \in S
  BY DEF TheOne

LEMMA InitHandleInv == Init => HandleInv
  <1> SUFFICES ASSUME Init PROVE HandleInv
    OBVIOUS
  <1>1. PICK s \in Startups : InitAfter(s)
    BY DEF Init
  <1>2. /\ DOMAIN s.key \subseteq Handles
        /\ s.key \in [DOMAIN s.key -> Keys]
    BY ManagerAssumption DEF IsStartup
  <1> DEFINE made == DOMAIN s.key
  <1>3. \A h \in made : key[h] = s.key[h] /\ task[h] = "running" /\ state[h] = "Active"
    BY <1>1, <1>2 DEF InitAfter
  <1>4. \A h \in Handles \ made :
           key[h] = NoKey /\ task[h] = "none" /\ state[h] = "Initializing"
    BY <1>1 DEF InitAfter
  <1>5. OwnHandle
    BY <1>2, <1>3, <1>4, ManagerAssumption DEF Init, OwnHandle, CreateSteps
  <1>6. OwnKey
    <2>1. ASSUME NEW k \in Keys, registry[k] # NoRequest
          PROVE  key[registry[k]] = k
      <3>1. {h \in made : s.key[h] = k} \in SUBSET Handles
        BY <1>2
      <3>2. registry[k] = TheOne({h \in made : s.key[h] = k})
        BY <1>1 DEF InitAfter
      <3>3. registry[k] \in {h \in made : s.key[h] = k}
        BY <2>1, <3>1, <3>2, TheOneIn
      <3> QED
        BY <1>3, <3>3
    <2> QED
      BY <2>1 DEF Init, OwnKey
  <1>7. CreateStates /\ CreateTasks
    BY DEF Init, CreateStates, CreateTasks, Unready, CreateSteps
  <1>8. RunningStates
    BY <1>3, <1>4 DEF RunningStates, Running
  <1>9. TrackedIsLive
    <2>1. ASSUME NEW t \in Tids, tasks[t] # NoRequest
          PROVE  tasks[t] \in made /\ s.key[tasks[t]][1] = t
      <3>1. {h \in made : s.key[h][1] = t} \in SUBSET Handles
        BY <1>2
      <3>2. tasks[t] = TheOne({h \in made : s.key[h][1] = t})
        BY <1>1 DEF InitAfter
      <3> QED
        BY <2>1, <3>1, <3>2, TheOneIn
    <2>2. \A h \in made : key[h] # NoKey
      BY <1>2, <1>3, ManagerAssumption
    <2> QED
      BY <1>3, <2>1, <2>2 DEF Init, TrackedIsLive
  <1> QED
    BY <1>5, <1>6, <1>7, <1>8, <1>9 DEF HandleInv

LEMMA NoRequestIsNoHandle == NoRequest \notin Handles
  BY LinkAssumption DEF Handles

(* A new call works on a handle that was not used before.                  *)
LEMMA CreateTunnelHandleInv ==
    ASSUME TypeInv, HandleInv, NEW w \in Workers, NEW h \in Handles, NEW k \in Keys,
           CreateTunnel(w, h, k)
    PROVE  HandleInv'
  <1> USE DEF TypeInv, TypeOK, ManagerTypeOK, Busy, HandleInv, CreateTunnel, Goto, CreateSteps
  <1>1. OwnHandle'
    BY ManagerAssumption DEF OwnHandle
  <1>2. OwnKey'
    BY ManagerAssumption DEF OwnKey, OwnHandle
  <1>3. CreateStates'
    BY DEF CreateStates, OwnHandle, Unready
  <1>4. CreateTasks'
    <2>1. \A t \in Tids : tasks[t] # h
      BY NoRequestIsNoHandle DEF TrackedIsLive
    <2> QED
      BY <2>1 DEF CreateTasks, OwnHandle
  <1>5. RunningStates'
    BY DEF RunningStates
  <1>6. TrackedIsLive'
    BY ManagerAssumption DEF TrackedIsLive
  <1> QED
    BY <1>1, <1>2, <1>3, <1>4, <1>5, <1>6

LEMMA CreateStepHandleInv ==
    ASSUME TypeInv, HandleInv, NEW w \in Workers, CreateStep(w)
    PROVE  HandleInv'
  <1> USE DEF TypeInv, TypeOK, ManagerTypeOK, Busy, HandleInv, Goto, CreateSteps
  <1>1. CASE InsertHandle(w)
    <2> USE <1>1 DEF InsertHandle
    <2>1. OwnKey'
      BY DEF OwnKey
    <2> QED
      BY <2>1 DEF OwnHandle, CreateStates, CreateTasks, Unready, RunningStates,
                  TrackedIsLive
  <1>2. CASE LockHelper(w) \/ SendCreateTunnel(w) \/ ReceiveTapCreated(w)
             \/ DrainMessage(w) \/ DrainEnds(w)
    <2> USE <1>2 DEF LockHelper, SendCreateTunnel, ReceiveTapCreated, DrainMessage,
                     DrainEnds, managerVars
    <2>1. OwnHandle'
      BY DEF OwnHandle
    <2>2. CreateStates' /\ CreateTasks'
      BY DEF CreateStates, CreateTasks, Unready
    <2> QED
      BY <2>1, <2>2 DEF OwnKey, RunningStates, TrackedIsLive
  <1>3. CASE SendFails(w) \/ ReceiveOther(w) \/ ReceiveFails(w)
    <2> USE <1>3 DEF SendFails, ReceiveOther, ReceiveFails, CreateFails, Unregister
    <2>1. OwnHandle'
      BY DEF OwnHandle
    <2>2. CreateStates' /\ CreateTasks'
      BY DEF CreateStates, CreateTasks, Unready
    <2>3. OwnKey'
      BY DEF OwnKey
    <2> QED
      BY <2>1, <2>2, <2>3 DEF RunningStates, TrackedIsLive
  <1>4. CASE Configure(w) \/ Activate(w)
    <2> USE <1>4 DEF Configure, Activate
    <2>1. OwnHandle'
      BY DEF OwnHandle
    <2>2. CreateStates'
      BY DEF CreateStates, OwnHandle, Unready, AfterTransition, IsValidTransition,
             ValidTransitions
    <2>3. CreateTasks'
      BY DEF CreateTasks
    <2>4. RunningStates'
      BY DEF RunningStates, CreateTasks, Running
    <2> QED
      BY <2>1, <2>2, <2>3, <2>4 DEF OwnKey, TrackedIsLive
  <1>5. CASE SpawnTasks(w)
    <2> USE <1>5 DEF SpawnTasks
    <2>1. OwnHandle'
      BY DEF OwnHandle
    <2>2. CreateStates'
      BY DEF CreateStates, Unready
    <2>3. CreateTasks'
      BY DEF CreateTasks, OwnHandle
    <2>4. RunningStates'
      BY DEF RunningStates, CreateStates, Running
    <2> QED
      BY <2>1, <2>2, <2>3, <2>4 DEF OwnKey, TrackedIsLive
  <1>6. CASE TrackTasks(w)
    <2> USE <1>6 DEF TrackTasks
    <2>1. OwnHandle'
      BY DEF OwnHandle
    <2>2. CreateStates'
      BY DEF CreateStates, Unready
    <2>3. CreateTasks'
      BY DEF CreateTasks, OwnHandle
    <2>4. TrackedIsLive'
      BY DEF TrackedIsLive, CreateTasks, OwnHandle
    <2> QED
      BY <2>1, <2>2, <2>3, <2>4 DEF OwnKey, RunningStates
  <1> QED
    BY <1>1, <1>2, <1>3, <1>4, <1>5, <1>6 DEF CreateStep

LEMMA DestroyHandleInv ==
    ASSUME TypeInv, HandleInv, NEW w \in Workers,
           (\E t \in Tids : DestroyTunnel(w, t)) \/ DestroyStep(w)
    PROVE  HandleInv'
  <1> USE DEF TypeInv, TypeOK, ManagerTypeOK, Busy, HandleInv, Goto, CreateSteps, DestroySteps
  <1>1. ASSUME NEW t \in Tids, DestroyTunnel(w, t) PROVE HandleInv'
    <2> USE <1>1 DEF DestroyTunnel
    <2>1. OwnHandle'
      BY DEF OwnHandle, TrackedIsLive
    <2>2. CreateStates'
      BY DEF CreateStates, Unready
    <2>3. CreateTasks'
      BY NoRequestIsNoHandle DEF CreateTasks
    <2>4. TrackedIsLive'
      BY DEF TrackedIsLive
    <2> QED
      BY <2>1, <2>2, <2>3, <2>4 DEF OwnKey, RunningStates
  <1>2. CASE FindEntries(w)
    <2> USE <1>2 DEF FindEntries
    <2>1. OwnHandle'
      BY DEF OwnHandle
    <2>2. CreateStates' /\ CreateTasks'
      BY DEF CreateStates, CreateTasks, Unready
    <2>3. OwnKey'
      BY DEF OwnKey, FindByTunnelId
    <2> QED
      BY <2>1, <2>2, <2>3 DEF RunningStates, TrackedIsLive
  <1>3. ASSUME NEW e \in found[w], LoadState(w, e) PROVE HandleInv'
    <2> USE <1>3 DEF LoadState
    <2>1. e[2] \in Handles /\ key[e[2]] # NoKey
      BY ManagerAssumption DEF OwnKey
    <2>2. OwnHandle'
      BY <2>1 DEF OwnHandle
    <2>3. CreateStates' /\ CreateTasks'
      BY DEF CreateStates, CreateTasks, Unready
    <2> QED
      BY <2>2, <2>3 DEF OwnKey, RunningStates, TrackedIsLive
  <1>4. CASE MarkTearingDown(w)
    <2> USE <1>4 DEF MarkTearingDown
    <2>1. OwnHandle'
      BY DEF OwnHandle
    <2>2. state'[cur[w]] \in {state[cur[w]], "TearingDown"}
      BY DEF AfterTransition
    <2>3. CreateStates'
      BY <2>2 DEF CreateStates, Unready
    <2>4. CreateTasks'
      BY DEF CreateTasks
    <2>5. RunningStates'
      BY <2>2 DEF RunningStates
    <2> QED
      BY <2>1, <2>3, <2>4, <2>5 DEF OwnKey, TrackedIsLive
  <1>5. CASE RemoveEntry(w)
    <2> USE <1>5 DEF RemoveEntry, Unregister
    <2>1. OwnHandle'
      BY DEF OwnHandle
    <2>2. CreateStates' /\ CreateTasks'
      BY DEF CreateStates, CreateTasks, Unready
    <2>3. OwnKey'
      BY DEF OwnKey
    <2> QED
      BY <2>1, <2>2, <2>3 DEF RunningStates, TrackedIsLive
  <1> QED
    BY <1>1, <1>2, <1>3, <1>4, <1>5 DEF DestroyStep

LEMMA TaskStepHandleInv ==
    ASSUME TypeInv, HandleInv, NEW h \in Handles, TaskStep(h)
    PROVE  HandleInv'
  <1> USE DEF TypeInv, TypeOK, ManagerTypeOK, Busy, HandleInv
  <1>1. CASE KeepaliveLoad(h)
    BY <1>1 DEF KeepaliveLoad, OwnHandle, OwnKey, CreateStates, CreateTasks, Unready,
                RunningStates, TrackedIsLive
  <1>2. CASE KeepaliveTransition(h)
    <2> USE <1>2 DEF KeepaliveTransition
    <2>1. \/ state' = state
          \/ /\ state[h] \in {"Active", "Stale"} /\ state'[h] \in {"Active", "Stale"}
             /\ \A g \in Handles \ {h} : state'[g] = state[g]
      BY DEF AfterTransition
    <2>2. OwnHandle'
      BY <2>1 DEF OwnHandle
    <2>3. CreateStates'
      BY <2>1 DEF CreateStates, Unready, CreateSteps
    <2>4. RunningStates'
      BY <2>1 DEF RunningStates
    <2> QED
      BY <2>2, <2>3, <2>4 DEF OwnKey, CreateTasks, TrackedIsLive
  <1>3. CASE TasksStop(h)
    <2> USE <1>3 DEF TasksStop
    <2>1. OwnHandle'
      BY DEF OwnHandle, Running
    <2>2. CreateTasks'
      BY DEF CreateTasks, Running
    <2>3. RunningStates'
      BY DEF RunningStates, Running
    <2>4. TrackedIsLive'
      BY DEF TrackedIsLive
    <2> QED
      BY <2>1, <2>2, <2>3, <2>4 DEF OwnKey, CreateStates, Unready
  <1>4. CASE ReaderFails(h)
    <2> USE <1>4 DEF ReaderFails
    <2>1. OwnHandle'
      BY DEF OwnHandle
    <2>2. CreateTasks'
      BY DEF CreateTasks
    <2>3. RunningStates'
      BY DEF RunningStates, Running
    <2>4. TrackedIsLive'
      BY DEF TrackedIsLive
    <2> QED
      BY <2>1, <2>2, <2>3, <2>4 DEF OwnKey, CreateStates, Unready
  <1> QED
    BY <1>1, <1>2, <1>3, <1>4 DEF TaskStep

LEMMA NextHandleInv == TypeInv /\ HandleInv /\ [Next]_vars => HandleInv'
  <1> SUFFICES ASSUME TypeInv, HandleInv, [Next]_vars PROVE HandleInv'
    OBVIOUS
  <1>1. CASE Signal \/ Exit \/ Link \/ UNCHANGED vars
    BY <1>1 DEF Signal, Exit, Link, vars, managerVars, HandleInv, OwnHandle, OwnKey,
                CreateStates, CreateTasks, Unready, RunningStates, TrackedIsLive
  <1> QED
    BY <1>1, CreateTunnelHandleInv, CreateStepHandleInv, DestroyHandleInv,
       TaskStepHandleInv DEF Next

LEMMA HandleInvariance == Spec => []HandleInv
  BY TypeInvariance, InitHandleInv, NextHandleInv, PTL DEF Spec

(* Before a handle is inserted destroy_tunnel cannot find it, so it is not *)
(* marked; once marked it is removed by the next step of who marked it.    *)
NotFoundYet ==
    \A w \in Workers : pc[w] = "insert" =>
        /\ state[cur[w]] = "Initializing"
        /\ \A k \in Keys : registry[k] # cur[w]
        /\ \A v \in Workers : \A e \in found[v] : e[2] # cur[w]
        /\ \A v \in Workers : pc[v] \in {"mark", "unregister"} => cur[v] # cur[w]

MarkedGoes ==
    \A h \in Handles : state[h] = "TearingDown" =>
        \/ registry[key[h]] # h
        \/ \E w \in Workers : pc[w] = "unregister" /\ cur[w] = h

MarkedInv == NotFoundYet /\ MarkedGoes

LEMMA InitMarkedInv == Init => MarkedInv
  <1> SUFFICES ASSUME Init PROVE MarkedInv
    OBVIOUS
  <1>1. PICK s \in Startups : InitAfter(s)
    BY DEF Init
  <1>2. \A h \in Handles : state[h] \in {"Active", "Initializing"}
    BY <1>1 DEF InitAfter
  <1> QED
    BY <1>2 DEF Init, MarkedInv, NotFoundYet, MarkedGoes

LEMMA NotFoundYetStep ==
    ASSUME TypeInv, HandleInv, MarkedInv, [Next]_vars
    PROVE  NotFoundYet'
  <1> USE DEF TypeInv, TypeOK, ManagerTypeOK, Busy, MarkedInv, NotFoundYet, Goto,
              CreateSteps, DestroySteps
  <1>0. NoRequest \notin Handles
    BY NoRequestIsNoHandle
  <1>1. ASSUME NEW w \in Workers, NEW h \in Handles, NEW k \in Keys, CreateTunnel(w, h, k)
        PROVE  NotFoundYet'
    <2>1. /\ state[h] = "Initializing"
          /\ \A i \in Keys : registry[i] # h
          /\ \A v \in Workers : \A e \in found[v] : e[2] # h
          /\ \A v \in Workers : pc[v] \in CreateSteps \cup {"mark", "unregister"} =>
                cur[v] # h
      BY <1>0, <1>1, ManagerAssumption DEF CreateTunnel, HandleInv, OwnHandle, OwnKey
    <2> QED
      BY <1>1, <2>1 DEF CreateTunnel
  <1>2. ASSUME NEW w \in Workers, CreateStep(w) PROVE NotFoundYet'
    <2>1. CASE InsertHandle(w)
      <3>1. \A v \in Workers : pc[v] = "insert" /\ v # w => cur[v] # cur[w]
        BY <2>1 DEF InsertHandle, HandleInv, OwnHandle
      <3> QED
        BY <2>1, <3>1 DEF InsertHandle
    <2>2. CASE LockHelper(w) \/ SendCreateTunnel(w) \/ ReceiveTapCreated(w) \/ DrainEnds(w)
      BY <2>2 DEF LockHelper, SendCreateTunnel, ReceiveTapCreated, DrainEnds
    <2>3. CASE DrainMessage(w)
      BY <2>3 DEF DrainMessage, managerVars
    <2>4. CASE SendFails(w) \/ ReceiveOther(w) \/ ReceiveFails(w)
      BY <1>0, <2>4 DEF SendFails, ReceiveOther, ReceiveFails, CreateFails, Unregister
    <2>5. CASE Configure(w) \/ Activate(w)
      <3>1. \A v \in Workers : pc[v] = "insert" => cur[v] # cur[w]
        BY <2>5 DEF Configure, Activate, HandleInv, OwnHandle
      <3> QED
        BY <2>5, <3>1 DEF Configure, Activate
    <2>6. CASE SpawnTasks(w) \/ TrackTasks(w)
      BY <2>6 DEF SpawnTasks, TrackTasks
    <2> QED
      BY <1>2, <2>1, <2>2, <2>3, <2>4, <2>5, <2>6 DEF CreateStep
  <1>3. ASSUME NEW w \in Workers, (\E t \in Tids : DestroyTunnel(w, t)) PROVE NotFoundYet'
    BY <1>3 DEF DestroyTunnel
  <1>4. ASSUME NEW w \in Workers, DestroyStep(w) PROVE NotFoundYet'
    <2>1. CASE FindEntries(w)
      BY <2>1 DEF FindEntries, FindByTunnelId
    <2>2. ASSUME NEW e \in found[w], LoadState(w, e) PROVE NotFoundYet'
      BY <2>2 DEF LoadState
    <2>3. CASE MarkTearingDown(w)
      BY <2>3 DEF MarkTearingDown
    <2>4. CASE RemoveEntry(w)
      BY <1>0, <2>4 DEF RemoveEntry, Unregister
    <2> QED
      BY <1>4, <2>1, <2>2, <2>3, <2>4 DEF DestroyStep
  <1>5. ASSUME NEW h \in Handles, TaskStep(h) PROVE NotFoundYet'
    <2>1. CASE KeepaliveTransition(h)
      BY <2>1 DEF KeepaliveTransition, AfterTransition
    <2>2. CASE KeepaliveLoad(h) \/ TasksStop(h) \/ ReaderFails(h)
      BY <2>2 DEF KeepaliveLoad, TasksStop, ReaderFails
    <2> QED
      BY <1>5, <2>1, <2>2 DEF TaskStep
  <1>6. CASE Signal \/ Exit \/ Link \/ UNCHANGED vars
    BY <1>6 DEF Signal, Exit, Link, vars, managerVars
  <1> QED
    BY <1>1, <1>2, <1>3, <1>4, <1>5, <1>6 DEF Next

LEMMA MarkedGoesStep ==
    ASSUME TypeInv, HandleInv, MarkedInv, [Next]_vars
    PROVE  MarkedGoes'
  <1> USE DEF TypeInv, TypeOK, ManagerTypeOK, Busy, MarkedInv, MarkedGoes, Goto,
              CreateSteps, DestroySteps
  <1>0. NoRequest \notin Handles
    BY NoRequestIsNoHandle
  <1>1. ASSUME NEW w \in Workers, NEW h \in Handles, NEW k \in Keys, CreateTunnel(w, h, k)
        PROVE  MarkedGoes'
    BY <1>1 DEF CreateTunnel, HandleInv, OwnHandle
  <1>2. ASSUME NEW w \in Workers, CreateStep(w) PROVE MarkedGoes'
    <2>1. CASE InsertHandle(w)
      <3>1. state[cur[w]] = "Initializing" /\ key[cur[w]] \in Keys
        BY <2>1 DEF InsertHandle, NotFoundYet, HandleInv, OwnHandle
      <3> QED
        BY <2>1, <3>1 DEF InsertHandle
    <2>2. CASE LockHelper(w) \/ SendCreateTunnel(w) \/ ReceiveTapCreated(w) \/ DrainEnds(w)
      BY <2>2 DEF LockHelper, SendCreateTunnel, ReceiveTapCreated, DrainEnds
    <2>3. CASE DrainMessage(w)
      BY <2>3 DEF DrainMessage, managerVars
    <2>4. CASE SendFails(w) \/ ReceiveOther(w) \/ ReceiveFails(w)
      BY <1>0, <2>4 DEF SendFails, ReceiveOther, ReceiveFails, CreateFails, Unregister, HandleInv,
         OwnHandle
    <2>5. CASE Configure(w) \/ Activate(w)
      <3>1. \A h \in Handles : state'[h] = "TearingDown" => state[h] = "TearingDown"
        BY <2>5 DEF Configure, Activate, AfterTransition
      <3> QED
        BY <2>5, <3>1 DEF Configure, Activate
    <2>6. CASE SpawnTasks(w) \/ TrackTasks(w)
      BY <2>6 DEF SpawnTasks, TrackTasks
    <2> QED
      BY <1>2, <2>1, <2>2, <2>3, <2>4, <2>5, <2>6 DEF CreateStep
  <1>3. ASSUME NEW w \in Workers, (\E t \in Tids : DestroyTunnel(w, t)) PROVE MarkedGoes'
    BY <1>3 DEF DestroyTunnel
  <1>4. ASSUME NEW w \in Workers, DestroyStep(w) PROVE MarkedGoes'
    <2>1. CASE FindEntries(w)
      BY <2>1 DEF FindEntries
    <2>2. ASSUME NEW e \in found[w], LoadState(w, e) PROVE MarkedGoes'
      BY <2>2 DEF LoadState
    <2>3. CASE MarkTearingDown(w)
      BY <2>3 DEF MarkTearingDown
    <2>4. CASE RemoveEntry(w)
      BY <1>0, <2>4 DEF RemoveEntry, Unregister, HandleInv, OwnHandle
    <2> QED
      BY <1>4, <2>1, <2>2, <2>3, <2>4 DEF DestroyStep
  <1>5. ASSUME NEW h \in Handles, TaskStep(h) PROVE MarkedGoes'
    <2>1. CASE KeepaliveTransition(h)
      BY <2>1 DEF KeepaliveTransition, AfterTransition
    <2>2. CASE KeepaliveLoad(h) \/ TasksStop(h) \/ ReaderFails(h)
      BY <2>2 DEF KeepaliveLoad, TasksStop, ReaderFails
    <2> QED
      BY <1>5, <2>1, <2>2 DEF TaskStep
  <1>6. CASE Signal \/ Exit \/ Link \/ UNCHANGED vars
    BY <1>6 DEF Signal, Exit, Link, vars, managerVars
  <1> QED
    BY <1>1, <1>2, <1>3, <1>4, <1>5, <1>6 DEF Next

LEMMA MarkedInvariance == Spec => []MarkedInv
  <1>1. TypeInv /\ HandleInv /\ MarkedInv /\ [Next]_vars => MarkedInv'
    BY NotFoundYetStep, MarkedGoesStep DEF MarkedInv
  <1> QED
    BY <1>1, TypeInvariance, HandleInvariance, InitMarkedInv, PTL DEF Spec

(* No task runs on a tunnel that is still being set up; the tunnel of a    *)
(* running task was made active, or is being torn down and has left the    *)
(* registry or is about to (manager.rs:179 to 187, 284 to 287).            *)
THEOREM TasksMeetSetUp == Spec => []RunningIsSetUp
  <1>1. HandleInv /\ MarkedInv => RunningIsSetUp
    BY DEF HandleInv, RunningStates, MarkedInv, MarkedGoes, RunningIsSetUp
  <1> QED
    BY <1>1, HandleInvariance, MarkedInvariance, PTL

(* A tracked token is the live token of a tunnel of that id.               *)
THEOREM TrackedTokensLive == Spec => []TrackedIsLive
  <1>1. HandleInv => TrackedIsLive
    BY DEF HandleInv
  <1> QED
    BY <1>1, HandleInvariance, PTL

--------------------------------------------------------------------------------
(* The stream, on a host with IPv6.                                        *)

(* What a worker waits for, and what it does after the drain loop.         *)
Awaiting == {"receive", "drain"}
PastDrain == {"configure", "activate", "spawn", "track"}

(* The helper has no raw socket to send any more. *)
SocketsSent ==
    /\ helper = "rawV4" => rawV4Created /\ rawV6Created
    /\ helper = "rawV6" => rawV6Created

Settled == toDaemon = <<>> /\ toHelper = <<>> /\ helper # "tap" /\ SocketsSent

(* What is queued while a worker waits for the TAP of handle h.            *)
Answering(h) ==
    /\ toHelper # <<>> =>
          toHelper[1] = h /\ toDaemon = <<>> /\ helper # "tap" /\ SocketsSent
    /\ helper = "tap" => serving = h /\ toDaemon = <<>> /\ toHelper = <<>>
    /\ helper \in {"rawV4", "rawV6"} /\ toHelper = <<>> => 1 \in DOMAIN toDaemon
    /\ \A i \in DOMAIN toDaemon :
          /\ toDaemon[i].kind # "HelperReady"
          /\ toDaemon[i].kind = "TapCreated" => i = 1 /\ toDaemon[i].for = h
    /\ 1 \in DOMAIN toDaemon =>
          \/ toDaemon[1].kind = "TapCreated"
          \/ Len(toDaemon) = 1 /\ helper \in {"waiting", "exited"}

(* What is queued while a worker drains.                                   *)
Draining ==
    /\ toHelper = <<>> /\ helper # "tap"
    /\ \A i \in DOMAIN toDaemon : toDaemon[i].kind \notin {"HelperReady", "TapCreated"}

StreamInv ==
    /\ helper # "starting"
    /\ helper # "exited" /\ (\A w \in Workers : pc[w] \notin Awaiting) => Settled
    /\ \A w \in Workers : pc[w] = "receive" => Answering(cur[w])
    /\ \A w \in Workers : pc[w] = "drain" => Draining


(* The helper's steps keep what is queued for a waiting worker in order.   *)
LEMMA AnsweringHelper ==
    ASSUME LinkTypeOK, host.v6, helper # "starting", NEW h, Answering(h),
           HelperStep \/ HelperDies
    PROVE  Answering(h)'
  <1> USE DEF Answering, SocketsSent
  <1>0. Len(toDaemon) \in Nat /\ DOMAIN toDaemon = 1 .. Len(toDaemon)
    BY QueueFacts
  <1>1. ASSUME NEW m, HelperSend(m), m.kind \notin {"HelperReady", "TapCreated"},
               toHelper = <<>>, toHelper' = <<>>, helper' # "tap",
               1 \in DOMAIN toDaemon, toDaemon[1].kind = "TapCreated"
        PROVE  Answering(h)'
    <2>1. /\ DOMAIN toDaemon' = 1 .. Len(toDaemon) + 1
          /\ toDaemon'[Len(toDaemon) + 1] = m
          /\ \A i \in 1 .. Len(toDaemon) : toDaemon'[i] = toDaemon[i]
      BY <1>1, SendFacts
    <2>2. \A i \in DOMAIN toDaemon' : i \in DOMAIN toDaemon \/ i = Len(toDaemon) + 1
      BY <1>0, <2>1
    <2>3. 1 \in DOMAIN toDaemon' /\ toDaemon'[1].kind = "TapCreated"
      BY <1>0, <1>1, <2>1
    <2> QED
      BY <1>0, <1>1, <2>1, <2>2, <2>3
  <1>2. CASE HelperStart
    BY <1>2 DEF HelperStart
  <1>3. CASE HelperReceive
    <2>1. Head(toHelper) = toHelper[1]
      BY DEF LinkTypeOK
    <2> QED
      BY <1>3, <2>1 DEF HelperReceive
  <1>4. CASE HelperCreateTap
    <2>1. /\ serving = h /\ Len(toDaemon) = 0 /\ toHelper = <<>> /\ toHelper' = toHelper
          /\ HelperSend(Msg("TapCreated", h)) /\ helper' = "rawV4"
      BY <1>0, <1>4 DEF HelperCreateTap
    <2>2. DOMAIN toDaemon' = 1 .. 1 /\ toDaemon'[1] = Msg("TapCreated", h)
      BY <2>1, SendFacts
    <2> QED
      BY <2>1, <2>2 DEF Msg
  <1>5. CASE HelperTapFails
    <2>1. helper = "tap" /\ Len(toDaemon) = 0 /\ toHelper = <<>> /\ HelperFails
      BY <1>0, <1>5 DEF HelperTapFails
    <2>2. CASE host.exitMode
      BY <2>1, <2>2 DEF HelperFails
    <2>3. CASE ~host.exitMode
      <3>1. /\ helper' = "waiting" /\ HelperSend(Msg("Error", serving)) /\ toHelper' = toHelper
        BY <2>1, <2>3 DEF HelperFails
      <3>2. Len(toDaemon') = 1 /\ DOMAIN toDaemon' = 1 .. 1 /\ toDaemon'[1] = Msg("Error", serving)
        BY <2>1, <3>1, SendFacts
      <3> QED
        BY <2>1, <3>1, <3>2 DEF Msg
    <2> QED
      BY <2>2, <2>3
  <1>6. CASE HelperRawV4
    <2>1. CASE rawV4Created
      BY <1>6, <2>1 DEF HelperRawV4
    <2>2. CASE ~rawV4Created
      <3>1. /\ toHelper = <<>> /\ toHelper' = <<>> /\ helper' # "tap"
            /\ HelperSend(Msg("RawSocket4", serving))
            /\ 1 \in DOMAIN toDaemon /\ toDaemon[1].kind = "TapCreated"
        BY <1>6, <2>2 DEF HelperRawV4
      <3> QED
        BY <1>1, <3>1 DEF Msg
    <2> QED
      BY <2>1, <2>2
  <1>7. CASE HelperRawV4Fails
    <2>1. /\ helper = "rawV4" /\ ~rawV4Created /\ HelperFails
          /\ toHelper = <<>> /\ 1 \in DOMAIN toDaemon /\ toDaemon[1].kind = "TapCreated"
      BY <1>7 DEF HelperRawV4Fails
    <2>2. CASE host.exitMode
      BY <2>1, <2>2 DEF HelperFails
    <2>3. CASE ~host.exitMode
      BY <1>1, <2>1, <2>3 DEF HelperFails, Msg
    <2> QED
      BY <2>2, <2>3
  <1>8. CASE HelperRawV6
    <2>1. CASE rawV6Created
      BY <1>8, <2>1 DEF HelperRawV6
    <2>2. CASE ~rawV6Created
      <3>1. /\ toHelper = <<>> /\ toHelper' = <<>> /\ helper' # "tap"
            /\ HelperSend(Msg("RawSocket6", serving))
            /\ 1 \in DOMAIN toDaemon /\ toDaemon[1].kind = "TapCreated"
        BY <1>8, <2>2 DEF HelperRawV6
      <3> QED
        BY <1>1, <3>1 DEF Msg
    <2> QED
      BY <2>1, <2>2
  <1>9. CASE HelperDies
    BY <1>9 DEF HelperDies
  <1> QED
    BY <1>2, <1>3, <1>4, <1>5, <1>6, <1>7, <1>8, <1>9 DEF HelperStep

LEMMA DrainingHelper ==
    ASSUME LinkTypeOK, helper # "starting", Draining, HelperStep \/ HelperDies
    PROVE  Draining'
  <1> USE DEF Draining
  <1>0. Len(toDaemon) \in Nat /\ DOMAIN toDaemon = 1 .. Len(toDaemon)
    BY QueueFacts
  <1>1. ASSUME NEW m, HelperSend(m), m.kind \notin {"HelperReady", "TapCreated"},
               toHelper' = toHelper, helper' # "tap"
        PROVE  Draining'
    BY <1>0, <1>1, SendFacts
  <1>2. ASSUME HelperFails PROVE Draining'
    BY <1>1, <1>2 DEF HelperFails, Msg
  <1>3. CASE HelperTapFails \/ HelperRawV4Fails
    BY <1>2, <1>3 DEF HelperTapFails, HelperRawV4Fails
  <1>4. CASE HelperRawV4
    <2>1. toDaemon' = toDaemon \/ HelperSend(Msg("RawSocket4", serving))
      BY <1>4 DEF HelperRawV4
    <2> QED
      BY <1>1, <1>4, <2>1 DEF HelperRawV4, Msg
  <1>5. CASE HelperRawV6
    <2>1. toDaemon' = toDaemon \/ HelperSend(Msg("RawSocket6", serving)) \/ HelperSend(Msg("Error", serving))
      BY <1>5 DEF HelperRawV6
    <2> QED
      BY <1>1, <1>5, <2>1 DEF HelperRawV6, Msg
  <1> QED
    BY <1>3, <1>4, <1>5 DEF HelperStep, HelperStart, HelperReceive, HelperCreateTap, HelperDies

(* Nobody waits and the helper has nothing to say.                         *)
LEMMA SettledHelper ==
    ASSUME Settled, host.v6, helper \notin {"starting", "exited"}, HelperStep \/ HelperDies
    PROVE  helper' # "exited" => Settled'
  BY DEF Settled, SocketsSent, HelperStep, HelperStart, HelperReceive, HelperCreateTap,
         HelperTapFails, HelperRawV4, HelperRawV4Fails, HelperRawV6, HelperDies

LEMMA InitStreamInv == Init /\ host.v6 => StreamInv
  <1> SUFFICES ASSUME Init, host.v6 PROVE StreamInv
    OBVIOUS
  <1>1. PICK s \in Startups : InitAfter(s)
    BY DEF Init
  <1>2. helper = "rawV4" => DOMAIN s.key # {}
    BY <1>1 DEF InitAfter
  <1>3. helper \in {"waiting", "rawV4"} /\ (helper = "rawV4" => rawV4Created /\ rawV6Created)
    BY <1>1, <1>2 DEF InitAfter
  <1>4. Settled
    BY <1>3 DEF Init, Settled, SocketsSent
  <1> QED
    BY <1>3, <1>4 DEF Init, StreamInv

(* While a call drains, no message comes that would end the loop.          *)
LEMMA DrainEndsAtExit ==
    ASSUME LinkTypeOK, StreamInv, NEW w \in Workers, DrainEnds(w)
    PROVE  helper = "exited"
  <1>1. Draining
    BY DEF DrainEnds, Goto, StreamInv
  <1>2. ASSUME NEW n \in 1 .. Len(toDaemon),
               Head(toDaemon).kind \notin {"RawSocket4", "RawSocket6", "Error"}
        PROVE  FALSE
    <2>1. Head(toDaemon) = toDaemon[1] /\ toDaemon[1] \in HelperMsgs /\ 1 \in DOMAIN toDaemon
      BY <1>2, ReadType, QueueFacts DEF LinkTypeOK
    <2> QED
      BY <1>1, <1>2, <2>1 DEF Draining, HelperMsgs
  <1> QED
    BY <1>2 DEF DrainEnds, EndOfStream

(* A worker's own steps: only the holder of the mutex touches the stream.  *)
LEMMA CreateStepStreamInv ==
    ASSUME TypeInv, LockInv, StreamInv, NEW w \in Workers, CreateStep(w)
    PROVE  StreamInv'
  <1> USE DEF StreamInv, Awaiting
  <1>0. /\ LinkTypeOK /\ Len(toDaemon) \in Nat /\ DOMAIN toDaemon = 1 .. Len(toDaemon)
        /\ pc \in [Workers -> {"idle"} \cup CreateSteps \cup DestroySteps]
        /\ cur \in [Workers -> Handles \cup {NoRequest}]
        /\ toDaemon \in Seq(HelperMsgs) /\ toHelper \in Seq(Requests)
        /\ NoWorker \notin Workers
    BY QueueFacts, ManagerAssumption DEF TypeInv, TypeOK, LinkTypeOK, ManagerTypeOK
  <1>1. ASSUME pc[w] \in Exchange PROVE \A v \in Workers \ {w} : pc[v] \notin Awaiting
    BY <1>1 DEF LockInv, Exchange
  <1>2. CASE InsertHandle(w) \/ LockHelper(w) \/ SendFails(w) \/ Configure(w) \/ Activate(w)
             \/ SpawnTasks(w) \/ TrackTasks(w)
    <2>1. /\ UNCHANGED <<host, toHelper, toDaemon, helper, serving, rawV4Created, rawV6Created>>
          /\ pc[w] \notin Awaiting /\ \A v \in Workers : pc'[v] = pc[v] \/ (v = w /\ pc'[v] \notin Awaiting)
          /\ \A v \in Workers \ {w} : cur'[v] = cur[v]
      BY <1>0, <1>2 DEF InsertHandle, LockHelper, SendFails, CreateFails, Configure, Activate,
         SpawnTasks, TrackTasks, Goto, linkVars, helperVars
    <2> QED
      BY <2>1 DEF Settled, SocketsSent, Answering, Draining
  <1>3. CASE SendCreateTunnel(w)
    <2>1. /\ pc[w] = "send" /\ pc' = [pc EXCEPT ![w] = "receive"] /\ helper # "exited" /\ cur' = cur
          /\ toHelper' = Append(toHelper, cur[w])
          /\ UNCHANGED <<host, toDaemon, helper, serving, rawV4Created, rawV6Created>>
      BY <1>3 DEF SendCreateTunnel, Goto, Connected, helperVars
    <2>2. \A v \in Workers : pc[v] \notin Awaiting
      BY <1>1, <2>1 DEF Exchange
    <2>3. Settled
      BY <2>1, <2>2
    <2>4. toHelper' # <<>> /\ toHelper'[1] = cur[w]
      BY <2>1, <2>3 DEF Settled
    <2>5. Answering(cur[w])'
      BY <2>1, <2>3, <2>4 DEF Settled, Answering, SocketsSent
    <2>6. \A v \in Workers : v # w => pc'[v] \notin Awaiting
      BY <1>0, <2>1, <2>2
    <2>7. pc'[w] = "receive"
      BY <1>0, <2>1
    <2> QED
      BY <2>1, <2>5, <2>6, <2>7
  <1>4. CASE ReceiveTapCreated(w)
    <2>1. /\ pc[w] = "receive" /\ pc' = [pc EXCEPT ![w] = "drain"] /\ toDaemon # <<>>
          /\ toDaemon' = Tail(toDaemon)
          /\ UNCHANGED <<host, toHelper, helper, serving, rawV4Created, rawV6Created>>
      BY <1>4 DEF ReceiveTapCreated, Goto, helperVars
    <2>2. Answering(cur[w])
      BY <2>1
    <2>3. /\ DOMAIN toDaemon' = 1 .. Len(toDaemon) - 1
          /\ \A i \in 1 .. Len(toDaemon) - 1 : toDaemon'[i] = toDaemon[i + 1]
      BY <1>0, <2>1
    <2>4. toHelper = <<>> /\ helper # "tap"
      BY <2>1, <2>2 DEF Answering
    <2>5. \A i \in DOMAIN toDaemon' : i + 1 \in DOMAIN toDaemon /\ i + 1 # 1
      BY <1>0, <2>3
    <2>6. Draining'
      BY <2>1, <2>2, <2>3, <2>4, <2>5 DEF Answering, Draining
    <2>7. pc'[w] = "drain" /\ \A v \in Workers : v # w => pc'[v] \notin Awaiting
      BY <1>0, <1>1, <2>1 DEF Exchange
    <2> QED
      BY <2>1, <2>6, <2>7
  <1>5. CASE ReceiveOther(w)
    <2>1. PICK n \in 1 .. Len(toDaemon) :
             /\ ReadsUpTo(toDaemon, n)
             /\ Head(toDaemon).kind # "TapCreated"
             /\ toDaemon' = After(toDaemon, n)
      BY <1>5 DEF ReceiveOther
    <2>2. /\ pc[w] = "receive" /\ pc' = [pc EXCEPT ![w] = "idle"]
          /\ UNCHANGED <<host, toHelper, helper, serving, rawV4Created, rawV6Created>>
      BY <1>5 DEF ReceiveOther, CreateFails, Goto, helperVars
    <2>3. toDaemon[1].kind # "TapCreated" /\ Len(toDaemon') = Len(toDaemon) - n
          /\ toDaemon' \in Seq(HelperMsgs)
      BY <1>0, <2>1, ReadFacts
    <2>4. Answering(cur[w]) /\ 1 \in DOMAIN toDaemon
      BY <1>0, <2>1, <2>2
    <2>5. Len(toDaemon) = 1 /\ helper \in {"waiting", "exited"} /\ toHelper = <<>>
      BY <2>3, <2>4 DEF Answering
    <2>6. toDaemon' = <<>>
      BY <2>1, <2>3, <2>5
    <2>7. Settled'
      BY <2>2, <2>5, <2>6 DEF Settled, SocketsSent
    <2>8. \A v \in Workers : pc'[v] \notin Awaiting
      BY <1>0, <1>1, <2>2 DEF Exchange
    <2> QED
      BY <2>2, <2>7, <2>8
  <1>6. CASE ReceiveFails(w)
    <2>1. /\ helper = "exited" /\ helper' = helper /\ pc[w] = "receive"
          /\ pc' = [pc EXCEPT ![w] = "idle"]
      BY <1>6 DEF ReceiveFails, EndOfStream, CreateFails, Goto, linkVars, helperVars
    <2>2. \A v \in Workers : pc'[v] \notin Awaiting
      BY <1>0, <1>1, <2>1 DEF Exchange
    <2> QED
      BY <2>1, <2>2
  <1>7. CASE DrainMessage(w)
    <2>1. PICK n \in 1 .. Len(toDaemon) :
             ReadsUpTo(toDaemon, n) /\ toDaemon' = After(toDaemon, n)
      BY <1>7 DEF DrainMessage
    <2>2. /\ pc[w] = "drain" /\ pc' = pc /\ cur' = cur
          /\ UNCHANGED <<host, toHelper, helper, serving, rawV4Created, rawV6Created>>
      BY <1>7 DEF DrainMessage, managerVars, helperVars
    <2>3. /\ DOMAIN toDaemon' = 1 .. Len(toDaemon')
          /\ \A i \in 1 .. Len(toDaemon') : toDaemon'[i] = toDaemon[i + n]
          /\ \A i \in 1 .. Len(toDaemon') : i + n \in 1 .. Len(toDaemon)
      BY <1>0, <2>1, ReadFacts
    <2>4. Draining'
      BY <1>0, <2>2, <2>3 DEF Draining
    <2>5. \A v \in Workers : v # w => pc'[v] \notin Awaiting
      BY <1>1, <2>2 DEF Exchange
    <2> QED
      BY <2>2, <2>4, <2>5
  <1>8. CASE DrainEnds(w)
    <2>1. pc[w] = "drain" /\ pc' = [pc EXCEPT ![w] = "configure"] /\ helper' = helper
      BY <1>8 DEF DrainEnds, Goto, helperVars
    <2>2. helper = "exited"
      BY <1>0, <1>8, DrainEndsAtExit
    <2>3. \A v \in Workers : pc'[v] \notin Awaiting
      BY <1>0, <1>1, <2>1 DEF Exchange
    <2> QED
      BY <2>1, <2>2, <2>3
  <1> QED
    BY <1>2, <1>3, <1>4, <1>5, <1>6, <1>7, <1>8 DEF CreateStep

(* The other steps of the manager leave the stream alone.                  *)
LEMMA NextStreamInv ==
    ASSUME TypeInv, LockInv, StreamInv, host.v6, [Next]_vars
    PROVE  StreamInv'
  <1>0. /\ LinkTypeOK
        /\ pc \in [Workers -> {"idle"} \cup CreateSteps \cup DestroySteps]
        /\ cur \in [Workers -> Handles \cup {NoRequest}]
    BY DEF TypeInv, TypeOK, ManagerTypeOK
  <1>1. ASSUME NEW w \in Workers, CreateStep(w) PROVE StreamInv'
    BY <1>1, CreateStepStreamInv
  <1>2. CASE Link
    <2>1. (HelperStep \/ HelperDies) /\ pc' = pc /\ cur' = cur
      BY <1>2 DEF Link, managerVars
    <2>2. helper # "starting" /\ helper' # "starting" /\ (helper = "exited" => helper' = "exited")
      BY <2>1 DEF StreamInv, HelperStep, HelperStart, HelperReceive, HelperCreateTap,
         HelperTapFails, HelperFails, HelperRawV4, HelperRawV4Fails, HelperRawV6, HelperDies
    <2>3. \A w \in Workers : pc[w] = "receive" => Answering(cur[w])'
      <3> SUFFICES ASSUME NEW w \in Workers, pc[w] = "receive" PROVE Answering(cur[w])'
        OBVIOUS
      <3>1. Answering(cur[w])
        BY DEF StreamInv
      <3>2. ASSUME NEW h, h = cur[w] PROVE Answering(h)'
        BY <1>0, <2>1, <2>2, <3>1, <3>2, AnsweringHelper
      <3> QED
        BY <2>1, <3>2
    <2>4. \A w \in Workers : pc[w] = "drain" => Draining'
      BY <1>0, <2>1, <2>2, DrainingHelper DEF StreamInv
    <2>5. helper' # "exited" /\ (\A w \in Workers : pc[w] \notin Awaiting) => Settled'
      BY <2>1, <2>2, SettledHelper DEF StreamInv
    <2> QED
      BY <2>1, <2>2, <2>3, <2>4, <2>5 DEF StreamInv
  <1>3. ASSUME NEW w \in Workers,
               \/ \E h \in Handles, k \in Keys : CreateTunnel(w, h, k)
               \/ \E t \in Tids : DestroyTunnel(w, t)
               \/ DestroyStep(w)
        PROVE  StreamInv'
    <2>1. UNCHANGED linkVars
      BY <1>3 DEF CreateTunnel, DestroyTunnel, DestroyStep, FindEntries, LoadState,
                  MarkTearingDown, RemoveEntry
    <2>2. pc[w] \notin Awaiting /\ \A v \in Workers : pc'[v] = pc[v] \/ (v = w /\ pc'[v] \notin Awaiting)
      BY <1>0, <1>3 DEF CreateTunnel, DestroyTunnel, DestroyStep, FindEntries, LoadState,
                  MarkTearingDown, RemoveEntry, Goto, Awaiting
    <2>3. \A v \in Workers \ {w} : cur'[v] = cur[v]
      BY <1>0, <1>3 DEF CreateTunnel, DestroyTunnel, DestroyStep, FindEntries, LoadState,
                  MarkTearingDown, RemoveEntry
    <2> QED
      BY <2>1, <2>2, <2>3 DEF StreamInv, Settled, SocketsSent, Answering, Draining, linkVars,
                              helperVars, Awaiting
  <1>4. CASE (\E h \in Handles : TaskStep(h)) \/ Signal \/ Exit \/ UNCHANGED vars
    <2>1. UNCHANGED <<linkVars, pc, cur>>
      BY <1>4 DEF TaskStep, KeepaliveLoad, KeepaliveTransition, TasksStop, ReaderFails, Signal, Exit, vars,
                  managerVars
    <2> QED
      BY <2>1 DEF StreamInv, Settled, SocketsSent, Answering, Draining, linkVars, helperVars
  <1> QED
    BY <1>1, <1>2, <1>3, <1>4 DEF Next

--------------------------------------------------------------------------------
(* What follows from the stream for the calls, on a host with IPv6.        *)

(* The drain loop only ends when the helper is gone, so one call at most   *)
(* gets past it.                                                           *)
OneLast ==
    /\ helper # "exited" => \A w \in Workers : pc[w] \notin PastDrain
    /\ \A v, w \in Workers :
          pc[v] \in Awaiting \cup PastDrain /\ pc[w] \in Awaiting \cup PastDrain => v = w

OwnTaps ==
    /\ OwnTap
    /\ \A w \in Workers : pc[w] \in {"drain", "configure", "activate", "spawn"} =>
          tap[cur[w]] = cur[w]

(* While the helper lives: a live tunnel is registered and tracked, and no *)
(* call is at work on its id.                                              *)
Apart(g) ==
    /\ registry[key[g]] = g /\ tasks[key[g][1]] = g
    /\ \A w \in Workers :
          /\ pc[w] \in CreateSteps \cup {"mark", "unregister"} => key[cur[w]][1] # key[g][1]
          /\ pc[w] = "find" => tid[w] # key[g][1]
          /\ \A e \in found[w] : e[1][1] # key[g][1]

LiveApart == \A g \in Handles : Live(g) => Apart(g)

TailApart ==
    \A w \in Workers : pc[w] \in Awaiting \cup PastDrain =>
        \A g \in Handles : Live(g) /\ g # cur[w] => key[g][1] # key[cur[w]][1]

LostInv ==
    \A h \in Handles : Live(h) =>
        \/ tasks[key[h][1]] = h
        \/ \E w \in Workers : cur[w] = h /\ pc[w] = "track"

CallInv ==
    host.v6 =>
        /\ StreamInv
        /\ OneLast
        /\ OwnTaps
        /\ helper # "exited" => LiveApart
        /\ TailApart
        /\ LostInv


(* No step of the manager brings the helper back.                          *)
LEMMA HelperSteps ==
    ASSUME [Next]_vars
    PROVE  /\ host' = host
           /\ helper = "exited" => helper' = "exited"
           /\ Link \/ helper' = helper
           /\ Link => UNCHANGED managerVars
  <1>1. CASE Link
    BY <1>1 DEF Link, HelperStep, HelperStart, HelperReceive, HelperCreateTap,
         HelperTapFails, HelperFails, HelperRawV4, HelperRawV4Fails, HelperRawV6, HelperDies
  <1>2. ASSUME NEW w \in Workers, CreateStep(w) PROVE host' = host /\ helper' = helper
    BY <1>2 DEF CreateStep, InsertHandle, LockHelper, SendCreateTunnel, SendFails,
       ReceiveTapCreated, ReceiveOther, ReceiveFails, CreateFails, DrainMessage, DrainEnds,
       Configure, Activate, SpawnTasks, TrackTasks, linkVars, helperVars
  <1>3. ASSUME ~Link, \A w \in Workers : ~CreateStep(w) PROVE host' = host /\ helper' = helper
    <2>1. UNCHANGED linkVars
      BY <1>3 DEF Next, CreateTunnel, DestroyTunnel, DestroyStep, FindEntries, LoadState,
         MarkTearingDown, RemoveEntry, TaskStep, KeepaliveLoad, KeepaliveTransition, TasksStop, ReaderFails,
         Signal, Exit, vars
    <2> QED
      BY <2>1 DEF linkVars, helperVars
  <1>4. Link => UNCHANGED managerVars
    BY DEF Link
  <1> QED
    BY <1>1, <1>2, <1>3, <1>4

(* Where a worker's program counter goes.                                  *)
LEMMA OneLastStep ==
    ASSUME TypeInv, LockInv, StreamInv, OneLast, [Next]_vars
    PROVE  OneLast'
  <1> USE DEF OneLast, Awaiting, PastDrain
  <1>0. /\ LinkTypeOK
        /\ pc \in [Workers -> {"idle"} \cup CreateSteps \cup DestroySteps]
    BY DEF TypeInv, TypeOK, ManagerTypeOK
  <1>1. (helper = "exited" => helper' = "exited") /\ (Link \/ helper' = helper)
        /\ (Link => UNCHANGED managerVars)
    BY HelperSteps
  <1>2. ASSUME NEW w \in Workers, SendCreateTunnel(w) PROVE OneLast'
    <2>1. pc[w] = "send" /\ pc' = [pc EXCEPT ![w] = "receive"] /\ helper # "exited" /\ helper' = helper
      BY <1>2 DEF SendCreateTunnel, Goto, Connected, helperVars
    <2>2. \A v \in Workers : v # w => pc[v] \notin Awaiting \cup PastDrain
      BY <2>1 DEF LockInv, Exchange
    <2> QED
      BY <1>0, <2>1, <2>2
  <1>3. ASSUME NEW w \in Workers, DrainEnds(w) PROVE OneLast'
    <2>1. pc[w] = "drain" /\ pc' = [pc EXCEPT ![w] = "configure"] /\ helper' = helper
      BY <1>3 DEF DrainEnds, Goto, helperVars
    <2>2. helper = "exited"
      BY <1>0, <1>3, DrainEndsAtExit
    <2> QED
      BY <1>0, <2>1, <2>2
  <1>4. ASSUME NEW w \in Workers, pc[w] \notin Awaiting \cup PastDrain =>
                                     pc'[w] \notin Awaiting \cup PastDrain,
               pc'[w] \in PastDrain => pc[w] \in PastDrain,
               \A v \in Workers : v # w => pc'[v] = pc[v]
        PROVE  OneLast'
    BY <1>1, <1>4
  <1>5. CASE Link \/ UNCHANGED pc
    BY <1>1, <1>5 DEF managerVars
  <1>6. ASSUME NEW w \in Workers, CreateStep(w), ~SendCreateTunnel(w), ~DrainEnds(w) PROVE OneLast'
    <2>1. CASE DrainMessage(w)
      BY <1>5, <2>1 DEF DrainMessage, managerVars
    <2>2. CASE ~DrainMessage(w)
      BY <1>0, <1>4, <1>6, <2>2 DEF CreateStep, InsertHandle, LockHelper, SendFails,
         ReceiveTapCreated, ReceiveOther, ReceiveFails, CreateFails,
         Configure, Activate, SpawnTasks, TrackTasks, Goto
    <2> QED
      BY <2>1, <2>2
  <1>7. ASSUME NEW w \in Workers,
               \/ \E h \in Handles, k \in Keys : CreateTunnel(w, h, k)
               \/ \E t \in Tids : DestroyTunnel(w, t)
               \/ DestroyStep(w)
        PROVE  OneLast'
    BY <1>0, <1>4, <1>7 DEF CreateTunnel, DestroyTunnel, DestroyStep, FindEntries, LoadState,
                  MarkTearingDown, RemoveEntry, Goto
  <1>8. CASE (\E h \in Handles : TaskStep(h)) \/ Signal \/ Exit \/ UNCHANGED vars
    BY <1>5, <1>8 DEF TaskStep, KeepaliveLoad, KeepaliveTransition, TasksStop, ReaderFails, Signal, Exit, vars,
                  managerVars
  <1> QED
    BY <1>2, <1>3, <1>5, <1>6, <1>7, <1>8 DEF Next

(* A call takes the TAP made for it.                                       *)
LEMMA OwnTapsStep ==
    ASSUME TypeInv, StreamInv, OwnTaps, [Next]_vars
    PROVE  OwnTaps'
  <1> USE DEF OwnTaps, OwnTap
  <1>0. /\ LinkTypeOK
        /\ pc \in [Workers -> {"idle"} \cup CreateSteps \cup DestroySteps]
        /\ cur \in [Workers -> Handles \cup {NoRequest}]
        /\ tap \in [Handles -> Handles \cup {NoRequest}]
        /\ task \in [Handles -> {"none", "stopped"} \cup Running]
        /\ \A w \in Workers : pc[w] \in CreateSteps => cur[w] \in Handles
    BY DEF TypeInv, TypeOK, ManagerTypeOK, Busy
  <1>1. ASSUME NEW w \in Workers, ReceiveTapCreated(w) PROVE OwnTaps'
    <2>1. /\ pc[w] = "receive" /\ pc' = [pc EXCEPT ![w] = "drain"] /\ toDaemon # <<>>
          /\ Head(toDaemon).kind = "TapCreated"
          /\ tap' = [tap EXCEPT ![cur[w]] = Head(toDaemon).for]
          /\ cur' = cur /\ task' = task
      BY <1>1 DEF ReceiveTapCreated, Goto
    <2>2. Head(toDaemon) = toDaemon[1] /\ 1 \in DOMAIN toDaemon
      BY <1>0, <2>1 DEF LinkTypeOK
    <2>3. Head(toDaemon).for = cur[w]
      BY <2>1, <2>2 DEF StreamInv, Answering
    <2>4. cur[w] \in Handles /\ tap' = [tap EXCEPT ![cur[w]] = cur[w]]
      BY <1>0, <2>1, <2>3 DEF CreateSteps
    <2> QED
      BY <1>0, <2>1, <2>4
  <1>2. ASSUME NEW w \in Workers, SpawnTasks(w) PROVE OwnTaps'
    <2>1. /\ pc[w] = "spawn" /\ pc' = [pc EXCEPT ![w] = "track"]
          /\ task' = [task EXCEPT ![cur[w]] = "running"]
          /\ UNCHANGED <<tap, cur>>
      BY <1>2 DEF SpawnTasks, Goto
    <2> QED
      BY <1>0, <2>1 DEF CreateSteps
  <1>3. ASSUME NEW w \in Workers, UNCHANGED <<tap, task>>,
               pc'[w] \in {"drain", "configure", "activate", "spawn"} =>
                   pc[w] \in {"drain", "configure", "activate", "spawn"} /\ cur'[w] = cur[w],
               \A v \in Workers : v # w => pc'[v] = pc[v] /\ cur'[v] = cur[v]
        PROVE  OwnTaps'
    BY <1>3
  <1>4. CASE /\ UNCHANGED <<tap, pc, cur>>
             /\ \A h \in Handles : task'[h] \in Running => task[h] \in Running
    BY <1>4
  <1>5. ASSUME NEW w \in Workers, CreateStep(w), ~ReceiveTapCreated(w), ~SpawnTasks(w) PROVE OwnTaps'
    <2>1. CASE DrainMessage(w)
      BY <1>4, <2>1 DEF DrainMessage, managerVars
    <2>2. CASE ~DrainMessage(w)
      BY <1>0, <1>3, <1>5, <2>2 DEF CreateStep, InsertHandle, LockHelper, SendCreateTunnel, SendFails,
         ReceiveOther, ReceiveFails, CreateFails, DrainEnds,
         Configure, Activate, TrackTasks, Goto
    <2> QED
      BY <2>1, <2>2
  <1>6. ASSUME NEW w \in Workers,
               \/ \E h \in Handles, k \in Keys : CreateTunnel(w, h, k)
               \/ \E t \in Tids : DestroyTunnel(w, t)
               \/ DestroyStep(w)
        PROVE  OwnTaps'
    BY <1>0, <1>3, <1>6 DEF CreateTunnel, DestroyTunnel, DestroyStep, FindEntries, LoadState,
                  MarkTearingDown, RemoveEntry, Goto
  <1>7. ASSUME NEW h \in Handles, TaskStep(h) PROVE OwnTaps'
    BY <1>0, <1>4, <1>7 DEF TaskStep, KeepaliveLoad, KeepaliveTransition, TasksStop, ReaderFails
  <1>8. CASE Signal \/ Exit \/ Link \/ UNCHANGED vars
    BY <1>4, <1>8 DEF Signal, Exit, Link, vars, managerVars
  <1> QED
    BY <1>1, <1>2, <1>5, <1>6, <1>7, <1>8 DEF Next

(* A live tunnel has a key.                                                *)
LEMMA LiveHasKey ==
    ASSUME TypeInv, HandleInv, NEW g \in Handles, Live(g)
    PROVE  key[g] \in Keys /\ key[g] # NoKey /\ key[g][1] \in Tids
  <1>1. key[g] # NoKey
    BY DEF HandleInv, OwnHandle, Live, Running
  <1>2. key[g] \in Keys
    BY <1>1 DEF TypeInv, TypeOK, ManagerTypeOK
  <1> QED
    BY <1>1, <1>2 DEF Keys

(* Only a call that spawns makes a tunnel live.                            *)
LEMMA LiveSteps ==
    ASSUME TypeInv, [Next]_vars, NEW g \in Handles, Live(g)'
    PROVE  Live(g) \/ \E w \in Workers : SpawnTasks(w) /\ cur[w] = g
  <1> USE DEF Live
  <1>0. /\ task \in [Handles -> {"none", "stopped"} \cup Running]
        /\ \A w \in Workers : pc[w] \in CreateSteps => cur[w] \in Handles
    BY DEF TypeInv, TypeOK, ManagerTypeOK, Busy
  <1>1. ASSUME NEW w \in Workers, SpawnTasks(w) PROVE Live(g) \/ cur[w] = g
    BY <1>0, <1>1 DEF SpawnTasks, Goto, CreateSteps
  <1>2. ASSUME NEW w \in Workers, CreateStep(w), ~SpawnTasks(w) PROVE Live(g)
    BY <1>2 DEF CreateStep, InsertHandle, LockHelper, SendCreateTunnel, SendFails,
       ReceiveTapCreated, ReceiveOther, ReceiveFails, CreateFails, DrainMessage, DrainEnds,
       Configure, Activate, TrackTasks, managerVars
  <1>3. ASSUME NEW w \in Workers,
               \/ \E h \in Handles, k \in Keys : CreateTunnel(w, h, k)
               \/ \E t \in Tids : DestroyTunnel(w, t)
               \/ DestroyStep(w)
        PROVE  Live(g)
    BY <1>3 DEF CreateTunnel, DestroyTunnel, DestroyStep, FindEntries, LoadState,
                MarkTearingDown, RemoveEntry
  <1>4. ASSUME NEW h \in Handles, TaskStep(h) PROVE Live(g)
    BY <1>0, <1>4 DEF TaskStep, KeepaliveLoad, KeepaliveTransition, TasksStop, ReaderFails
  <1>5. CASE Signal \/ Exit \/ Link \/ UNCHANGED vars
    BY <1>5 DEF Signal, Exit, Link, vars, managerVars
  <1> QED
    BY <1>1, <1>2, <1>3, <1>4, <1>5 DEF Next

(* While the helper lives nothing happens to a live tunnel but its own     *)
(* deletion.                                                               *)
LEMMA LiveApartStep ==
    ASSUME TypeInv, HandleInv, StreamInv, OneLast, LiveApart, [Next]_vars,
           helper # "exited", helper' # "exited"
    PROVE  LiveApart'
  <1>0. /\ LinkTypeOK
        /\ pc \in [Workers -> {"idle"} \cup CreateSteps \cup DestroySteps]
        /\ cur \in [Workers -> Handles \cup {NoRequest}]
        /\ key \in [Handles -> Keys \cup {NoKey}]
        /\ registry \in [Keys -> Handles \cup {NoRequest}]
        /\ tasks \in [Tids -> Handles \cup {NoRequest}]
        /\ tid \in [Workers -> Tids \cup {NoKey}]
        /\ found \in [Workers -> SUBSET (Keys \X Handles)]
        /\ NoRequest \notin Handles
        /\ \A w \in Workers : pc[w] \in CreateSteps \cup {"mark", "unregister"} =>
              cur[w] \in Handles /\ key[cur[w]] # NoKey
    BY NoRequestIsNoHandle DEF TypeInv, TypeOK, ManagerTypeOK, Busy, HandleInv, OwnHandle
  <1>1. \A w \in Workers : pc[w] \notin PastDrain /\ ~DrainEnds(w)
    <2>1. ASSUME NEW w \in Workers, DrainEnds(w) PROVE FALSE
      BY <1>0, <2>1, DrainEndsAtExit
    <2> QED
      BY <2>1 DEF OneLast
  <1> SUFFICES ASSUME NEW g \in Handles, Live(g)'
               PROVE  Apart(g)'
    BY DEF LiveApart
  <1> USE DEF Apart
  <1>2. Live(g)
    BY <1>1, LiveSteps DEF SpawnTasks, Goto, PastDrain
  <1>3. /\ registry[key[g]] = g /\ tasks[key[g][1]] = g
        /\ key[g] \in Keys /\ key[g] # NoKey /\ key[g][1] \in Tids
        /\ \A w \in Workers :
              /\ pc[w] \in CreateSteps \cup {"mark", "unregister"} => key[cur[w]][1] # key[g][1]
              /\ pc[w] = "find" => tid[w] # key[g][1]
              /\ \A e \in found[w] : e[1][1] # key[g][1]
    BY <1>2, LiveHasKey DEF LiveApart
  <1>4. ASSUME NEW w \in Workers, NEW h \in Handles, NEW k \in Keys, CreateTunnel(w, h, k)
        PROVE  Apart(g)'
    <2>1. /\ key[h] = NoKey /\ FindByTunnelId(k[1]) = {}
          /\ pc[w] = "idle" /\ pc' = [pc EXCEPT ![w] = "insert"] /\ cur' = [cur EXCEPT ![w] = h]
          /\ key' = [key EXCEPT ![h] = k]
          /\ UNCHANGED <<registry, tasks, tid, found>>
      BY <1>4 DEF CreateTunnel, Goto
    <2>2. g # h /\ key'[g] = key[g]
      BY <1>0, <1>3, <2>1
    <2>3. k[1] # key[g][1]
      <3>1. SUFFICES ASSUME k[1] = key[g][1] PROVE FALSE
        OBVIOUS
      <3>2. key[g] \in {l \in Keys : l[1] = k[1] /\ registry[l] # NoRequest}
        BY <1>0, <1>3, <3>1
      <3>3. <<key[g], registry[key[g]]>> \in FindByTunnelId(k[1])
        BY <3>2 DEF FindByTunnelId
      <3> QED
        BY <2>1, <3>3
    <2>4. key'[h] = k
      BY <1>0, <2>1
    <2>5. \A v \in Workers : v # w /\ pc[v] \in CreateSteps \cup {"mark", "unregister"} =>
             cur'[v] = cur[v] /\ key'[cur[v]] = key[cur[v]]
      BY <1>0, <2>1
    <2> QED
      BY <1>0, <1>3, <2>1, <2>2, <2>3, <2>4, <2>5 DEF CreateSteps
  <1>5. ASSUME NEW w \in Workers, CreateStep(w)
        PROVE  Apart(g)'
    <2>1. /\ pc[w] \in CreateSteps /\ (pc'[w] = "idle" \/ (pc'[w] \in CreateSteps /\ cur'[w] = cur[w]))
          /\ \A v \in Workers : v # w => pc'[v] = pc[v] /\ cur'[v] = cur[v]
          /\ UNCHANGED <<key, tasks, tid, found>>
      BY <1>0, <1>1, <1>5 DEF CreateStep, InsertHandle, LockHelper, SendCreateTunnel, SendFails,
         ReceiveTapCreated, ReceiveOther, ReceiveFails, CreateFails, DrainMessage,
         Configure, Activate, SpawnTasks, TrackTasks, Goto, CreateSteps, PastDrain, managerVars
    <2>2. key[cur[w]] # key[g] /\ key[cur[w]] \in Keys
      BY <1>0, <1>3, <2>1
    <2>3. registry'[key[g]] = registry[key[g]]
      BY <1>0, <1>1, <1>3, <1>5, <2>2 DEF CreateStep, InsertHandle, LockHelper, SendCreateTunnel, SendFails,
         ReceiveTapCreated, ReceiveOther, ReceiveFails, DrainMessage, Unregister,
         Configure, Activate, SpawnTasks, TrackTasks, Goto, PastDrain, managerVars
    <2>4. pc'[w] # "find" /\ pc'[w] \notin {"mark", "unregister"}
      BY <2>1 DEF CreateSteps
    <2>5. /\ pc'[w] \in CreateSteps => key'[cur'[w]][1] # key'[g][1]
          /\ registry'[key'[g]] = g /\ tasks'[key'[g][1]] = g
      BY <1>3, <2>1, <2>3 DEF CreateSteps
    <2>6. \A v \in Workers : v # w =>
             /\ pc'[v] \in CreateSteps \cup {"mark", "unregister"} => key'[cur'[v]][1] # key'[g][1]
             /\ pc'[v] = "find" => tid'[v] # key'[g][1]
      BY <1>3, <2>1
    <2>7. \A v \in Workers : \A e \in found'[v] : e[1][1] # key'[g][1]
      BY <1>3, <2>1
    <2> QED
      BY <2>4, <2>5, <2>6, <2>7
  <1>6. ASSUME NEW w \in Workers, NEW t \in Tids, DestroyTunnel(w, t)
        PROVE  Apart(g)'
    <2>1. /\ pc[w] = "idle" /\ pc' = [pc EXCEPT ![w] = "find"] /\ tid' = [tid EXCEPT ![w] = t]
          /\ cancelled' = cancelled \cup ({tasks[t]} \ {NoRequest})
          /\ tasks' = [tasks EXCEPT ![t] = NoRequest]
          /\ UNCHANGED <<registry, key, cur, found>>
      BY <1>6 DEF DestroyTunnel, Goto
    <2>2. g \notin cancelled'
      BY DEF Live
    <2>3. key[g][1] # t
      BY <1>0, <1>3, <2>1, <2>2
    <2> QED
      BY <1>0, <1>3, <2>1, <2>3 DEF CreateSteps
  <1>7. ASSUME NEW w \in Workers, DestroyStep(w)
        PROVE  Apart(g)'
    <2>1. CASE FindEntries(w)
      <3>1. /\ pc[w] = "find" /\ pc'[w] \in {"idle", "load"}
            /\ found' = [found EXCEPT ![w] = FindByTunnelId(tid[w])]
            /\ \A v \in Workers : v # w => pc'[v] = pc[v] /\ tid'[v] = tid[v]
            /\ UNCHANGED <<registry, key, tasks, cur>>
        BY <1>0, <2>1 DEF FindEntries, Goto
      <3>2. \A e \in FindByTunnelId(tid[w]) : e[1][1] = tid[w]
        BY DEF FindByTunnelId
      <3>3. \A v \in Workers : \A e \in found'[v] : e[1][1] # key[g][1]
        BY <1>0, <1>3, <3>1, <3>2
      <3> QED
        BY <1>3, <3>1, <3>3 DEF CreateSteps
    <2>2. ASSUME NEW e \in found[w], LoadState(w, e)
          PROVE  Apart(g)'
      <3>1. /\ pc' = [pc EXCEPT ![w] = "mark"] /\ cur' = [cur EXCEPT ![w] = e[2]]
            /\ UNCHANGED <<registry, key, tasks, tid, found>>
        BY <2>2 DEF LoadState, Goto
      <3>2. key[e[2]] = e[1]
        BY <2>2 DEF HandleInv, OwnKey
      <3>3. key[e[2]][1] # key[g][1]
        BY <1>3, <2>2, <3>2
      <3> QED
        BY <1>0, <1>3, <3>1, <3>3
    <2>3. CASE MarkTearingDown(w)
      <3>1. /\ pc[w] = "mark" /\ pc' = [pc EXCEPT ![w] = "unregister"]
            /\ UNCHANGED <<registry, key, tasks, tid, found, cur>>
        BY <2>3 DEF MarkTearingDown, Goto
      <3> QED
        BY <1>0, <1>3, <3>1
    <2>4. CASE RemoveEntry(w)
      <3>1. /\ pc[w] = "unregister" /\ pc'[w] \in {"idle", "load"}
            /\ registry' = [registry EXCEPT ![key[cur[w]]] = NoRequest]
            /\ \A v \in Workers : found'[v] \subseteq found[v]
            /\ \A v \in Workers : v # w => pc'[v] = pc[v] /\ cur'[v] = cur[v]
            /\ UNCHANGED <<key, tasks, tid>>
        BY <1>0, <2>4 DEF RemoveEntry, Goto, Unregister
      <3>2. key[cur[w]] # key[g]
        BY <1>3, <3>1
      <3>3. registry'[key[g]] = g
        BY <1>0, <1>3, <3>1, <3>2
      <3> QED
        BY <1>3, <3>1, <3>3 DEF CreateSteps
    <2> QED
      BY <1>7, <2>1, <2>2, <2>3, <2>4 DEF DestroyStep
  <1>8. CASE (\E h \in Handles : TaskStep(h)) \/ Signal \/ Exit \/ Link \/ UNCHANGED vars
    <2>1. UNCHANGED <<registry, key, tasks, tid, found, pc, cur>>
      BY <1>8 DEF TaskStep, KeepaliveLoad, KeepaliveTransition, TasksStop, ReaderFails, Signal, Exit, Link, vars,
                  managerVars
    <2> QED
      BY <1>3, <2>1
  <1> QED
    BY <1>4, <1>5, <1>6, <1>7, <1>8 DEF Next

(* A handle's key is chosen once.                                          *)
LEMMA KeysStay ==
    ASSUME TypeInv, [Next]_vars, NEW h \in Handles, key[h] # NoKey
    PROVE  key'[h] = key[h]
  <1>0. key \in [Handles -> Keys \cup {NoKey}]
    BY DEF TypeInv, TypeOK, ManagerTypeOK
  <1>1. ASSUME NEW w \in Workers, NEW g \in Handles, NEW k \in Keys, CreateTunnel(w, g, k)
        PROVE  key'[h] = key[h]
    BY <1>0, <1>1 DEF CreateTunnel
  <1>2. ASSUME NEW w \in Workers,
               CreateStep(w) \/ (\E t \in Tids : DestroyTunnel(w, t)) \/ DestroyStep(w)
        PROVE  key'[h] = key[h]
    BY <1>2 DEF CreateStep, InsertHandle, LockHelper, SendCreateTunnel, SendFails,
       ReceiveTapCreated, ReceiveOther, ReceiveFails, CreateFails, DrainMessage, DrainEnds,
       Configure, Activate, SpawnTasks, TrackTasks, managerVars, DestroyTunnel, DestroyStep,
       FindEntries, LoadState, MarkTearingDown, RemoveEntry
  <1>3. CASE (\E g \in Handles : TaskStep(g)) \/ Signal \/ Exit \/ Link \/ UNCHANGED vars
    BY <1>3 DEF TaskStep, KeepaliveLoad, KeepaliveTransition, TasksStop, ReaderFails, Signal, Exit, Link,
                vars, managerVars
  <1> QED
    BY <1>1, <1>2, <1>3 DEF Next

(* Past the request, a call is the only one of its id with a live tunnel.  *)
LEMMA TailApartStep ==
    ASSUME TypeInv, HandleInv, OneLast, OneLast', helper # "exited" => LiveApart, TailApart,
           [Next]_vars
    PROVE  TailApart'
  <1> USE DEF Awaiting, PastDrain
  <1>0. /\ pc \in [Workers -> {"idle"} \cup CreateSteps \cup DestroySteps]
        /\ cur \in [Workers -> Handles \cup {NoRequest}]
        /\ key \in [Handles -> Keys \cup {NoKey}]
        /\ \A w \in Workers : pc[w] \in CreateSteps \cup {"mark", "unregister"} =>
              cur[w] \in Handles /\ key[cur[w]] # NoKey
    BY DEF TypeInv, TypeOK, ManagerTypeOK, Busy, HandleInv, OwnHandle
  <1> SUFFICES ASSUME NEW w \in Workers, pc'[w] \in Awaiting \cup PastDrain,
                      NEW g \in Handles, Live(g)', g # cur'[w]
               PROVE  key'[g][1] # key'[cur'[w]][1]
    BY DEF TailApart
  <1>1. CASE SendCreateTunnel(w)
    <2>1. pc[w] = "send" /\ helper # "exited" /\ UNCHANGED <<key, cur, task, cancelled>>
      BY <1>1 DEF SendCreateTunnel, Goto, Connected
    <2>2. Live(g) /\ Apart(g)
      BY <2>1 DEF Live, LiveApart
    <2> QED
      BY <2>1, <2>2 DEF Apart, CreateSteps
  <1>2. CASE pc[w] \in Awaiting \cup PastDrain /\ cur'[w] = cur[w]
    <2>1. ASSUME NEW v \in Workers, SpawnTasks(v) PROVE v = w
      <3>1. pc'[v] = "track"
        BY <1>0, <2>1 DEF SpawnTasks, Goto
      <3> QED
        BY <3>1 DEF OneLast
    <2>2. Live(g)
      BY <1>2, <2>1, LiveSteps
    <2>3. key[g][1] # key[cur[w]][1] /\ key[g] # NoKey /\ key[cur[w]] # NoKey
      BY <1>0, <1>2, <2>2, LiveHasKey DEF TailApart, CreateSteps
    <2>4. cur[w] \in Handles
      BY <1>0, <1>2 DEF CreateSteps
    <2>5. \A h \in Handles : key[h] # NoKey => key'[h] = key[h]
      BY <1>0, KeysStay
    <2> QED
      BY <1>2, <2>3, <2>4, <2>5
  <1>3. SendCreateTunnel(w) \/ (pc[w] \in Awaiting \cup PastDrain /\ cur'[w] = cur[w])
    <2>1. ASSUME NEW v \in Workers, CreateStep(v)
          PROVE  SendCreateTunnel(w) \/ (pc[w] \in Awaiting \cup PastDrain /\ cur'[w] = cur[w])
      <3>1. CASE v # w
        <4>1. pc'[w] = pc[w] /\ cur'[w] = cur[w]
          BY <1>0, <2>1, <3>1 DEF CreateStep, InsertHandle, LockHelper, SendCreateTunnel, SendFails,
             ReceiveTapCreated, ReceiveOther, ReceiveFails, CreateFails, DrainMessage, DrainEnds,
             Configure, Activate, SpawnTasks, TrackTasks, Goto, managerVars
        <4> QED
          BY <4>1
      <3>2. CASE v = w
        BY <1>0, <2>1, <3>2 DEF CreateStep, InsertHandle, LockHelper, SendFails,
             ReceiveTapCreated, ReceiveOther, ReceiveFails, CreateFails, DrainMessage, DrainEnds,
             Configure, Activate, SpawnTasks, TrackTasks, Goto, managerVars
      <3> QED
        BY <3>1, <3>2
    <2>2. ASSUME NEW v \in Workers,
                 \/ \E h \in Handles, k \in Keys : CreateTunnel(v, h, k)
                 \/ \E t \in Tids : DestroyTunnel(v, t)
                 \/ DestroyStep(v)
          PROVE  pc[w] \in Awaiting \cup PastDrain /\ cur'[w] = cur[w]
      BY <1>0, <2>2 DEF CreateTunnel, DestroyTunnel, DestroyStep, FindEntries, LoadState,
                  MarkTearingDown, RemoveEntry, Goto
    <2>3. CASE (\E h \in Handles : TaskStep(h)) \/ Signal \/ Exit \/ Link \/ UNCHANGED vars
      BY <2>3 DEF TaskStep, KeepaliveLoad, KeepaliveTransition, TasksStop, ReaderFails, Signal, Exit, Link,
                  vars, managerVars
    <2> QED
      BY <2>1, <2>2, <2>3 DEF Next
  <1> QED
    BY <1>1, <1>2, <1>3

(* No live tunnel loses its token.                                         *)
LEMMA LostInvStep ==
    ASSUME TypeInv, HandleInv, TailApart, LostInv, [Next]_vars
    PROVE  LostInv'
  <1>0. /\ pc \in [Workers -> {"idle"} \cup CreateSteps \cup DestroySteps]
        /\ cur \in [Workers -> Handles \cup {NoRequest}]
        /\ key \in [Handles -> Keys \cup {NoKey}]
        /\ tasks \in [Tids -> Handles \cup {NoRequest}]
        /\ NoRequest \notin Handles
        /\ \A w \in Workers : pc[w] \in CreateSteps => cur[w] \in Handles /\ key[cur[w]] # NoKey
    BY NoRequestIsNoHandle DEF TypeInv, TypeOK, ManagerTypeOK, Busy, HandleInv, OwnHandle
  <1> SUFFICES ASSUME NEW h \in Handles, Live(h)'
               PROVE  \/ tasks'[key'[h][1]] = h
                      \/ \E w \in Workers : cur'[w] = h /\ pc'[w] = "track"
    BY DEF LostInv
  <1>1. CASE \E w \in Workers : SpawnTasks(w) /\ cur[w] = h
    BY <1>0, <1>1 DEF SpawnTasks, Goto
  <1>2. CASE Live(h)
    <2>0. /\ key[h] \in Keys /\ key[h] # NoKey /\ key[h][1] \in Tids /\ key'[h] = key[h]
          /\ tasks[key[h][1]] = h \/ \E w \in Workers : cur[w] = h /\ pc[w] = "track"
      BY <1>2, LiveHasKey, KeysStay DEF LostInv
    <2>1. ASSUME NEW w \in Workers, TrackTasks(w)
          PROVE  \/ tasks'[key[h][1]] = h
                 \/ \E v \in Workers : cur'[v] = h /\ pc'[v] = "track"
      <3>1. /\ pc[w] = "track" /\ pc' = [pc EXCEPT ![w] = "idle"]
            /\ tasks' = [tasks EXCEPT ![key[cur[w]][1]] = cur[w]]
            /\ cur' = [cur EXCEPT ![w] = NoRequest]
        BY <2>1 DEF TrackTasks, Goto
      <3>2. CASE cur[w] = h
        BY <1>0, <2>0, <3>1, <3>2
      <3>3. CASE cur[w] # h
        <4>1. key[cur[w]][1] # key[h][1]
          BY <1>2, <3>1, <3>3 DEF TailApart, PastDrain
        <4>2. tasks'[key[h][1]] = tasks[key[h][1]]
          BY <1>0, <2>0, <3>1, <4>1
        <4>3. \A v \in Workers : cur[v] = h => cur'[v] = cur[v] /\ pc'[v] = pc[v]
          BY <1>0, <3>1, <3>3
        <4> QED
          BY <2>0, <4>2, <4>3
      <3> QED
        BY <3>2, <3>3
    <2>2. ASSUME NEW w \in Workers, NEW t \in Tids, DestroyTunnel(w, t)
          PROVE  \/ tasks'[key[h][1]] = h
                 \/ \E v \in Workers : cur'[v] = h /\ pc'[v] = "track"
      <3>1. /\ pc[w] = "idle" /\ pc' = [pc EXCEPT ![w] = "find"] /\ cur' = cur
            /\ cancelled' = cancelled \cup ({tasks[t]} \ {NoRequest})
            /\ tasks' = [tasks EXCEPT ![t] = NoRequest]
        BY <2>2 DEF DestroyTunnel, Goto
      <3>2. h \notin cancelled'
        BY DEF Live
      <3>3. tasks[key[h][1]] = h => key[h][1] # t
        BY <1>0, <3>1, <3>2
      <3>4. \A v \in Workers : pc[v] = "track" => pc'[v] = "track"
        BY <1>0, <3>1
      <3> QED
        BY <1>0, <2>0, <3>1, <3>3, <3>4
    <2>3. ASSUME UNCHANGED tasks,
                 \A v \in Workers : pc[v] = "track" => pc'[v] = "track" /\ cur'[v] = cur[v]
          PROVE  \/ tasks'[key[h][1]] = h
                 \/ \E v \in Workers : cur'[v] = h /\ pc'[v] = "track"
      BY <2>0, <2>3
    <2>4. ASSUME NEW w \in Workers, CreateStep(w), ~TrackTasks(w)
          PROVE  \/ tasks'[key[h][1]] = h
                 \/ \E v \in Workers : cur'[v] = h /\ pc'[v] = "track"
      BY <1>0, <2>3, <2>4 DEF CreateStep, InsertHandle, LockHelper, SendCreateTunnel, SendFails,
             ReceiveTapCreated, ReceiveOther, ReceiveFails, CreateFails, DrainMessage, DrainEnds,
             Configure, Activate, SpawnTasks, Goto, managerVars
    <2>5. ASSUME NEW w \in Workers,
                 (\E g \in Handles, k \in Keys : CreateTunnel(w, g, k)) \/ DestroyStep(w)
          PROVE  \/ tasks'[key[h][1]] = h
                 \/ \E v \in Workers : cur'[v] = h /\ pc'[v] = "track"
      BY <1>0, <2>3, <2>5 DEF CreateTunnel, DestroyStep, FindEntries, LoadState,
                  MarkTearingDown, RemoveEntry, Goto
    <2>6. CASE (\E g \in Handles : TaskStep(g)) \/ Signal \/ Exit \/ Link \/ UNCHANGED vars
      BY <2>3, <2>6 DEF TaskStep, KeepaliveLoad, KeepaliveTransition, TasksStop, ReaderFails, Signal, Exit, Link,
                  vars, managerVars
    <2> QED
      BY <2>0, <2>1, <2>2, <2>4, <2>5, <2>6 DEF Next
  <1> QED
    BY <1>1, <1>2, LiveSteps

(* Startup leaves each live tunnel registered and tracked, and no call.    *)
LEMMA InitCallInv == Init => CallInv
  <1> SUFFICES ASSUME Init, host.v6 PROVE CallInv
    BY DEF CallInv
  <1>1. PICK s \in Startups : InitAfter(s)
    BY DEF Init
  <1>2. /\ DOMAIN s.key \subseteq Handles /\ s.key \in [DOMAIN s.key -> Keys]
        /\ \A g, h \in DOMAIN s.key : s.key[g][1] = s.key[h][1] => g = h
    BY ManagerAssumption DEF IsStartup
  <1>3. StreamInv
    BY InitStreamInv
  <1>4. OneLast
    BY DEF Init, OneLast, Awaiting, PastDrain
  <1>5. OwnTaps
    BY <1>1 DEF Init, InitAfter, OwnTaps, OwnTap, Running
  <1>6. ASSUME NEW g \in Handles, Live(g)
        PROVE  /\ g \in DOMAIN s.key /\ key[g] = s.key[g] /\ key[g] \in Keys
               /\ registry[key[g]] = g /\ tasks[key[g][1]] = g
    <2>1. g \in DOMAIN s.key
      BY <1>1, <1>6 DEF InitAfter, Live, Running
    <2>2. key[g] = s.key[g] /\ s.key[g] \in Keys /\ s.key[g][1] \in Tids
      BY <1>1, <1>2, <2>1 DEF InitAfter, Keys
    <2>3. {h \in DOMAIN s.key : s.key[h] = s.key[g]} = {g}
      BY <1>2, <2>1
    <2>4. {h \in DOMAIN s.key : s.key[h][1] = s.key[g][1]} = {g}
      BY <1>2, <2>1
    <2>5. TheOne({g}) = g
      BY DEF TheOne
    <2>6. registry[s.key[g]] = TheOne({h \in DOMAIN s.key : s.key[h] = s.key[g]})
      BY <1>1, <2>2 DEF InitAfter
    <2>7. tasks[s.key[g][1]] = TheOne({h \in DOMAIN s.key : s.key[h][1] = s.key[g][1]})
      BY <1>1, <2>2 DEF InitAfter
    <2> QED
      BY <2>1, <2>2, <2>3, <2>4, <2>5, <2>6, <2>7
  <1>7. LiveApart
    BY <1>6 DEF Init, LiveApart, Apart, CreateSteps
  <1>8. TailApart
    BY DEF Init, TailApart, Awaiting, PastDrain
  <1>9. LostInv
    BY <1>6 DEF LostInv
  <1> QED
    BY <1>3, <1>4, <1>5, <1>7, <1>8, <1>9 DEF CallInv

LEMMA NextCallInv ==
    TypeInv /\ LockInv /\ HandleInv /\ CallInv /\ [Next]_vars => CallInv'
  <1> SUFFICES ASSUME TypeInv, LockInv, HandleInv, CallInv, [Next]_vars, host'.v6
               PROVE  CallInv'
    BY DEF CallInv
  <1>1. host.v6 /\ (helper = "exited" => helper' = "exited")
    BY HelperSteps
  <1>2. StreamInv /\ OneLast /\ OwnTaps /\ (helper # "exited" => LiveApart) /\ TailApart /\ LostInv
    BY <1>1 DEF CallInv
  <1>3. StreamInv'
    BY <1>1, <1>2, NextStreamInv
  <1>4. OneLast'
    BY <1>2, OneLastStep
  <1>5. OwnTaps'
    BY <1>2, OwnTapsStep
  <1>6. helper' # "exited" => LiveApart'
    BY <1>1, <1>2, LiveApartStep
  <1>7. TailApart'
    BY <1>2, <1>4, TailApartStep
  <1>8. LostInv'
    BY <1>2, LostInvStep
  <1> QED
    BY <1>3, <1>4, <1>5, <1>6, <1>7, <1>8 DEF CallInv

LEMMA CallInvariance == Spec => []CallInv
  <1>1. Init => LockInv /\ CallInv
    BY InitLockInv, InitCallInv
  <1>2. TypeInv /\ HandleInv /\ (LockInv /\ CallInv) /\ [Next]_vars => (LockInv /\ CallInv)'
    BY NextLockInv, NextCallInv
  <1> QED
    BY <1>1, <1>2, TypeInvariance, HandleInvariance, PTL DEF Spec

(* On a host with IPv6 a tunnel's tasks have the TAP the helper made for   *)
(* it, through failed calls and a helper that dies (manager.rs:137).       *)
THEOREM TapsAreOwn == Spec => []OwnTapWithIPv6
  <1>1. CallInv => OwnTapWithIPv6
    BY DEF CallInv, OwnTaps, OwnTapWithIPv6
  <1> QED
    BY <1>1, CallInvariance, PTL

(* On such a host the tasks of every running tunnel can be stopped by      *)
(* destroy_tunnel: no token that is still live is dropped from the map     *)
(* (manager.rs:248).                                                       *)
THEOREM TokensAreKept == Spec => []NoLostToken
  <1>1. CallInv => NoLostToken
    BY DEF CallInv, LostInv, NoLostToken
  <1> QED
    BY <1>1, CallInvariance, PTL

--------------------------------------------------------------------------------
(* What the API lists.  A cancelled tunnel that is still registered is     *)
(* about to be removed by the call that cancelled it, or another.          *)
Removing(h) ==
    \E w \in Workers :
       \/ pc[w] = "find" /\ tid[w] = key[h][1]
       \/ pc[w] \in {"load", "mark", "unregister"} /\ <<key[h], h>> \in found[w]

CancelledGoes ==
    \A h \in cancelled : key[h] \in Keys /\ registry[key[h]] = h => Removing(h)

(* An active tunnel's tasks are started at once and stop when cancelled.   *)
ActiveRuns ==
    \A h \in Handles :
       /\ state[h] \in {"Active", "Stale"} /\ task[h] = "none" =>
             \E w \in Workers : pc[w] = "spawn" /\ cur[w] = h
       /\ task[h] = "stopped" => h \in cancelled \/ daemon # "running"

ListedInv == CancelledGoes /\ ActiveRuns

LEMMA InitListedInv == Init => ListedInv
  <1> SUFFICES ASSUME Init PROVE ListedInv
    OBVIOUS
  <1>1. PICK s \in Startups : InitAfter(s)
    BY DEF Init
  <1>2. \A h \in Handles : \/ task[h] = "running"
                           \/ task[h] = "none" /\ state[h] = "Initializing"
    BY <1>1 DEF InitAfter
  <1> QED
    BY <1>2 DEF Init, ListedInv, CancelledGoes, ActiveRuns

(* A step other than create_tunnel's insert registers nothing, and leaves  *)
(* a removal in progress unless it completes it.                           *)
LEMMA CancelledGoesStep ==
    ASSUME TypeInv, HandleInv, CancelledGoes, [Next]_vars
    PROVE  CancelledGoes'
  <1>0. /\ pc \in [Workers -> {"idle"} \cup CreateSteps \cup DestroySteps]
        /\ cur \in [Workers -> Handles \cup {NoRequest}]
        /\ key \in [Handles -> Keys \cup {NoKey}]
        /\ registry \in [Keys -> Handles \cup {NoRequest}]
        /\ tid \in [Workers -> Tids \cup {NoKey}]
        /\ found \in [Workers -> SUBSET (Keys \X Handles)]
        /\ cancelled \subseteq Handles
        /\ NoRequest \notin Handles
        /\ \A w \in Workers : pc[w] \in CreateSteps \cup {"mark", "unregister"} =>
              cur[w] \in Handles /\ key[cur[w]] # NoKey
        /\ \A w \in Workers : pc[w] \in CreateSteps => cur[w] \notin cancelled
        /\ \A h \in cancelled : key[h] # NoKey
        /\ NoKey \notin Keys
    BY NoRequestIsNoHandle, ManagerAssumption
       DEF TypeInv, TypeOK, ManagerTypeOK, Busy, HandleInv, OwnHandle, CreateTasks
  <1> SUFFICES ASSUME NEW h \in Handles, h \in cancelled', key'[h] \in Keys,
                      registry'[key'[h]] = h
               PROVE  Removing(h)'
    <2>1. cancelled' \subseteq Handles
      BY NextTypeInv DEF TypeInv, TypeOK, ManagerTypeOK
    <2> QED
      BY <2>1 DEF CancelledGoes
  (* The common case: the tunnel was cancelled and registered, and one     *)
  (* worker that is not removing it moves.                                 *)
  <1>1. ASSUME NEW w \in Workers, pc[w] \notin DestroySteps, h \in cancelled,
               key' = key, registry[key[h]] = h,
               \A v \in Workers : v # w =>
                  pc'[v] = pc[v] /\ tid'[v] = tid[v] /\ found'[v] = found[v]
        PROVE  Removing(h)'
    <2>1. PICK v \in Workers :
             \/ pc[v] = "find" /\ tid[v] = key[h][1]
             \/ pc[v] \in {"load", "mark", "unregister"} /\ <<key[h], h>> \in found[v]
      BY <1>1 DEF CancelledGoes, Removing
    <2>2. v # w
      BY <1>1, <2>1 DEF DestroySteps
    <2> QED
      BY <1>1, <2>1, <2>2 DEF Removing
  <1>2. ASSUME NEW w \in Workers, NEW g \in Handles, NEW k \in Keys, CreateTunnel(w, g, k)
        PROVE  Removing(h)'
    <2>1. /\ pc[w] = "idle" /\ pc' = [pc EXCEPT ![w] = "insert"]
          /\ key[g] = NoKey /\ key' = [key EXCEPT ![g] = k]
          /\ UNCHANGED <<registry, cancelled, tid, found>>
      BY <1>2 DEF CreateTunnel, Goto
    <2>2. h \in cancelled /\ h # g /\ key'[h] = key[h]
      BY <1>0, <2>1
    <2>3. PICK v \in Workers :
             \/ pc[v] = "find" /\ tid[v] = key[h][1]
             \/ pc[v] \in {"load", "mark", "unregister"} /\ <<key[h], h>> \in found[v]
      BY <2>1, <2>2 DEF CancelledGoes, Removing
    <2> QED
      BY <1>0, <2>1, <2>2, <2>3 DEF Removing
  <1>3. ASSUME NEW w \in Workers, CreateStep(w)
        PROVE  Removing(h)'
    <2>1. /\ pc[w] \in CreateSteps /\ key' = key /\ cancelled' = cancelled
          /\ \A v \in Workers : v # w =>
                pc'[v] = pc[v] /\ tid'[v] = tid[v] /\ found'[v] = found[v]
      BY <1>0, <1>3 DEF CreateStep, InsertHandle, LockHelper, SendCreateTunnel, SendFails,
         ReceiveTapCreated, ReceiveOther, ReceiveFails, CreateFails, DrainMessage, DrainEnds,
         Configure, Activate, SpawnTasks, TrackTasks, Goto, managerVars, CreateSteps
    <2>2. \/ registry' = registry
          \/ registry' = [registry EXCEPT ![key[cur[w]]] = cur[w]]
          \/ registry' = [registry EXCEPT ![key[cur[w]]] = NoRequest]
      BY <1>3 DEF CreateStep, InsertHandle, LockHelper, SendCreateTunnel, SendFails,
         ReceiveTapCreated, ReceiveOther, ReceiveFails, CreateFails, DrainMessage, DrainEnds,
         Configure, Activate, SpawnTasks, TrackTasks, managerVars, Unregister
    <2>3. h # cur[w]
      BY <1>0, <2>1
    <2>4. registry[key[h]] = h
      BY <1>0, <2>1, <2>2, <2>3
    <2>5. pc[w] \notin DestroySteps
      BY <2>1 DEF CreateSteps, DestroySteps
    <2> QED
      BY <1>1, <2>1, <2>4, <2>5
  <1>4. ASSUME NEW w \in Workers, NEW t \in Tids, DestroyTunnel(w, t)
        PROVE  Removing(h)'
    <2>1. /\ pc[w] = "idle" /\ pc' = [pc EXCEPT ![w] = "find"]
          /\ tid' = [tid EXCEPT ![w] = t]
          /\ cancelled' = cancelled \cup ({tasks[t]} \ {NoRequest})
          /\ UNCHANGED <<key, registry, found>>
      BY <1>4 DEF DestroyTunnel, Goto
    <2>2. CASE h \in cancelled
      <3>1. pc[w] \notin DestroySteps
        BY <2>1 DEF DestroySteps
      <3>2. \A v \in Workers : v # w =>
               pc'[v] = pc[v] /\ tid'[v] = tid[v] /\ found'[v] = found[v]
        BY <1>0, <2>1
      <3> QED
        BY <1>1, <2>1, <2>2, <3>1, <3>2
    <2>3. CASE h \notin cancelled
      <3>1. h = tasks[t] /\ tasks[t] # NoRequest
        BY <2>1, <2>3
      <3>2. key[h][1] = t
        BY <1>4, <3>1 DEF HandleInv, TrackedIsLive
      <3>3. pc'[w] = "find" /\ tid'[w] = key'[h][1]
        BY <1>0, <2>1, <3>2
      <3> QED
        BY <3>3 DEF Removing
    <2> QED
      BY <2>2, <2>3
  <1>5. ASSUME NEW w \in Workers, DestroyStep(w)
        PROVE  Removing(h)'
    <2>1. /\ key' = key /\ cancelled' = cancelled
          /\ \A v \in Workers : v # w =>
                pc'[v] = pc[v] /\ tid'[v] = tid[v] /\ found'[v] = found[v]
      BY <1>0, <1>5 DEF DestroyStep, FindEntries, LoadState, MarkTearingDown, RemoveEntry, Goto
    <2>2. registry' = registry \/ (RemoveEntry(w) /\ Unregister(key[cur[w]]))
      BY <1>5 DEF DestroyStep, FindEntries, LoadState, MarkTearingDown, RemoveEntry
    <2>3. registry[key[h]] = h
      BY <1>0, <2>1, <2>2 DEF Unregister
    <2>4. PICK v \in Workers :
             \/ pc[v] = "find" /\ tid[v] = key[h][1]
             \/ pc[v] \in {"load", "mark", "unregister"} /\ <<key[h], h>> \in found[v]
      BY <2>1, <2>3 DEF CancelledGoes, Removing
    <2>5. CASE v # w
      BY <2>1, <2>4, <2>5 DEF Removing
    <2>6. CASE v = w
      <3>1. CASE FindEntries(w)
        <4>1. <<key[h], h>> \in FindByTunnelId(key[h][1])
          BY <1>0, <2>1, <2>3 DEF FindByTunnelId
        <4>2. pc[w] = "find" /\ tid[w] = key[h][1]
          BY <2>4, <2>6, <3>1 DEF FindEntries, Goto
        <4>3. pc' = [pc EXCEPT ![w] = "load"]
              /\ found' = [found EXCEPT ![w] = FindByTunnelId(key[h][1])]
          BY <3>1, <4>1, <4>2 DEF FindEntries, Goto
        <4>4. pc'[w] = "load" /\ <<key'[h], h>> \in found'[w]
          BY <1>0, <2>1, <4>1, <4>3
        <4> QED
          BY <4>4 DEF Removing
      <3>2. CASE (\E e \in found[w] : LoadState(w, e)) \/ MarkTearingDown(w)
        <4>1. pc[w] \in {"load", "mark"} /\ found' = found /\ pc'[w] \in {"mark", "unregister"}
          BY <1>0, <3>2 DEF LoadState, MarkTearingDown, Goto
        <4> QED
          BY <2>1, <2>4, <2>6, <4>1 DEF Removing
      <3>3. CASE RemoveEntry(w)
        <4> DEFINE rest == found[w] \ {<<key[cur[w]], cur[w]>>}
        <4>1. /\ pc[w] = "unregister" /\ found' = [found EXCEPT ![w] = rest]
              /\ pc' = [pc EXCEPT ![w] = IF rest = {} THEN "idle" ELSE "load"]
              /\ registry' = [registry EXCEPT ![key[cur[w]]] = NoRequest]
          BY <3>3 DEF RemoveEntry, Goto, Unregister
        <4>2. h # cur[w]
          BY <1>0, <2>1, <4>1
        <4>3. <<key[h], h>> \in rest
          BY <2>4, <2>6, <4>1, <4>2
        <4>4. pc'[w] = "load" /\ <<key'[h], h>> \in found'[w]
          BY <1>0, <2>1, <4>1, <4>3
        <4> QED
          BY <4>4 DEF Removing
      <3> QED
        BY <1>5, <3>1, <3>2, <3>3 DEF DestroyStep
    <2> QED
      BY <2>5, <2>6
  <1>6. CASE (\E g \in Handles : TaskStep(g)) \/ Signal \/ Exit \/ Link \/ UNCHANGED vars
    <2>1. UNCHANGED <<registry, key, cancelled, pc, tid, found>>
      BY <1>6 DEF TaskStep, KeepaliveLoad, KeepaliveTransition, TasksStop, ReaderFails, Signal, Exit, Link,
                  vars, managerVars
    <2> QED
      BY <2>1 DEF CancelledGoes, Removing
  <1> QED
    BY <1>2, <1>3, <1>4, <1>5, <1>6 DEF Next

(* Only the call that activated a tunnel starts its tasks, in its next     *)
(* step, and only a cancelled token or the shutdown stops them.            *)
LEMMA ActiveRunsStep ==
    ASSUME TypeInv, HandleInv, ActiveRuns, [Next]_vars
    PROVE  ActiveRuns'
  <1>0. /\ pc \in [Workers -> {"idle"} \cup CreateSteps \cup DestroySteps]
        /\ cur \in [Workers -> Handles \cup {NoRequest}]
        /\ state \in [Handles -> TunnelStates]
        /\ task \in [Handles -> {"none", "stopped"} \cup Running]
        /\ \A w \in Workers : pc[w] \in CreateSteps \cup {"mark", "unregister"} =>
              cur[w] \in Handles
    BY DEF TypeInv, TypeOK, ManagerTypeOK, Busy
  <1> SUFFICES ASSUME NEW h \in Handles
               PROVE  /\ state'[h] \in {"Active", "Stale"} /\ task'[h] = "none" =>
                            \E w \in Workers : pc'[w] = "spawn" /\ cur'[w] = h
                      /\ task'[h] = "stopped" => h \in cancelled' \/ daemon' # "running"
    BY DEF ActiveRuns
  <1> DEFINE Goal == /\ state'[h] \in {"Active", "Stale"} /\ task'[h] = "none" =>
                            \E w \in Workers : pc'[w] = "spawn" /\ cur'[w] = h
                     /\ task'[h] = "stopped" => h \in cancelled' \/ daemon' # "running"
  <1>1. ASSUME task'[h] = task[h], cancelled \subseteq cancelled',
               daemon # "running" => daemon' # "running",
               state'[h] \in {"Active", "Stale"} => state[h] \in {"Active", "Stale"},
               \A w \in Workers : pc[w] = "spawn" /\ cur[w] = h =>
                  pc'[w] = "spawn" /\ cur'[w] = h
        PROVE  Goal
    BY <1>1 DEF ActiveRuns
  <1>2. ASSUME NEW w \in Workers, NEW g \in Handles, NEW k \in Keys, CreateTunnel(w, g, k)
        PROVE  Goal
    <2>1. /\ pc[w] = "idle" /\ pc' = [pc EXCEPT ![w] = "insert"] /\ cur' = [cur EXCEPT ![w] = g]
          /\ UNCHANGED <<state, task, cancelled, daemon>>
      BY <1>2 DEF CreateTunnel, Goto
    <2>2. \A v \in Workers : pc[v] = "spawn" /\ cur[v] = h => pc'[v] = "spawn" /\ cur'[v] = h
      BY <1>0, <2>1
    <2> QED
      BY <1>1, <2>1, <2>2
  <1>3. ASSUME NEW w \in Workers, CreateStep(w)
        PROVE  Goal
    <2>1. /\ UNCHANGED <<cancelled, daemon>>
          /\ \A v \in Workers : v # w => pc'[v] = pc[v] /\ cur'[v] = cur[v]
      BY <1>0, <1>3 DEF CreateStep, InsertHandle, LockHelper, SendCreateTunnel, SendFails,
         ReceiveTapCreated, ReceiveOther, ReceiveFails, CreateFails, DrainMessage, DrainEnds,
         Configure, Activate, SpawnTasks, TrackTasks, Goto, managerVars
    <2>2. CASE Activate(w)
      <3>1. /\ pc[w] = "activate" /\ pc'[w] = "spawn" /\ cur' = cur /\ task' = task
            /\ \A g \in Handles : g # cur[w] => state'[g] = state[g]
        BY <1>0, <2>2 DEF Activate, Goto
      <3>2. CASE cur[w] = h
        <4>1. pc'[w] = "spawn" /\ cur'[w] = h
          BY <3>1, <3>2
        <4>2. task'[h] = "stopped" => h \in cancelled' \/ daemon' # "running"
          BY <2>1, <3>1 DEF ActiveRuns
        <4> QED
          BY <4>1, <4>2
      <3>3. CASE cur[w] # h
        <4>1. state'[h] = state[h] /\ task'[h] = task[h]
          BY <3>1, <3>3
        <4>2. \A v \in Workers : pc[v] = "spawn" /\ cur[v] = h =>
                 pc'[v] = "spawn" /\ cur'[v] = h
          BY <2>1, <3>1
        <4> QED
          BY <1>1, <2>1, <4>1, <4>2
      <3> QED
        BY <3>2, <3>3
    <2>3. CASE SpawnTasks(w)
      <3>1. /\ pc[w] = "spawn" /\ cur[w] \in Handles /\ state' = state
            /\ task' = [task EXCEPT ![cur[w]] = "running"]
        BY <1>0, <2>3 DEF SpawnTasks, Goto, CreateSteps
      <3>2. CASE cur[w] = h
        BY <1>0, <3>1, <3>2
      <3>3. CASE cur[w] # h
        <4>1. task'[h] = task[h] /\ state'[h] = state[h]
          BY <1>0, <3>1, <3>3
        <4>2. \A v \in Workers : pc[v] = "spawn" /\ cur[v] = h =>
                 pc'[v] = "spawn" /\ cur'[v] = h
          BY <2>1, <3>3
        <4> QED
          BY <1>1, <2>1, <4>1, <4>2
      <3> QED
        BY <3>2, <3>3
    <2>4. CASE Configure(w)
      <3>1. /\ pc[w] = "configure" /\ task' = task
            /\ state' = [state EXCEPT ![cur[w]] = AfterTransition(@, "Initializing", "Configured")]
        BY <2>4 DEF Configure, Goto
      <3>2. state'[h] \in {state[h], "Configured"}
        BY <1>0, <3>1 DEF AfterTransition
      <3>3. \A v \in Workers : pc[v] = "spawn" /\ cur[v] = h => pc'[v] = "spawn" /\ cur'[v] = h
        BY <2>1, <3>1
      <3> QED
        BY <1>1, <2>1, <3>1, <3>2, <3>3
    <2>5. CASE ~(Activate(w) \/ SpawnTasks(w) \/ Configure(w))
      <3>1. pc[w] # "spawn" /\ UNCHANGED <<state, task>>
        BY <1>3, <2>5 DEF CreateStep, InsertHandle, LockHelper, SendCreateTunnel, SendFails,
           ReceiveTapCreated, ReceiveOther, ReceiveFails, CreateFails, DrainMessage, DrainEnds,
           TrackTasks, Goto, managerVars
      <3>2. \A v \in Workers : pc[v] = "spawn" /\ cur[v] = h => pc'[v] = "spawn" /\ cur'[v] = h
        BY <2>1, <3>1
      <3> QED
        BY <1>1, <2>1, <3>1, <3>2
    <2> QED
      BY <2>2, <2>3, <2>4, <2>5
  <1>4. ASSUME NEW w \in Workers, (\E t \in Tids : DestroyTunnel(w, t)) \/ DestroyStep(w)
        PROVE  Goal
    <2>1. /\ pc[w] \notin CreateSteps /\ UNCHANGED <<task, daemon>>
          /\ cancelled \subseteq cancelled'
          /\ \A v \in Workers : v # w => pc'[v] = pc[v] /\ cur'[v] = cur[v]
      BY <1>0, <1>4 DEF DestroyTunnel, DestroyStep, FindEntries, LoadState, MarkTearingDown,
                        RemoveEntry, Goto, CreateSteps
    <2>2. \/ state' = state
          \/ state' = [state EXCEPT ![cur[w]] = AfterTransition(@, seen[w], "TearingDown")]
      BY <1>4 DEF DestroyTunnel, DestroyStep, FindEntries, LoadState, MarkTearingDown, RemoveEntry
    <2>3. state'[h] \in {state[h], "TearingDown"}
      BY <1>0, <2>2 DEF AfterTransition
    <2>4. \A v \in Workers : pc[v] = "spawn" /\ cur[v] = h => pc'[v] = "spawn" /\ cur'[v] = h
      BY <2>1 DEF CreateSteps
    <2> QED
      BY <1>1, <2>1, <2>3, <2>4
  <1>5. ASSUME NEW g \in Handles, TaskStep(g)
        PROVE  Goal
    <2>1. UNCHANGED <<pc, cur, cancelled, daemon>>
      BY <1>5 DEF TaskStep, KeepaliveLoad, KeepaliveTransition, TasksStop, ReaderFails
    <2>2. CASE KeepaliveLoad(g)
      BY <1>1, <2>1, <2>2 DEF KeepaliveLoad
    <2>3. CASE KeepaliveTransition(g)
      <3>1. \/ state' = state
            \/ /\ state[g] \in {"Active", "Stale"}
               /\ \A i \in Handles \ {g} : state'[i] = state[i]
        BY <1>0, <2>3 DEF KeepaliveTransition, AfterTransition
      <3> QED
        BY <1>1, <2>1, <2>3, <3>1 DEF KeepaliveTransition
    <2>4. CASE ReaderFails(g)
      <3>1. /\ task[g] = "running" /\ state' = state
            /\ task' = [task EXCEPT ![g] = "noReader"]
        BY <2>4 DEF ReaderFails
      <3>2. CASE g = h
        BY <1>0, <3>1, <3>2
      <3>3. CASE g # h
        <4>1. task'[h] = task[h]
          BY <1>0, <3>1, <3>3
        <4> QED
          BY <1>1, <2>1, <3>1, <4>1
      <3> QED
        BY <3>2, <3>3
    <2>5. CASE TasksStop(g)
      <3>1. /\ g \in cancelled \/ daemon = "stopping"
            /\ task' = [task EXCEPT ![g] = "stopped"] /\ state' = state
        BY <2>5 DEF TasksStop
      <3>2. CASE g = h
        BY <1>0, <2>1, <3>1, <3>2
      <3>3. CASE g # h
        <4>1. task'[h] = task[h]
          BY <1>0, <3>1, <3>3
        <4> QED
          BY <1>1, <2>1, <3>1, <4>1
      <3> QED
        BY <3>2, <3>3
    <2> QED
      BY <1>5, <2>2, <2>3, <2>4, <2>5 DEF TaskStep
  <1>6. CASE Signal \/ Exit \/ Link \/ UNCHANGED vars
    BY <1>1, <1>6 DEF Signal, Exit, Link, vars, managerVars
  <1> QED
    BY <1>2, <1>3, <1>4, <1>5, <1>6 DEF Next

LEMMA ListedInvariance == Spec => []ListedInv
  <1>1. TypeInv /\ HandleInv /\ ListedInv /\ [Next]_vars => ListedInv'
    BY CancelledGoesStep, ActiveRunsStep DEF ListedInv
  <1> QED
    BY <1>1, InitListedInv, TypeInvariance, HandleInvariance, PTL DEF Spec

(* With no call in progress, a tunnel that ListTunnels shows as active or  *)
(* stale has tasks running whose token is tracked, on every such host,     *)
(* whether its TAP reader ended on an error or not (manager.rs:179 to 248  *)
(* against 273 to 290).                                                    *)
THEOREM ListedAreTracked == Spec => []ListedIsTracked
  <1>1. TypeInv /\ HandleInv /\ CallInv /\ ListedInv => ListedIsTracked
    <2> SUFFICES ASSUME TypeInv, HandleInv, CallInv, ListedInv, Quiet, daemon = "running", host.v6,
                        NEW k \in Keys, registry[k] # NoRequest,
                        state[registry[k]] \in {"Active", "Stale"}
                 PROVE  Live(registry[k]) /\ tasks[k[1]] = registry[k]
      BY DEF ListedIsTracked
    <2> DEFINE h == registry[k]
    <2>1. h \in Handles /\ key[h] = k
      BY DEF TypeInv, TypeOK, ManagerTypeOK, HandleInv, OwnKey
    <2>2. h \notin cancelled
      BY <2>1 DEF ListedInv, CancelledGoes, Removing, Quiet
    <2>3. task[h] # "none" /\ task[h] # "stopped"
      BY <2>1, <2>2 DEF ListedInv, ActiveRuns, Quiet
    <2>4. Live(h)
      BY <2>1, <2>2, <2>3 DEF Live, TypeInv, TypeOK, ManagerTypeOK
    <2>5. tasks[k[1]] = h
      BY <2>1, <2>4 DEF CallInv, LostInv, Quiet
    <2> QED
      BY <2>4, <2>5
  <1> QED
    BY <1>1, TypeInvariance, HandleInvariance, CallInvariance, ListedInvariance, PTL

================================================================================
