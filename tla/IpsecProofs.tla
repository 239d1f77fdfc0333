------------------------------ MODULE IpsecProofs -------------------------------
(***************************************************************************)
(* Proofs about Ipsec, for any number of API threads, tunnel ids and calls. *)
(***************************************************************************)
EXTENDS Ipsec, TLAPS

(* A call works on a tunnel, and the monitor checks one. *)
Working == mon \in MonitorSteps => mtid \in Tids

TypeInv == TypeOK /\ Working

LEMMA InitTypeInv == Init => TypeInv
  <1> SUFFICES ASSUME Init PROVE TypeInv
    OBVIOUS
  <1>1. sa \in [Tids -> {"none", "connecting", "established", "bare"}]
    BY DEF Init
  <1>2. mon \in {"off", "sleeping"}
    BY DEF Init
  <1>3. tunnels \subseteq Tids /\ conns \subseteq Tids
    BY DEF Init
  <1>4. /\ pc \in [Workers -> {"idle"} \cup Steps]
        /\ tid \in [Workers -> Tids \cup {NoTid}]
        /\ \A w \in Workers : tid[w] = NoTid <=> pc[w] = "idle"
    BY DEF Init
  <1>5. calls \in 0 .. MaxCalls
    BY IpsecAssumption DEF Init
  <1>6. TypeOK
    BY <1>1, <1>2, <1>3, <1>4, <1>5 DEF Init, TypeOK
  <1> QED
    BY <1>2, <1>6 DEF TypeInv, Working, MonitorSteps

(* The commands sent under client are those of its holder.                 *)
ClientHeld ==
    /\ \A w \in Workers :
          pc[w] \in {"loadShared", "loadConn", "initiate", "insert", "terminate", "unload"}
              => client = w
    /\ mon \in {"listSas", "initiate"} => client = Monitor

(* A charon that is gone has nothing loaded. *)
GoneIsEmpty == charon = "gone" => conns = {}

IpsecInv == ClientHeld /\ GoneIsEmpty /\ NoOrphan

LEMMA InitIpsecInv == Init => IpsecInv
  BY DEF Init, IpsecInv, ClientHeld, GoneIsEmpty, NoOrphan

--------------------------------------------------------------------------------
LEMMA CallTypeInv ==
    ASSUME TypeInv, NEW w \in Workers, NEW t \in Tids,
           CreateTunnel(w, t) \/ DestroyTunnel(w, t)
    PROVE  TypeInv'
  <1> USE IpsecAssumption DEF TypeInv, TypeOK, Working, MonitorSteps, Processes, Steps,
                              Call, Goto, charonVars
  <1>1. CASE CreateTunnel(w, t)
    BY <1>1 DEF CreateTunnel
  <1>2. CASE DestroyTunnel(w, t)
    BY <1>2 DEF DestroyTunnel
  <1> QED
    BY <1>1, <1>2

LEMMA CallStepTypeInv ==
    ASSUME TypeInv, NEW w \in Workers, CallStep(w)
    PROVE  TypeInv'
  <1> USE IpsecAssumption DEF TypeInv, TypeOK, Working, MonitorSteps, Processes, Steps,
                              Goto, Return, charonVars
  <1>1. CASE SetupTunnel(w)
    BY <1>1 DEF SetupTunnel
  <1>2. CASE SetupFails(w)
    BY <1>2 DEF SetupFails
  <1>3. CASE LoadShared(w)
    BY <1>3 DEF LoadShared
  <1>4. CASE LoadConn(w)
    BY <1>4 DEF LoadConn, Started
  <1>5. CASE Initiate(w)
    BY <1>5 DEF Initiate, Initiated, Started
  <1>6. CASE InsertTunnel(w)
    BY <1>6 DEF InsertTunnel
  <1>7. CASE TeardownTunnel(w)
    BY <1>7 DEF TeardownTunnel
  <1>8. CASE LockClient(w)
    BY <1>8 DEF LockClient
  <1>9. CASE Terminate(w)
    BY <1>9 DEF Terminate, Terminated
  <1>10. CASE UnloadConn(w)
    BY <1>10 DEF UnloadConn
  <1>11. CASE Unregister(w)
    BY <1>11 DEF Unregister
  <1> QED
    BY <1>1, <1>2, <1>3, <1>4, <1>5, <1>6, <1>7, <1>8, <1>9, <1>10, <1>11 DEF CallStep

LEMMA MonitorTypeInv ==
    ASSUME TypeInv, MonitorStep
    PROVE  TypeInv'
  <1> USE IpsecAssumption DEF TypeInv, TypeOK, Working, MonitorSteps, Processes,
                              MonitorGoto, charonVars
  <1>1. CASE MonitorTick
    BY <1>1 DEF MonitorTick
  <1>2. ASSUME NEW t \in todo, MonitorNext(t) PROVE TypeInv'
    BY <1>2 DEF MonitorNext
  <1>3. CASE MonitorDone
    BY <1>3 DEF MonitorDone
  <1>4. CASE CheckTunnel
    BY <1>4 DEF CheckTunnel
  <1>5. CASE CheckClient
    BY <1>5 DEF CheckClient
  <1>6. CASE ListSas
    BY <1>6 DEF ListSas
  <1>7. CASE Reinitiate
    BY <1>7 DEF Reinitiate
  <1>8. CASE RelockClient
    BY <1>8 DEF RelockClient
  <1>9. CASE InitiateAgain
    BY <1>9 DEF InitiateAgain, Initiated, Started
  <1>10. CASE MonitorStops
    BY <1>10 DEF MonitorStops
  <1> QED
    BY <1>1, <1>2, <1>3, <1>4, <1>5, <1>6, <1>7, <1>8, <1>9, <1>10 DEF MonitorStep

LEMMA CharonTypeInv ==
    ASSUME TypeInv,
           \/ \E t \in Tids : PeerChanges(t) \/ Connected(t) \/ PeerDead(t) \/ ChildClosed(t)
           \/ CharonRestarts
    PROVE  TypeInv'
  <1> USE DEF TypeInv, TypeOK, Working, MonitorSteps, daemonVars
  <1>1. ASSUME NEW t \in Tids, PeerChanges(t) PROVE TypeInv'
    BY <1>1 DEF PeerChanges
  <1>2. ASSUME NEW t \in Tids, Connected(t) PROVE TypeInv'
    BY <1>2 DEF Connected
  <1>3. ASSUME NEW t \in Tids, PeerDead(t) PROVE TypeInv'
    BY <1>3 DEF PeerDead
  <1>4. CASE CharonRestarts
    BY <1>4 DEF CharonRestarts
  <1>5. ASSUME NEW t \in Tids, ChildClosed(t) PROVE TypeInv'
    BY <1>5 DEF ChildClosed
  <1> QED
    BY <1>1, <1>2, <1>3, <1>4, <1>5

LEMMA NextTypeInv == TypeInv /\ [Next]_vars => TypeInv'
  <1> SUFFICES ASSUME TypeInv, [Next]_vars PROVE TypeInv'
    OBVIOUS
  <1>1. CASE Shutdown
    BY <1>1 DEF Shutdown, TypeInv, TypeOK, Working, charonVars
  <1>2. CASE UNCHANGED vars
    BY <1>2 DEF vars, daemonVars, charonVars, TypeInv, TypeOK, Working
  <1> QED
    BY <1>1, <1>2, CallTypeInv, CallStepTypeInv, MonitorTypeInv, CharonTypeInv DEF Next

LEMMA TypeInvariance == Spec => []TypeInv
  BY InitTypeInv, NextTypeInv, PTL DEF Spec

--------------------------------------------------------------------------------
LEMMA CallIpsecInv ==
    ASSUME TypeInv, IpsecInv, NEW w \in Workers, NEW t \in Tids,
           CreateTunnel(w, t) \/ DestroyTunnel(w, t)
    PROVE  IpsecInv'
  <1> USE DEF TypeInv, TypeOK, Call, Goto, charonVars
  <1>1. /\ pc[w] = "idle" /\ pc'[w] \in {"setup", "teardown"}
        /\ \A v \in Workers \ {w} : pc'[v] = pc[v] /\ tid'[v] = tid[v]
        /\ UNCHANGED <<client, mon, tunnels, charon, conns, sa>>
    BY DEF CreateTunnel, DestroyTunnel
  <1> QED
    BY <1>1 DEF IpsecInv, ClientHeld, GoneIsEmpty, NoOrphan

LEMMA SetupIpsecInv ==
    ASSUME TypeInv, IpsecInv, NEW w \in Workers,
           \/ SetupTunnel(w) \/ SetupFails(w) \/ LoadShared(w)
           \/ LoadConn(w) \/ Initiate(w) \/ InsertTunnel(w)
    PROVE  IpsecInv'
  <1> USE IpsecAssumption DEF TypeInv, TypeOK, Goto, Return, charonVars, Processes,
                              IpsecInv, ClientHeld
  <1>1. CASE SetupTunnel(w)
    BY <1>1 DEF SetupTunnel, GoneIsEmpty, NoOrphan
  <1>2. CASE SetupFails(w)
    BY <1>2 DEF SetupFails, Fails, GoneIsEmpty, NoOrphan
  <1>3. CASE LoadShared(w)
    BY <1>3 DEF LoadShared, GoneIsEmpty, NoOrphan
  <1>4. CASE LoadConn(w)
    BY <1>4 DEF LoadConn, Obeys, GoneIsEmpty, NoOrphan
  <1>5. CASE Initiate(w)
    BY <1>5 DEF Initiate, Initiated, GoneIsEmpty, NoOrphan
  <1>6. CASE InsertTunnel(w)
    BY <1>6 DEF InsertTunnel, GoneIsEmpty, NoOrphan
  <1> QED
    BY <1>1, <1>2, <1>3, <1>4, <1>5, <1>6

LEMMA TeardownIpsecInv ==
    ASSUME TypeInv, IpsecInv, NEW w \in Workers,
           \/ TeardownTunnel(w) \/ LockClient(w) \/ Terminate(w)
           \/ UnloadConn(w) \/ Unregister(w)
    PROVE  IpsecInv'
  <1> USE IpsecAssumption DEF TypeInv, TypeOK, Goto, Return, charonVars, Processes,
                              IpsecInv, ClientHeld
  <1>1. CASE TeardownTunnel(w)
    BY <1>1 DEF TeardownTunnel, GoneIsEmpty, NoOrphan
  <1>2. CASE LockClient(w)
    BY <1>2 DEF LockClient, GoneIsEmpty, NoOrphan
  <1>3. CASE Terminate(w)
    BY <1>3 DEF Terminate, Fails, GoneIsEmpty, NoOrphan
  <1>4. CASE UnloadConn(w)
    BY <1>4 DEF UnloadConn, Fails, GoneIsEmpty, NoOrphan
  <1>5. CASE Unregister(w)
    BY <1>5 DEF Unregister, GoneIsEmpty, NoOrphan
  <1> QED
    BY <1>1, <1>2, <1>3, <1>4, <1>5

LEMMA MonitorIpsecInv ==
    ASSUME TypeInv, IpsecInv, MonitorStep
    PROVE  IpsecInv'
  <1> USE IpsecAssumption DEF TypeInv, TypeOK, MonitorGoto, charonVars, Processes,
                              IpsecInv, ClientHeld
  <1>1. CASE InitiateAgain
    BY <1>1 DEF InitiateAgain, Initiated, GoneIsEmpty, NoOrphan
  <1>2. CASE ~InitiateAgain
    <2>1. /\ UNCHANGED <<pc, tid, tunnels, charon, conns, sa>>
          /\ ClientHeld'
      BY <1>2 DEF MonitorStep, MonitorTick, MonitorNext, MonitorDone, CheckTunnel,
                  CheckClient, ListSas, Reinitiate, RelockClient, MonitorStops
    <2> QED
      BY <2>1 DEF GoneIsEmpty, NoOrphan
  <1> QED
    BY <1>1, <1>2

LEMMA CharonIpsecInv ==
    ASSUME TypeInv, IpsecInv,
           \/ \E t \in Tids : PeerChanges(t) \/ Connected(t) \/ PeerDead(t) \/ ChildClosed(t)
           \/ CharonRestarts
    PROVE  IpsecInv'
  <1> USE DEF TypeInv, TypeOK, daemonVars, IpsecInv, ClientHeld
  <1>1. ASSUME NEW t \in Tids, PeerChanges(t) PROVE IpsecInv'
    BY <1>1 DEF PeerChanges, GoneIsEmpty, NoOrphan
  <1>2. ASSUME NEW t \in Tids, Connected(t) \/ PeerDead(t) \/ ChildClosed(t)
        PROVE  IpsecInv'
    BY <1>2 DEF Connected, PeerDead, ChildClosed, GoneIsEmpty, NoOrphan
  <1>3. CASE CharonRestarts
    BY <1>3 DEF CharonRestarts, GoneIsEmpty, NoOrphan
  <1> QED
    BY <1>1, <1>2, <1>3

LEMMA NextIpsecInv == TypeInv /\ IpsecInv /\ [Next]_vars => IpsecInv'
  <1> SUFFICES ASSUME TypeInv, IpsecInv, [Next]_vars PROVE IpsecInv'
    OBVIOUS
  <1>1. CASE Shutdown \/ UNCHANGED vars
    BY <1>1 DEF Shutdown, vars, daemonVars, charonVars, IpsecInv, ClientHeld,
                GoneIsEmpty, NoOrphan
  <1>2. ASSUME NEW w \in Workers, CallStep(w) PROVE IpsecInv'
    BY <1>2, SetupIpsecInv, TeardownIpsecInv DEF CallStep
  <1> QED
    BY <1>1, <1>2, CallIpsecInv, MonitorIpsecInv, CharonIpsecInv DEF Next

LEMMA IpsecInvariance == Spec => []IpsecInv
  BY TypeInvariance, InitIpsecInv, NextIpsecInv, PTL DEF Spec

--------------------------------------------------------------------------------
(* The state of IPsec stays well formed; in particular only the monitor    *)
(* keeps the tunnels mutex from one step to another.                       *)
THEOREM IpsecTypeCorrect == Spec => []TypeOK
  <1>1. TypeInv => TypeOK
    BY DEF TypeInv
  <1> QED
    BY <1>1, TypeInvariance, PTL

(* Who starts an SA holds client, so nobody is between terminate and       *)
(* unload-conn, and has the connection loaded.                             *)
LEMMA StartsApart ==
    ASSUME TypeInv, ClientHeld, [Next]_vars, NEW t \in Tids,
           sa[t] \in {"none", "bare"}, sa'[t] = "connecting"
    PROVE  t \in conns' /\ ~\E w \in Workers : tid[w] = t /\ pc[w] = "unload"
  <1> USE DEF TypeInv, TypeOK
  <1>1. ASSUME NEW w \in Workers, CallStep(w)
        PROVE  /\ t \in conns' /\ client = w
               /\ pc[w] \in {"loadConn", "initiate"}
    <2>1. CASE LoadConn(w)
      BY <2>1 DEF LoadConn, Started, Goto, ClientHeld
    <2>2. CASE Initiate(w)
      BY <2>2 DEF Initiate, Initiated, Started, Goto, ClientHeld
    <2>3. CASE Terminate(w) \/ UnloadConn(w)
      BY <2>3 DEF Terminate, Terminated, UnloadConn
    <2>4. CASE SetupTunnel(w) \/ SetupFails(w) \/ LoadShared(w) \/ InsertTunnel(w)
               \/ TeardownTunnel(w) \/ LockClient(w) \/ Unregister(w)
      BY <2>4 DEF SetupTunnel, SetupFails, LoadShared, InsertTunnel, TeardownTunnel,
                  LockClient, Unregister, charonVars
    <2> QED
      BY <1>1, <2>1, <2>2, <2>3, <2>4 DEF CallStep
  <1>2. CASE MonitorStep
    <2>1. InitiateAgain
      BY <1>2 DEF MonitorStep, MonitorTick, MonitorNext, MonitorDone, CheckTunnel,
                  CheckClient, ListSas, Reinitiate, RelockClient, MonitorStops, charonVars
    <2>2. t \in conns' /\ mon = "initiate"
      BY <2>1 DEF InitiateAgain, Initiated, Started, MonitorGoto
    <2> QED
      BY <2>2, IpsecAssumption DEF ClientHeld
  <1>3. ASSUME NEW w \in Workers, NEW r \in Tids, CreateTunnel(w, r) \/ DestroyTunnel(w, r)
        PROVE  FALSE
    BY <1>3 DEF CreateTunnel, DestroyTunnel, charonVars
  <1>4. ASSUME NEW r \in Tids,
               PeerChanges(r) \/ Connected(r) \/ PeerDead(r) \/ ChildClosed(r)
        PROVE  FALSE
    BY <1>4 DEF PeerChanges, Connected, PeerDead, ChildClosed
  <1>5. CASE Shutdown \/ CharonRestarts \/ UNCHANGED vars
    BY <1>5 DEF Shutdown, CharonRestarts, vars, charonVars
  <1> QED
    BY <1>1, <1>2, <1>3, <1>4, <1>5 DEF Next, ClientHeld

(* Nothing, and not what the monitor was about to initiate, starts the SA  *)
(* of a tunnel that is being torn down, or of one not loaded in charon.    *)
THEOREM TeardownStartsNone == Spec => NoneStartsInTeardown
  <1> DEFINE Apart == \A t \in Tids :
                 sa[t] \in {"none", "bare"} /\ sa'[t] = "connecting" =>
                     /\ t \in conns'
                     /\ ~\E w \in Workers : tid[w] = t /\ pc[w] = "unload"
  <1>1. TypeInv /\ IpsecInv /\ [Next]_vars => [Apart]_vars
    BY StartsApart DEF IpsecInv
  <1> QED
    BY <1>1, TypeInvariance, IpsecInvariance, PTL DEF Spec, NoneStartsInTeardown

(* No connection stays in charon without a tunnel or a call that answers   *)
(* for it.                                                                 *)
THEOREM ConnectionsAreOwned == Spec => []NoOrphan
  <1>1. IpsecInv => NoOrphan
    BY DEF IpsecInv
  <1> QED
    BY <1>1, IpsecInvariance, PTL

================================================================================
