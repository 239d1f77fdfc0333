--------------------------------- MODULE Ipsec ---------------------------------
(***************************************************************************)
(* IPsec: ipsec/mod.rs and ipsec/monitor.rs, called by create_tunnel and   *)
(* destroy_tunnel of tunnel/manager.rs, over strongSwan's charon.          *)
(*                                                                         *)
(* IpsecManager has two mutexes, client (the VICI connection) and tunnels  *)
(* (the configured tunnels).  A method that takes tunnels for a moment     *)
(* takes it in one action here; the monitor's is_sa_established keeps it   *)
(* while it waits for client, and setup_tunnel waits for it while it keeps *)
(* client.  A VICI command is one action.  The model starts where startup  *)
(* ends, and has only tunnels with an ipsec_secret.                        *)
(***************************************************************************)
EXTENDS Naturals, FiniteSets

CONSTANTS
    Workers,         \* threads in an API call
    Monitor,         \* the monitor task
    Nobody,          \* not a process
    Tids,            \* tunnel ids
    NoTid,           \* not a tunnel id
    MaxCalls         \* bound: API calls in a behaviour

Processes == Workers \cup {Monitor}

ASSUME IpsecAssumption ==
    /\ Monitor \notin Workers
    /\ Nobody \notin Processes
    /\ NoTid \notin Tids
    /\ MaxCalls \in Nat

VARIABLES
    client,          \* who holds IpsecManager.client
    lock,            \* who holds IpsecManager.tunnels
    tunnels,         \*   and the tunnels in it
    known,           \* tunnel ids in the registry
    pc,              \* where each call is
    tid,             \* the tunnel it is for
    calls,           \* calls so far
    mon,             \* where the monitor is
    todo,            \* the tunnels it has still to check
    mtid,            \* the one it is checking
    stopping,        \* the root token is cancelled
    charon,          \* how charon answers this daemon
    conns,           \* connections loaded in charon
    sa,              \* the IKE SA of each connection, bare without its CHILD_SA
    peers            \* tunnels whose peer can be reached

daemonVars == <<client, lock, tunnels, known, pc, tid, calls, mon, todo, mtid, stopping>>
charonVars == <<charon, conns, sa, peers>>
vars == <<daemonVars, charonVars>>

Steps == {"setup", "loadShared", "loadConn", "initiate", "insert",
          "teardown", "lockClient", "terminate", "unload", "unregister"}
MonitorSteps == {"lockTunnels", "lockClient", "listSas", "reinitiate",
                 "relockClient", "initiate"}

TypeOK ==
    /\ client \in Processes \cup {Nobody}
    /\ lock \in {Monitor, Nobody}
    /\ tunnels \subseteq Tids
    /\ known \subseteq Tids
    /\ pc \in [Workers -> {"idle"} \cup Steps]
    /\ tid \in [Workers -> Tids \cup {NoTid}]
    /\ \A w \in Workers : tid[w] = NoTid <=> pc[w] = "idle"
    /\ calls \in 0 .. MaxCalls
    /\ mon \in {"off", "sleeping", "next"} \cup MonitorSteps
    /\ todo \subseteq Tids
    /\ mtid \in Tids \cup {NoTid}
    /\ stopping \in BOOLEAN
    /\ charon \in {"reliable", "failing", "gone"}
    /\ conns \subseteq Tids
    /\ sa \in [Tids -> {"none", "connecting", "established", "bare"}]
    /\ peers \subseteq Tids

(* main() set up each startup tunnel with an ipsec_secret, and started the *)
(* monitor if the configuration file has such a tunnel, enabled or not.    *)
(* Charon may not have been there, or may have refused some of them.       *)
Init ==
    /\ known \in SUBSET Tids
    /\ charon \in {"reliable", "failing", "gone"}
    /\ \/ charon = "reliable" /\ tunnels = known
       \/ charon = "failing" /\ tunnels \in SUBSET known
       \/ charon = "gone" /\ tunnels = {}
    /\ conns = tunnels
    /\ sa \in [Tids -> {"none", "connecting"}]
    /\ \A t \in Tids : sa[t] = "connecting" => t \in conns
    /\ \/ mon = "sleeping"
       \/ mon = "off" /\ known = {}
    /\ peers \in SUBSET Tids
    /\ client = Nobody
    /\ lock = Nobody
    /\ pc = [w \in Workers |-> "idle"]
    /\ tid = [w \in Workers |-> NoTid]
    /\ calls = 0
    /\ todo = {}
    /\ mtid = NoTid
    /\ stopping = FALSE

--------------------------------------------------------------------------------
Goto(w, from, to) ==
    /\ pc[w] = from
    /\ pc' = [pc EXCEPT ![w] = to]

(* The call returns. *)
Return(w, from) ==
    /\ Goto(w, from, "idle")
    /\ tid' = [tid EXCEPT ![w] = NoTid]

Call(w, t, step) ==
    /\ ~stopping
    /\ calls < MaxCalls
    /\ calls' = calls + 1
    /\ Goto(w, "idle", step)
    /\ tid' = [tid EXCEPT ![w] = t]

Fails == charon \in {"failing", "gone"}
Obeys == charon \in {"reliable", "failing"}

(* create_tunnel, up to its call of setup_tunnel: the tunnel is registered *)
(* and running, and may be destroyed again from here on.                   *)
CreateTunnel(w, t) ==
    /\ t \notin known
    /\ known' = known \cup {t}
    /\ Call(w, t, "setup")
    /\ UNCHANGED <<client, lock, tunnels, mon, todo, mtid, stopping, charonVars>>

SetupTunnel(w) ==
    /\ client = Nobody
    /\ client' = w
    /\ Goto(w, "setup", "loadShared")
    /\ UNCHANGED <<lock, tunnels, known, tid, calls, mon, todo, mtid, stopping, charonVars>>

(* Mutant: a refused command is tried again from the start. *)
SetupRetried(w) ==
    /\ Fails
    /\ pc[w] \in {"loadShared", "loadConn"}
    /\ Goto(w, pc[w], "loadShared")
    /\ UNCHANGED <<client, lock, tunnels, known, tid, calls, mon, todo, mtid,
                   stopping, charonVars>>

(* The error is logged and the tunnel goes on without IPsec. *)
SetupFails(w) ==
    /\ Fails
    /\ pc[w] \in {"loadShared", "loadConn"}
    /\ Return(w, pc[w])
    /\ client' = Nobody
    /\ UNCHANGED <<lock, tunnels, known, calls, mon, todo, mtid, stopping, charonVars>>

LoadShared(w) ==
    /\ Obeys
    /\ Goto(w, "loadShared", "loadConn")
    /\ UNCHANGED <<client, lock, tunnels, known, tid, calls, mon, todo, mtid,
                   stopping, charonVars>>

(* An SA is started for a tunnel that has none, or none for its traffic. *)
Started(t) == [sa EXCEPT ![t] = IF @ \in {"none", "bare"} THEN "connecting" ELSE @]

(* Charon starts to connect by itself (start_action). *)
LoadConn(w) ==
    /\ Obeys
    /\ Goto(w, "loadConn", "initiate")
    /\ conns' = conns \cup {tid[w]}
    /\ sa' = Started(tid[w])
    /\ UNCHANGED <<client, lock, tunnels, known, tid, calls, mon, todo, mtid,
                   stopping, charon, peers>>

(* What charon does with initiate: a connection must be loaded. *)
Initiated(t) == IF t \in conns THEN Started(t) ELSE sa

(* Mutant: a failure to initiate is returned like the others. *)
InitiateChecked(w) ==
    /\ \/ Goto(w, "initiate", "insert") /\ UNCHANGED <<client, tid>>
       \/ Return(w, "initiate") /\ client' = Nobody
    /\ sa' = Initiated(tid[w])
    /\ UNCHANGED <<lock, tunnels, known, calls, mon, todo, mtid,
                   stopping, charon, conns, peers>>

(* Its failure, or time-out, is only logged. *)
Initiate(w) ==
    /\ Goto(w, "initiate", "insert")
    /\ \/ Obeys /\ sa' = Initiated(tid[w])
       \/ Fails /\ UNCHANGED sa
    /\ UNCHANGED <<client, lock, tunnels, known, tid, calls, mon, todo, mtid,
                   stopping, charon, conns, peers>>

InsertTunnel(w) ==
    /\ lock = Nobody
    /\ Return(w, "insert")
    /\ tunnels' = tunnels \cup {tid[w]}
    /\ client' = Nobody
    /\ UNCHANGED <<lock, known, calls, mon, todo, mtid, stopping, charonVars>>

--------------------------------------------------------------------------------
DestroyTunnel(w, t) ==
    /\ Call(w, t, "teardown")
    /\ UNCHANGED <<client, lock, tunnels, known, mon, todo, mtid, stopping, charonVars>>

(* Mutant: the guard of the map is kept while client is locked. *)
TeardownTunnelNested(w) ==
    /\ lock = Nobody
    /\ Goto(w, "teardown", IF tid[w] \in tunnels THEN "lockClient" ELSE "unregister")
    /\ lock' = IF tid[w] \in tunnels THEN w ELSE Nobody
    /\ tunnels' = tunnels \ {tid[w]}
    /\ UNCHANGED <<client, known, tid, calls, mon, todo, mtid, stopping, charonVars>>

(* The guard of the map is dropped before client is locked. *)
TeardownTunnel(w) ==
    /\ lock = Nobody
    /\ Goto(w, "teardown", IF tid[w] \in tunnels THEN "lockClient" ELSE "unregister")
    /\ tunnels' = tunnels \ {tid[w]}
    /\ UNCHANGED <<client, lock, known, tid, calls, mon, todo, mtid, stopping, charonVars>>

LockClient(w) ==
    /\ client = Nobody
    /\ client' = w
    /\ Goto(w, "lockClient", "terminate")
    /\ UNCHANGED <<lock, tunnels, known, tid, calls, mon, todo, mtid, stopping, charonVars>>

(* What charon does with terminate, which names the child: the CHILD_SA is *)
(* closed and the IKE SA stays.  While the SA is connecting there is no    *)
(* CHILD_SA to match, the command fails, and that is only logged.          *)
Terminated(t) == [sa EXCEPT ![t] = IF @ = "established" THEN "bare" ELSE @]

(* Mutant: client is released between the two commands. *)
TerminateReleased(w) ==
    /\ Goto(w, "terminate", "unload")
    /\ \/ Obeys /\ sa' = Terminated(tid[w])
       \/ Fails /\ UNCHANGED sa
    /\ client' = Nobody
    /\ UNCHANGED <<lock, tunnels, known, tid, calls, mon, todo, mtid,
                   stopping, charon, conns, peers>>

Terminate(w) ==
    /\ Goto(w, "terminate", "unload")
    /\ \/ Obeys /\ sa' = Terminated(tid[w])
       \/ Fails /\ UNCHANGED sa
    /\ UNCHANGED <<client, lock, tunnels, known, tid, calls, mon, todo, mtid,
                   stopping, charon, conns, peers>>

(* Unloading leaves the SAs of the connection alone, or closes one that    *)
(* still has its CHILD_SA (charon undoing the start_action).               *)
UnloadConn(w) ==
    /\ Goto(w, "unload", "unregister")
    /\ \/ /\ Obeys
          /\ conns' = conns \ {tid[w]}
          /\ \/ UNCHANGED sa
             \/ sa[tid[w]] = "established" /\ sa' = [sa EXCEPT ![tid[w]] = "none"]
       \/ Fails /\ UNCHANGED <<conns, sa>>
    /\ client' = Nobody
    /\ UNCHANGED <<lock, tunnels, known, tid, calls, mon, todo, mtid,
                   stopping, charon, peers>>

(* The rest of destroy_tunnel. *)
Unregister(w) ==
    /\ Return(w, "unregister")
    /\ known' = known \ {tid[w]}
    /\ UNCHANGED <<client, lock, tunnels, calls, mon, todo, mtid, stopping, charonVars>>

--------------------------------------------------------------------------------
(* The monitor. *)
MonitorGoto(from, to) == mon = from /\ mon' = to

(* Every 60 seconds: tunnel_ids(). *)
MonitorTick ==
    /\ ~stopping
    /\ lock = Nobody
    /\ MonitorGoto("sleeping", "next")
    /\ todo' = tunnels
    /\ UNCHANGED <<client, lock, tunnels, known, pc, tid, calls, mtid, stopping, charonVars>>

MonitorNext(t) ==
    /\ t \in todo
    /\ MonitorGoto("next", "lockTunnels")
    /\ mtid' = t
    /\ todo' = todo \ {t}
    /\ UNCHANGED <<client, lock, tunnels, known, pc, tid, calls, stopping, charonVars>>

MonitorDone ==
    /\ todo = {}
    /\ MonitorGoto("next", "sleeping")
    /\ mtid' = NoTid
    /\ UNCHANGED <<client, lock, tunnels, known, pc, tid, calls, todo, stopping, charonVars>>

(* is_sa_established: a tunnel no longer there has no SA. *)
CheckTunnel ==
    /\ lock = Nobody
    /\ IF mtid \in tunnels
       THEN MonitorGoto("lockTunnels", "lockClient") /\ lock' = Monitor
       ELSE MonitorGoto("lockTunnels", "reinitiate") /\ UNCHANGED lock
    /\ UNCHANGED <<client, tunnels, known, pc, tid, calls, todo, mtid, stopping, charonVars>>

CheckClient ==
    /\ client = Nobody
    /\ MonitorGoto("lockClient", "listSas")
    /\ client' = Monitor
    /\ UNCHANGED <<lock, tunnels, known, pc, tid, calls, todo, mtid, stopping, charonVars>>

(* Mutant: a tunnel found without an SA is left for the next round. *)
ListSasOnly ==
    /\ MonitorGoto("listSas", "next")
    /\ client' = Nobody
    /\ lock' = Nobody
    /\ UNCHANGED <<tunnels, known, pc, tid, calls, todo, mtid, stopping, charonVars>>

(* list-sas names the connection whether its SA is established, without    *)
(* its CHILD_SA or still connecting, and all are taken for established; no *)
(* error is.                                                               *)
ListSas ==
    /\ \/ MonitorGoto("listSas", "next") /\ Obeys /\ sa[mtid] # "none"
       \/ MonitorGoto("listSas", "reinitiate") /\ (Fails \/ sa[mtid] = "none")
    /\ client' = Nobody
    /\ lock' = Nobody
    /\ UNCHANGED <<tunnels, known, pc, tid, calls, todo, mtid, stopping, charonVars>>

(* reinitiate: the message is built under tunnels, and sent under client. *)
Reinitiate ==
    /\ lock = Nobody
    /\ MonitorGoto("reinitiate", IF mtid \in tunnels THEN "relockClient" ELSE "next")
    /\ UNCHANGED <<client, lock, tunnels, known, pc, tid, calls, todo, mtid, stopping, charonVars>>

RelockClient ==
    /\ client = Nobody
    /\ MonitorGoto("relockClient", "initiate")
    /\ client' = Monitor
    /\ UNCHANGED <<lock, tunnels, known, pc, tid, calls, todo, mtid, stopping, charonVars>>

InitiateAgain ==
    /\ MonitorGoto("initiate", "next")
    /\ \/ Obeys /\ sa' = Initiated(mtid)
       \/ Fails /\ UNCHANGED sa
    /\ client' = Nobody
    /\ UNCHANGED <<lock, tunnels, known, pc, tid, calls, todo, mtid, stopping,
                   charon, conns, peers>>

Shutdown ==
    /\ ~stopping
    /\ stopping' = TRUE
    /\ UNCHANGED <<client, lock, tunnels, known, pc, tid, calls, mon, todo, mtid, charonVars>>

MonitorStops ==
    /\ stopping
    /\ MonitorGoto("sleeping", "off")
    /\ UNCHANGED <<client, lock, tunnels, known, pc, tid, calls, todo, mtid, stopping, charonVars>>

--------------------------------------------------------------------------------
(* Charon and the peers. *)
PeerChanges(t) ==
    /\ peers' = IF t \in peers THEN peers \ {t} ELSE peers \cup {t}
    /\ UNCHANGED <<daemonVars, charon, conns, sa>>

(* Connecting succeeds, or is given up. *)
Connected(t) ==
    /\ sa[t] = "connecting"
    /\ sa' = [sa EXCEPT ![t] = IF t \in peers THEN "established" ELSE "none"]
    /\ UNCHANGED <<daemonVars, charon, conns, peers>>

(* The peer is found dead (DPD): charon connects again for a CHILD_SA      *)
(* (dpd_action) or not.                                                    *)
PeerDead(t) ==
    /\ t \notin peers
    /\ \/ sa[t] = "established" /\ sa' = [sa EXCEPT ![t] = "connecting"]
       \/ sa[t] \in {"established", "bare"} /\ sa' = [sa EXCEPT ![t] = "none"]
    /\ UNCHANGED <<daemonVars, charon, conns, peers>>

(* The peer closes the CHILD_SA alone. *)
ChildClosed(t) ==
    /\ t \in peers
    /\ sa[t] = "established"
    /\ sa' = [sa EXCEPT ![t] = "bare"]
    /\ UNCHANGED <<daemonVars, charon, conns, peers>>

(* Charon restarts or dies; the VICI connection is never made again. *)
CharonRestarts ==
    /\ charon # "gone"
    /\ charon' = "gone"
    /\ conns' = {}
    /\ sa' = [t \in Tids |-> "none"]
    /\ UNCHANGED <<daemonVars, peers>>

--------------------------------------------------------------------------------
CallStep(w) ==
    \/ SetupTunnel(w)
    \/ SetupFails(w)
    \/ LoadShared(w)
    \/ LoadConn(w)
    \/ Initiate(w)
    \/ InsertTunnel(w)
    \/ TeardownTunnel(w)
    \/ LockClient(w)
    \/ Terminate(w)
    \/ UnloadConn(w)
    \/ Unregister(w)

MonitorStep ==
    \/ MonitorTick
    \/ \E t \in todo : MonitorNext(t)
    \/ MonitorDone
    \/ CheckTunnel
    \/ CheckClient
    \/ ListSas
    \/ Reinitiate
    \/ RelockClient
    \/ InitiateAgain
    \/ MonitorStops

Next ==
    \/ \E w \in Workers, t \in Tids : CreateTunnel(w, t) \/ DestroyTunnel(w, t)
    \/ \E w \in Workers : CallStep(w)
    \/ MonitorStep
    \/ Shutdown
    \/ \E t \in Tids : PeerChanges(t) \/ Connected(t) \/ PeerDead(t) \/ ChildClosed(t)
    \/ CharonRestarts

Spec == Init /\ [][Next]_vars

(* Threads are scheduled, and one that waits for a mutex released again    *)
(* and again gets it: the monitor leaves both free for a minute between    *)
(* rounds and calls are rare.  Charon decides what it is connecting; a     *)
(* VICI command answers or times out.                                      *)
FairSpec ==
    /\ Spec
    /\ \A w \in Workers : SF_vars(CallStep(w))
    /\ SF_vars(MonitorStep)
    /\ \A t \in Tids : WF_vars(Connected(t))

--------------------------------------------------------------------------------
(* Properties. *)

(* What the monitor decided to re-initiate before DeleteTunnel (mod.rs:142) *)
(* starts no SA between the terminate and the unload-conn (mod.rs:101 to    *)
(* 108), nor after them.  This is less than an SA that ends: what the code  *)
(* calls "terminate SA" (mod.rs:85) leaves the IKE SA, and one that is      *)
(* still connecting comes up after the tunnel is gone.                      *)
NoneStartsInTeardown ==
    [][\A t \in Tids :
          sa[t] \in {"none", "bare"} /\ sa'[t] = "connecting" =>
              /\ t \in conns'
              /\ ~\E w \in Workers : tid[w] = t /\ pc[w] = "unload"]_vars

(* Every connection loaded in charon is one the manager tracks, and so can *)
(* unload, or one a call in progress is about to track or to unload,       *)
(* whatever calls for the same tunnel id overlap (mod.rs:81 and 87).       *)
NoOrphan ==
    charon # "failing" => \A t \in conns :
        \/ t \in tunnels
        \/ \E w \in Workers :
              /\ tid[w] = t
              /\ pc[w] \in {"initiate", "insert", "lockClient", "terminate", "unload"}

(* The monitor waits for client with tunnels locked and a call of          *)
(* setup_tunnel waits for tunnels with client locked.                      *)
LockCycle ==
    /\ mon = "lockClient"
    /\ \E w \in Workers : client = w /\ pc[w] = "insert"

(* CreateTunnel and DeleteTunnel return (manager.rs:255 and 266), unless   *)
(* the two locks are being taken in opposite orders.                       *)
CallsReturn == \A w \in Workers : pc[w] # "idle" ~> (pc[w] = "idle" \/ LockCycle)

(* "If the SA is lost (peer reboot, network blip), the daemon              *)
(* automatically re-initiates negotiation via VICI" (docs/guides/IPSEC.md, *)
(* line 132): while its peer is reachable and its connection stays loaded, *)
(* a tracked tunnel has an IKE SA again and again, if the monitor runs     *)
(* and the locks are not taken in opposite orders.  The loss of the        *)
(* CHILD_SA alone the monitor does not see (vici.rs:114).                  *)
MonitorRestores ==
    \A t \in Tids : []<>( \/ sa[t] \in {"established", "bare"}
                          \/ t \notin tunnels \/ t \notin conns \/ t \notin peers
                          \/ charon # "reliable" \/ mon = "off" \/ LockCycle )

(* "Every 60 seconds, checks all IPsec tunnels and re-initiates any that   *)
(* have lost their SA" (monitor.rs:14): a round of the monitor ends.       *)
MonitorRoundEnds == mon # "sleeping" ~> mon \in {"sleeping", "off"}

================================================================================
