----------------------------- MODULE DaemonStartup -----------------------------
(***************************************************************************)
(* The daemon's startup, run() of eoip-rs/src/main.rs, against the helper  *)
(* of HelperLink: the handshake, one exchange per enabled tunnel of the    *)
(* configuration file, the tunnels' tasks, and the wait for shutdown.      *)
(*                                                                         *)
(* One thread runs all of it and blocks in each read.  The signal handler  *)
(* is a task on another thread and only cancels the root token, which      *)
(* this thread looks at when startup is over.  IPsec setup is left to the  *)
(* Ipsec component and the keepalive to Keepalive.                         *)
(***************************************************************************)
EXTENDS HelperLink, TunnelState, FiniteSets

CONSTANTS
    Tids,            \* tunnel ids
    Peers,           \* remote addresses
    Configs          \* the [[tunnel]] sections a file may have

Entries == [tid : Tids, peer : Peers, enabled : BOOLEAN]
Keys == Tids \X Peers

(* A tunnel is identified by the place of its section in the file.         *)
ASSUME StartupAssumption ==
    /\ NoRequest = 0
    /\ \A c \in Configs : c \in Seq(Entries) /\ DOMAIN c \subseteq Requests

VARIABLES
    config,          \* the configuration file; never changes
    pc,              \* where the main thread is
    next,            \* the section it is at
    registry,        \* TunnelRegistry.map
    state,           \* TunnelHandle.state
    tap,             \* the tunnel whose TAP was received for a section
    rawV4,           \* raw_v4_fd: the kind of socket it is
    rawV6,           \* raw_v6_fd
    made,            \* startup_tunnels
    serves,          \* the handle that the tasks on a section's TAP use
    tasks,           \* TunnelManager.tasks
    stopping         \* the root token is cancelled

startupVars == <<config, pc, next, registry, state, tap, rawV4, rawV6,
                 made, serves, tasks, stopping>>
vars == <<startupVars, linkVars>>

Sockets == {"none", "TapCreated", "RawSocket4", "RawSocket6"}

TypeOK ==
    /\ LinkTypeOK
    /\ config \in Configs
    /\ pc \in {"handshake", "tunnel", "send", "tap", "rawV4", "rawV6", "activate",
               "spawn", "running", "exited", "failed"}
    /\ next \in 1 .. Len(config) + 1
    /\ registry \in [Keys -> Requests \cup {NoRequest}]
    /\ state \in [Requests -> TunnelStates]
    /\ tap \in [Requests -> Requests \cup {NoRequest}]
    /\ rawV4 \in Sockets
    /\ rawV6 \in Sockets
    /\ made \in Seq(Requests)
    /\ serves \in [Requests -> Requests \cup {NoRequest}]
    /\ tasks \in [Tids -> Requests \cup {NoRequest}]
    /\ stopping \in BOOLEAN

(* The socket is connected; the helper has yet to say it is ready. *)
Init ==
    /\ LinkInit
    /\ config \in Configs
    /\ pc = "handshake"
    /\ next = 1
    /\ registry = [k \in Keys |-> NoRequest]
    /\ state = [r \in Requests |-> "Initializing"]
    /\ tap = [r \in Requests |-> NoRequest]
    /\ rawV4 = "none"
    /\ rawV6 = "none"
    /\ made = <<>>
    /\ serves = [r \in Requests |-> NoRequest]
    /\ tasks = [t \in Tids |-> NoRequest]
    /\ stopping = FALSE

KeyOf(i) == <<config[i].tid, config[i].peer>>

(* recv_msg_with_fd returns the first message m of a read of n, with the   *)
(* descriptor of the last.                                                 *)
Receive(n) ==
    /\ ReadsUpTo(toDaemon, n)
    /\ toDaemon' = After(toDaemon, n)
    /\ UNCHANGED <<toHelper, helperVars>>

FdOf(n) == IF CarriesFd(toDaemon[n]) THEN toDaemon[n].kind ELSE "none"

--------------------------------------------------------------------------------
Handshake(n) ==
    /\ pc = "handshake"
    /\ Receive(n)
    /\ pc' = IF Head(toDaemon).kind = "HelperReady" THEN "tunnel" ELSE "failed"
    /\ UNCHANGED <<config, next, registry, state, tap, rawV4, rawV6, made,
                   serves, tasks, stopping>>

(* Mutant: the read for the IPv4 socket is tried again. *)
ReceiveFailsRetried ==
    /\ pc \in {"handshake", "tap"}
    /\ EndOfStream
    /\ pc' = "failed"
    /\ UNCHANGED <<config, next, registry, state, tap, rawV4, rawV6, made,
                   serves, tasks, stopping, linkVars>>

(* A failure of any read but the one for the IPv6 socket ends the daemon.  *)
ReceiveFails ==
    /\ pc \in {"handshake", "tap", "rawV4"}
    /\ EndOfStream
    /\ pc' = "failed"
    /\ UNCHANGED <<config, next, registry, state, tap, rawV4, rawV6, made,
                   serves, tasks, stopping, linkVars>>

SkipDisabled ==
    /\ pc = "tunnel"
    /\ next \in DOMAIN config /\ ~config[next].enabled
    /\ next' = next + 1
    /\ UNCHANGED <<config, pc, registry, state, tap, rawV4, rawV6, made,
                   serves, tasks, stopping, linkVars>>

(* The handle is inserted over any handle with the same key. *)
RegisterTunnel ==
    /\ pc = "tunnel"
    /\ next \in DOMAIN config /\ config[next].enabled
    /\ registry' = [registry EXCEPT ![KeyOf(next)] = next]
    /\ pc' = "send"
    /\ UNCHANGED <<config, next, state, tap, rawV4, rawV6, made, serves, tasks,
                   stopping, linkVars>>

SendCreateTunnel ==
    /\ pc = "send"
    /\ IF Connected
       THEN /\ toHelper' = Append(toHelper, next)
            /\ pc' = "tap"
       ELSE /\ pc' = "failed"
            /\ UNCHANGED toHelper
    /\ UNCHANGED <<config, next, registry, state, tap, rawV4, rawV6, made, serves,
                   tasks, stopping, toDaemon, helperVars>>

(* Mutant: the kind of the answer is not looked at. *)
ReceiveTapUnchecked(n) ==
    /\ pc = "tap"
    /\ Receive(n)
    /\ tap' = [tap EXCEPT ![next] = Head(toDaemon).for]
    /\ pc' = IF rawV4 = "none" THEN "rawV4" ELSE "activate"
    /\ UNCHANGED <<config, next, registry, state, rawV4, rawV6, made, serves,
                   tasks, stopping>>

(* The raw sockets are expected until one came as the IPv4 socket.         *)
ReceiveTap(n) ==
    /\ pc = "tap"
    /\ Receive(n)
    /\ IF Head(toDaemon).kind = "TapCreated"
       THEN /\ tap' = [tap EXCEPT ![next] = Head(toDaemon).for]
            /\ pc' = IF rawV4 = "none" THEN "rawV4" ELSE "activate"
       ELSE /\ pc' = "failed"
            /\ UNCHANGED tap
    /\ UNCHANGED <<config, next, registry, state, rawV4, rawV6, made, serves,
                   tasks, stopping>>

(* Whatever the message is, its descriptor becomes the IPv4 socket.        *)
ReceiveRawV4(n) ==
    /\ pc = "rawV4"
    /\ Receive(n)
    /\ rawV4' = FdOf(n)
    /\ pc' = "rawV6"
    /\ UNCHANGED <<config, next, registry, state, tap, rawV6, made, serves,
                   tasks, stopping>>

ReceiveRawV6(n) ==
    /\ pc = "rawV6"
    /\ Receive(n)
    /\ rawV6' = IF Head(toDaemon).kind = "RawSocket6" THEN FdOf(n) ELSE rawV6
    /\ pc' = "activate"
    /\ UNCHANGED <<config, next, registry, state, tap, rawV4, made, serves,
                   tasks, stopping>>

NoRawV6 ==
    /\ pc = "rawV6"
    /\ EndOfStream
    /\ pc' = "activate"
    /\ UNCHANGED <<config, next, registry, state, tap, rawV4, rawV6, made,
                   serves, tasks, stopping, linkVars>>

(* Both transitions: no other thread writes the state yet. *)
ActivateTunnel ==
    /\ pc = "activate"
    /\ state' = [state EXCEPT ![next] =
                    AfterTransition(AfterTransition(@, "Initializing", "Configured"),
                                    "Configured", "Active")]
    /\ made' = Append(made, next)
    /\ next' = next + 1
    /\ pc' = "tunnel"
    /\ UNCHANGED <<config, registry, tap, rawV4, rawV6, serves, tasks, stopping, linkVars>>

(* Mutant: the second loop goes on counting where the first ended. *)
TunnelsMadeNoReset ==
    /\ pc = "tunnel"
    /\ next = Len(config) + 1
    /\ pc' = "spawn"
    /\ next' = next + 1
    /\ UNCHANGED <<config, registry, state, tap, rawV4, rawV6, made, serves,
                   tasks, stopping, linkVars>>

TunnelsMade ==
    /\ pc = "tunnel"
    /\ next = Len(config) + 1
    /\ pc' = "spawn"
    /\ next' = 1
    /\ UNCHANGED <<config, registry, state, tap, rawV4, rawV6, made, serves,
                   tasks, stopping, linkVars>>

--------------------------------------------------------------------------------
(* Mutant: the entries are those of the peer, not of the tunnel id. *)
SpawnTasksByPeer(h) ==
    /\ pc = "spawn"
    /\ next \in DOMAIN made
    /\ LET r == made[next]
       IN  /\ \E k \in Keys : k[2] = config[r].peer /\ registry[k] = h
           /\ serves' = [serves EXCEPT ![r] = h]
           /\ tasks' = [tasks EXCEPT ![config[r].tid] = r]
    /\ next' = next + 1
    /\ UNCHANGED <<config, pc, registry, state, tap, rawV4, rawV6, made,
                   stopping, linkVars>>

(* The tasks of the next startup tunnel: its TAP, with the first handle    *)
(* find_by_tunnel_id returns for its id, in the order of the hash map.     *)
SpawnTasks(h) ==
    /\ pc = "spawn"
    /\ next \in DOMAIN made
    /\ LET r == made[next]
       IN  /\ \E k \in Keys : k[1] = config[r].tid /\ registry[k] = h
           /\ serves' = [serves EXCEPT ![r] = h]
           /\ tasks' = [tasks EXCEPT ![config[r].tid] = r]
    /\ next' = next + 1
    /\ UNCHANGED <<config, pc, registry, state, tap, rawV4, rawV6, made,
                   stopping, linkVars>>

(* Mutant: the token waited for is made when startup is over. *)
StartServingNewToken ==
    /\ pc = "spawn"
    /\ next \notin DOMAIN made
    /\ pc' = "running"
    /\ stopping' = FALSE
    /\ UNCHANGED <<config, next, registry, state, tap, rawV4, rawV6, made,
                   serves, tasks, linkVars>>

(* The API is started and the main thread waits for the root token. *)
StartServing ==
    /\ pc = "spawn"
    /\ next \notin DOMAIN made
    /\ pc' = "running"
    /\ UNCHANGED <<config, next, registry, state, tap, rawV4, rawV6, made,
                   serves, tasks, stopping, linkVars>>

Shutdown ==
    /\ pc = "running"
    /\ stopping
    /\ pc' = "exited"
    /\ UNCHANGED <<config, next, registry, state, tap, rawV4, rawV6, made,
                   serves, tasks, stopping, linkVars>>

(* SIGTERM or SIGINT, at any time. *)
Signal ==
    /\ pc \notin {"exited", "failed"}
    /\ ~stopping
    /\ stopping' = TRUE
    /\ UNCHANGED <<config, pc, next, registry, state, tap, rawV4, rawV6, made,
                   serves, tasks, linkVars>>

--------------------------------------------------------------------------------
MainStep ==
    \/ \E n \in 1 .. Len(toDaemon) :
          Handshake(n) \/ ReceiveTap(n) \/ ReceiveRawV4(n) \/ ReceiveRawV6(n)
    \/ ReceiveFails
    \/ SkipDisabled
    \/ RegisterTunnel
    \/ SendCreateTunnel
    \/ NoRawV6
    \/ ActivateTunnel
    \/ TunnelsMade
    \/ \E h \in Requests : SpawnTasks(h)
    \/ StartServing
    \/ Shutdown

Closed == pc \in {"exited", "failed"}

Helper ==
    /\ HelperStep \/ (Closed /\ HelperHangup)
    /\ UNCHANGED startupVars

Link == Helper \/ (HelperDies /\ UNCHANGED startupVars)

Next == MainStep \/ Signal \/ Link

Spec == Init /\ [][Next]_vars

(* The main thread and the helper process are scheduled.  No signal need   *)
(* ever come and the helper need not die.                                  *)
FairSpec == Spec /\ WF_vars(MainStep) /\ WF_vars(Helper)

--------------------------------------------------------------------------------
(* Properties. *)

Enabled == {i \in DOMAIN config : config[i].enabled}
UniqueIds == \A i, j \in Enabled : config[i].tid = config[j].tid => i = j

(* A section is given the TAP the helper made for that section: requests   *)
(* and answers stay in step on the stream, even on a host whose helper     *)
(* sends an unexpected Error after every tunnel (main.rs:151).             *)
TapInStep == \A i \in DOMAIN tap : tap[i] \in {i, NoRequest}

(* The descriptor sent from as the IPv4 raw socket is one, although the    *)
(* code keeps whatever descriptor arrives there (main.rs:170), and the     *)
(* IPv6 one is an IPv6 one; a running daemon with tunnels has the first    *)
(* unless the host has no IPv4 raw sockets and the helper has gone.        *)
RightSockets ==
    /\ rawV4 \in {"none", "RawSocket4"}
    /\ rawV6 \in {"none", "RawSocket6"}
    /\ (pc = "running" /\ Enabled # {}) =>
           rawV4 = "RawSocket4" \/ (~host.v4 /\ helper = "exited")

(* What TunnelManager takes startup to leave behind (its InitAfter and     *)
(* Completes), when tunnel ids are unique: every enabled tunnel, and no    *)
(* other, is registered, active, on its own TAP and tracked; without IPv6  *)
(* there are at most two.                                                  *)
Handover ==
    (pc = "running" /\ UniqueIds) =>
        /\ \A i \in Enabled :
              /\ registry[KeyOf(i)] = i
              /\ state[i] = "Active"
              /\ serves[i] = i
              /\ tasks[config[i].tid] = i
        /\ \A k \in Keys : registry[k] \in Enabled \cup {NoRequest}
        /\ \A t \in Tids : tasks[t] \in Enabled \cup {NoRequest}
        /\ host.v6 \/ Cardinality(Enabled) <= 2

(* Startup ends, in a running daemon or an error, on a host where the IPv4 *)
(* raw socket can be opened, or when the helper exits on an error.  (On    *)
(* the others the read for the IPv6 socket at main.rs:173 waits for good.) *)
StartupEnds ==
    (host.v4 \/ host.exitMode \/ Enabled = {}) => <>(pc \in {"running", "exited", "failed"})

(* On a machine with both address families, where nothing fails, every     *)
(* configuration file comes up.                                            *)
GoodHostStarts ==
    (host.v4 /\ host.v6 /\ ~host.tapFails /\ ~host.dies) => <>(pc = "running")

(* A signal at any moment of startup is not lost: the daemon ends, and the *)
(* helper after it, under the same condition as StartupEnds.               *)
SignalEndsBoth ==
    (host.v4 \/ host.exitMode \/ Enabled = {}) =>
        (stopping ~> Closed /\ helper = "exited")

================================================================================
