-------------------------- MODULE DaemonStartupProofs --------------------------
(***************************************************************************)
(* Proofs about DaemonStartup, for any configuration files, any number of  *)
(* sections, any host and a helper that may die at any step.               *)
(***************************************************************************)
EXTENDS DaemonStartup, HelperLinkProofs, FiniteSetTheorems

LEMMA ConfigFacts ==
    ASSUME config \in Configs
    PROVE  /\ config \in Seq(Entries) /\ Len(config) \in Nat
           /\ DOMAIN config = 1 .. Len(config)
           /\ \A i \in DOMAIN config : i \in Requests
           /\ 0 \notin Requests /\ NoRequest = 0
           /\ \A i \in DOMAIN config : KeyOf(i) \in Keys
           /\ \A i \in DOMAIN config : config[i].tid \in Tids /\ config[i].enabled \in BOOLEAN
  <1>1. config \in Seq(Entries) /\ (\A i \in DOMAIN config : i \in Requests)
    BY StartupAssumption
  <1>2. 0 \notin Requests /\ NoRequest = 0
    BY StartupAssumption, LinkAssumption
  <1>3. Len(config) \in Nat /\ DOMAIN config = 1 .. Len(config)
    BY <1>1
  <1>4. ASSUME NEW i \in DOMAIN config
        PROVE  /\ KeyOf(i) \in Keys
               /\ config[i].tid \in Tids /\ config[i].enabled \in BOOLEAN
    <2>1. config[i] \in Entries
      BY <1>1, <1>3
    <2>2. config[i].tid \in Tids /\ config[i].peer \in Peers /\ config[i].enabled \in BOOLEAN
      BY <2>1 DEF Entries
    <2> QED
      BY <2>2 DEF KeyOf, Keys
  <1> QED
    BY <1>1, <1>2, <1>3, <1>4

(* What a read of the main thread leaves of the link.                      *)
LEMMA ReceiveFacts ==
    ASSUME LinkTypeOK, NEW n \in 1 .. Len(toDaemon), Receive(n)
    PROVE  /\ LinkTypeOK'
           /\ Len(toDaemon') = Len(toDaemon) - n
           /\ \A i \in 1 .. Len(toDaemon') : toDaemon'[i] = toDaemon[i + n]
           /\ Head(toDaemon) = toDaemon[1] /\ toDaemon[1] \in HelperMsgs
           /\ toDaemon[n] \in HelperMsgs
           /\ CarriesFd(toDaemon[1]) => n = 1
           /\ n = Len(toDaemon) \/ CarriesFd(toDaemon[n])
           /\ UNCHANGED <<toHelper, helperVars>>
  <1>1. /\ ReadsUpTo(toDaemon, n) /\ toDaemon' = After(toDaemon, n)
        /\ UNCHANGED <<toHelper, helperVars>>
    BY DEF Receive
  <1>2. LinkTypeOK'
    BY <1>1, ReadFacts DEF LinkTypeOK, helperVars
  <1> QED
    BY <1>1, <1>2, ReadFacts

--------------------------------------------------------------------------------
(* Types. *)

(* pc, while a section is worked on. *)
InSection == {"send", "tap", "rawV4", "rawV6", "activate"}

(* The section worked on exists, and startup_tunnels is not longer than    *)
(* the part of the file behind it.                                         *)
TypeInv ==
    /\ TypeOK
    /\ pc \in InSection => next \in DOMAIN config
    /\ pc \in InSection \cup {"handshake", "tunnel"} => Len(made) < next
    /\ Len(made) <= Len(config)

LEMMA TypeInvInit ==
    Init => TypeInv
  <1> SUFFICES ASSUME Init PROVE TypeInv
    OBVIOUS
  <1> USE DEF Init
  <1>1. LinkTypeOK
    <2>1. toHelper \in Seq(Requests) /\ toDaemon \in Seq(HelperMsgs)
      BY DEF LinkInit
    <2> QED
      BY <2>1 DEF LinkInit, LinkTypeOK
  <1>2. Len(config) \in Nat
    BY StartupAssumption
  <1>3. TypeOK
    <2>1. /\ config \in Configs /\ pc = "handshake" /\ stopping \in BOOLEAN
          /\ rawV4 \in Sockets /\ rawV6 \in Sockets
      BY DEF Sockets
    <2>2. next \in 1 .. Len(config) + 1
      BY <1>2
    <2>3. /\ registry \in [Keys -> Requests \cup {NoRequest}]
          /\ tap \in [Requests -> Requests \cup {NoRequest}]
          /\ serves \in [Requests -> Requests \cup {NoRequest}]
          /\ tasks \in [Tids -> Requests \cup {NoRequest}]
          /\ state \in [Requests -> TunnelStates]
      BY DEF TunnelStates
    <2>4. made \in Seq(Requests)
      OBVIOUS
    <2> QED
      BY <1>1, <2>1, <2>2, <2>3, <2>4 DEF TypeOK
  <1> QED
    BY <1>2, <1>3 DEF TypeInv, InSection

(* Each step of the daemon and of the helper keeps TypeInv.                *)
LEMMA TypeInvStep ==
    TypeInv /\ [Next]_vars => TypeInv'
  <1> SUFFICES ASSUME TypeInv, [Next]_vars PROVE TypeInv'
    OBVIOUS
  <1> USE DEF TypeInv, TypeOK, InSection
  <1>0. /\ LinkTypeOK /\ config \in Configs /\ next \in Nat
        /\ config \in Seq(Entries) /\ Len(config) \in Nat
        /\ DOMAIN config = 1 .. Len(config)
        /\ \A i \in DOMAIN config : i \in Requests
        /\ made \in Seq(Requests) /\ Len(made) \in Nat
    <2>1. config \in Configs /\ LinkTypeOK /\ made \in Seq(Requests) /\ next \in 1 .. Len(config) + 1
      OBVIOUS
    <2> QED
      BY <2>1, ConfigFacts
  <1>1. CASE \E n \in 1 .. Len(toDaemon) : Handshake(n)
    <2>1. PICK n \in 1 .. Len(toDaemon) : Handshake(n)
      BY <1>1
    <2>2. Receive(n)
      BY <2>1 DEF Handshake
    <2>3. LinkTypeOK' /\ toDaemon[1] \in HelperMsgs /\ toDaemon[n] \in HelperMsgs /\ Head(toDaemon) = toDaemon[1]
      BY <1>0, <2>2, ReceiveFacts
    <2> QED
      BY <1>0, <2>1, <2>3 DEF Handshake, FdOf, CarriesFd, HelperMsgs, Sockets
  <1>2. CASE \E n \in 1 .. Len(toDaemon) : ReceiveTap(n)
    <2>1. PICK n \in 1 .. Len(toDaemon) : ReceiveTap(n)
      BY <1>2
    <2>2. Receive(n)
      BY <2>1 DEF ReceiveTap
    <2>3. LinkTypeOK' /\ toDaemon[1] \in HelperMsgs /\ toDaemon[n] \in HelperMsgs /\ Head(toDaemon) = toDaemon[1]
      BY <1>0, <2>2, ReceiveFacts
    <2> QED
      BY <1>0, <2>1, <2>3 DEF ReceiveTap, FdOf, CarriesFd, HelperMsgs, Sockets
  <1>3. CASE \E n \in 1 .. Len(toDaemon) : ReceiveRawV4(n)
    <2>1. PICK n \in 1 .. Len(toDaemon) : ReceiveRawV4(n)
      BY <1>3
    <2>2. Receive(n)
      BY <2>1 DEF ReceiveRawV4
    <2>3. LinkTypeOK' /\ toDaemon[1] \in HelperMsgs /\ toDaemon[n] \in HelperMsgs /\ Head(toDaemon) = toDaemon[1]
      BY <1>0, <2>2, ReceiveFacts
    <2> QED
      BY <1>0, <2>1, <2>3 DEF ReceiveRawV4, FdOf, CarriesFd, HelperMsgs, Sockets
  <1>4. CASE \E n \in 1 .. Len(toDaemon) : ReceiveRawV6(n)
    <2>1. PICK n \in 1 .. Len(toDaemon) : ReceiveRawV6(n)
      BY <1>4
    <2>2. Receive(n)
      BY <2>1 DEF ReceiveRawV6
    <2>3. LinkTypeOK' /\ toDaemon[1] \in HelperMsgs /\ toDaemon[n] \in HelperMsgs /\ Head(toDaemon) = toDaemon[1]
      BY <1>0, <2>2, ReceiveFacts
    <2> QED
      BY <1>0, <2>1, <2>3 DEF ReceiveRawV6, FdOf, CarriesFd, HelperMsgs, Sockets
  <1>5. CASE ReceiveFails
    BY <1>0, <1>5 DEF ReceiveFails, LinkTypeOK, linkVars, helperVars
  <1>6. CASE SkipDisabled
    BY <1>0, <1>6 DEF SkipDisabled, LinkTypeOK, linkVars, helperVars
  <1>7. CASE RegisterTunnel
    BY <1>0, <1>7 DEF RegisterTunnel, LinkTypeOK, linkVars, helperVars
  <1>8. CASE SendCreateTunnel
    <2>1. pc = "send" /\ next \in Requests
      BY <1>0, <1>8 DEF SendCreateTunnel
    <2>2. LinkTypeOK'
      <3>0. toHelper \in Seq(Requests)
        BY <1>0 DEF LinkTypeOK
      <3>1. toHelper' \in Seq(Requests)
        <4>1. Append(toHelper, next) \in Seq(Requests)
          BY <3>0, <2>1
        <4> QED
          BY <3>0, <4>1, <1>8 DEF SendCreateTunnel
      <3> QED
        BY <1>0, <1>8, <3>1 DEF SendCreateTunnel, LinkTypeOK, helperVars
    <2> QED
      BY <1>0, <1>8, <2>1, <2>2 DEF SendCreateTunnel
  <1>9. CASE NoRawV6
    BY <1>0, <1>9 DEF NoRawV6, LinkTypeOK, linkVars, helperVars
  <1>10. CASE ActivateTunnel
    <2>1. LinkTypeOK'
      BY <1>0, <1>10 DEF ActivateTunnel, LinkTypeOK, linkVars, helperVars
    <2>2. /\ pc = "activate" /\ next \in Requests /\ next \in 1 .. Len(config)
          /\ Len(made) < next
      BY <1>0, <1>10 DEF ActivateTunnel
    <2>3. made' \in Seq(Requests) /\ Len(made') = Len(made) + 1
      BY <1>0, <1>10, <2>2 DEF ActivateTunnel
    <2>4. state' \in [Requests -> TunnelStates]
      <3>1. \A c \in TunnelStates, f \in TunnelStates, t \in TunnelStates :
               AfterTransition(c, f, t) \in TunnelStates
        BY DEF AfterTransition
      <3>2. {"Initializing", "Configured", "Active"} \subseteq TunnelStates
        BY DEF TunnelStates
      <3>3. state[next] \in TunnelStates
        BY <2>2
      <3> DEFINE s == AfterTransition(AfterTransition(state[next], "Initializing", "Configured"),
                                      "Configured", "Active")
      <3>4. s \in TunnelStates
        BY <3>1, <3>2, <3>3
      <3>5. state' = [state EXCEPT ![next] = s]
        BY <1>10 DEF ActivateTunnel
      <3> HIDE DEF s
      <3> QED
        BY <2>2, <3>4, <3>5
    <2>5. /\ next' = next + 1 /\ pc' = "tunnel"
          /\ UNCHANGED <<config, registry, tap, rawV4, rawV6, serves, tasks, stopping>>
      BY <1>10 DEF ActivateTunnel
    <2>6. next' \in 1 .. Len(config) + 1 /\ Len(made') < next' /\ Len(made') <= Len(config)
      BY <1>0, <2>2, <2>3, <2>5
    <2> QED
      BY <2>1, <2>3, <2>4, <2>5, <2>6
  <1>11. CASE TunnelsMade
    BY <1>0, <1>11 DEF TunnelsMade, LinkTypeOK, linkVars, helperVars
  <1>12. CASE \E h \in Requests : SpawnTasks(h)
    <2>1. PICK h \in Requests : SpawnTasks(h)
      BY <1>12
    <2>2. next \in 1 .. Len(made) /\ made[next] \in Requests
      BY <1>0, <2>1 DEF SpawnTasks
    <2>3. /\ serves' = [serves EXCEPT ![made[next]] = h]
          /\ tasks' = [tasks EXCEPT ![config[made[next]].tid] = made[next]]
      BY <2>1 DEF SpawnTasks
    <2>4. /\ serves' \in [Requests -> Requests \cup {NoRequest}]
          /\ tasks' \in [Tids -> Requests \cup {NoRequest}]
      BY <2>2, <2>3
    <2>5. /\ pc = "spawn" /\ next' = next + 1
          /\ UNCHANGED <<config, pc, registry, state, tap, rawV4, rawV6, made, stopping>>
          /\ LinkTypeOK'
      BY <1>0, <2>1 DEF SpawnTasks, LinkTypeOK, linkVars, helperVars
    <2>6. next' \in 1 .. Len(config) + 1
      BY <1>0, <2>2, <2>5
    <2> QED
      BY <2>4, <2>5, <2>6
  <1>13. CASE StartServing
    BY <1>0, <1>13 DEF StartServing, LinkTypeOK, linkVars, helperVars
  <1>14. CASE Shutdown
    BY <1>0, <1>14 DEF Shutdown, LinkTypeOK, linkVars, helperVars
  <1>15. CASE Signal
    BY <1>0, <1>15 DEF Signal, LinkTypeOK, linkVars, helperVars
  <1>16. CASE Link
    <2>1. UNCHANGED startupVars /\ (HelperStep \/ HelperHangup \/ HelperDies)
      BY <1>16 DEF Link, Helper
    <2>2. LinkTypeOK'
      BY <1>0, <2>1, HelperStepType
    <2> QED
      BY <2>1, <2>2 DEF startupVars
  <1>17. CASE UNCHANGED vars
    BY <1>17 DEF vars, startupVars, LinkTypeOK, linkVars, helperVars
  <1> QED
    BY <1>1, <1>2, <1>3, <1>4, <1>5, <1>6, <1>7, <1>8, <1>9, <1>10, <1>11, <1>12, <1>13, <1>14, <1>15, <1>16, <1>17 DEF Next, MainStep

(* TypeOK holds of every reachable state.  Above all, no section beyond    *)
(* the end of the file is worked on, and the index of the second loop      *)
(* stays inside the tunnels made.                                          *)
THEOREM TypeCorrect ==
    Spec => []TypeOK
  <1>1. Init => TypeInv
    BY TypeInvInit
  <1>2. TypeInv /\ [Next]_vars => TypeInv'
    BY TypeInvStep
  <1>3. TypeInv => TypeOK
    BY DEF TypeInv
  <1> QED
    BY <1>1, <1>2, <1>3, PTL DEF Spec

--------------------------------------------------------------------------------
(* Sockets. *)

(* A message of this kind is queued for the daemon. *)
Queued(k) == \E i \in DOMAIN toDaemon : toDaemon[i].kind = k

(* A request is under way, and a TAP queued, only while the main thread    *)
(* waits for it; there is one, and it is of the section worked on.         *)
TapTurn ==
    /\ \A i \in DOMAIN toDaemon :
          toDaemon[i].kind = "TapCreated" =>
              /\ pc = "tap" /\ toDaemon[i].for = next
              /\ \A j \in DOMAIN toDaemon : toDaemon[j].kind = "TapCreated" => i = j
    /\ toHelper # <<>> =>
          /\ pc = "tap" /\ toHelper[1] = next
          /\ helper # "tap" /\ ~Queued("TapCreated")
    /\ helper = "tap" =>
          /\ pc = "tap" /\ serving = next
          /\ ~Queued("TapCreated")

(* The answer to the first request, b messages of which have been read: a  *)
(* TAP, then the IPv4 socket or an Error with which the helper stops.      *)
FirstAnswer(b) ==
    /\ helper # "starting"
    /\ helper = "tap" \/ toHelper # <<>> => b + Len(toDaemon) = 0 /\ ~rawV4Created
    /\ helper = "rawV4" =>
          /\ b + Len(toDaemon) = 1 /\ ~rawV4Created
          /\ b = 0 => toDaemon[1].kind = "TapCreated"
    /\ helper = "rawV6" => 2 - b \in DOMAIN toDaemon
    /\ 2 - b \in DOMAIN toDaemon /\ (b = 0 => toDaemon[1].kind = "TapCreated") =>
          \/ toDaemon[2 - b].kind = "RawSocket4"
          \/ /\ toDaemon[2 - b].kind = "Error" /\ Len(toDaemon) = 2 - b
             /\ helper \in {"waiting", "exited"} /\ ~rawV4Created /\ ~host.v4

(* Nothing is queued and nothing will be without a request. *)
Quiet == toDaemon = <<>> /\ helper \in {"waiting", "exited"} /\ ~rawV4Created

(* Until the IPv4 socket came, what the helper and the socket hold. *)
FirstTurn ==
    /\ pc = "handshake" =>
          /\ rawV4 = "none" /\ Len(toDaemon) <= 1
          /\ helper \in {"starting", "waiting", "exited"} /\ ~rawV4Created
          /\ helper = "starting" => toDaemon = <<>>
    /\ pc \in {"tunnel", "send"} /\ rawV4 = "none" => Quiet
    /\ pc = "tap" /\ rawV4 = "none" => FirstAnswer(0)
    /\ pc = "rawV4" => rawV4 = "none" /\ FirstAnswer(1)
    /\ pc = "rawV6" /\ rawV4 = "none" => Quiet /\ ~host.v4
    /\ pc = "activate" /\ rawV4 = "none" => Quiet /\ ~host.v4 /\ helper = "exited"

(* Once a section has its TAP, the IPv4 socket is there. *)
HasSocket == rawV4 = "RawSocket4" \/ (~host.v4 /\ helper = "exited")

Served ==
    /\ pc = "handshake" => next = 1
    /\ pc \in InSection \cup {"tunnel"} => \A i \in 1 .. next - 1 : config[i].enabled => HasSocket
    /\ pc \in {"spawn", "running", "exited"} /\ Enabled # {} => HasSocket

SocketInv ==
    /\ rawV4 \in {"none", "RawSocket4"}
    /\ rawV6 \in {"none", "RawSocket6"}
    /\ TapInStep
    /\ pc # "failed" => TapTurn /\ FirstTurn /\ Served

(* The main thread's steps, but the reads and the request, leave the link  *)
(* alone.                                                                  *)
LEMMA QuietSteps ==
    ASSUME \/ ReceiveFails \/ SkipDisabled \/ RegisterTunnel \/ NoRawV6 \/ ActivateTunnel
           \/ TunnelsMade \/ (\E h \in Requests : SpawnTasks(h)) \/ StartServing \/ Shutdown
           \/ Signal \/ UNCHANGED vars
    PROVE  UNCHANGED <<host, toHelper, toDaemon, helper, serving, rawV4Created, rawV6Created>>
  BY DEF ReceiveFails, SkipDisabled, RegisterTunnel, NoRawV6, ActivateTunnel, TunnelsMade,
         SpawnTasks, StartServing, Shutdown, Signal, vars, linkVars, helperVars

(* What a read leaves behind was queued before.                            *)
LEMMA TapTurnRead ==
    ASSUME LinkTypeOK, TapTurn, NEW n \in 1 .. Len(toDaemon), Receive(n), next' = next,
           \/ pc # "tap"
           \/ pc = "tap" /\ toDaemon[1].kind = "TapCreated"
    PROVE  TapTurn'
  <1> USE DEF TapTurn, Queued
  <1>1. /\ Len(toDaemon) \in Nat /\ Len(toDaemon') = Len(toDaemon) - n
        /\ DOMAIN toDaemon = 1 .. Len(toDaemon)
        /\ \A i \in 1 .. Len(toDaemon') : toDaemon'[i] = toDaemon[i + n]
        /\ UNCHANGED <<toHelper, host, helper, serving>>
    BY ReceiveFacts, QueueFacts DEF helperVars
  <1>2. DOMAIN toDaemon' = 1 .. Len(toDaemon')
    <2>1. LinkTypeOK'
      BY ReceiveFacts
    <2> QED
      BY <2>1 DEF LinkTypeOK
  <1>3. \A i \in DOMAIN toDaemon' : i + n \in DOMAIN toDaemon /\ i + n # 1
    BY <1>1, <1>2
  <1>4. \A i \in DOMAIN toDaemon' : toDaemon'[i].kind # "TapCreated"
    <2>1. CASE pc # "tap"
      BY <1>1, <1>2, <1>3, <2>1
    <2>2. CASE toDaemon[1].kind = "TapCreated"
      <3>1. 1 \in DOMAIN toDaemon
        BY <1>1
      <3> QED
        BY <1>1, <1>2, <1>3, <2>2, <3>1
    <2> QED
      BY <2>1, <2>2
  <1>5. toHelper = <<>> /\ helper # "tap"
    <2>1. CASE pc # "tap"
      BY <2>1
    <2>2. CASE toDaemon[1].kind = "TapCreated"
      <3>1. 1 \in DOMAIN toDaemon
        BY <1>1
      <3> QED
        BY <2>2, <3>1
    <2> QED
      BY <2>1, <2>2
  <1> QED
    BY <1>1, <1>4, <1>5

(* The helper answers the one request under way with one TAP.              *)
LEMMA TapTurnHelper ==
    ASSUME LinkTypeOK, TapTurn, HelperStep \/ HelperHangup \/ HelperDies,
           pc' = pc, next' = next
    PROVE  TapTurn'
  <1> USE DEF TapTurn, Queued
  <1>0. Len(toDaemon) \in Nat /\ DOMAIN toDaemon = 1 .. Len(toDaemon)
    BY QueueFacts
  <1>1. ASSUME NEW m, HelperSend(m), m.kind # "TapCreated", helper # "tap" \/ helper' # "tap",
               helper' # "tap",
               toHelper' = toHelper \/ toHelper' = <<>>
        PROVE  TapTurn'
    BY <1>0, <1>1, SendFacts
  <1>2. CASE HelperStart
    BY <1>1, <1>2 DEF HelperStart, Msg
  <1>3. CASE HelperReceive
    <2>1. pc = "tap" /\ toHelper[1] = next /\ ~Queued("TapCreated") /\ serving' = Head(toHelper)
          /\ toHelper' = <<>> /\ helper' = "tap" /\ toDaemon' = toDaemon
      BY <1>3 DEF HelperReceive
    <2>2. Head(toHelper) = toHelper[1]
      BY DEF LinkTypeOK
    <2> QED
      BY <2>1, <2>2
  <1>4. CASE HelperCreateTap
    <2>1. /\ pc = "tap" /\ serving = next /\ ~Queued("TapCreated") /\ toHelper = <<>>
          /\ HelperSend(Msg("TapCreated", serving)) /\ helper' = "rawV4" /\ toHelper' = toHelper
      BY <1>4 DEF HelperCreateTap
    <2>2. /\ DOMAIN toDaemon' = 1 .. Len(toDaemon) + 1
          /\ toDaemon'[Len(toDaemon) + 1] = Msg("TapCreated", serving)
          /\ \A i \in 1 .. Len(toDaemon) : toDaemon'[i] = toDaemon[i]
      BY <2>1, SendFacts
    <2>3. \A i \in DOMAIN toDaemon' : toDaemon'[i].kind = "TapCreated" => i = Len(toDaemon) + 1
      BY <1>0, <2>1, <2>2
    <2>4. Msg("TapCreated", serving).for = next
      BY <2>1 DEF Msg
    <2> QED
      BY <2>1, <2>2, <2>3, <2>4
  <1>5. ASSUME HelperFails PROVE TapTurn'
    <2>1. CASE host.exitMode
      BY <1>5, <2>1 DEF HelperFails
    <2>2. CASE ~host.exitMode
      BY <1>1, <1>5, <2>2 DEF HelperFails, Msg
    <2> QED
      BY <2>1, <2>2
  <1>6. CASE HelperTapFails
    BY <1>5, <1>6 DEF HelperTapFails
  <1>7. CASE HelperRawV4
    <2>1. CASE toDaemon' = toDaemon
      BY <1>7, <2>1 DEF HelperRawV4
    <2>2. CASE HelperSend(Msg("RawSocket4", serving))
      BY <1>1, <1>7, <2>2 DEF HelperRawV4, Msg
    <2> QED
      BY <1>7, <2>1, <2>2 DEF HelperRawV4
  <1>8. CASE HelperRawV4Fails
    BY <1>5, <1>8 DEF HelperRawV4Fails
  <1>9. CASE HelperRawV6
    <2>1. CASE toDaemon' = toDaemon
      BY <1>9, <2>1 DEF HelperRawV6
    <2>2. CASE HelperSend(Msg("RawSocket6", serving))
      BY <1>1, <1>9, <2>2 DEF HelperRawV6, Msg
    <2>3. CASE HelperSend(Msg("Error", serving))
      BY <1>1, <1>9, <2>3 DEF HelperRawV6, Msg
    <2> QED
      BY <1>9, <2>1, <2>2, <2>3 DEF HelperRawV6
  <1>10. CASE HelperHangup
    BY <1>10 DEF HelperHangup
  <1>11. CASE HelperDies
    BY <1>11 DEF HelperDies
  <1> QED
    BY <1>2, <1>3, <1>4, <1>6, <1>7, <1>8, <1>9, <1>10, <1>11 DEF HelperStep

(* Requests and answers stay in step, whatever the daemon's step.          *)
LEMMA TapTurnStep ==
    ASSUME TypeInv, pc # "failed", TapTurn, [Next]_vars, pc' # "failed"
    PROVE  TapTurn'
  <1>0. LinkTypeOK
    BY DEF TypeInv, TypeOK
  <1>1. ASSUME NEW n \in 1 .. Len(toDaemon),
               Handshake(n) \/ ReceiveTap(n) \/ ReceiveRawV4(n) \/ ReceiveRawV6(n)
        PROVE  TapTurn'
    <2>1. Receive(n) /\ next' = next
      BY <1>1 DEF Handshake, ReceiveTap, ReceiveRawV4, ReceiveRawV6
    <2>2. pc # "tap" \/ (pc = "tap" /\ Head(toDaemon).kind = "TapCreated")
      BY <1>1 DEF Handshake, ReceiveTap, ReceiveRawV4, ReceiveRawV6
    <2>3. Head(toDaemon) = toDaemon[1]
      BY <1>0, <2>1, ReceiveFacts
    <2> QED
      BY <1>0, <2>1, <2>2, <2>3, TapTurnRead
  <1>2. CASE SendCreateTunnel
    <2>1. /\ pc = "send" /\ pc' = "tap" /\ toHelper' = Append(toHelper, next)
          /\ UNCHANGED <<next, toDaemon, helper, serving>>
      BY <1>2 DEF SendCreateTunnel, helperVars
    <2>2. toHelper = <<>> /\ helper # "tap" /\ ~Queued("TapCreated")
      BY <2>1 DEF TapTurn, Queued
    <2>3. toHelper'[1] = next
      BY <2>1, <2>2
    <2> QED
      BY <2>1, <2>2, <2>3 DEF TapTurn, Queued
  <1>3. CASE \/ ReceiveFails \/ SkipDisabled \/ RegisterTunnel \/ NoRawV6 \/ ActivateTunnel
             \/ TunnelsMade \/ (\E h \in Requests : SpawnTasks(h)) \/ StartServing \/ Shutdown
             \/ Signal \/ UNCHANGED vars
    <2>1. UNCHANGED <<toHelper, toDaemon, helper, serving>>
      BY <1>3, QuietSteps
    <2>2. pc # "tap" \/ (pc' = pc /\ next' = next)
      BY <1>3 DEF ReceiveFails, SkipDisabled, RegisterTunnel, NoRawV6, ActivateTunnel,
                  TunnelsMade, SpawnTasks, StartServing, Shutdown, Signal, vars, startupVars
    <2> QED
      BY <2>1, <2>2 DEF TapTurn, Queued
  <1>4. CASE Link
    <2>1. pc' = pc /\ next' = next /\ (HelperStep \/ HelperHangup \/ HelperDies)
      BY <1>4 DEF Link, Helper, startupVars
    <2> QED
      BY <1>0, <2>1, TapTurnHelper
  <1> QED
    BY <1>1, <1>2, <1>3, <1>4 DEF Next, MainStep

(* The helper's steps keep the first answer in order.                      *)
LEMMA FirstAnswerHelper ==
    ASSUME LinkTypeOK, TapTurn, NEW b \in 0 .. 1, FirstAnswer(b),
           HelperStep \/ HelperHangup \/ HelperDies
    PROVE  FirstAnswer(b)'
  <1> USE DEF FirstAnswer
  <1>0. /\ Len(toDaemon) \in Nat /\ DOMAIN toDaemon = 1 .. Len(toDaemon)
        /\ toHelper # <<>> => helper # "tap"
    BY QueueFacts DEF TapTurn
  <1>1. CASE HelperStart
    BY <1>1 DEF HelperStart
  <1>2. CASE HelperReceive
    BY <1>0, <1>2 DEF HelperReceive
  <1>3. CASE HelperCreateTap
    <2>1. /\ b = 0 /\ Len(toDaemon) = 0 /\ ~rawV4Created /\ toHelper = <<>>
          /\ HelperSend(Msg("TapCreated", serving)) /\ helper' = "rawV4"
          /\ UNCHANGED <<toHelper, rawV4Created, host>>
      BY <1>0, <1>3 DEF HelperCreateTap
    <2>2. Len(toDaemon') = 1 /\ DOMAIN toDaemon' = 1 .. 1 /\ toDaemon'[1].kind = "TapCreated"
      BY <2>1, SendFacts DEF Msg
    <2> QED
      BY <2>1, <2>2
  <1>4. ASSUME HelperFails, helper = "tap" \/ (helper = "rawV4" /\ ~host.v4)
        PROVE  FirstAnswer(b)'
    <2>1. CASE host.exitMode
      BY <1>0, <1>4, <2>1 DEF HelperFails
    <2>2. CASE ~host.exitMode
      <3>1. /\ helper' = "waiting" /\ HelperSend(Msg("Error", serving)) /\ ~rawV4Created
            /\ UNCHANGED <<toHelper, host, rawV4Created>>
        BY <1>4, <2>2 DEF HelperFails
      <3>2. /\ Len(toDaemon') = Len(toDaemon) + 1 /\ DOMAIN toDaemon' = 1 .. Len(toDaemon) + 1
            /\ toDaemon'[Len(toDaemon) + 1].kind = "Error"
            /\ \A i \in 1 .. Len(toDaemon) : toDaemon'[i] = toDaemon[i]
        BY <3>1, SendFacts DEF Msg
      <3>3. toHelper = <<>>
        BY <1>0, <1>4
      <3>4. CASE helper = "tap"
        <4>1. b = 0 /\ Len(toDaemon) = 0
          BY <1>0, <3>4
        <4> QED
          BY <3>1, <3>2, <3>3, <4>1
      <3>5. CASE helper = "rawV4" /\ ~host.v4
        <4>1. Len(toDaemon) + 1 = 2 - b
          BY <1>0, <3>5
        <4> QED
          BY <1>0, <3>1, <3>2, <3>3, <3>5, <4>1
      <3> QED
        BY <1>4, <3>4, <3>5
    <2> QED
      BY <2>1, <2>2
  <1>5. CASE HelperTapFails
    BY <1>4, <1>5 DEF HelperTapFails
  <1>6. CASE HelperRawV4
    <2>1. /\ b + Len(toDaemon) = 1 /\ HelperSend(Msg("RawSocket4", serving))
          /\ helper' = "rawV6" /\ UNCHANGED <<toHelper, host>> /\ toHelper = <<>>
      BY <1>0, <1>6 DEF HelperRawV4
    <2>2. /\ Len(toDaemon') = Len(toDaemon) + 1 /\ DOMAIN toDaemon' = 1 .. Len(toDaemon) + 1
          /\ toDaemon'[Len(toDaemon) + 1].kind = "RawSocket4"
      BY <2>1, SendFacts DEF Msg
    <2>3. Len(toDaemon) + 1 = 2 - b
      BY <1>0, <2>1
    <2> QED
      BY <1>0, <2>1, <2>2, <2>3
  <1>7. CASE HelperRawV4Fails
    BY <1>4, <1>7 DEF HelperRawV4Fails
  <1>8. CASE HelperRawV6
    <2>1. /\ helper = "rawV6" /\ helper' = "waiting" /\ UNCHANGED <<toHelper, host, rawV4Created>>
          /\ 2 - b \in DOMAIN toDaemon /\ toHelper = <<>>
          /\ b = 0 /\ toDaemon[1].kind = "TapCreated" => toDaemon[2].kind = "RawSocket4"
          /\ b = 1 => toDaemon[1].kind = "RawSocket4"
      BY <1>0, <1>8 DEF HelperRawV6
    <2>2. /\ 1 \in DOMAIN toDaemon
          /\ toDaemon' = toDaemon \/ (\E m : HelperSend(m))
      BY <1>0, <1>8, <2>1 DEF HelperRawV6
    <2>3. /\ toDaemon'[1] = toDaemon[1] /\ toDaemon'[2 - b] = toDaemon[2 - b]
      BY <1>0, <2>1, <2>2, SendFacts
    <2> QED
      BY <2>1, <2>3
  <1>9. CASE HelperHangup
    BY <1>9 DEF HelperHangup
  <1>10. CASE HelperDies
    BY <1>10 DEF HelperDies
  <1> QED
    BY <1>1, <1>2, <1>3, <1>5, <1>6, <1>7, <1>8, <1>9, <1>10 DEF HelperStep

(* The IPv4 socket comes where the daemon reads for it.                    *)
LEMMA FirstTurnStep ==
    ASSUME TypeInv, pc # "failed", TapTurn, FirstTurn, [Next]_vars, pc' # "failed"
    PROVE  FirstTurn'
  <1> USE DEF FirstTurn
  <1>0. /\ LinkTypeOK /\ Len(toDaemon) \in Nat /\ DOMAIN toDaemon = 1 .. Len(toDaemon)
        /\ toDaemon \in Seq(HelperMsgs)
    BY QueueFacts DEF TypeInv, TypeOK, LinkTypeOK
  <1>1. ASSUME NEW n \in 1 .. Len(toDaemon), Receive(n)
        PROVE  /\ Len(toDaemon') = Len(toDaemon) - n /\ DOMAIN toDaemon' = 1 .. Len(toDaemon')
               /\ Len(toDaemon') = 0 => toDaemon' = <<>>
               /\ \A i \in 1 .. Len(toDaemon') : toDaemon'[i] = toDaemon[i + n]
               /\ Head(toDaemon) = toDaemon[1] /\ (CarriesFd(toDaemon[1]) => n = 1)
               /\ UNCHANGED <<host, toHelper, helper, rawV4Created>>
    <2>1. LinkTypeOK'
      BY <1>0, <1>1, ReceiveFacts
    <2>2. DOMAIN toDaemon' = 1 .. Len(toDaemon') /\ (Len(toDaemon') = 0 => toDaemon' = <<>>)
      BY <2>1 DEF LinkTypeOK
    <2> QED
      BY <1>0, <1>1, <2>2, ReceiveFacts DEF helperVars
  <1>2. CASE \E n \in 1 .. Len(toDaemon) : Handshake(n)
    <2>1. PICK n \in 1 .. Len(toDaemon) : Handshake(n)
      BY <1>2
    <2>2. pc = "handshake" /\ pc' = "tunnel" /\ Receive(n) /\ rawV4' = rawV4
      BY <2>1 DEF Handshake
    <2>3. Len(toDaemon') = 0 /\ toDaemon # <<>>
      <3>1. Len(toDaemon) <= 1 /\ n \in 1 .. Len(toDaemon)
        <4>1. Len(toDaemon) <= 1
          BY <2>2
        <4>2. n \in 1 .. Len(toDaemon)
          BY <2>1
        <4> QED
          BY <4>1, <4>2
      <3>2. n = Len(toDaemon)
        <4>1. Len(toDaemon) \in Nat
          BY <1>0
        <4> QED
          BY <3>1, <4>1
      <3>3. Len(toDaemon') = Len(toDaemon) - n
        BY <1>1, <2>2
      <3> QED
        BY <1>0, <3>1, <3>2, <3>3
    <2> QED
      BY <1>1, <2>2, <2>3 DEF Quiet
  <1>3. CASE \E n \in 1 .. Len(toDaemon) : ReceiveTap(n)
    <2>1. PICK n \in 1 .. Len(toDaemon) : ReceiveTap(n)
      BY <1>3
    <2>2. /\ pc = "tap" /\ Receive(n) /\ rawV4' = rawV4 /\ Head(toDaemon).kind = "TapCreated"
          /\ pc' = IF rawV4 = "none" THEN "rawV4" ELSE "activate"
      BY <2>1 DEF ReceiveTap
    <2>3. toDaemon[1].kind = "TapCreated" /\ n = 1 /\ Len(toDaemon') = Len(toDaemon) - 1
      BY <1>1, <2>2 DEF CarriesFd
    <2>4. CASE rawV4 = "none"
      <3>1. FirstAnswer(0) /\ Len(toDaemon) >= 1
        BY <1>0, <2>2, <2>4
      <3>2. /\ toHelper = <<>> /\ helper # "tap" /\ helper # "starting"
            /\ helper = "rawV4" => Len(toDaemon) = 1 /\ ~rawV4Created
        BY <1>0, <3>1 DEF FirstAnswer
      <3>3. helper = "rawV6" => 1 \in DOMAIN toDaemon'
        BY <1>0, <1>1, <2>2, <2>3, <3>1 DEF FirstAnswer
      <3>4. 1 \in DOMAIN toDaemon' =>
               /\ 2 \in DOMAIN toDaemon /\ toDaemon'[1] = toDaemon[2]
        BY <1>0, <1>1, <2>2, <2>3
      <3>5. FirstAnswer(1)'
        BY <1>0, <1>1, <2>2, <2>3, <3>1, <3>2, <3>3, <3>4 DEF FirstAnswer
      <3> QED
        BY <2>2, <2>4, <3>5
    <2>5. CASE rawV4 # "none"
      BY <2>2, <2>5
    <2> QED
      BY <2>4, <2>5
  <1>4. CASE \E n \in 1 .. Len(toDaemon) : ReceiveRawV4(n)
    <2>1. PICK n \in 1 .. Len(toDaemon) : ReceiveRawV4(n)
      BY <1>4
    <2>2. pc = "rawV4" /\ Receive(n) /\ rawV4' = FdOf(n) /\ pc' = "rawV6"
      BY <2>1 DEF ReceiveRawV4
    <2>3. 1 \in DOMAIN toDaemon /\ FirstAnswer(1)
      BY <1>0, <2>2
    <2>4. CASE toDaemon[1].kind = "RawSocket4"
      <3>1. FdOf(n) = "RawSocket4"
        BY <1>1, <2>2, <2>4 DEF FdOf, CarriesFd
      <3> QED
        BY <2>2, <3>1
    <2>5. CASE /\ toDaemon[1].kind = "Error" /\ Len(toDaemon) = 1
               /\ helper \in {"waiting", "exited"} /\ ~rawV4Created /\ ~host.v4
      BY <1>1, <2>2, <2>5 DEF Quiet
    <2> QED
      BY <2>3, <2>4, <2>5 DEF FirstAnswer
  <1>5. CASE \E n \in 1 .. Len(toDaemon) : ReceiveRawV6(n)
    <2>1. PICK n \in 1 .. Len(toDaemon) : ReceiveRawV6(n)
      BY <1>5
    <2>2. pc = "rawV6" /\ rawV4' = rawV4 /\ pc' = "activate" /\ toDaemon # <<>>
      BY <1>0, <2>1 DEF ReceiveRawV6
    <2> QED
      BY <2>2 DEF Quiet
  <1>6. CASE SendCreateTunnel
    <2>1. /\ pc = "send" /\ pc' = "tap" /\ toHelper' = Append(toHelper, next) /\ helper # "exited"
          /\ UNCHANGED <<toDaemon, rawV4, helper, rawV4Created, host>>
      BY <1>6 DEF SendCreateTunnel, helperVars, Connected
    <2>2. CASE rawV4 = "none"
      <3>1. Quiet /\ helper = "waiting" /\ Len(toDaemon) = 0
        BY <2>1, <2>2 DEF Quiet
      <3>2. FirstAnswer(0)'
        BY <1>0, <2>1, <3>1 DEF Quiet, FirstAnswer
      <3> QED
        BY <2>1, <3>2
    <2>3. CASE rawV4 # "none"
      BY <2>1, <2>3
    <2> QED
      BY <2>2, <2>3
  <1>7. CASE \/ ReceiveFails \/ SkipDisabled \/ RegisterTunnel \/ NoRawV6 \/ ActivateTunnel
             \/ TunnelsMade \/ (\E h \in Requests : SpawnTasks(h)) \/ StartServing \/ Shutdown
             \/ Signal \/ UNCHANGED vars
    <2>1. UNCHANGED <<host, toHelper, toDaemon, helper, rawV4Created>>
      BY <1>7, QuietSteps
    <2>2. /\ rawV4' = rawV4
          /\ \/ pc' = pc
             \/ pc = "tunnel" /\ pc' = "send"
             \/ pc = "rawV6" /\ pc' = "activate" /\ helper = "exited"
             \/ pc = "activate" /\ pc' = "tunnel"
             \/ pc' \in {"spawn", "running", "exited"}
      BY <1>7 DEF ReceiveFails, SkipDisabled, RegisterTunnel, NoRawV6, ActivateTunnel,
                  TunnelsMade, SpawnTasks, StartServing, Shutdown, Signal, vars, startupVars,
                  EndOfStream
    <2> QED
      BY <2>1, <2>2 DEF Quiet, FirstAnswer
  <1>8. CASE Link
    <2>1. pc' = pc /\ rawV4' = rawV4 /\ (HelperStep \/ HelperHangup \/ HelperDies)
      BY <1>8 DEF Link, Helper, startupVars
    <2>2. pc # "tap" => toHelper = <<>> /\ helper # "tap"
      BY DEF TapTurn
    <2>3. ASSUME Quiet, pc # "tap" PROVE Quiet' /\ host' = host /\ (helper = "exited" => helper' = "exited")
      BY <2>1, <2>2, <2>3 DEF Quiet, HelperStep, HelperStart, HelperReceive, HelperCreateTap,
         HelperTapFails, HelperRawV4, HelperRawV4Fails, HelperRawV6, HelperHangup, HelperDies
    <2>4. CASE pc = "tap"
      <3>1. rawV4 = "none" => FirstAnswer(0)'
        BY <1>0, <2>1, <2>4, FirstAnswerHelper
      <3> QED
        BY <2>1, <2>4, <3>1
    <2>5. CASE pc = "rawV4"
      <3>1. FirstAnswer(1)'
        BY <1>0, <2>1, <2>5, FirstAnswerHelper
      <3> QED
        BY <2>1, <2>5, <3>1
    <2>6. CASE pc = "handshake"
      <3>1. CASE HelperStart
        <4>1. HelperSend(Msg("HelperReady", NoRequest)) /\ toDaemon = <<>> /\ helper' = "waiting"
              /\ rawV4Created' = rawV4Created
          BY <2>6, <3>1 DEF HelperStart
        <4>2. Len(toDaemon') = 1
          BY <1>0, <4>1, SendFacts
        <4> QED
          BY <2>1, <2>6, <4>1, <4>2
      <3>2. CASE HelperHangup \/ HelperDies
        BY <2>1, <2>6, <3>2 DEF HelperHangup, HelperDies
      <3>3. HelperStart \/ HelperHangup \/ HelperDies
        BY <2>1, <2>2, <2>6 DEF HelperStep, HelperReceive, HelperCreateTap,
           HelperTapFails, HelperRawV4, HelperRawV4Fails, HelperRawV6
      <3> QED
        BY <3>1, <3>2, <3>3
    <2>7. CASE pc \notin {"tap", "rawV4", "handshake"}
      BY <2>1, <2>3, <2>7
    <2> QED
      BY <2>4, <2>5, <2>6, <2>7
  <1> QED
    BY <1>2, <1>3, <1>4, <1>5, <1>6, <1>7, <1>8 DEF Next, MainStep

(* Served: a section is past its reads only with the IPv4 socket there.    *)
LEMMA ServedStep ==
    ASSUME TypeInv, pc # "failed", TapTurn, FirstTurn, Served, rawV4 \in {"none", "RawSocket4"},
           [Next]_vars, pc' # "failed", FirstTurn', rawV4' \in {"none", "RawSocket4"}
    PROVE  Served'
  <1> USE DEF Served, InSection
  <1>0. /\ Len(config) \in Nat /\ DOMAIN config = 1 .. Len(config)
        /\ next \in 1 .. Len(config) + 1
    <2>1. config \in Configs /\ next \in 1 .. Len(config) + 1
      BY DEF TypeInv, TypeOK
    <2> QED
      BY <2>1, ConfigFacts
  <1>1. HasSocket => HasSocket'
    <2>1. rawV4 = "RawSocket4" => rawV4' = "RawSocket4"
      BY DEF FirstTurn, Next, MainStep, Handshake, ReceiveTap, ReceiveRawV4, ReceiveRawV6,
             ReceiveFails, SkipDisabled, RegisterTunnel, SendCreateTunnel, NoRawV6, ActivateTunnel,
             TunnelsMade, SpawnTasks, StartServing, Shutdown, Signal, Link, Helper, vars, startupVars
    <2>2. host' = host
      BY DEF Next, MainStep, Handshake, ReceiveTap, ReceiveRawV4, ReceiveRawV6, Receive,
             ReceiveFails, SkipDisabled, RegisterTunnel, SendCreateTunnel, NoRawV6, ActivateTunnel,
             TunnelsMade, SpawnTasks, StartServing, Shutdown, Signal, Link, Helper, vars, linkVars,
             helperVars, HelperStep, HelperStart, HelperReceive, HelperCreateTap, HelperTapFails,
             HelperFails, HelperRawV4, HelperRawV4Fails, HelperRawV6, HelperHangup, HelperDies
    <2>3. helper = "exited" => helper' = "exited"
      BY DEF Next, MainStep, Handshake, ReceiveTap, ReceiveRawV4, ReceiveRawV6, Receive,
             ReceiveFails, SkipDisabled, RegisterTunnel, SendCreateTunnel, NoRawV6, ActivateTunnel,
             TunnelsMade, SpawnTasks, StartServing, Shutdown, Signal, Link, Helper, vars, linkVars,
             helperVars, HelperStep, HelperStart, HelperReceive, HelperCreateTap, HelperTapFails,
             HelperFails, HelperRawV4, HelperRawV4Fails, HelperRawV6, HelperHangup, HelperDies
    <2> QED
      BY <2>1, <2>2, <2>3 DEF HasSocket
  <1>2. CASE SkipDisabled
    <2>1. /\ pc = "tunnel" /\ ~config[next].enabled /\ next' = next + 1
          /\ config' = config /\ pc' = pc
      BY <1>2 DEF SkipDisabled
    <2>2. \A i \in 1 .. next : i \in 1 .. next - 1 \/ i = next
      BY <1>0
    <2> QED
      BY <1>0, <1>1, <2>1, <2>2
  <1>3. CASE ActivateTunnel
    <2>1. pc = "activate" /\ pc' = "tunnel" /\ config' = config /\ rawV4' = rawV4
      BY <1>3 DEF ActivateTunnel
    <2>2. HasSocket
      BY <2>1 DEF FirstTurn, HasSocket
    <2> QED
      BY <1>1, <2>1, <2>2
  <1>4. CASE TunnelsMade
    <2>1. pc = "tunnel" /\ pc' = "spawn" /\ next = Len(config) + 1 /\ config' = config
      BY <1>4 DEF TunnelsMade
    <2>2. Enabled # {} => HasSocket
      BY <1>0, <2>1 DEF Enabled
    <2>3. Enabled' = Enabled
      BY <2>1 DEF Enabled
    <2> QED
      BY <1>1, <2>1, <2>2, <2>3
  <1>5. CASE (\E h \in Requests : SpawnTasks(h)) \/ StartServing \/ Shutdown \/ Signal
             \/ Link \/ UNCHANGED vars
    <2>1. /\ config' = config
          /\ \/ pc' = pc /\ next' = next
             \/ pc \in {"spawn", "running"} /\ pc' \in {"spawn", "running", "exited"}
      BY <1>5 DEF SpawnTasks, StartServing, Shutdown, Signal, Link, Helper, vars, startupVars
    <2>2. Enabled' = Enabled
      BY <2>1 DEF Enabled
    <2> QED
      BY <1>1, <2>1, <2>2
  <1>6. CASE \/ \E n \in 1 .. Len(toDaemon) :
                   Handshake(n) \/ ReceiveTap(n) \/ ReceiveRawV4(n) \/ ReceiveRawV6(n)
             \/ ReceiveFails \/ RegisterTunnel \/ SendCreateTunnel \/ NoRawV6
    <2>1. /\ config' = config /\ next' = next
          /\ pc \in InSection \cup {"handshake", "tunnel"} /\ pc' \notin {"spawn", "running", "exited"}
          /\ pc = "handshake" => next = 1
      BY <1>6 DEF Handshake, ReceiveTap, ReceiveRawV4, ReceiveRawV6, ReceiveFails,
                  RegisterTunnel, SendCreateTunnel, NoRawV6
    <2>2. \A i \in 1 .. next - 1 : config[i].enabled => HasSocket
      <3>1. CASE pc = "handshake"
        BY <2>1, <3>1
      <3>2. CASE pc # "handshake"
        BY <2>1, <3>2
      <3> QED
        BY <3>1, <3>2
    <2>3. pc' # "handshake"
      BY <1>6 DEF Handshake, ReceiveTap, ReceiveRawV4, ReceiveRawV6, ReceiveFails,
                  RegisterTunnel, SendCreateTunnel, NoRawV6
    <2> QED
      BY <1>1, <2>1, <2>2, <2>3
  <1> QED
    BY <1>2, <1>3, <1>4, <1>5, <1>6 DEF Next, MainStep

(* The parts of SocketInv together.                                        *)
LEMMA SocketInvInit ==
    Init => SocketInv
  <1> SUFFICES ASSUME Init PROVE SocketInv
    OBVIOUS
  <1> USE DEF Init, LinkInit
  <1>1. toDaemon = <<>> /\ Len(toDaemon) = 0 /\ DOMAIN toDaemon = {} /\ toHelper = <<>>
    OBVIOUS
  <1>2. TapTurn
    BY <1>1 DEF TapTurn
  <1>3. FirstTurn
    BY <1>1 DEF FirstTurn
  <1>4. Served
    BY DEF Served, InSection
  <1>5. TapInStep
    BY DEF TapInStep
  <1> QED
    BY <1>2, <1>3, <1>4, <1>5 DEF SocketInv

LEMMA SocketInvStep ==
    TypeInv /\ SocketInv /\ [Next]_vars => SocketInv'
  <1> SUFFICES ASSUME TypeInv, SocketInv, [Next]_vars PROVE SocketInv'
    OBVIOUS
  <1>0. /\ LinkTypeOK
        /\ pc = "failed" => pc' = "failed"
        /\ rawV4 \in {"none", "RawSocket4"} /\ rawV6 \in {"none", "RawSocket6"} /\ TapInStep
    <2>1. pc = "failed" => pc' = "failed"
      BY DEF Next, MainStep, Handshake, ReceiveTap, ReceiveRawV4, ReceiveRawV6, ReceiveFails,
             SkipDisabled, RegisterTunnel, SendCreateTunnel, NoRawV6, ActivateTunnel, TunnelsMade,
             SpawnTasks, StartServing, Shutdown, Signal, Link, Helper, vars, startupVars
    <2> QED
      BY <2>1 DEF SocketInv, TypeInv, TypeOK
  <1>1. ASSUME NEW n \in 1 .. Len(toDaemon), ReceiveTap(n) PROVE TapInStep'
    <2>1. CASE Head(toDaemon).kind = "TapCreated"
      <3>1. pc = "tap" /\ tap' = [tap EXCEPT ![next] = Head(toDaemon).for] /\ Receive(n)
        BY <1>1, <2>1 DEF ReceiveTap
      <3>2. Head(toDaemon) = toDaemon[1] /\ 1 \in DOMAIN toDaemon
        <4>1. Head(toDaemon) = toDaemon[1]
          BY <1>0, <1>1, <3>1, ReceiveFacts
        <4>2. Len(toDaemon) \in Nat /\ DOMAIN toDaemon = 1 .. Len(toDaemon)
          BY <1>0, QueueFacts
        <4>3. 1 \in 1 .. Len(toDaemon)
          BY <1>1, <4>2
        <4> QED
          BY <4>1, <4>2, <4>3
      <3>3. toDaemon[1].for = next
        BY <2>1, <3>1, <3>2 DEF SocketInv, TapTurn
      <3> QED
        BY <1>0, <3>1, <3>2, <3>3 DEF TapInStep
    <2>2. CASE Head(toDaemon).kind # "TapCreated"
      BY <1>0, <1>1, <2>2 DEF ReceiveTap, TapInStep
    <2> QED
      BY <2>1, <2>2
  <1>2. TapInStep'
    <2>1. tap' = tap \/ \E n \in 1 .. Len(toDaemon) : ReceiveTap(n)
      BY DEF Next, MainStep, Handshake, ReceiveRawV4, ReceiveRawV6, ReceiveFails,
             SkipDisabled, RegisterTunnel, SendCreateTunnel, NoRawV6, ActivateTunnel, TunnelsMade,
             SpawnTasks, StartServing, Shutdown, Signal, Link, Helper, vars, startupVars
    <2> QED
      BY <1>0, <1>1, <2>1 DEF TapInStep
  <1>3. rawV6' \in {"none", "RawSocket6"}
    <2>1. ASSUME NEW n \in 1 .. Len(toDaemon), ReceiveRawV6(n) PROVE rawV6' \in {"none", "RawSocket6"}
      <3>1. /\ rawV6' = IF Head(toDaemon).kind = "RawSocket6" THEN FdOf(n) ELSE rawV6
            /\ Receive(n)
        BY <2>1 DEF ReceiveRawV6
      <3>2. Head(toDaemon) = toDaemon[1] /\ (CarriesFd(toDaemon[1]) => n = 1)
        BY <1>0, <2>1, <3>1, ReceiveFacts
      <3> QED
        BY <1>0, <3>1, <3>2 DEF FdOf, CarriesFd
    <2>2. rawV6' = rawV6 \/ \E n \in 1 .. Len(toDaemon) : ReceiveRawV6(n)
      BY DEF Next, MainStep, Handshake, ReceiveRawV4, ReceiveTap, ReceiveFails,
             SkipDisabled, RegisterTunnel, SendCreateTunnel, NoRawV6, ActivateTunnel, TunnelsMade,
             SpawnTasks, StartServing, Shutdown, Signal, Link, Helper, vars, startupVars
    <2> QED
      BY <1>0, <2>1, <2>2
  <1>4. rawV4' \in {"none", "RawSocket4"}
    <2>1. ASSUME NEW n \in 1 .. Len(toDaemon), ReceiveRawV4(n) PROVE rawV4' \in {"none", "RawSocket4"}
      <3>1. pc = "rawV4" /\ rawV4' = FdOf(n) /\ Receive(n)
        BY <2>1 DEF ReceiveRawV4
      <3>2. FirstAnswer(1) /\ 1 \in DOMAIN toDaemon
        BY <1>0, <3>1, QueueFacts DEF SocketInv, FirstTurn
      <3>3. CASE toDaemon[1].kind = "RawSocket4"
        <4>1. n = 1
          BY <1>0, <2>1, <3>1, <3>3, ReceiveFacts DEF CarriesFd
        <4> QED
          BY <3>1, <3>3, <4>1 DEF FdOf, CarriesFd
      <3>4. CASE toDaemon[1].kind = "Error" /\ Len(toDaemon) = 1
        BY <3>1, <3>4 DEF FdOf, CarriesFd
      <3> QED
        BY <3>2, <3>3, <3>4 DEF FirstAnswer
    <2>2. rawV4' = rawV4 \/ \E n \in 1 .. Len(toDaemon) : ReceiveRawV4(n)
      BY DEF Next, MainStep, Handshake, ReceiveRawV6, ReceiveTap, ReceiveFails,
             SkipDisabled, RegisterTunnel, SendCreateTunnel, NoRawV6, ActivateTunnel, TunnelsMade,
             SpawnTasks, StartServing, Shutdown, Signal, Link, Helper, vars, startupVars
    <2> QED
      BY <1>0, <2>1, <2>2
  <1>5. ASSUME pc' # "failed" PROVE TapTurn' /\ FirstTurn' /\ Served'
    <2>1. pc # "failed" /\ TapTurn /\ FirstTurn /\ Served
      BY <1>0, <1>5 DEF SocketInv
    <2>2. TapTurn'
      BY <1>5, <2>1, TapTurnStep
    <2>3. FirstTurn'
      BY <1>5, <2>1, FirstTurnStep
    <2>4. Served'
      BY <1>0, <1>4, <1>5, <2>1, <2>3, ServedStep
    <2> QED
      BY <2>2, <2>3, <2>4
  <1> QED
    BY <1>2, <1>3, <1>4, <1>5 DEF SocketInv

LEMMA InvCorrect ==
    Spec => [](TypeInv /\ SocketInv)
  <1>1. Init => TypeInv /\ SocketInv
    BY TypeInvInit, SocketInvInit
  <1>2. (TypeInv /\ SocketInv) /\ [Next]_vars => (TypeInv /\ SocketInv)'
    BY TypeInvStep, SocketInvStep
  <1> QED
    BY <1>1, <1>2, PTL DEF Spec

(* A section is only ever given the TAP made for it (main.rs:151): on any  *)
(* host, for any file, also when the helper dies and when it sends an      *)
(* Error nobody expects after every tunnel.                                *)
THEOREM RequestsInStep ==
    Spec => []TapInStep
  <1>1. SocketInv => TapInStep
    BY DEF SocketInv
  <1> QED
    BY <1>1, InvCorrect, PTL

(* What is sent from as the IPv4 raw socket is one, although the code      *)
(* keeps whatever descriptor arrives (main.rs:170); and a daemon that runs *)
(* with tunnels has it, unless the host has none and the helper has gone.  *)
THEOREM SocketsAreRight ==
    Spec => []RightSockets
  <1>1. TypeInv /\ SocketInv => RightSockets
    BY DEF SocketInv, RightSockets, Served, HasSocket
  <1> QED
    BY <1>1, InvCorrect, PTL

--------------------------------------------------------------------------------
(* The handover. *)

(* The sections whose tunnel has been made. *)
Done == IF pc \in {"spawn", "running", "exited"}
        THEN Enabled ELSE {i \in Enabled : i < next}

(* startup_tunnels lists them, each once, and they are active. *)
MadeDone ==
    /\ \A j \in DOMAIN made : made[j] \in Done
    /\ \A i \in Done : \E j \in DOMAIN made : made[j] = i
    /\ \A j, k \in DOMAIN made : made[j] = made[k] => j = k
    /\ \A i \in DOMAIN config : state[i] = IF i \in Done THEN "Active" ELSE "Initializing"

(* The registry maps the key of a section to it, and with unique ids no    *)
(* section is inserted over another.                                       *)
Registered ==
    /\ pc \in InSection => next \in Enabled
    /\ \A k \in Keys : registry[k] # NoRequest => registry[k] \in Enabled /\ KeyOf(registry[k]) = k
    /\ UniqueIds => \A i \in Done : registry[KeyOf(i)] = i
    /\ UniqueIds /\ pc \in InSection => registry[KeyOf(next)] = next

(* The places in startup_tunnels the second loop is past. *)
Spawned == IF pc = "spawn" THEN {j \in DOMAIN made : j < next}
           ELSE IF pc \in {"running", "exited"} THEN DOMAIN made ELSE {}

(* With unique ids, their tasks are the tunnel's own. *)
Tracked ==
    /\ \A t \in Tids : tasks[t] \in Enabled \cup {NoRequest}
    /\ UniqueIds => \A j \in Spawned : serves[made[j]] = made[j]
    /\ UniqueIds => \A j \in Spawned : tasks[config[made[j]].tid] = made[j]

RegistryInv == pc # "failed" => MadeDone /\ Registered /\ Tracked

(* What the step lemmas need of the types. *)
LEMMA StartupFacts ==
    ASSUME TypeInv
    PROVE  /\ config \in Configs /\ Len(config) \in Nat /\ DOMAIN config = 1 .. Len(config)
           /\ next \in 1 .. Len(config) + 1
           /\ Len(made) \in Nat /\ DOMAIN made = 1 .. Len(made)
           /\ \A j \in DOMAIN made : made[j] \in Requests
           /\ Enabled \subseteq DOMAIN config
           /\ \A i \in Enabled : i \in Requests /\ i # NoRequest /\ KeyOf(i) \in Keys
           /\ \A i \in Enabled : config[i].tid \in Tids
           /\ pc \in InSection => next \in DOMAIN config
  <1>1. /\ config \in Configs /\ made \in Seq(Requests) /\ next \in 1 .. Len(config) + 1
        /\ pc \in InSection => next \in DOMAIN config
    BY DEF TypeInv, TypeOK
  <1>2. Len(made) \in Nat /\ DOMAIN made = 1 .. Len(made) /\ \A j \in DOMAIN made : made[j] \in Requests
    BY <1>1
  <1>3. Enabled \subseteq DOMAIN config
    BY DEF Enabled
  <1> QED
    BY <1>1, <1>2, <1>3, ConfigFacts

(* The file does not change, nor do the sections that count. *)
LEMMA ConfigStays ==
    ASSUME [Next]_vars
    PROVE  config' = config /\ Enabled' = Enabled /\ UniqueIds' = UniqueIds
  <1>1. config' = config
    BY DEF Next, MainStep, Handshake, ReceiveTap, ReceiveRawV4, ReceiveRawV6, ReceiveFails,
           SkipDisabled, RegisterTunnel, SendCreateTunnel, NoRawV6, ActivateTunnel, TunnelsMade,
           SpawnTasks, StartServing, Shutdown, Signal, Link, Helper, vars, startupVars
  <1> QED
    BY <1>1 DEF Enabled, UniqueIds

(* Making a tunnel is the one step that adds to Done.                      *)
LEMMA DoneStep ==
    ASSUME TypeInv, [Next]_vars, pc # "failed", pc' # "failed"
    PROVE  Done' = IF pc = "activate" /\ pc' = "tunnel" /\ next \in Enabled
                   THEN Done \cup {next} ELSE Done
  <1>0. /\ Enabled' = Enabled /\ next \in Nat /\ Len(config) \in Nat
        /\ Enabled \subseteq 1 .. Len(config)
    BY ConfigStays, StartupFacts
  <1>1. CASE SkipDisabled
    <2>1. pc = "tunnel" /\ pc' = "tunnel" /\ next \notin Enabled /\ next' = next + 1
      BY <1>1 DEF SkipDisabled, Enabled
    <2>2. \A i \in Enabled : i < next + 1 <=> i < next
      BY <1>0, <2>1
    <2> QED
      BY <1>0, <2>1, <2>2 DEF Done
  <1>2. CASE ActivateTunnel
    <2>1. pc = "activate" /\ pc' = "tunnel" /\ next' = next + 1
      BY <1>2 DEF ActivateTunnel
    <2>2. \A i \in Enabled : i < next + 1 <=> i < next \/ i = next
      BY <1>0
    <2> QED
      BY <1>0, <2>1, <2>2 DEF Done
  <1>3. CASE TunnelsMade
    <2>1. pc = "tunnel" /\ pc' = "spawn" /\ next = Len(config) + 1
      BY <1>3 DEF TunnelsMade
    <2>2. \A i \in Enabled : i < next
      BY <1>0, <2>1
    <2> QED
      BY <1>0, <2>1, <2>2 DEF Done
  <1>4. CASE (\E h \in Requests : SpawnTasks(h)) \/ StartServing \/ Shutdown
    BY <1>0, <1>4 DEF Done, SpawnTasks, StartServing, Shutdown
  <1>5. CASE \/ \E n \in 1 .. Len(toDaemon) :
                   Handshake(n) \/ ReceiveTap(n) \/ ReceiveRawV4(n) \/ ReceiveRawV6(n)
             \/ ReceiveFails \/ RegisterTunnel \/ SendCreateTunnel \/ NoRawV6
             \/ Signal \/ Link \/ UNCHANGED vars
    <2>1. /\ next' = next
          /\ \/ pc' = pc
             \/ /\ pc \in InSection \cup {"handshake", "tunnel"} /\ pc # "activate"
                /\ pc' \notin {"spawn", "running", "exited"}
      BY <1>5 DEF Handshake, ReceiveTap, ReceiveRawV4, ReceiveRawV6, ReceiveFails, RegisterTunnel,
                  SendCreateTunnel, NoRawV6, Signal, Link, Helper, vars, startupVars, InSection
    <2> QED
      BY <1>0, <2>1 DEF Done, InSection
  <1> QED
    BY <1>1, <1>2, <1>3, <1>4, <1>5 DEF Next, MainStep

LEMMA MadeDoneStep ==
    ASSUME TypeInv, MadeDone, Registered, [Next]_vars, pc # "failed", pc' # "failed"
    PROVE  MadeDone'
  <1>0. /\ config' = config /\ next \in Nat /\ Len(config) \in Nat
        /\ Len(made) \in Nat /\ DOMAIN made = 1 .. Len(made)
        /\ Enabled \subseteq DOMAIN config /\ made \in Seq(Requests)
        /\ \A i \in Enabled : i \in Requests
        /\ state \in [Requests -> TunnelStates]
    BY ConfigStays, StartupFacts DEF TypeInv, TypeOK
  <1>1. CASE ActivateTunnel
    <2>1. /\ pc = "activate" /\ pc' = "tunnel" /\ made' = Append(made, next)
          /\ next \in Enabled
          /\ state' = [state EXCEPT ![next] =
                          AfterTransition(AfterTransition(@, "Initializing", "Configured"),
                                          "Configured", "Active")]
      BY <1>1 DEF ActivateTunnel, Registered, InSection
    <2>2. Done' = Done \cup {next} /\ next \notin Done
      <3>1. next \notin Done
        BY <1>0, <2>1 DEF Done
      <3> QED
        BY <2>1, <3>1, DoneStep
    <2>3. /\ DOMAIN made' = 1 .. Len(made) + 1 /\ made'[Len(made) + 1] = next
          /\ \A j \in DOMAIN made : made'[j] = made[j]
      BY <1>0, <2>1
    <2>4. /\ \A j \in DOMAIN made' : j \in DOMAIN made \/ j = Len(made) + 1
          /\ DOMAIN made \subseteq DOMAIN made' /\ Len(made) + 1 \in DOMAIN made'
      BY <1>0, <2>3
    <2>5. \A j \in DOMAIN made' : made'[j] \in Done'
      BY <2>2, <2>3, <2>4 DEF MadeDone
    <2>6. \A i \in Done' : \E j \in DOMAIN made' : made'[j] = i
      BY <2>2, <2>3, <2>4 DEF MadeDone
    <2>7. \A j, k \in DOMAIN made' : made'[j] = made'[k] => j = k
      BY <2>2, <2>3, <2>4 DEF MadeDone
    <2>8. state'[next] = "Active" /\ \A i \in DOMAIN config : i # next => state'[i] = state[i]
      <3>1. state[next] = "Initializing" /\ next \in Requests
        BY <1>0, <2>1, <2>2 DEF MadeDone
      <3>2. AfterTransition(AfterTransition("Initializing", "Initializing", "Configured"),
                            "Configured", "Active") = "Active"
        BY DEF AfterTransition, IsValidTransition, ValidTransitions
      <3>3. \A i \in DOMAIN config : i \in Requests
        BY <1>0, ConfigFacts, StartupFacts
      <3> QED
        BY <1>0, <2>1, <3>1, <3>2, <3>3
    <2>9. \A i \in DOMAIN config' : state'[i] = IF i \in Done' THEN "Active" ELSE "Initializing"
      BY <1>0, <2>2, <2>8 DEF MadeDone
    <2> QED
      BY <2>5, <2>6, <2>7, <2>9 DEF MadeDone
  <1>2. CASE ~ActivateTunnel
    <2>1. made' = made /\ state' = state /\ ~(pc = "activate" /\ pc' = "tunnel")
      BY <1>2 DEF Next, MainStep, Handshake, ReceiveTap, ReceiveRawV4, ReceiveRawV6, ReceiveFails,
           SkipDisabled, RegisterTunnel, SendCreateTunnel, NoRawV6, TunnelsMade,
           SpawnTasks, StartServing, Shutdown, Signal, Link, Helper, vars, startupVars
    <2>2. Done' = Done
      BY <2>1, DoneStep
    <2> QED
      BY <1>0, <2>1, <2>2 DEF MadeDone
  <1> QED
    BY <1>1, <1>2

LEMMA RegisteredStep ==
    ASSUME TypeInv, MadeDone, Registered, [Next]_vars, pc # "failed", pc' # "failed"
    PROVE  Registered'
  <1>0. /\ config' = config /\ Enabled' = Enabled /\ UniqueIds' = UniqueIds
        /\ \A i \in Enabled : KeyOf(i) \in Keys /\ i # NoRequest
        /\ \A i : KeyOf(i)' = KeyOf(i)
        /\ registry \in [Keys -> Requests \cup {NoRequest}]
        /\ Done \subseteq Enabled
    <2>1. config' = config /\ Enabled' = Enabled /\ UniqueIds' = UniqueIds
      BY ConfigStays
    <2>2. \A i : KeyOf(i)' = KeyOf(i)
      BY <2>1 DEF KeyOf
    <2> QED
      BY <2>1, <2>2, StartupFacts DEF Done, TypeInv, TypeOK
  <1>1. CASE RegisterTunnel
    <2>1. /\ pc = "tunnel" /\ pc' = "send" /\ next' = next
          /\ next \in Enabled /\ registry' = [registry EXCEPT ![KeyOf(next)] = next]
      BY <1>1 DEF RegisterTunnel, Enabled
    <2>2. Done' = Done
      BY <2>1, DoneStep
    <2>3. registry'[KeyOf(next)] = next /\ \A k \in Keys : k # KeyOf(next) => registry'[k] = registry[k]
      BY <1>0, <2>1
    <2>4. \A k \in Keys : registry'[k] # NoRequest => registry'[k] \in Enabled /\ KeyOf(registry'[k]) = k
      BY <2>1, <2>3 DEF Registered
    <2>5. ASSUME UniqueIds, NEW i \in Done PROVE registry'[KeyOf(i)] = i
      <3>1. CASE KeyOf(i) = KeyOf(next)
        <4>1. config[i].tid = config[next].tid
          BY <3>1 DEF KeyOf
        <4>2. i = next
          BY <1>0, <2>1, <2>5, <4>1 DEF UniqueIds
        <4> QED
          BY <2>3, <4>2
      <3>2. CASE KeyOf(i) # KeyOf(next)
        BY <1>0, <2>3, <2>5, <3>2 DEF Registered
      <3> QED
        BY <3>1, <3>2
    <2> QED
      BY <1>0, <2>1, <2>2, <2>3, <2>4, <2>5 DEF Registered
  <1>2. CASE ActivateTunnel
    <2>1. /\ pc = "activate" /\ pc' = "tunnel" /\ registry' = registry /\ next \in Enabled
          /\ UniqueIds => registry[KeyOf(next)] = next
      BY <1>2 DEF ActivateTunnel, Registered, InSection
    <2>2. Done' = Done \cup {next}
      BY <2>1, DoneStep
    <2> QED
      BY <1>0, <2>1, <2>2 DEF Registered, InSection
  <1>3. CASE ~RegisterTunnel /\ ~ActivateTunnel
    <2>1. /\ registry' = registry /\ ~(pc = "activate" /\ pc' = "tunnel")
          /\ pc' \in InSection => pc \in InSection /\ next' = next
      BY <1>3 DEF Next, MainStep, Handshake, ReceiveTap, ReceiveRawV4, ReceiveRawV6, ReceiveFails,
           SkipDisabled, SendCreateTunnel, NoRawV6, TunnelsMade,
           SpawnTasks, StartServing, Shutdown, Signal, Link, Helper, vars, startupVars, InSection
    <2>2. Done' = Done
      BY <2>1, DoneStep
    <2> QED
      BY <1>0, <2>1, <2>2 DEF Registered
  <1> QED
    BY <1>1, <1>2, <1>3

LEMMA TrackedStep ==
    ASSUME TypeInv, MadeDone, Registered, Tracked, [Next]_vars, pc # "failed", pc' # "failed"
    PROVE  Tracked'
  <1>0. /\ config' = config /\ Enabled' = Enabled /\ UniqueIds' = UniqueIds
        /\ Len(made) \in Nat /\ DOMAIN made = 1 .. Len(made) /\ next \in Nat /\ next >= 1
        /\ \A i \in Enabled : i \in Requests /\ config[i].tid \in Tids
        /\ \A j \in DOMAIN made : made[j] \in Enabled
        /\ serves \in [Requests -> Requests \cup {NoRequest}]
        /\ tasks \in [Tids -> Requests \cup {NoRequest}]
    BY ConfigStays, StartupFacts DEF Done, MadeDone, TypeInv, TypeOK
  <1>1. CASE \E h \in Requests : SpawnTasks(h)
    <2> DEFINE r == made[next]
    <2>1. PICK h \in Requests : SpawnTasks(h)
      BY <1>1
    <2>2. /\ pc = "spawn" /\ pc' = "spawn" /\ next \in DOMAIN made /\ next' = next + 1
          /\ \E k \in Keys : k[1] = config[r].tid /\ registry[k] = h
          /\ serves' = [serves EXCEPT ![r] = h] /\ tasks' = [tasks EXCEPT ![config[r].tid] = r]
          /\ made' = made
      BY <2>1 DEF SpawnTasks
    <2>3. r \in Enabled /\ r \in Requests /\ config[r].tid \in Tids
      BY <1>0, <2>2
    <2>4. PICK k \in Keys : k[1] = config[r].tid /\ registry[k] = h
      BY <2>2
    <2>5. h \in Enabled /\ config[h].tid = config[r].tid
      <3>1. h # NoRequest
        BY <2>1, ConfigFacts, StartupFacts
      <3>2. h \in Enabled /\ KeyOf(h) = k
        BY <2>4, <3>1 DEF Registered
      <3>3. k[1] = config[h].tid
        BY <3>2 DEF KeyOf
      <3> QED
        BY <2>4, <3>2, <3>3
    <2>6. Spawned' = Spawned \cup {next} /\ Spawned \subseteq DOMAIN made
      <3>1. \A j \in DOMAIN made : j < next + 1 <=> j < next \/ j = next
        BY <1>0
      <3> QED
        BY <2>2, <3>1 DEF Spawned
    <2>7. \A t \in Tids : tasks'[t] \in Enabled \cup {NoRequest}
      <3> HIDE DEF r
      <3> QED
        BY <1>0, <2>2, <2>3 DEF Tracked
    <2>8. ASSUME UniqueIds, NEW j \in Spawned'
          PROVE  serves'[made[j]] = made[j] /\ tasks'[config[made[j]].tid] = made[j]
      <3>0. h = r
        BY <2>3, <2>5, <2>8 DEF UniqueIds
      <3>1. CASE j = next
        BY <1>0, <2>2, <2>3, <3>0, <3>1
      <3>2. CASE j \in Spawned /\ j # next
        <4>1. made[j] # r /\ made[j] \in Enabled
          BY <1>0, <2>2, <2>6, <3>2 DEF MadeDone
        <4>2. config[made[j]].tid # config[r].tid
          BY <2>3, <2>8, <4>1 DEF UniqueIds
        <4>3. serves[made[j]] = made[j] /\ tasks[config[made[j]].tid] = made[j]
          BY <2>8, <3>2 DEF Tracked
        <4> HIDE DEF r
        <4> QED
          BY <1>0, <2>2, <2>3, <4>1, <4>2, <4>3
      <3> QED
        BY <2>6, <2>8, <3>1, <3>2
    <2> QED
      BY <1>0, <2>2, <2>7, <2>8 DEF Tracked
  <1>2. CASE ~(\E h \in Requests : SpawnTasks(h))
    <2>1. serves' = serves /\ tasks' = tasks
      BY <1>2 DEF Next, MainStep, Handshake, ReceiveTap, ReceiveRawV4, ReceiveRawV6, ReceiveFails,
           SkipDisabled, RegisterTunnel, SendCreateTunnel, NoRawV6, ActivateTunnel, TunnelsMade,
           StartServing, Shutdown, Signal, Link, Helper, vars, startupVars
    <2>2. \A j \in Spawned' : j \in Spawned /\ made'[j] = made[j]
      <3>1. CASE TunnelsMade
        BY <1>0, <3>1 DEF TunnelsMade, Spawned
      <3>2. CASE StartServing
        BY <1>0, <3>2 DEF StartServing, Spawned
      <3>3. CASE Shutdown \/ Signal \/ Link \/ UNCHANGED vars
        BY <3>3 DEF Shutdown, Signal, Link, Helper, vars, startupVars, Spawned
      <3>4. CASE \/ \E n \in 1 .. Len(toDaemon) :
                       Handshake(n) \/ ReceiveTap(n) \/ ReceiveRawV4(n) \/ ReceiveRawV6(n)
                 \/ ReceiveFails \/ SkipDisabled \/ RegisterTunnel \/ SendCreateTunnel
                 \/ NoRawV6 \/ ActivateTunnel
        <4>1. pc' \notin {"spawn", "running", "exited"}
          BY <3>4 DEF Handshake, ReceiveTap, ReceiveRawV4, ReceiveRawV6, ReceiveFails, SkipDisabled,
                      RegisterTunnel, SendCreateTunnel, NoRawV6, ActivateTunnel
        <4> QED
          BY <4>1 DEF Spawned
      <3> QED
        BY <1>2, <3>1, <3>2, <3>3, <3>4 DEF Next, MainStep
    <2> QED
      BY <1>0, <2>1, <2>2 DEF Tracked
  <1> QED
    BY <1>1, <1>2

(* On a host without IPv6 the helper ends every answer with an Error that  *)
(* only the first tunnel's reads take off the queue.                       *)

(* The IPv4 socket is at place p of the queue, the Error behind it. *)
FromSocket(p) ==
    /\ rawV4Created
    /\ \/ helper \in {"rawV6", "exited"} /\ Len(toDaemon) = p
       \/ /\ helper \in {"waiting", "exited"}
          /\ Len(toDaemon) = p + 1 /\ toDaemon[p + 1].kind = "Error"

(* All of the first answer has been read. *)
Idle ==
    /\ toDaemon = <<>>
    /\ helper = "exited" \/ (helper = "waiting" /\ rawV4Created /\ rawV4 = "RawSocket4")

(* The answer to the second request: a TAP and the Error. *)
SecondAnswer ==
    /\ rawV4Created /\ rawV4 = "RawSocket4"
    /\ \/ toDaemon = <<>> /\ helper \in {"waiting", "tap", "exited"}
       \/ toDaemon # <<>> /\ toDaemon[1].kind = "Error"
       \/ /\ Len(toDaemon) = 1 /\ helper \in {"rawV4", "rawV6", "exited"}
          /\ toDaemon[1].kind = "TapCreated"
       \/ /\ Len(toDaemon) = 2 /\ helper \in {"waiting", "exited"}
          /\ toDaemon[1].kind = "TapCreated" /\ toDaemon[2].kind = "Error"

(* The next message, if one comes, is the Error. *)
Spoilt ==
    \/ toDaemon # <<>> /\ toDaemon[1].kind = "Error"
    \/ toDaemon = <<>> /\ (helper = "exited" \/ (helper \in {"rawV4", "rawV6"} /\ rawV4Created))

NoneMade ==
    /\ pc \in {"handshake", "tunnel", "send", "tap", "rawV4"} => rawV4 = "none"
    /\ pc = "tap" /\ 2 \in DOMAIN toDaemon =>
          (toDaemon[2].kind = "RawSocket4" => FromSocket(2))
    /\ pc = "rawV4" /\ 1 \in DOMAIN toDaemon =>
          (toDaemon[1].kind = "RawSocket4" => FromSocket(1))
    /\ pc = "rawV6" /\ rawV4 # "none" => FromSocket(0)
    /\ pc = "activate" => Idle

OneMade ==
    /\ pc \notin {"handshake", "rawV4", "rawV6"}
    /\ pc \in {"tunnel", "send"} => Idle
    /\ pc = "tap" => SecondAnswer
    /\ pc = "activate" => Spoilt

TwoMade ==
    /\ pc \notin {"handshake", "rawV4", "rawV6", "activate"}
    /\ pc \in {"tunnel", "send", "tap"} => Spoilt

TwoAtMost ==
    /\ ~rawV6Created
    /\ \/ Len(made) = 0 /\ NoneMade
       \/ Len(made) = 1 /\ OneMade
       \/ Len(made) = 2 /\ TwoMade

StaleErrorInv == pc # "failed" /\ ~host.v6 => TwoAtMost

(* The helper added a message of this kind to the queue. *)
Sent(k) ==
    /\ Len(toDaemon') = Len(toDaemon) + 1
    /\ toDaemon'[Len(toDaemon) + 1].kind = k
    /\ 1 \in DOMAIN toDaemon => toDaemon'[1] = toDaemon[1]
    /\ 2 \in DOMAIN toDaemon => toDaemon'[2] = toDaemon[2]

(* What each step of the helper does to the queue of a host without IPv6.  *)
LEMMA HelperAdds ==
    ASSUME LinkTypeOK, ~host.v6, ~rawV6Created, HelperStep \/ HelperHangup \/ HelperDies
    PROVE  /\ host' = host /\ ~rawV6Created'
           /\ \/ helper' = "exited" /\ helper # "exited"
                 /\ UNCHANGED <<toDaemon, rawV4Created>>
              \/ helper = "starting" /\ helper' = "waiting" /\ rawV4Created' = rawV4Created
                 /\ Sent("HelperReady")
              \/ helper = "waiting" /\ helper' = "tap" /\ toHelper # <<>>
                 /\ UNCHANGED <<toDaemon, rawV4Created>>
              \/ helper = "tap" /\ helper' = "rawV4" /\ rawV4Created' = rawV4Created
                 /\ Sent("TapCreated")
              \/ helper = "tap" /\ helper' = "waiting" /\ rawV4Created' = rawV4Created
                 /\ Sent("Error")
              \/ helper = "rawV4" /\ helper' = "rawV6" /\ rawV4Created
                 /\ UNCHANGED <<toDaemon, rawV4Created>>
              \/ helper = "rawV4" /\ helper' = "rawV6" /\ ~rawV4Created /\ rawV4Created'
                 /\ Sent("RawSocket4")
              \/ helper = "rawV4" /\ helper' = "waiting" /\ ~rawV4Created /\ ~rawV4Created'
                 /\ Sent("Error")
              \/ helper = "rawV6" /\ helper' = "waiting" /\ rawV4Created' = rawV4Created
                 /\ Sent("Error")
  <1>s. ASSUME NEW k, NEW r, HelperSend(Msg(k, r)) PROVE Sent(k)
    BY <1>s, SendFacts, QueueFacts DEF Sent, Msg
  <1>1. CASE HelperStart
    BY <1>s, <1>1 DEF HelperStart
  <1>2. CASE HelperReceive
    BY <1>2 DEF HelperReceive
  <1>3. CASE HelperCreateTap
    BY <1>s, <1>3 DEF HelperCreateTap
  <1>4. CASE HelperTapFails
    BY <1>s, <1>4 DEF HelperTapFails, HelperFails
  <1>5. CASE HelperRawV4
    BY <1>s, <1>5 DEF HelperRawV4
  <1>6. CASE HelperRawV4Fails
    BY <1>s, <1>6 DEF HelperRawV4Fails, HelperFails
  <1>7. CASE HelperRawV6
    BY <1>s, <1>7 DEF HelperRawV6
  <1>8. CASE HelperHangup
    BY <1>8 DEF HelperHangup
  <1>9. CASE HelperDies
    BY <1>9 DEF HelperDies
  <1> QED
    BY <1>1, <1>2, <1>3, <1>4, <1>5, <1>6, <1>7, <1>8, <1>9 DEF HelperStep

(* The helper's steps keep each of the three.                              *)
LEMMA TwoAtMostHelper ==
    ASSUME LinkTypeOK, TapTurn, FirstTurn, ~host.v6, TwoAtMost,
           HelperStep \/ HelperHangup \/ HelperDies,
           pc' = pc, made' = made, rawV4' = rawV4
    PROVE  TwoAtMost'
  <1>0. /\ Len(toDaemon) \in Nat /\ DOMAIN toDaemon = 1 .. Len(toDaemon)
        /\ Len(toDaemon) = 0 <=> toDaemon = <<>>
        /\ toHelper # <<>> => pc = "tap" /\ helper # "tap"
        /\ helper = "tap" => pc = "tap"
        /\ ~rawV6Created
    <2>1. Len(toDaemon) = 0 <=> toDaemon = <<>>
      BY DEF LinkTypeOK
    <2> QED
      BY <2>1, QueueFacts DEF TapTurn, TwoAtMost
  <1>a. Len(toDaemon') \in Nat /\ DOMAIN toDaemon' = 1 .. Len(toDaemon')
        /\ (Len(toDaemon') = 0 <=> toDaemon' = <<>>)
    <2>1. LinkTypeOK'
      BY HelperStepType
    <2> QED
      BY <2>1 DEF LinkTypeOK
  <1>b. ASSUME NEW k, Sent(k)
        PROVE  /\ toDaemon' # <<>> /\ Len(toDaemon') = Len(toDaemon) + 1
               /\ toDaemon'[Len(toDaemon')].kind = k
               /\ toDaemon # <<>> => toDaemon'[1] = toDaemon[1]
               /\ Len(toDaemon) >= 2 => toDaemon'[2] = toDaemon[2]
               /\ Len(toDaemon) = 0 => toDaemon'[1].kind = k
               /\ Len(toDaemon) = 1 => toDaemon'[2].kind = k
    BY <1>0, <1>a, <1>b DEF Sent
  <1>1. ~rawV6Created'
    BY <1>0, HelperAdds
  <1>f. ASSUME NEW p \in 0 .. 2, FromSocket(p), helper = "waiting" => toHelper = <<>>
        PROVE  FromSocket(p)'
    <2>1. CASE helper \in {"rawV6", "exited"} /\ Len(toDaemon) = p
      <3>1. Sent("Error") => toDaemon'[p + 1].kind = "Error" /\ Len(toDaemon') = p + 1
        BY <1>b, <2>1
      <3>2. /\ rawV4Created' = rawV4Created
            /\ \/ helper' = "exited" /\ toDaemon' = toDaemon
               \/ helper' = "waiting" /\ Sent("Error")
        BY <1>0, <2>1, HelperAdds
      <3> QED
        BY <1>f, <2>1, <3>1, <3>2 DEF FromSocket
    <2>2. CASE /\ helper \in {"waiting", "exited"}
               /\ Len(toDaemon) = p + 1 /\ toDaemon[p + 1].kind = "Error"
      <3>1. rawV4Created' = rawV4Created /\ helper' = "exited" /\ toDaemon' = toDaemon
        BY <1>0, <1>f, <2>2, HelperAdds
      <3> QED
        BY <1>f, <2>2, <3>1 DEF FromSocket
    <2> QED
      BY <1>f, <2>1, <2>2 DEF FromSocket
  <1>g. \/ helper' = "exited" /\ toDaemon' = toDaemon
        \/ helper = "waiting" /\ toHelper # <<>> /\ toDaemon' = toDaemon
        \/ helper \in {"starting", "tap", "rawV6"} /\ \E k \in {"HelperReady", "TapCreated", "Error"} : Sent(k)
        \/ helper = "rawV4"
    BY <1>0, HelperAdds
  <1>h. helper = "rawV4" /\ ~rawV4Created =>
          \/ helper' = "exited" /\ toDaemon' = toDaemon
          \/ Sent("Error")
          \/ helper' = "rawV6" /\ rawV4Created' /\ Sent("RawSocket4")
    BY <1>0, HelperAdds
  <1>k. ASSUME NEW b \in 0 .. 1, NEW p \in 1 .. 2, b + p = 2, FirstAnswer(b),
               p \in DOMAIN toDaemon /\ toDaemon[p].kind = "RawSocket4" => FromSocket(p),
               p \in DOMAIN toDaemon', toDaemon'[p].kind = "RawSocket4"
        PROVE  FromSocket(p)'
    <2>1. CASE p \in DOMAIN toDaemon
      <3>1. toDaemon'[p] = toDaemon[p]
        BY <1>0, <1>b, <1>g, <1>k, <2>1, HelperAdds
      <3>2. FromSocket(p)
        BY <1>k, <2>1, <3>1
      <3>3. toHelper = <<>>
        BY <1>0, <1>k, <2>1 DEF FirstAnswer
      <3> QED
        BY <1>f, <3>2, <3>3
    <2>2. CASE p \notin DOMAIN toDaemon
      <3>0. toDaemon' # toDaemon
        BY <1>k, <2>2
      <3>1. ASSUME NEW k, Sent(k) PROVE p = Len(toDaemon')
        <4>1. Len(toDaemon') = Len(toDaemon) + 1
          BY <1>b, <3>1
        <4>2. p <= Len(toDaemon') /\ p > Len(toDaemon)
          BY <1>0, <1>a, <1>k, <2>2
        <4> QED
          BY <1>0, <4>1, <4>2
      <3>2. helper = "rawV4"
        BY <1>b, <1>g, <1>k, <3>0, <3>1
      <3>3. b + Len(toDaemon) = 1 /\ ~rawV4Created
        BY <1>k, <3>2 DEF FirstAnswer
      <3>4. helper' = "rawV6" /\ rawV4Created' /\ Sent("RawSocket4")
        BY <1>b, <1>h, <1>k, <3>0, <3>1, <3>2, <3>3
      <3>5. Len(toDaemon') = p
        BY <3>1, <3>4
      <3> QED
        BY <3>4, <3>5 DEF FromSocket
    <2> QED
      BY <2>1, <2>2
  <1>2. ASSUME NoneMade PROVE NoneMade'
    <2>1. CASE pc = "tap"
      <3>1. FirstAnswer(0)
        BY <1>2, <2>1 DEF NoneMade, FirstTurn
      <3>2. 2 \in DOMAIN toDaemon' /\ toDaemon'[2].kind = "RawSocket4" => FromSocket(2)'
        <4>1. 2 \in DOMAIN toDaemon /\ toDaemon[2].kind = "RawSocket4" => FromSocket(2)
          BY <1>2, <2>1 DEF NoneMade
        <4> QED
          BY <1>k, <3>1, <4>1
      <3> QED
        BY <1>2, <2>1, <3>2 DEF NoneMade
    <2>2. CASE pc = "rawV4"
      <3>1. FirstAnswer(1)
        BY <2>2 DEF FirstTurn
      <3>2. 1 \in DOMAIN toDaemon' /\ toDaemon'[1].kind = "RawSocket4" => FromSocket(1)'
        <4>1. 1 \in DOMAIN toDaemon /\ toDaemon[1].kind = "RawSocket4" => FromSocket(1)
          BY <1>2, <2>2 DEF NoneMade
        <4> QED
          BY <1>k, <3>1, <4>1
      <3> QED
        BY <1>2, <2>2, <3>2 DEF NoneMade
    <2>3. CASE pc = "rawV6"
      <3>1. rawV4 # "none" => FromSocket(0)'
        BY <1>0, <1>2, <1>f, <2>3 DEF NoneMade
      <3> QED
        BY <2>3, <3>1 DEF NoneMade
    <2>4. CASE pc = "activate"
      <3>1. Idle'
        BY <1>0, <1>2, <2>4, HelperAdds DEF NoneMade, Idle
      <3> QED
        BY <2>4, <3>1 DEF NoneMade
    <2>5. CASE pc \notin {"tap", "rawV4", "rawV6", "activate"}
      BY <1>2, <2>5 DEF NoneMade
    <2> QED
      BY <2>1, <2>2, <2>3, <2>4, <2>5
  <1>d. pc # "tap" /\ Idle => Idle'
    BY <1>0, HelperAdds DEF Idle
  <1>e. Spoilt => Spoilt'
    BY <1>0, <1>b, HelperAdds DEF Spoilt
  <1>3. ASSUME OneMade PROVE OneMade'
    <2>1. ASSUME pc = "tap" PROVE SecondAnswer'
      <3>1. /\ rawV4Created /\ rawV4 = "RawSocket4" /\ rawV4Created'
        BY <1>0, <1>3, <2>1, HelperAdds DEF OneMade, SecondAnswer
      <3>2. CASE toDaemon = <<>>
        <4>1. helper \in {"waiting", "tap", "exited"}
          BY <1>3, <2>1, <3>2 DEF OneMade, SecondAnswer
        <4>2. \/ toDaemon' = toDaemon /\ helper' \in {"tap", "exited"}
              \/ Sent("TapCreated") /\ helper' = "rawV4"
              \/ Sent("Error")
          BY <1>0, <4>1, HelperAdds
        <4> QED
          BY <1>0, <1>b, <3>1, <3>2, <4>2 DEF SecondAnswer
      <3>3. CASE toDaemon # <<>> /\ toDaemon[1].kind = "Error"
        <4>1. toDaemon' # <<>> /\ toDaemon'[1] = toDaemon[1]
          BY <1>0, <1>b, <3>3, HelperAdds
        <4> QED
          BY <3>1, <3>3, <4>1 DEF SecondAnswer
      <3>4. CASE /\ Len(toDaemon) = 1 /\ helper \in {"rawV4", "rawV6", "exited"}
                 /\ toDaemon[1].kind = "TapCreated"
        <4>1. \/ toDaemon' = toDaemon /\ helper' \in {"rawV6", "exited"}
              \/ Sent("Error") /\ helper' = "waiting"
          BY <1>0, <3>1, <3>4, HelperAdds
        <4> QED
          BY <1>0, <1>b, <3>1, <3>4, <4>1 DEF SecondAnswer
      <3>5. CASE /\ Len(toDaemon) = 2 /\ helper \in {"waiting", "exited"}
                 /\ toDaemon[1].kind = "TapCreated" /\ toDaemon[2].kind = "Error"
        <4>1. toHelper = <<>>
          <5>1. Queued("TapCreated")
            BY <1>0, <3>5 DEF Queued
          <5> QED
            BY <5>1 DEF TapTurn
        <4>2. toDaemon' = toDaemon /\ helper' = "exited"
          BY <1>0, <3>5, <4>1, HelperAdds
        <4> QED
          BY <1>0, <3>1, <3>5, <4>2 DEF SecondAnswer
      <3> QED
        BY <1>3, <2>1, <3>2, <3>3, <3>4, <3>5 DEF OneMade, SecondAnswer
    <2> QED
      BY <1>3, <1>d, <1>e, <2>1 DEF OneMade
  <1>4. ASSUME TwoMade PROVE TwoMade'
    BY <1>4, <1>e DEF TwoMade
  <1> QED
    BY <1>1, <1>2, <1>3, <1>4 DEF TwoAtMost

(* The main thread's steps keep each of the three: a third section reads   *)
(* the Error as its answer and startup fails.                              *)
LEMMA TwoAtMostStep ==
    ASSUME TypeInv, SocketInv, MadeDone, StaleErrorInv, ~host.v6,
           [Next]_vars, pc # "failed", pc' # "failed"
    PROVE  TwoAtMost'
  <1>0. /\ LinkTypeOK /\ TapTurn /\ FirstTurn /\ Served /\ TwoAtMost
        /\ Len(toDaemon) \in Nat /\ DOMAIN toDaemon = 1 .. Len(toDaemon)
        /\ Len(toDaemon) = 0 <=> toDaemon = <<>>
        /\ Len(made) \in Nat /\ made \in Seq(Requests)
        /\ rawV4 \in {"none", "RawSocket4"} /\ ~rawV6Created
    <2>1. LinkTypeOK /\ made \in Seq(Requests)
      BY DEF TypeInv, TypeOK
    <2>2. TapTurn /\ FirstTurn /\ Served /\ TwoAtMost /\ rawV4 \in {"none", "RawSocket4"} /\ ~rawV6Created
      BY DEF SocketInv, StaleErrorInv, TwoAtMost
    <2>3. Len(toDaemon) = 0 <=> toDaemon = <<>>
      BY <2>1 DEF LinkTypeOK
    <2> QED
      BY <2>1, <2>2, <2>3, QueueFacts
  <1>1. ASSUME NEW n \in 1 .. Len(toDaemon), Receive(n)
        PROVE  /\ toDaemon # <<>> /\ Head(toDaemon) = toDaemon[1]
               /\ CarriesFd(toDaemon[1]) => n = 1
               /\ n = Len(toDaemon) \/ CarriesFd(toDaemon[n])
               /\ Len(toDaemon') = Len(toDaemon) - n
               /\ DOMAIN toDaemon' = 1 .. Len(toDaemon')
               /\ Len(toDaemon') = 0 <=> toDaemon' = <<>>
               /\ \A i \in 1 .. Len(toDaemon') : toDaemon'[i] = toDaemon[i + n]
               /\ UNCHANGED <<helper, rawV4Created, rawV6Created>>
    <2>0. toDaemon # <<>>
      BY <1>0, <1>1
    <2>1. LinkTypeOK'
      BY <1>0, <1>1, ReceiveFacts
    <2>2. (Len(toDaemon') = 0 <=> toDaemon' = <<>>) /\ DOMAIN toDaemon' = 1 .. Len(toDaemon')
      <3>1. toDaemon' \in Seq(HelperMsgs)
        BY <2>1 DEF LinkTypeOK
      <3> QED
        BY <3>1
    <2> QED
      BY <1>0, <1>1, <2>0, <2>1, <2>2, ReceiveFacts DEF helperVars
  <1>2. CASE \E n \in 1 .. Len(toDaemon) : Handshake(n)
    <2>1. /\ pc = "handshake" /\ pc' = "tunnel"
          /\ UNCHANGED <<made, rawV4, rawV6Created>>
      BY <1>2 DEF Handshake, Receive, helperVars
    <2> QED
      BY <1>0, <2>1 DEF TwoAtMost, NoneMade, OneMade, TwoMade
  <1>3. CASE \E n \in 1 .. Len(toDaemon) : ReceiveTap(n)
    <2>1. PICK n \in 1 .. Len(toDaemon) : ReceiveTap(n)
      BY <1>3
    <2>2. /\ pc = "tap" /\ Receive(n) /\ UNCHANGED <<made, rawV4>>
          /\ Head(toDaemon).kind = "TapCreated"
          /\ pc' = IF rawV4 = "none" THEN "rawV4" ELSE "activate"
      BY <2>1 DEF ReceiveTap
    <2>3. /\ n = 1 /\ toDaemon[1].kind = "TapCreated"
          /\ UNCHANGED <<helper, rawV4Created, rawV6Created>>
          /\ Len(toDaemon') = Len(toDaemon) - 1
          /\ DOMAIN toDaemon' = 1 .. Len(toDaemon')
          /\ \A i \in 1 .. Len(toDaemon') : toDaemon'[i] = toDaemon[i + 1]
      <3>1. n = 1 /\ toDaemon[1].kind = "TapCreated"
        BY <1>1, <2>2 DEF CarriesFd
      <3> QED
        BY <1>1, <2>2, <3>1
    <2>4. CASE Len(made) = 0 /\ NoneMade
      <3>1. pc' = "rawV4" /\ rawV4 = "none"
        BY <2>2, <2>4 DEF NoneMade
      <3>2. ASSUME 1 \in DOMAIN toDaemon', toDaemon'[1].kind = "RawSocket4" PROVE FromSocket(1)'
        <4>1. 2 \in DOMAIN toDaemon /\ toDaemon'[1] = toDaemon[2] /\ Len(toDaemon) - 1 \in Nat
          BY <1>0, <2>3, <3>2
        <4>2. FromSocket(2)
          BY <2>2, <2>4, <3>2, <4>1 DEF NoneMade
        <4>3. Len(toDaemon) = 3 => toDaemon'[2] = toDaemon[3]
          BY <2>3
        <4> QED
          BY <1>0, <2>3, <4>1, <4>2, <4>3 DEF FromSocket
      <3>3. NoneMade'
        BY <2>2, <3>1, <3>2 DEF NoneMade
      <3> QED
        BY <1>0, <2>2, <2>3, <2>4, <3>3 DEF TwoAtMost
    <2>5. CASE Len(made) = 1 /\ OneMade
      <3>1. pc' = "activate" /\ SecondAnswer
        BY <2>2, <2>5 DEF OneMade, SecondAnswer
      <3>2. Spoilt'
        <4>1. CASE Len(toDaemon) = 1
          <5>1. toDaemon' = <<>> /\ helper \in {"rawV4", "rawV6", "exited"} /\ rawV4Created
            BY <1>0, <1>1, <2>2, <2>3, <3>1, <4>1 DEF SecondAnswer
          <5> QED
            BY <2>3, <5>1 DEF Spoilt
        <4>2. CASE Len(toDaemon) = 2
          <5>1. toDaemon' # <<>> /\ toDaemon'[1] = toDaemon[2] /\ toDaemon[2].kind = "Error"
            BY <1>0, <1>1, <2>2, <2>3, <3>1, <4>2 DEF SecondAnswer
          <5> QED
            BY <5>1 DEF Spoilt
        <4> QED
          BY <1>0, <1>1, <2>2, <2>3, <3>1, <4>1, <4>2 DEF SecondAnswer
      <3> QED
        BY <1>0, <2>2, <2>3, <2>5, <3>1, <3>2 DEF TwoAtMost, OneMade
    <2>6. ~(Len(made) = 2 /\ TwoMade)
      BY <1>1, <2>2, <2>3 DEF TwoMade, Spoilt
    <2> QED
      BY <1>0, <2>4, <2>5, <2>6 DEF TwoAtMost
  <1>4. CASE \E n \in 1 .. Len(toDaemon) : ReceiveRawV4(n)
    <2>1. PICK n \in 1 .. Len(toDaemon) : ReceiveRawV4(n)
      BY <1>4
    <2>2. pc = "rawV4" /\ Receive(n) /\ rawV4' = FdOf(n) /\ pc' = "rawV6" /\ made' = made
      BY <2>1 DEF ReceiveRawV4
    <2>3. Len(made) = 0 /\ NoneMade
      BY <1>0, <2>2 DEF TwoAtMost, OneMade, TwoMade
    <2>4. ASSUME rawV4' # "none" PROVE FromSocket(0)'
      <3>1. FirstAnswer(1) /\ 1 \in DOMAIN toDaemon
        BY <1>0, <2>2 DEF FirstTurn
      <3>2. toDaemon[1].kind = "RawSocket4"
        <4>1. CASE toDaemon[1].kind = "Error" /\ Len(toDaemon) = 1
          <5>1. n = 1
            BY <2>2, <4>1 DEF Receive, ReadsUpTo
          <5> QED
            BY <2>2, <2>4, <4>1, <5>1 DEF FdOf, CarriesFd
        <4> QED
          BY <3>1, <4>1 DEF FirstAnswer
      <3>3. FromSocket(1)
        BY <2>2, <2>3, <3>1, <3>2 DEF NoneMade
      <3>4. n = 1
        BY <1>1, <2>2, <3>2 DEF CarriesFd
      <3>5. /\ Len(toDaemon') = Len(toDaemon) - 1
            /\ UNCHANGED <<helper, rawV4Created>>
            /\ Len(toDaemon) = 2 => toDaemon'[1] = toDaemon[2]
        BY <1>1, <2>2, <3>4
      <3> QED
        BY <1>0, <3>3, <3>5 DEF FromSocket
    <2>5. NoneMade'
      BY <2>2, <2>4 DEF NoneMade
    <2> QED
      BY <1>0, <1>1, <2>2, <2>3, <2>5 DEF TwoAtMost
  <1>5. CASE \E n \in 1 .. Len(toDaemon) : ReceiveRawV6(n)
    <2>1. PICK n \in 1 .. Len(toDaemon) : ReceiveRawV6(n)
      BY <1>5
    <2>2. pc = "rawV6" /\ Receive(n) /\ rawV4' = rawV4 /\ pc' = "activate" /\ made' = made
      BY <2>1 DEF ReceiveRawV6
    <2>3. Len(made) = 0 /\ NoneMade /\ toDaemon # <<>>
      BY <1>0, <1>1, <2>2 DEF TwoAtMost, OneMade, TwoMade
    <2>4. rawV4 = "RawSocket4" /\ FromSocket(0)
      BY <1>0, <2>2, <2>3 DEF FirstTurn, Quiet, NoneMade
    <2>5. Idle'
      <3>1. /\ rawV4Created /\ helper \in {"waiting", "exited"}
            /\ Len(toDaemon) = 1
        BY <1>0, <2>3, <2>4 DEF FromSocket
      <3>2. toDaemon' = <<>> /\ UNCHANGED <<helper, rawV4Created>>
        BY <1>0, <1>1, <2>2, <3>1
      <3> QED
        BY <2>2, <2>4, <3>1, <3>2 DEF Idle
    <2>6. NoneMade'
      BY <2>2, <2>5 DEF NoneMade
    <2> QED
      BY <1>0, <1>1, <2>2, <2>3, <2>6 DEF TwoAtMost
  <1>6. CASE SendCreateTunnel
    <2>1. /\ pc = "send" /\ pc' = "tap" /\ helper # "exited"
          /\ UNCHANGED <<toDaemon, made, rawV4, helper, rawV4Created, rawV6Created>>
      BY <1>6 DEF SendCreateTunnel, helperVars, Connected
    <2>2. ASSUME NoneMade PROVE NoneMade'
      <3>1. toDaemon = <<>> /\ rawV4 = "none"
        BY <1>0, <2>1, <2>2 DEF NoneMade, FirstTurn, Quiet
      <3> QED
        BY <1>0, <2>1, <2>2, <3>1 DEF NoneMade
    <2>3. ASSUME OneMade PROVE OneMade'
      BY <2>1, <2>3 DEF OneMade, Idle, SecondAnswer
    <2>4. ASSUME TwoMade PROVE TwoMade'
      BY <2>1, <2>4 DEF TwoMade, Spoilt
    <2> QED
      BY <1>0, <2>1, <2>2, <2>3, <2>4 DEF TwoAtMost
  <1>7. CASE NoRawV6
    <2>1. /\ pc = "rawV6" /\ pc' = "activate" /\ toDaemon = <<>> /\ helper = "exited"
          /\ UNCHANGED <<toDaemon, made, rawV4, helper, rawV4Created, rawV6Created>>
      BY <1>7 DEF NoRawV6, EndOfStream, linkVars, helperVars
    <2> QED
      BY <1>0, <2>1 DEF TwoAtMost, NoneMade, OneMade, TwoMade, Idle
  <1>8. CASE ActivateTunnel
    <2>1. /\ pc = "activate" /\ pc' = "tunnel" /\ made' = Append(made, next)
          /\ UNCHANGED <<toDaemon, rawV4, helper, rawV4Created, rawV6Created>>
      BY <1>8 DEF ActivateTunnel, linkVars, helperVars
    <2>2. Len(made') = Len(made) + 1
      BY <1>0, <2>1
    <2>3. ASSUME Len(made) = 0, NoneMade PROVE OneMade'
      BY <2>1, <2>3 DEF NoneMade, OneMade, Idle
    <2>4. ASSUME Len(made) = 1, OneMade PROVE TwoMade'
      BY <2>1, <2>4 DEF OneMade, TwoMade, Spoilt
    <2> QED
      BY <1>0, <2>1, <2>2, <2>3, <2>4 DEF TwoAtMost, TwoMade
  <1>9. CASE Link
    <2>1. UNCHANGED startupVars /\ (HelperStep \/ HelperHangup \/ HelperDies)
      BY <1>9 DEF Link, Helper
    <2> QED
      BY <1>0, <2>1, TwoAtMostHelper DEF startupVars
  <1>10. CASE \/ ReceiveFails \/ SkipDisabled \/ RegisterTunnel
              \/ TunnelsMade \/ (\E h \in Requests : SpawnTasks(h)) \/ StartServing \/ Shutdown
              \/ Signal \/ UNCHANGED vars
    <2>1. UNCHANGED <<toDaemon, helper, rawV4Created, rawV6Created>>
      BY <1>10, QuietSteps
    <2>2. /\ rawV4' = rawV4 /\ made' = made
          /\ \/ pc' = pc
             \/ pc = "tunnel" /\ pc' = "send"
             \/ pc' \in {"spawn", "running", "exited"}
      BY <1>10 DEF ReceiveFails, SkipDisabled, RegisterTunnel,
                  TunnelsMade, SpawnTasks, StartServing, Shutdown, Signal, vars, startupVars
    <2> QED
      BY <1>0, <2>1, <2>2 DEF TwoAtMost, NoneMade, OneMade, TwoMade, FromSocket, Idle, SecondAnswer, Spoilt
  <1> QED
    BY <1>2, <1>3, <1>4, <1>5, <1>6, <1>7, <1>8, <1>9, <1>10 DEF Next, MainStep

(* At most two sections are enabled when all of them are made and two are. *)
LEMMA FewEnabled ==
    ASSUME TypeInv, MadeDone, Len(made) <= 2, Done = Enabled
    PROVE  Cardinality(Enabled) <= 2
  <1>1. Len(made) \in Nat /\ DOMAIN made = 1 .. Len(made)
    BY StartupFacts
  <1>2. Enabled \subseteq {made[1], made[2]}
    <2>1. \A j \in DOMAIN made : j = 1 \/ j = 2
      BY <1>1
    <2> QED
      BY <2>1 DEF MadeDone
  <1>3. IsFiniteSet({made[1], made[2]}) /\ Cardinality({made[1], made[2]}) <= 2
    <2>1. IsFiniteSet({made[1]}) /\ Cardinality({made[1]}) = 1
      BY FS_Singleton
    <2>2. {made[1], made[2]} = {made[1]} \cup {made[2]}
      OBVIOUS
    <2>3. Cardinality({made[1]} \cup {made[2]}) \in {1, 2} /\ IsFiniteSet({made[1]} \cup {made[2]})
      BY <2>1, FS_AddElement
    <2> QED
      BY <2>2, <2>3
  <1>4. /\ Cardinality(Enabled) \in Nat /\ Cardinality({made[1], made[2]}) \in Nat
        /\ Cardinality(Enabled) <= Cardinality({made[1], made[2]})
    BY <1>2, <1>3, FS_Subset, FS_CardinalityType
  <1> QED
    BY <1>3, <1>4

LEMMA HandoverInvInit ==
    Init => RegistryInv /\ StaleErrorInv
  <1> SUFFICES ASSUME Init PROVE RegistryInv /\ StaleErrorInv
    OBVIOUS
  <1> USE DEF Init, LinkInit
  <1>1. Done = {} /\ Spawned = {} /\ pc \notin InSection /\ DOMAIN made = {} /\ Len(made) = 0
    <2>1. Len(config) \in Nat /\ DOMAIN config = 1 .. Len(config)
      BY ConfigFacts
    <2>2. Done = {}
      BY <2>1 DEF Done, Enabled
    <2> QED
      BY <2>2 DEF Spawned, InSection
  <1>2. MadeDone
    <2>1. \A i \in DOMAIN config : state[i] = "Initializing"
      BY ConfigFacts
    <2> QED
      BY <1>1, <2>1 DEF MadeDone
  <1>3. Registered /\ Tracked
    BY <1>1 DEF Registered, Tracked
  <1>4. TwoAtMost
    BY <1>1 DEF TwoAtMost, NoneMade
  <1> QED
    BY <1>2, <1>3, <1>4 DEF RegistryInv, StaleErrorInv

LEMMA HandoverInvStep ==
    (TypeInv /\ SocketInv) /\ (RegistryInv /\ StaleErrorInv) /\ [Next]_vars
        => (RegistryInv /\ StaleErrorInv)'
  <1> SUFFICES ASSUME TypeInv, SocketInv, RegistryInv, StaleErrorInv, [Next]_vars, pc' # "failed"
               PROVE  /\ MadeDone' /\ Registered' /\ Tracked'
                      /\ ~host'.v6 => TwoAtMost'
    BY DEF RegistryInv, StaleErrorInv
  <1>1. pc # "failed"
    BY DEF Next, MainStep, Handshake, ReceiveTap, ReceiveRawV4, ReceiveRawV6, ReceiveFails,
           SkipDisabled, RegisterTunnel, SendCreateTunnel, NoRawV6, ActivateTunnel, TunnelsMade,
           SpawnTasks, StartServing, Shutdown, Signal, Link, Helper, vars, startupVars
  <1>2. MadeDone /\ Registered /\ Tracked
    BY <1>1 DEF RegistryInv
  <1>3. host' = host
    BY DEF Next, MainStep, Handshake, ReceiveTap, ReceiveRawV4, ReceiveRawV6, Receive,
           ReceiveFails, SkipDisabled, RegisterTunnel, SendCreateTunnel, NoRawV6, ActivateTunnel,
           TunnelsMade, SpawnTasks, StartServing, Shutdown, Signal, Link, Helper, vars, linkVars,
           helperVars, HelperStep, HelperStart, HelperReceive, HelperCreateTap, HelperTapFails,
           HelperFails, HelperRawV4, HelperRawV4Fails, HelperRawV6, HelperHangup, HelperDies
  <1> QED
    BY <1>1, <1>2, <1>3, MadeDoneStep, RegisteredStep, TrackedStep, TwoAtMostStep

(* What the tunnel manager takes startup to leave behind (main.rs:151 to   *)
(* main.rs:243): for any file with unique tunnel ids and on any host, a    *)
(* running daemon has every enabled section, and no other, registered,     *)
(* active, on its own TAP and tracked; without IPv6 there are at most two. *)
THEOREM StartupHandsOver ==
    Spec => []Handover
  <1>1. Init => RegistryInv /\ StaleErrorInv
    BY HandoverInvInit
  <1>2. (TypeInv /\ SocketInv) /\ (RegistryInv /\ StaleErrorInv) /\ [Next]_vars
            => (RegistryInv /\ StaleErrorInv)'
    BY HandoverInvStep
  <1>3. TypeInv /\ RegistryInv /\ StaleErrorInv => Handover
    <2> SUFFICES ASSUME TypeInv, RegistryInv, StaleErrorInv, pc = "running", UniqueIds
                 PROVE  /\ \A i \in Enabled :
                              registry[KeyOf(i)] = i /\ state[i] = "Active" /\ serves[i] = i
                              /\ tasks[config[i].tid] = i
                        /\ \A k \in Keys : registry[k] \in Enabled \cup {NoRequest}
                        /\ \A t \in Tids : tasks[t] \in Enabled \cup {NoRequest}
                        /\ host.v6 \/ Cardinality(Enabled) <= 2
      BY DEF Handover
    <2>1. MadeDone /\ Registered /\ Tracked /\ Done = Enabled /\ Spawned = DOMAIN made
      BY DEF RegistryInv, Done, Spawned
    <2>2. ASSUME NEW i \in Enabled
          PROVE  /\ registry[KeyOf(i)] = i /\ state[i] = "Active" /\ serves[i] = i
                 /\ tasks[config[i].tid] = i
      <3>1. PICK j \in DOMAIN made : made[j] = i
        BY <2>1 DEF MadeDone
      <3>2. i \in DOMAIN config
        BY StartupFacts
      <3> QED
        BY <2>1, <3>1, <3>2 DEF MadeDone, Registered, Tracked
    <2>3. host.v6 \/ Cardinality(Enabled) <= 2
      <3>1. host.v6 \/ Len(made) <= 2
        BY DEF StaleErrorInv, TwoAtMost
      <3> QED
        BY <2>1, <3>1, FewEnabled
    <2> QED
      BY <2>1, <2>2, <2>3 DEF Registered, Tracked
  <1> QED
    BY <1>1, <1>2, <1>3, InvCorrect, PTL DEF Spec

================================================================================
