------------------------------- MODULE PathMtu -------------------------------
(***************************************************************************)
(* The MTU of a tunnel: what a configuration file or a CreateTunnel call   *)
(* asks for (config.rs, api/tunnel_svc.rs), the MTU of the outgoing        *)
(* interface (net/mtu.rs), and the task of every tunnel with an automatic  *)
(* MTU, which searches the largest probe (net/pmtud.rs) and sets the       *)
(* interface by its NAME, while tunnels of that name are deleted and made  *)
(* anew and the network changes.  This is the code for Linux.              *)
(*                                                                         *)
(* Nothing here says what passes on the path: the probes do not reach it   *)
(* (see SendsProbe).                                                       *)
(*                                                                         *)
(* The handles are the successive tunnels of one id and interface name.    *)
(***************************************************************************)
EXTENDS Integers, FiniteSets, Sequences

CONSTANTS
    Handles,         \* one per creation of the tunnel
    Requests,        \* what files and calls ask for
    MIN_PROBE,       \* smallest probe: 576
    MAX_PROBE,       \* largest probe: 1500
    Networks,        \* what lies between the host and the peer
    MaxChanges,      \* bound on the changes of the network
    None             \* no request, no interface

PROBE_RETRIES == 3
EOIP_OVERHEAD == 42
IPSEC_ESP_OVERHEAD == 38
MIN_OVERLAY_MTU == 534
DEFAULT_PATH_MTU == 1500
MaxU16 == 65535
MinTapMtu == 68                 \* what the kernel takes for a TAP
MaxTapMtu == 65521
TapMtus == MinTapMtu .. MaxTapMtu
TapDefault == 1500              \* its MTU until somebody sets it

(* addr: addresses of the host's interfaces, in the order of getifaddrs;   *)
(* source: the address the kernel chooses for the peer; route: whether it  *)
(* has one; pings: whether a connected ping socket can be had.             *)
Network == [ifs : Seq([addr : Nat, mtu : Nat]), source : Nat,
            route : BOOLEAN, pings : BOOLEAN]

(* mtu is the number that was given; 0 and "auto" mean the same.           *)
Request == [from : {"file", "call"}, mtu : Int, ipsec : BOOLEAN, v6 : BOOLEAN]

ASSUME PathMtuAssumption ==
    /\ Networks \subseteq Network
    /\ Requests \subseteq Request
    /\ MIN_PROBE \in Nat /\ MAX_PROBE \in Nat
    /\ 28 <= MIN_PROBE /\ MIN_PROBE < MAX_PROBE /\ MAX_PROBE <= MaxU16
    /\ MaxChanges \in Nat
    /\ None \notin Handles /\ None \notin Requests

VARIABLES
    net,             \* the network now
    changes,         \* how often it has changed
    request,         \* what a handle was made from, None before
    registered,      \* handles in the registry
    made,            \* handles whose tasks were started and token tracked
    cancelled,       \*   and whose token was cancelled
    actual,          \* TunnelHandle.actual_mtu
    link,            \* the interface of that name: whose TAP, and its MTU
    task,            \* the PMTUD task of a handle
    search,          \* lo, hi, best and attempt of its search
    spoiled          \* the task of the interface's tunnel failed to set it, or
                     \*   the task of an earlier tunnel did set it

tunnelVars == <<request, registered, made, cancelled>>
vars == <<net, changes, tunnelVars, actual, link, task, search, spoiled>>

Sizes == MIN_PROBE .. MAX_PROBE

TypeOK ==
    /\ net \in Networks
    /\ changes \in 0 .. MaxChanges
    /\ request \in [Handles -> Requests \cup {None}]
    /\ registered \subseteq Handles
    /\ made \subseteq Handles
    /\ cancelled \subseteq made
    /\ actual \in [Handles -> 0 .. MaxU16]
    /\ link \in [owner : Handles \cup {None}, mtu : TapMtus]
    /\ task \in [Handles -> {"none", "starting", "probing", "found", "failed",
                             "setting", "sleeping", "ended"}]
    /\ search \in [Handles -> [lo : Sizes, hi : Sizes, best : Sizes,
                               attempt : 0 .. PROBE_RETRIES - 1]]
    /\ spoiled \in BOOLEAN

--------------------------------------------------------------------------------
(* 16-bit arithmetic of MTUs. *)

AtLeast(n, m) == IF n >= m THEN n ELSE m
SaturatingSub(n, m) == IF n >= m THEN n - m ELSE 0
Less(n, overhead) == AtLeast(SaturatingSub(n, overhead), MIN_OVERLAY_MTU)

(* MtuConfig.  A file is refused when the number does not fit; a call has  *)
(* its u32 cut.                                                            *)
Parses(r) == r.from = "call" \/ r.mtu \in 0 .. MaxU16
IsAuto(r) == r.mtu = 0
FixedMtu(r) == r.mtu % (MaxU16 + 1)

(* get_bound_ifindex: the first interface with the source address, which   *)
(* need not be the outgoing one; 0 when no interface has it.               *)
BoundIfindex(n) ==
    LET same == {i \in DOMAIN n.ifs : n.ifs[i].addr = n.source}
    IN  IF same = {} THEN 0 ELSE CHOOSE i \in same : \A j \in same : i <= j

(* An MTU above 65535, as that of the loopback, does not parse.            *)
ReadSysMtu(n, i) ==
    IF n.ifs[i].mtu <= MaxU16 THEN n.ifs[i].mtu ELSE DEFAULT_PATH_MTU

DetectInterfaceMtu(n) ==
    IF n.route /\ BoundIfindex(n) # 0
    THEN ReadSysMtu(n, BoundIfindex(n)) ELSE DEFAULT_PATH_MTU

AutoOverlayMtu(n) == Less(DetectInterfaceMtu(n), EOIP_OVERHEAD)

(* MtuConfig::resolve and resolve_with_ipsec *)
Resolve(r, n) == IF IsAuto(r) THEN AutoOverlayMtu(n) ELSE FixedMtu(r)
ResolveWithIpsec(r, n) ==
    IF r.ipsec THEN Less(Resolve(r, n), IPSEC_ESP_OVERHEAD) ELSE Resolve(r, n)

(* actual_mtu in the answers of the API *)
ShownMtu(h) == IF actual[h] > 0 THEN actual[h] ELSE Resolve(request[h], net)

--------------------------------------------------------------------------------
(* Probes. *)

(* probe_single means its buffer to begin with an identifier and the       *)
(* attempt, for the kernel to put an ICMP header before.                   *)
ProbeBuffer(attempt) == <<69, 0, attempt \div 256, attempt % 256>>

(* To a ping socket of Linux those bytes ARE the ICMP header: the type,    *)
(* the code, a checksum it fills in.  It sends echo requests, plain or     *)
(* extended, and refuses the rest with EINVAL whatever their size.         *)
SendsProbe(buf) == buf[1] \in {8, 42} /\ buf[2] = 0

FirstSearch == [lo |-> MIN_PROBE, hi |-> MAX_PROBE, best |-> MIN_PROBE, attempt |-> 0]
Mid(s) == s.lo + (s.hi - s.lo) \div 2

(* The body of the loop of probe_path_mtu_blocking after probe_single.     *)
IsLast(s, fits) == Mid(s) = (IF fits THEN s.hi ELSE s.lo)

Narrowed(s, fits) ==
    [lo      |-> IF fits /\ ~IsLast(s, fits) THEN Mid(s) + 1 ELSE s.lo,
     hi      |-> IF ~fits /\ ~IsLast(s, fits) THEN Mid(s) - 1 ELSE s.hi,
     best    |-> IF fits THEN Mid(s) ELSE s.best,
     attempt |-> 0]

(* A size is settled: go on, or return Ok(best) or AllTimedOut.            *)
Settle(h, fits) ==
    LET next == Narrowed(search[h], fits)
    IN  /\ search' = [search EXCEPT ![h] = next]
        /\ task' = IF ~IsLast(search[h], fits) THEN task
                   ELSE [task EXCEPT ![h] = IF next.best <= MIN_PROBE THEN "failed" ELSE "found"]

(* Mutant: PROBE_RETRIES counts the probes after the first.                *)
InconclusiveOnceMore(h) ==
    IF search[h].attempt + 1 <= PROBE_RETRIES
    THEN search' = [search EXCEPT ![h].attempt = @ + 1] /\ UNCHANGED task
    ELSE Settle(h, TRUE)

(* An error other than EMSGSIZE leaves the size to the next attempt, and   *)
(* after the last one it is taken to fit.                                  *)
Inconclusive(h) ==
    IF search[h].attempt + 1 < PROBE_RETRIES
    THEN search' = [search EXCEPT ![h].attempt = @ + 1] /\ UNCHANGED task
    ELSE Settle(h, TRUE)

--------------------------------------------------------------------------------
(* Tunnels. *)

(* One at a time: the registry has no other handle with the id, and the    *)
(* kernel no other interface with the name.                                *)
Idle == link.owner = None /\ registered = {}

(* A tunnel is made, at startup or by a call, with the MTU resolved before *)
(* the helper is asked.  The helper sets it unless it is 0, and refuses    *)
(* the tunnel when the kernel refuses the MTU.  At startup its tasks start *)
(* at once; create_tunnel comes to that after its drain loop.              *)
Create(h, r) ==
    /\ request[h] = None
    /\ Idle
    /\ r.from = "file" => \A g \in Handles : request[g] = None
    /\ Parses(r)
    /\ LET mtu == ResolveWithIpsec(r, net)
       IN  /\ mtu \in TapMtus \cup {0}
           /\ actual' = [actual EXCEPT ![h] = mtu]
           /\ link' = [owner |-> h, mtu |-> IF mtu = 0 THEN TapDefault ELSE mtu]
    /\ request' = [request EXCEPT ![h] = r]
    /\ registered' = registered \cup {h}
    /\ \/ /\ r.from = "file"
          /\ made' = made \cup {h}
          /\ task' = [task EXCEPT ![h] = IF IsAuto(r) THEN "starting" ELSE "none"]
       \/ /\ r.from = "call"
          /\ UNCHANGED <<made, task>>
    /\ spoiled' = FALSE
    /\ UNCHANGED <<net, changes, cancelled, search>>

(* The rest of create_tunnel, when the drain loop has ended, which it may  *)
(* never do (see CreateReturns in TunnelManager), deleted meanwhile or not. *)
CreateEnds(h) ==
    /\ request[h] # None /\ h \notin made
    /\ made' = made \cup {h}
    /\ task' = [task EXCEPT ![h] = IF IsAuto(request[h]) THEN "starting" ELSE "none"]
    /\ UNCHANGED <<net, changes, request, registered, cancelled, actual, link, search, spoiled>>

(* destroy_tunnel: the token if it is tracked yet, and the entry of the    *)
(* registry.                                                               *)
Delete(h) ==
    /\ h \in registered \cup (made \ cancelled)
    /\ registered' = registered \ {h}
    /\ cancelled' = cancelled \cup ({h} \cap made)
    /\ UNCHANGED <<net, changes, request, made, actual, link, task, search, spoiled>>

(* The last share in the TAP goes, and its interface with it.  startup     *)
(* keeps a share in each TAP it made.                                      *)
TapCloses(h) ==
    /\ h \in cancelled /\ request[h].from = "call"
    /\ link.owner = h
    /\ link' = [owner |-> None, mtu |-> TapDefault]
    /\ spoiled' = FALSE
    /\ UNCHANGED <<net, changes, tunnelVars, actual, task, search>>

--------------------------------------------------------------------------------
(* The PMTUD task. *)

(* do_pmtud: IPv6 peers are not probed, and a socket may not be had.       *)
StartProbing(h) ==
    /\ task[h] = "starting"
    /\ LET probes == ~request[h].v6 /\ net.route /\ net.pings
       IN  task' = [task EXCEPT ![h] = IF probes THEN "probing" ELSE "failed"]
    /\ UNCHANGED <<net, changes, tunnelVars, actual, link, search, spoiled>>

(* Mutant: after the last attempt the size is taken not to fit.            *)
ProbeGivenUp(h) ==
    /\ task[h] = "probing"
    /\ ~SendsProbe(ProbeBuffer(search[h].attempt))
    /\ IF search[h].attempt + 1 < PROBE_RETRIES THEN Inconclusive(h) ELSE Settle(h, FALSE)
    /\ UNCHANGED <<net, changes, tunnelVars, actual, link, spoiled>>

(* One turn of the loop of probe_single: send() fails.                     *)
Probe(h) ==
    /\ task[h] = "probing"
    /\ ~SendsProbe(ProbeBuffer(search[h].attempt))
    /\ Inconclusive(h)
    /\ UNCHANGED <<net, changes, tunnelVars, actual, link, spoiled>>

Overlay(pathMtu) == Less(pathMtu, EOIP_OVERHEAD)

(* The variables of the search end with it.                                *)
ForgetSearch(h) == search' = [search EXCEPT ![h] = FirstSearch]

(* Mutant: the interface is set only when the MTU shrinks.                 *)
ApplyFoundLower(h) ==
    /\ task[h] = "found"
    /\ actual' = [actual EXCEPT ![h] = Overlay(search[h].best)]
    /\ task' = [task EXCEPT ![h] = IF actual'[h] < actual[h] THEN "setting" ELSE "sleeping"]
    /\ ForgetSearch(h)
    /\ UNCHANGED <<net, changes, tunnelVars, link, spoiled>>

ApplyFound(h) ==
    /\ task[h] = "found"
    /\ actual' = [actual EXCEPT ![h] = Overlay(search[h].best)]
    /\ task' = [task EXCEPT ![h] = IF actual'[h] # actual[h] THEN "setting" ELSE "sleeping"]
    /\ ForgetSearch(h)
    /\ UNCHANGED <<net, changes, tunnelVars, link, spoiled>>

(* set_interface_mtu goes by the name: it may meet the interface of a      *)
(* later tunnel, or none, and may be refused.                              *)
SetInterfaceMtu(h) ==
    /\ task[h] = "setting"
    /\ \/ /\ link.owner # None
          /\ link' = [link EXCEPT !.mtu = actual[h]]
          /\ spoiled' = (link.owner # h)
       \/ /\ link' = link
          /\ spoiled' = (spoiled \/ link.owner = h)
    /\ task' = [task EXCEPT ![h] = "sleeping"]
    /\ UNCHANGED <<net, changes, tunnelVars, actual, search>>

(* Mutant: a search that failed ends the task.                             *)
KeepCurrentEnds(h) ==
    /\ task[h] = "failed"
    /\ actual' = IF actual[h] = 0 THEN [actual EXCEPT ![h] = AutoOverlayMtu(net)] ELSE actual
    /\ task' = [task EXCEPT ![h] = "ended"]
    /\ ForgetSearch(h)
    /\ UNCHANGED <<net, changes, tunnelVars, link, spoiled>>

(* The search failed: what is set stays, unless nothing was.               *)
KeepCurrent(h) ==
    /\ task[h] = "failed"
    /\ actual' = IF actual[h] = 0 THEN [actual EXCEPT ![h] = AutoOverlayMtu(net)] ELSE actual
    /\ task' = [task EXCEPT ![h] = "sleeping"]
    /\ ForgetSearch(h)
    /\ UNCHANGED <<net, changes, tunnelVars, link, spoiled>>

(* select! in the loop of spawn_pmtud_task: REPROBE_INTERVAL is over, or   *)
(* the token is cancelled.  The token is not looked at while probing.      *)
Reprobe(h) ==
    /\ task[h] = "sleeping"
    /\ task' = [task EXCEPT ![h] = "starting"]
    /\ UNCHANGED <<net, changes, tunnelVars, actual, link, search, spoiled>>

StopProbing(h) ==
    /\ task[h] = "sleeping" /\ h \in cancelled
    /\ task' = [task EXCEPT ![h] = "ended"]
    /\ UNCHANGED <<net, changes, tunnelVars, actual, link, search, spoiled>>

--------------------------------------------------------------------------------
PathChanges ==
    /\ changes < MaxChanges
    /\ net' \in Networks \ {net}
    /\ changes' = changes + 1
    /\ UNCHANGED <<tunnelVars, actual, link, task, search, spoiled>>

Init ==
    /\ net \in Networks
    /\ changes = 0
    /\ request = [h \in Handles |-> None]
    /\ registered = {} /\ made = {} /\ cancelled = {}
    /\ actual = [h \in Handles |-> 0]
    /\ link = [owner |-> None, mtu |-> TapDefault]
    /\ task = [h \in Handles |-> "none"]
    /\ search = [h \in Handles |-> FirstSearch]
    /\ spoiled = FALSE

TaskSteps(h) ==
    \/ StartProbing(h) \/ Probe(h) \/ ApplyFound(h) \/ SetInterfaceMtu(h)
    \/ KeepCurrent(h) \/ Reprobe(h)

Next ==
    \/ \E h \in Handles, r \in Requests : Create(h, r)
    \/ \E h \in Handles :
          CreateEnds(h) \/ Delete(h) \/ TapCloses(h) \/ TaskSteps(h) \/ StopProbing(h)
    \/ PathChanges

Spec == Init /\ [][Next]_vars

(* Timers fire and blocking calls of a task return: a task goes on.  A     *)
(* create_tunnel in its drain loop need not.                               *)
FairSpec == Spec /\ \A h \in Handles : WF_vars(TaskSteps(h))

--------------------------------------------------------------------------------
(* Properties. *)

(* "Returns the discovered path MTU (e.g. 1500, 1420)" (pmtud.rs:122) is   *)
(* not what a search does: no size is ever found too large, so every       *)
(* search that was begun ends, at no size but the last, on MAX_PROBE, and  *)
(* one fails only for want of a socket (pmtud.rs:234 with 269).            *)
SearchEndsOnMax ==
    \A h \in Handles :
        /\ task[h] = "found" => search[h].best = MAX_PROBE
        /\ task[h] = "setting" => actual[h] = Overlay(MAX_PROBE)
        /\ task[h] = "failed" => search[h] = FirstSearch

(* The interface has the MTU that the API shows for its tunnel, whatever   *)
(* deletions, new tunnels of the name and re-probes do, except in the      *)
(* moment between the swap and the ioctl, and after an ioctl that failed   *)
(* or was that of an earlier tunnel's task (pmtud.rs:71, 87).              *)
InStep ==
    \A h \in Handles :
        link.owner = h /\ ~spoiled /\ task[h] # "setting" /\ actual[h] # 0 => link.mtu = ShownMtu(h)

(* Where a ping socket can be had in the end, the task of an automatic     *)
(* tunnel to an IPv4 peer replaces what startup or the call resolved, for  *)
(* jumbo frames, a small interface or the overhead of ESP, by the MTU for  *)
(* MAX_PROBE, also after searches that failed, and for good (pmtud.rs:48). *)
(* docs/guides/PMTUD.md has it otherwise: a search "Discovers the actual   *)
(* path MTU" (line 31), and a path with IPsec gets 1420 (lines 19 and 25). *)
Probed(h) == h \in made \ cancelled /\ IsAuto(request[h]) /\ ~request[h].v6
EndsOnMax ==
    \A h \in Handles :
        <>[](Probed(h) /\ net.route /\ net.pings) => <>[](actual[h] = Overlay(MAX_PROBE))

================================================================================
