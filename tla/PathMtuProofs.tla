----------------------------- MODULE PathMtuProofs -----------------------------
(***************************************************************************)
(* Proofs about PathMtu, for any networks, any requests, any range of      *)
(* probes and any number of tunnels.                                       *)
(***************************************************************************)
EXTENDS PathMtu, TLAPS

Search == [lo : Sizes, hi : Sizes, best : Sizes, attempt : 0 .. PROBE_RETRIES - 1]
Tasks == {"none", "starting", "probing", "found", "failed", "setting", "sleeping", "ended"}

(* What a handle's task, its search and its MTU have to do with each       *)
(* other.  While a search runs its upper bound never comes down.  A tunnel *)
(* whose MTU is searched has had one from the start, so a failed search    *)
(* changes nothing.                                                        *)
Coherent(h) ==
    /\ request[h] = None => h \notin made
    /\ h \notin made => task[h] = "none"
    /\ task[h] # "none" => IsAuto(request[h])
    /\ request[h] # None /\ IsAuto(request[h]) => actual[h] # 0
    /\ task[h] \notin {"probing", "found"} => search[h] = FirstSearch
    /\ task[h] = "probing" => search[h].lo <= search[h].hi /\ search[h].hi = MAX_PROBE
    /\ task[h] = "found" => search[h].best = MAX_PROBE
    /\ task[h] = "setting" => actual[h] = Overlay(MAX_PROBE)

MtuInv ==
    /\ TypeOK
    /\ \A h \in Handles : Coherent(h)
    /\ InStep

--------------------------------------------------------------------------------
(* Sizes and MTUs. *)

LEMMA TapBounds ==
    /\ MinTapMtu \in Nat /\ MaxTapMtu \in Nat /\ MaxU16 \in Nat /\ TapDefault \in Nat
    /\ 0 < MinTapMtu /\ MinTapMtu <= TapDefault /\ TapDefault <= MaxTapMtu /\ MaxTapMtu <= MaxU16
  BY DEF MinTapMtu, MaxTapMtu, MaxU16, TapDefault

LEMMA TapLimits ==
    /\ TapDefault \in TapMtus /\ MaxU16 \in Nat
    /\ \A m \in TapMtus : m \in 0 .. MaxU16 /\ m > 0
  BY TapBounds DEF TapMtus

LEMMA ProbeLimits ==
    /\ MIN_PROBE \in Nat /\ MAX_PROBE \in Nat /\ MIN_PROBE < MAX_PROBE
    /\ MAX_PROBE <= 65535
    /\ \A x \in Sizes : x \in Nat /\ MIN_PROBE <= x /\ x <= MAX_PROBE
    /\ MIN_PROBE \in Sizes /\ MAX_PROBE \in Sizes
  BY PathMtuAssumption DEF MaxU16, Sizes

(* What a search finds is an MTU that the kernel takes. *)
LEMMA OverlayRange == Overlay(MAX_PROBE) \in TapMtus
  <1>1. MAX_PROBE \in Nat /\ MAX_PROBE <= 65535
    BY ProbeLimits
  <1>2. 534 <= Overlay(MAX_PROBE) /\ Overlay(MAX_PROBE) <= 65493 /\ Overlay(MAX_PROBE) \in Nat
    BY <1>1 DEF Overlay, Less, AtLeast, SaturatingSub, EOIP_OVERHEAD, MIN_OVERLAY_MTU
  <1>3. MinTapMtu <= Overlay(MAX_PROBE) /\ Overlay(MAX_PROBE) <= MaxTapMtu
    BY <1>2 DEF MinTapMtu, MaxTapMtu
  <1> QED
    BY <1>2, <1>3, TapBounds DEF TapMtus

(* An automatic MTU is never 0, which would leave the interface alone.     *)
LEMMA AutoIsPositive ==
    ASSUME NEW r, NEW n, IsAuto(r)
    PROVE  ResolveWithIpsec(r, n) # 0
  <1>1. \A x, m : Less(x, m) # 0
    BY DEF Less, AtLeast, MIN_OVERLAY_MTU
  <1>2. Resolve(r, n) # 0
    BY <1>1 DEF Resolve, AutoOverlayMtu
  <1> QED
    BY <1>1, <1>2 DEF ResolveWithIpsec

LEMMA FirstIsSearch ==
    FirstSearch \in Search /\ FirstSearch.lo <= FirstSearch.hi /\ FirstSearch.hi = MAX_PROBE
  BY ProbeLimits DEF FirstSearch, Search, PROBE_RETRIES

LEMMA MidBetween ==
    ASSUME NEW s \in Search, s.lo <= s.hi
    PROVE  Mid(s) \in Sizes /\ s.lo <= Mid(s) /\ Mid(s) <= s.hi
  <1>1. s.lo \in Sizes /\ s.hi \in Sizes
    BY DEF Search
  <1>2. /\ MIN_PROBE \in Nat /\ MAX_PROBE \in Nat
        /\ s.lo \in Nat /\ s.hi \in Nat /\ MIN_PROBE <= s.lo /\ s.hi <= MAX_PROBE
    BY <1>1, PathMtuAssumption DEF Sizes, MaxU16
  <1>3. (s.hi - s.lo) \div 2 \in Nat /\ (s.hi - s.lo) \div 2 <= s.hi - s.lo
    BY <1>2
  <1> QED
    BY <1>2, <1>3 DEF Mid, Sizes

(* A size that is taken to fit leaves the upper bound, and either it is    *)
(* that bound or the range above it remains.                               *)
LEMMA NarrowedUp ==
    ASSUME NEW s \in Search, s.lo <= s.hi, s.hi = MAX_PROBE
    PROVE  /\ Narrowed(s, TRUE) \in Search
           /\ Narrowed(s, TRUE).lo <= Narrowed(s, TRUE).hi
           /\ Narrowed(s, TRUE).hi = MAX_PROBE
           /\ IsLast(s, TRUE) => Narrowed(s, TRUE).best = MAX_PROBE
  <1>1. Mid(s) \in Sizes /\ s.lo <= Mid(s) /\ Mid(s) <= s.hi
    BY MidBetween
  <1>2. s.lo \in Sizes /\ s.hi \in Sizes /\ 0 \in 0 .. PROBE_RETRIES - 1
    BY DEF Search, PROBE_RETRIES
  <1>3. CASE IsLast(s, TRUE)
    BY <1>1, <1>2, <1>3 DEF Narrowed, Search, IsLast
  <1>4. CASE ~IsLast(s, TRUE)
    <2>1. Mid(s) + 1 \in Sizes /\ Mid(s) + 1 <= s.hi
      <3>1. MIN_PROBE \in Nat /\ MAX_PROBE \in Nat
        BY PathMtuAssumption DEF MaxU16
      <3> QED
        BY <1>1, <1>2, <1>4, <3>1 DEF IsLast, Sizes
    <2> QED
      BY <1>1, <1>2, <1>4, <2>1 DEF Narrowed, Search
  <1> QED
    BY <1>3, <1>4

--------------------------------------------------------------------------------
(* The invariant. *)

LEMMA MtuInvInit == Init => MtuInv
  <1> SUFFICES ASSUME Init PROVE MtuInv
    OBVIOUS
  <1>1. 0 \in 0 .. MaxChanges /\ 0 \in 0 .. MaxU16
    BY PathMtuAssumption, TapBounds
  <1>2. TypeOK
    BY <1>1, TapLimits, FirstIsSearch DEF Init, TypeOK, Search
  <1>3. \A h \in Handles : Coherent(h)
    BY DEF Init, Coherent
  <1>4. InStep
    BY DEF Init, InStep
  <1> QED
    BY <1>2, <1>3, <1>4 DEF MtuInv

LEMMA ShownPositive ==
    ASSUME MtuInv
    PROVE  \A h \in Handles : actual[h] # 0 => actual[h] > 0
  <1>1. actual \in [Handles -> 0 .. MaxU16] /\ MaxU16 \in Nat
    BY TapBounds DEF MtuInv, TypeOK
  <1> QED
    BY <1>1

(* What a step of h does not touch of the others. *)
LEMMA OthersKeep ==
    ASSUME MtuInv, NEW h \in Handles,
           \A g \in Handles \ {h} :
              /\ request'[g] = request[g] /\ (g \in made' <=> g \in made)
              /\ task'[g] = task[g] /\ search'[g] = search[g] /\ actual'[g] = actual[g],
           Coherent(h)'
    PROVE  \A g \in Handles : Coherent(g)'
  <1>1. ASSUME NEW g \in Handles, g # h PROVE Coherent(g)'
    BY <1>1 DEF MtuInv, Coherent, IsAuto
  <1> QED
    BY <1>1

(* A step that leaves the MTUs alone. *)
LEMMA MtusKeep ==
    ASSUME MtuInv, actual' = actual,
           \A h \in Handles : task'[h] = "setting" <=> task[h] = "setting",
           \/ link' = link /\ spoiled' = spoiled
           \/ link' = [owner |-> None, mtu |-> TapDefault]
    PROVE  InStep'
  <1>1. \A h \in Handles : h # None /\ (actual[h] # 0 => actual[h] > 0)
    BY PathMtuAssumption, ShownPositive
  <1> QED
    BY <1>1 DEF MtuInv, InStep, ShownMtu

LEMMA CreateKeeps ==
    ASSUME MtuInv, NEW h \in Handles, NEW r \in Requests, Create(h, r)
    PROVE  MtuInv'
  <1> DEFINE mtu == ResolveWithIpsec(r, net)
  <1>1. /\ mtu \in TapMtus \cup {0}
        /\ actual' = [actual EXCEPT ![h] = mtu]
        /\ link' = [owner |-> h, mtu |-> IF mtu = 0 THEN TapDefault ELSE mtu]
        /\ request' = [request EXCEPT ![h] = r] /\ request[h] = None
        /\ UNCHANGED <<net, changes, cancelled, search>> /\ spoiled' = FALSE
        /\ registered' = registered \cup {h}
    BY DEF Create
  <1>2. IsAuto(r) => mtu # 0
    BY AutoIsPositive
  <1> HIDE DEF mtu
  <1>3. r # None /\ h \notin made /\ task[h] = "none" /\ search[h] = FirstSearch
    BY <1>1, PathMtuAssumption DEF MtuInv, Coherent
  <1>4. mtu \in 0 .. MaxU16 /\ link'.mtu \in TapMtus /\ (mtu # 0 => mtu > 0 /\ link'.mtu = mtu)
    BY <1>1, TapLimits
  <1>5. \/ made' = made \cup {h} /\ task' = [task EXCEPT ![h] = IF IsAuto(r) THEN "starting" ELSE "none"]
        \/ made' = made /\ task' = task
    BY DEF Create
  <1>6. TypeOK'
    <2>1. actual' \in [Handles -> 0 .. MaxU16] /\ link' \in [owner : Handles \cup {None}, mtu : TapMtus]
      BY <1>1, <1>4 DEF MtuInv, TypeOK
    <2>2. task' \in [Handles -> Tasks] /\ cancelled' \subseteq made' /\ made' \subseteq Handles
      BY <1>1, <1>5 DEF MtuInv, TypeOK, Tasks
    <2> QED
      BY <1>1, <2>1, <2>2 DEF MtuInv, TypeOK, Tasks
  <1>7. /\ actual'[h] = mtu /\ request'[h] = r /\ search'[h] = search[h]
        /\ task'[h] \in {"none", "starting"} /\ (task'[h] # "none" => IsAuto(r) /\ h \in made')
        /\ \A g \in Handles \ {h} :
              /\ request'[g] = request[g] /\ (g \in made' <=> g \in made)
              /\ task'[g] = task[g] /\ search'[g] = search[g] /\ actual'[g] = actual[g]
    BY <1>1, <1>3, <1>5 DEF MtuInv, TypeOK
  <1>8. Coherent(h)'
    BY <1>2, <1>3, <1>7 DEF Coherent, IsAuto
  <1>9. InStep'
    BY <1>1, <1>4, <1>7 DEF InStep, ShownMtu
  <1> QED
    BY <1>6, <1>7, <1>8, <1>9, OthersKeep DEF MtuInv

LEMMA CreateEndsKeeps ==
    ASSUME MtuInv, NEW h \in Handles, CreateEnds(h)
    PROVE  MtuInv'
  <1> DEFINE t == IF IsAuto(request[h]) THEN "starting" ELSE "none"
  <1>1. /\ request[h] # None /\ h \notin made /\ task[h] = "none" /\ search[h] = FirstSearch
        /\ made' = made \cup {h} /\ task' = [task EXCEPT ![h] = t]
        /\ UNCHANGED <<net, changes, request, registered, cancelled, actual, link, search, spoiled>>
    BY DEF CreateEnds, MtuInv, Coherent
  <1>2. t \in Tasks /\ t # "setting" /\ (t # "none" => t = "starting" /\ IsAuto(request[h]))
    BY DEF Tasks
  <1>3. task' \in [Handles -> Tasks] /\ task'[h] = t /\ \A g \in Handles \ {h} : task'[g] = task[g]
    BY <1>1, <1>2 DEF MtuInv, TypeOK, Tasks
  <1>4. TypeOK'
    BY <1>1, <1>3 DEF MtuInv, TypeOK, Tasks
  <1>5. Coherent(h)'
    BY <1>1, <1>2, <1>3 DEF MtuInv, Coherent, IsAuto
  <1>6. InStep'
    BY <1>1, <1>2, <1>3, MtusKeep
  <1> QED
    BY <1>1, <1>3, <1>4, <1>5, <1>6, OthersKeep DEF MtuInv

(* A step of the task between searches. *)
LEMMA BetweenKeeps ==
    ASSUME MtuInv, NEW h \in Handles, NEW t \in {"starting", "probing", "failed", "ended"},
           task[h] \in {"starting", "sleeping"}, task' = [task EXCEPT ![h] = t],
           UNCHANGED <<net, changes, tunnelVars, actual, link, search, spoiled>>
    PROVE  MtuInv'
  <1>1. task' \in [Handles -> Tasks] /\ task'[h] = t /\ \A g \in Handles \ {h} : task'[g] = task[g]
    BY DEF MtuInv, TypeOK, Tasks
  <1>2. TypeOK'
    BY <1>1 DEF MtuInv, TypeOK, Tasks, tunnelVars
  <1>3. search[h] = FirstSearch /\ h \in made /\ IsAuto(request[h])
    BY DEF MtuInv, Coherent
  <1>4. Coherent(h)'
    BY <1>1, <1>3, FirstIsSearch DEF MtuInv, Coherent, IsAuto, tunnelVars
  <1>5. InStep'
    BY <1>1, MtusKeep
  <1> QED
    BY <1>1, <1>2, <1>4, <1>5, OthersKeep DEF MtuInv, tunnelVars

LEMMA ProbeKeeps ==
    ASSUME MtuInv, NEW h \in Handles, Probe(h)
    PROVE  MtuInv'
  <1>1. /\ task[h] = "probing" /\ Inconclusive(h)
        /\ UNCHANGED <<net, changes, tunnelVars, actual, link, spoiled>>
        /\ search[h] \in Search /\ search[h].lo <= search[h].hi /\ search[h].hi = MAX_PROBE
        /\ h \in made /\ IsAuto(request[h])
    BY DEF Probe, MtuInv, TypeOK, Coherent, Search
  <1>2. PICK s \in Search : /\ search' = [search EXCEPT ![h] = s]
                            /\ s.lo <= s.hi /\ s.hi = MAX_PROBE
                            /\ \/ task' = task
                               \/ task' = [task EXCEPT ![h] = "found"] /\ s.best = MAX_PROBE
    <2>1. CASE search[h].attempt + 1 < PROBE_RETRIES
      <3> DEFINE s == [search[h] EXCEPT !.attempt = @ + 1]
      <3>1. search[h].attempt + 1 \in 0 .. PROBE_RETRIES - 1
        BY <1>1, <2>1 DEF Search, PROBE_RETRIES
      <3>2. s \in Search /\ s.lo = search[h].lo /\ s.hi = search[h].hi
        BY <1>1, <3>1 DEF Search
      <3>3. search' = [search EXCEPT ![h] = s] /\ task' = task
        BY <1>1, <2>1 DEF Inconclusive, MtuInv, TypeOK
      <3> QED
        BY <1>1, <3>2, <3>3
    <2>2. CASE ~(search[h].attempt + 1 < PROBE_RETRIES)
      <3> DEFINE s == Narrowed(search[h], TRUE)
      <3>1. Settle(h, TRUE)
        BY <1>1, <2>2 DEF Inconclusive
      <3>2. /\ s \in Search /\ s.lo <= s.hi /\ s.hi = MAX_PROBE
            /\ IsLast(search[h], TRUE) => s.best = MAX_PROBE
        BY <1>1, NarrowedUp
      <3>3. search' = [search EXCEPT ![h] = s]
        BY <3>1 DEF Settle
      <3>4. CASE ~IsLast(search[h], TRUE)
        BY <3>1, <3>2, <3>3, <3>4 DEF Settle
      <3>5. CASE IsLast(search[h], TRUE)
        <4>0. ~(MAX_PROBE <= MIN_PROBE)
          BY PathMtuAssumption DEF MaxU16
        <4> HIDE DEF s
        <4>1. s.best = MAX_PROBE /\ ~(s.best <= MIN_PROBE)
          BY <3>2, <3>5, <4>0
        <4>2. task' = [task EXCEPT ![h] = IF s.best <= MIN_PROBE THEN "failed" ELSE "found"]
          BY <3>1, <3>5 DEF Settle, s
        <4> QED
          BY <3>2, <3>3, <4>1, <4>2
      <3> QED
        BY <3>4, <3>5
    <2> QED
      BY <2>1, <2>2
  <1>3. /\ search' \in [Handles -> Search] /\ search'[h] = s
        /\ task' \in [Handles -> Tasks] /\ task'[h] \in {"probing", "found"}
        /\ task'[h] = "found" => s.best = MAX_PROBE
        /\ \A g \in Handles \ {h} : task'[g] = task[g] /\ search'[g] = search[g]
    BY <1>1, <1>2 DEF MtuInv, TypeOK, Search, Tasks
  <1>4. TypeOK'
    BY <1>1, <1>3 DEF MtuInv, TypeOK, Search, Tasks, tunnelVars
  <1>5. Coherent(h)'
    BY <1>1, <1>2, <1>3 DEF MtuInv, Coherent, IsAuto, tunnelVars
  <1>6. InStep'
    BY <1>1, <1>3, MtusKeep
  <1> QED
    BY <1>1, <1>3, <1>4, <1>5, <1>6, OthersKeep DEF MtuInv, tunnelVars

LEMMA ApplyKeeps ==
    ASSUME MtuInv, NEW h \in Handles, ApplyFound(h)
    PROVE  MtuInv'
  <1>1. /\ task[h] = "found" /\ search[h].best = MAX_PROBE /\ h \in made /\ IsAuto(request[h])
        /\ UNCHANGED <<net, changes, tunnelVars, link, spoiled>>
        /\ search' = [search EXCEPT ![h] = FirstSearch]
    BY DEF ApplyFound, ForgetSearch, MtuInv, Coherent
  <1>2. actual' = [actual EXCEPT ![h] = Overlay(MAX_PROBE)]
    BY <1>1 DEF ApplyFound
  <1>3. Overlay(MAX_PROBE) \in 0 .. MaxU16 /\ Overlay(MAX_PROBE) # 0
    <2> DEFINE m == Overlay(MAX_PROBE)
    <2>1. m \in TapMtus
      BY OverlayRange
    <2> HIDE DEF m
    <2>2. m \in 0 .. MaxU16 /\ m # 0
      BY <2>1, TapLimits
    <2> QED
      BY <2>2 DEF m
  <1>4. /\ actual' \in [Handles -> 0 .. MaxU16] /\ actual'[h] = Overlay(MAX_PROBE)
        /\ \A g \in Handles \ {h} : actual'[g] = actual[g]
    BY <1>2, <1>3 DEF MtuInv, TypeOK
  <1>5. task' = [task EXCEPT ![h] = IF actual'[h] # actual[h] THEN "setting" ELSE "sleeping"]
    BY DEF ApplyFound
  <1>6. /\ task' \in [Handles -> Tasks] /\ task'[h] \in {"setting", "sleeping"}
        /\ task'[h] = "setting" \/ actual'[h] = actual[h]
        /\ \A g \in Handles \ {h} : task'[g] = task[g] /\ search'[g] = search[g]
        /\ search' \in [Handles -> Search] /\ search'[h] = FirstSearch
    BY <1>1, <1>5, FirstIsSearch DEF MtuInv, TypeOK, Tasks, Search
  <1>7. TypeOK'
    BY <1>1, <1>4, <1>6 DEF MtuInv, TypeOK, Search, Tasks, tunnelVars
  <1>8. Coherent(h)'
    BY <1>1, <1>3, <1>4, <1>6 DEF MtuInv, Coherent, IsAuto, tunnelVars
  <1>9. InStep'
    <2>1. \A g \in Handles : actual'[g] # 0 => actual'[g] > 0
      BY <1>4, TapBounds
    <2>2. \A g \in Handles : link.owner = g /\ ~spoiled /\ task'[g] # "setting" /\ actual'[g] # 0
                             => link.mtu = actual'[g]
      <3>1. \A g \in Handles : link.owner = g /\ ~spoiled /\ task[g] # "setting" /\ actual[g] # 0
                               => link.mtu = actual[g]
        BY ShownPositive DEF MtuInv, InStep, ShownMtu
      <3> QED
        BY <1>1, <1>4, <1>6, <3>1
    <2> QED
      BY <1>1, <2>1, <2>2 DEF InStep, ShownMtu
  <1> QED
    BY <1>1, <1>4, <1>6, <1>7, <1>8, <1>9, OthersKeep DEF MtuInv, tunnelVars

LEMMA SetKeeps ==
    ASSUME MtuInv, NEW h \in Handles, SetInterfaceMtu(h)
    PROVE  MtuInv'
  <1>1. /\ task[h] = "setting" /\ task' = [task EXCEPT ![h] = "sleeping"]
        /\ UNCHANGED <<net, changes, tunnelVars, actual, search>>
        /\ actual[h] \in TapMtus /\ search[h] = FirstSearch /\ h \in made /\ IsAuto(request[h])
    BY OverlayRange DEF SetInterfaceMtu, MtuInv, Coherent
  <1>2. task' \in [Handles -> Tasks] /\ task'[h] = "sleeping"
        /\ \A g \in Handles \ {h} : task'[g] = task[g]
    BY <1>1 DEF MtuInv, TypeOK, Tasks
  <1>3. Coherent(h)'
    BY <1>1, <1>2 DEF MtuInv, Coherent, IsAuto, tunnelVars
  <1>4. CASE link.owner # None /\ link' = [link EXCEPT !.mtu = actual[h]] /\ spoiled' = (link.owner # h)
    <2>1. /\ link' \in [owner : Handles \cup {None}, mtu : TapMtus] /\ spoiled' \in BOOLEAN
          /\ link'.owner = link.owner /\ link'.mtu = actual[h]
      BY <1>1, <1>4 DEF MtuInv, TypeOK
    <2>2. ShownMtu(h)' = actual[h]
      BY <1>1, TapLimits DEF ShownMtu
    <2>3. InStep'
      BY <1>4, <2>1, <2>2 DEF InStep
    <2>4. TypeOK'
      BY <1>1, <1>2, <2>1 DEF MtuInv, TypeOK, Tasks, tunnelVars
    <2> QED
      BY <1>1, <1>2, <1>3, <2>3, <2>4, OthersKeep DEF MtuInv, tunnelVars
  <1>5. CASE link' = link /\ spoiled' = (spoiled \/ link.owner = h)
    <2>1. \A g \in Handles : actual[g] # 0 => actual[g] > 0
      BY ShownPositive
    <2>2. InStep'
      BY <1>1, <1>2, <1>5, <2>1 DEF MtuInv, InStep, ShownMtu
    <2>3. TypeOK'
      BY <1>1, <1>2, <1>5 DEF MtuInv, TypeOK, Tasks, tunnelVars
    <2> QED
      BY <1>1, <1>2, <1>3, <2>2, <2>3, OthersKeep DEF MtuInv, tunnelVars
  <1> QED
    BY <1>4, <1>5 DEF SetInterfaceMtu

LEMMA KeepKeeps ==
    ASSUME MtuInv, NEW h \in Handles, KeepCurrent(h)
    PROVE  MtuInv'
  <1>1. /\ task[h] = "failed" /\ task' = [task EXCEPT ![h] = "sleeping"]
        /\ search[h] = FirstSearch /\ h \in made /\ IsAuto(request[h]) /\ actual[h] # 0
        /\ search' = [search EXCEPT ![h] = FirstSearch]
        /\ UNCHANGED <<net, changes, tunnelVars, link, spoiled>>
    BY DEF KeepCurrent, ForgetSearch, MtuInv, Coherent
  <1>2. actual' = actual /\ search' = search
    BY <1>1 DEF KeepCurrent, MtuInv, TypeOK
  <1>3. task' \in [Handles -> Tasks] /\ task'[h] = "sleeping"
        /\ \A g \in Handles \ {h} : task'[g] = task[g]
    BY <1>1 DEF MtuInv, TypeOK, Tasks
  <1>4. TypeOK'
    BY <1>1, <1>2, <1>3 DEF MtuInv, TypeOK, Tasks, tunnelVars
  <1>5. Coherent(h)'
    BY <1>1, <1>2, <1>3 DEF MtuInv, Coherent, IsAuto, tunnelVars
  <1>6. InStep'
    BY <1>1, <1>2, <1>3, MtusKeep
  <1> QED
    BY <1>1, <1>2, <1>3, <1>4, <1>5, <1>6, OthersKeep DEF MtuInv, tunnelVars

(* A step that concerns no task. *)
LEMMA TasksKeep ==
    ASSUME MtuInv, UNCHANGED <<request, made, actual, task, search>>, TypeOK',
           \/ link' = link /\ spoiled' = spoiled
           \/ link' = [owner |-> None, mtu |-> TapDefault]
    PROVE  MtuInv'
  <1>1. InStep'
    BY MtusKeep
  <1>2. \A h \in Handles : Coherent(h)'
    BY DEF MtuInv, Coherent, IsAuto
  <1> QED
    BY <1>1, <1>2 DEF MtuInv

LEMMA MtuInvNext == MtuInv /\ [Next]_vars => MtuInv'
  <1> SUFFICES ASSUME MtuInv, [Next]_vars PROVE MtuInv'
    OBVIOUS
  <1> USE DEF tunnelVars
  <1>1. ASSUME NEW h \in Handles, NEW r \in Requests, Create(h, r) PROVE MtuInv'
    BY <1>1, CreateKeeps
  <1>2. ASSUME NEW h \in Handles, CreateEnds(h) PROVE MtuInv'
    BY <1>2, CreateEndsKeeps
  <1>3. ASSUME NEW h \in Handles, Delete(h) PROVE MtuInv'
    <2>1. TypeOK'
      BY <1>3 DEF Delete, MtuInv, TypeOK
    <2> QED
      BY <1>3, <2>1, TasksKeep DEF Delete
  <1>4. ASSUME NEW h \in Handles, TapCloses(h) PROVE MtuInv'
    <2>1. TypeOK'
      BY <1>4, TapLimits DEF TapCloses, MtuInv, TypeOK
    <2> QED
      BY <1>4, <2>1, TasksKeep DEF TapCloses
  <1>5. ASSUME NEW h \in Handles, StartProbing(h) \/ Reprobe(h) \/ StopProbing(h) PROVE MtuInv'
    <2>1. PICK t \in {"starting", "probing", "failed", "ended"} : task' = [task EXCEPT ![h] = t]
      BY <1>5 DEF StartProbing, Reprobe, StopProbing
    <2>2. /\ task[h] \in {"starting", "sleeping"}
          /\ UNCHANGED <<net, changes, tunnelVars, actual, link, search, spoiled>>
      BY <1>5 DEF StartProbing, Reprobe, StopProbing
    <2> QED
      BY <2>1, <2>2, BetweenKeeps
  <1>6. ASSUME NEW h \in Handles, Probe(h) PROVE MtuInv'
    BY <1>6, ProbeKeeps
  <1>7. ASSUME NEW h \in Handles, ApplyFound(h) PROVE MtuInv'
    BY <1>7, ApplyKeeps
  <1>8. ASSUME NEW h \in Handles, SetInterfaceMtu(h) PROVE MtuInv'
    BY <1>8, SetKeeps
  <1>9. ASSUME NEW h \in Handles, KeepCurrent(h) PROVE MtuInv'
    BY <1>9, KeepKeeps
  <1>10. CASE PathChanges
    <2>1. changes' \in 0 .. MaxChanges
      BY <1>10, PathMtuAssumption DEF PathChanges, MtuInv, TypeOK
    <2>2. TypeOK'
      BY <1>10, <2>1 DEF PathChanges, MtuInv, TypeOK
    <2> QED
      BY <1>10, <2>2, TasksKeep DEF PathChanges
  <1>11. CASE UNCHANGED vars
    <2>1. TypeOK'
      BY <1>11 DEF vars, MtuInv, TypeOK
    <2> QED
      BY <1>11, <2>1, TasksKeep DEF vars
  <1> QED
    BY <1>1, <1>2, <1>3, <1>4, <1>5, <1>6, <1>7, <1>8, <1>9, <1>10, <1>11 DEF Next, TaskSteps

LEMMA MtuInvAlways == Spec => []MtuInv
  BY MtuInvInit, MtuInvNext, PTL DEF Spec

--------------------------------------------------------------------------------
(* Theorems. *)

(* No number leaves its type: the bounds of a search stay within the       *)
(* probes, and every MTU that is set is one the kernel takes.              *)
THEOREM TypeCorrect == Spec => []TypeOK
  <1>1. MtuInv => TypeOK
    BY DEF MtuInv
  <1> QED
    BY <1>1, MtuInvAlways, PTL

(* For any networks and any range of probes, a search that is begun finds  *)
(* MAX_PROBE, and one fails only before it begins (pmtud.rs:221-257).      *)
THEOREM SearchesEndOnMax == Spec => []SearchEndsOnMax
  <1>1. MtuInv => SearchEndsOnMax
    BY DEF MtuInv, Coherent, SearchEndsOnMax
  <1> QED
    BY <1>1, MtuInvAlways, PTL

(* The API never shows an MTU that the interface does not have, except in  *)
(* the moments InStep names (pmtud.rs:71-116).                             *)
THEOREM MtuInStep == Spec => []InStep
  <1>1. MtuInv => InStep
    BY DEF MtuInv
  <1> QED
    BY <1>1, MtuInvAlways, PTL

================================================================================
