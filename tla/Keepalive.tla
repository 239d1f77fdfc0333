------------------------------- MODULE Keepalive -------------------------------
(***************************************************************************)
(* Staleness detection of one tunnel: the keepalive task of keepalive.rs   *)
(* against the receive threads of packet/rx.rs, which stamp the tunnel     *)
(* with a clock that each of them reads only every Refresh-th packet.      *)
(*                                                                         *)
(* Times are kept as ages, in ticks before now, and saturate at MaxAge:    *)
(* the code and the properties compare them with nothing larger.  The      *)
(* clock is taken to tick only between packets and between checks, which   *)
(* take microseconds, and never to be set (it is the wall clock, see the   *)
(* README).                                                                *)
(***************************************************************************)
EXTENDS Naturals, FiniteSets, TunnelState

CONSTANTS
    Threads,         \* RX threads
    Refresh,         \* packets between two reads of the clock: 64
    Interval,        \* keepalive_interval_secs
    Timeout,         \* keepalive_timeout_secs
    NoTime           \* the timestamp 0: never

ASSUME KeepaliveAssumption ==
    /\ Refresh \in Nat \ {0}
    /\ Interval \in Nat \ {0}
    /\ Timeout \in Nat
    /\ NoTime \notin Nat

MaxAge == Timeout + Interval + 1
Ages == 0 .. MaxAge

VARIABLES
    receivers,       \* the threads this tunnel's packets may reach
    shared,          \* whether packets of other tunnels reach them too
    count,           \* coarse_timestamp_ms, per thread: packets mod Refresh
    cached,          \*   and the age of the cached time
    stamp,           \* the time a thread is about to store, NoTime when none
    last,            \* stats.last_rx_timestamp
    heard,           \* when the tunnel's last packet really came
    state,           \* TunnelHandle.state
    pc,              \* where the keepalive task is
    elapsed,         \* what it measured
    due,             \* ticks until its ticker fires
    cancelled        \* its token is cancelled

vars == <<receivers, shared, count, cached, stamp, last, heard, state,
          pc, elapsed, due, cancelled>>

TypeOK ==
    /\ receivers \subseteq Threads
    /\ shared \in BOOLEAN
    /\ count \in [Threads -> 0 .. Refresh - 1]
    /\ cached \in [Threads -> Ages]
    /\ stamp \in [Threads -> Ages \cup {NoTime}]
    /\ last \in Ages \cup {NoTime}
    /\ heard \in Ages \cup {NoTime}
    /\ state \in {"Active", "Stale"}
    /\ pc \in {"waiting", "measured", "Stale", "Active", "stopped"}
    /\ elapsed \in Ages \cup {NoTime}
    /\ due \in 0 .. Interval
    /\ cancelled \in BOOLEAN

(* The tunnel was activated and its keepalive task consumed the ticker's   *)
(* immediate first tick.                                                   *)
Init ==
    /\ receivers \in (SUBSET Threads) \ {{}}
    /\ shared \in BOOLEAN
    /\ count = [t \in Threads |-> 0]
    /\ cached = [t \in Threads |-> MaxAge]
    /\ stamp = [t \in Threads |-> NoTime]
    /\ last = NoTime
    /\ heard = NoTime
    /\ state = "Active"
    /\ pc = "waiting"
    /\ elapsed = NoTime
    /\ due = Interval
    /\ cancelled = FALSE

--------------------------------------------------------------------------------
(* The receive threads. *)

(* coarse_timestamp_ms: the age of the time it returns on thread t. *)
CoarseTime(t) == IF count[t] = 0 THEN 0 ELSE cached[t]

(* Mutant: the packet counter is not reduced. *)
ReadClockUnreduced(t) ==
    /\ cached' = [cached EXCEPT ![t] = CoarseTime(t)]
    /\ count' = [count EXCEPT ![t] = @ + 1]

ReadClock(t) ==
    /\ cached' = [cached EXCEPT ![t] = CoarseTime(t)]
    /\ count' = [count EXCEPT ![t] = (@ + 1) % Refresh]

(* Mutant: the time cached before the read is the one returned. *)
ReceiveOldTime(t) ==
    /\ t \in receivers
    /\ stamp[t] = NoTime
    /\ ReadClock(t)
    /\ stamp' = [stamp EXCEPT ![t] = cached[t]]
    /\ heard' = 0
    /\ UNCHANGED <<receivers, shared, last, state, pc, elapsed, due, cancelled>>

(* A packet, keepalive or data, that the demultiplexer finds this tunnel   *)
(* for.                                                                    *)
Receive(t) ==
    /\ t \in receivers
    /\ stamp[t] = NoTime
    /\ ReadClock(t)
    /\ stamp' = [stamp EXCEPT ![t] = CoarseTime(t)]
    /\ heard' = 0
    /\ UNCHANGED <<receivers, shared, last, state, pc, elapsed, due, cancelled>>

StoreStamp(t) ==
    /\ stamp[t] # NoTime
    /\ last' = stamp[t]
    /\ stamp' = [stamp EXCEPT ![t] = NoTime]
    /\ UNCHANGED <<receivers, shared, count, cached, heard, state, pc, elapsed,
                   due, cancelled>>

(* A packet of another tunnel. *)
ReceiveOther(t) ==
    /\ shared /\ t \in receivers
    /\ stamp[t] = NoTime
    /\ ReadClock(t)
    /\ UNCHANGED <<receivers, shared, stamp, last, heard, state, pc, elapsed,
                   due, cancelled>>

--------------------------------------------------------------------------------
(* The keepalive task. *)

(* The ticker fires: a keepalive is sent, whose failure is only logged,    *)
(* and the age of the last stamp is taken if there is one.                 *)
Measure ==
    /\ pc = "waiting" /\ due = 0
    /\ due' = Interval
    /\ elapsed' = last
    /\ pc' = IF last = NoTime THEN "waiting" ELSE "measured"
    /\ UNCHANGED <<receivers, shared, count, cached, stamp, last, heard, state,
                   cancelled>>

(* Mutant: a grace interval is added to the timeout. *)
DecideWithGrace ==
    /\ pc = "measured"
    /\ pc' = CASE elapsed > Timeout + Interval /\ state = "Active" -> "Stale"
               [] elapsed <= Timeout /\ state = "Stale" -> "Active"
               [] OTHER -> "waiting"
    /\ UNCHANGED <<receivers, shared, count, cached, stamp, last, heard, state,
                   elapsed, due, cancelled>>

(* The state is loaded; pc becomes the state to move to, if any. *)
Decide ==
    /\ pc = "measured"
    /\ pc' = CASE elapsed > Timeout /\ state = "Active" -> "Stale"
               [] elapsed <= Timeout /\ state = "Stale" -> "Active"
               [] OTHER -> "waiting"
    /\ UNCHANGED <<receivers, shared, count, cached, stamp, last, heard, state,
                   elapsed, due, cancelled>>

MoveState ==
    /\ pc \in {"Stale", "Active"}
    /\ state' = IF pc = "Stale"
                THEN AfterTransition(state, "Active", "Stale")
                ELSE AfterTransition(state, "Stale", "Active")
    /\ pc' = "waiting"
    /\ UNCHANGED <<receivers, shared, count, cached, stamp, last, heard, elapsed,
                   due, cancelled>>

(* destroy_tunnel or shutdown cancels the token. *)
Cancel ==
    /\ ~cancelled
    /\ cancelled' = TRUE
    /\ UNCHANGED <<receivers, shared, count, cached, stamp, last, heard, state,
                   pc, elapsed, due>>

Stop ==
    /\ pc = "waiting" /\ cancelled
    /\ pc' = "stopped"
    /\ UNCHANGED <<receivers, shared, count, cached, stamp, last, heard, state,
                   elapsed, due, cancelled>>

--------------------------------------------------------------------------------
Older(a) == IF a = NoTime THEN NoTime ELSE IF a < MaxAge THEN a + 1 ELSE MaxAge

(* The clock ticks: the ticker has been served and no thread is midway.    *)
Tick ==
    /\ pc = "stopped" \/ (pc = "waiting" /\ due > 0)
    /\ \A t \in Threads : stamp[t] = NoTime
    /\ cached' = [t \in Threads |-> Older(cached[t])]
    /\ last' = Older(last)
    /\ heard' = Older(heard)
    /\ due' = IF due > 0 THEN due - 1 ELSE 0
    /\ UNCHANGED <<receivers, shared, count, stamp, state, pc, elapsed, cancelled>>

TaskStep == Measure \/ Decide \/ MoveState \/ Stop

Next ==
    \/ \E t \in Threads : Receive(t) \/ StoreStamp(t) \/ ReceiveOther(t)
    \/ TaskStep
    \/ Cancel
    \/ Tick

Spec == Init /\ [][Next]_vars

(* The task and the threads are scheduled, and time passes.  Packets need  *)
(* not come, and the token need not be cancelled.                          *)
FairSpec ==
    /\ Spec
    /\ WF_vars(TaskStep)
    /\ \A t \in Threads : WF_vars(StoreStamp(t))
    /\ SF_vars(Tick)

--------------------------------------------------------------------------------
(* Properties. *)

(* "detect stale tunnels when no packets are received within the timeout"  *)
(* (keepalive.rs:2): a tunnel that was heard once is no longer Active when *)
(* nothing came for the timeout and one interval more, whichever threads   *)
(* stamped it with whatever cached time.                                   *)
DetectsSilence ==
    (state = "Active" /\ last # NoTime /\ pc # "stopped") => heard <= Timeout + Interval

(* RX that resumes for good makes the tunnel Active again and again, when  *)
(* one thread receives this tunnel alone, the check is not rarer than the  *)
(* timeout, and the task is not cancelled.  (With two threads, or with     *)
(* other tunnels on the thread, old cached times can win every race.)      *)
Recovers ==
    (Cardinality(receivers) = 1 /\ ~shared /\ Interval <= Timeout) =>
        (([]<>(heard = 0)) => []<>(state = "Active" \/ pc = "stopped"))

(* "detect stale tunnels when no packets are received within the timeout"  *)
(* (keepalive.rs:2): a tunnel goes stale only then.                        *)
StaleOnlyInSilence ==
    [][(state = "Active" /\ state' = "Stale") => heard > Timeout]_state

================================================================================
