------------------------------- MODULE Alarms -------------------------------
(***************************************************************************)
(* The alarm rules of internal/model/model.go as operators: which rules    *)
(* apply to a node, which CPU figure a pair of snapshots yields, and how    *)
(* Evaluate moves the four alarm states of one node.                        *)
(*                                                                         *)
(* A node record keeps the fields of model.Node the alarms depend on:      *)
(*   created, lastSeen   server clock, 0 = never seen                       *)
(*   rules               the override, or NoRules for nil                   *)
(*   latest              the latest sample, or NoSample for nil             *)
(*   states              one AlarmState per kind; a missing map entry is    *)
(*                       the zero value Quiet                               *)
(*   trail               history variable: every sample folded into the    *)
(*                       record so far, oldest first (not in the code)      *)
(* Percentages are abstracted to a few levels that thresholds separate.    *)
(***************************************************************************)
EXTENDS Integers

CONSTANTS
    Sec,        \* clock units in a second (1000 in the code)
    NoRules,    \* a nil *Rules: the node follows the global rules
    NoSample,   \* a nil *Sample: nothing has been ingested yet
    NoCPU       \* a nil *float64: no CPU figure

ASSUME SecAssumption == Sec \in Nat \ {0}

Kind == {"offline", "cpu", "memory", "disk"}
Resource == Kind \ {"offline"}

Quiet == [since |-> 0, active |-> FALSE, threshold |-> 0, hold |-> 0]

(***************************************************************************)
(* Effective: the override replaces the global rules as a whole, and the   *)
(* offline limit never falls below three missed reports and 3 seconds.      *)
(***************************************************************************)
OfflineFloor(r) == r.interval * 3 + 3

Effective(global, override) ==
    LET r == IF override = NoRules THEN global ELSE override
    IN  [r EXCEPT !.offline =
            IF r.offline < OfflineFloor(r) THEN OfflineFloor(r) ELSE r.offline]

(***************************************************************************)
(* Derive: memory and disk come from the snapshot alone; CPU needs an      *)
(* earlier snapshot of the same boot. Counters that do not add up (and an   *)
(* uptime that went back) are the snapshots whose own figure is NoCPU.      *)
(***************************************************************************)
Derive(previous, snap) ==
    IF \/ previous = NoSample
       \/ snap.time <= previous.time
       \/ snap.boot # previous.boot
    THEN [snap.usage EXCEPT !.cpu = NoCPU]
    ELSE snap.usage

-----------------------------------------------------------------------------
(* Evaluate, in parts. *)

LastHeard(n) == IF n.lastSeen = 0 THEN n.created ELSE n.lastSeen

Offline(n, r, now) == now - LastHeard(n) > r.offline * Sec

\* The conditions Evaluate builds: resources only for a node that is online
\* and has reported, CPU only when the latest sample has a figure.
Judged(n, r, now) ==
    {"offline"} \cup
    IF Offline(n, r, now) \/ n.latest = NoSample THEN {}
    ELSE {"memory", "disk"}
         \cup (IF n.latest.metrics.cpu = NoCPU THEN {} ELSE {"cpu"})

Threshold(k, r) == IF k = "offline" THEN 0 ELSE r[k]

Hold(k, r) == IF k \in {"cpu", "memory"} THEN r.hold ELSE 0

Above(k, metrics, r) == metrics[k] # NoCPU /\ metrics[k] > r[k]

Over(k, n, r, now) ==
    IF k = "offline" THEN Offline(n, r, now) ELSE Above(k, n.latest.metrics, r)

\* Seeded fault: a resource is measured against the wall clock, so that an
\* old sample satisfies the hold time by just waiting.
ObservedByClock(k, n, now) == now

\* The instant up to which the condition is known to have lasted.
Observed(k, n, now) == IF k = "offline" THEN now ELSE n.lastSeen

\* Seeded fault: starting over also withdraws an alarm already raised.
RestartRaised(s) == [s EXCEPT !.since = 0, !.active = FALSE]

\* Seeded fault: "not pending" is an instant before every clock reading.
RestartBeforeTime(s) == IF s.active THEN s ELSE [s EXCEPT !.since = -1]

\* A condition that is pending (not yet raised) starts over.
Restart(s) == IF s.active THEN s ELSE [s EXCEPT !.since = 0]

\* One condition. A raised alarm keeps its state until the condition ends;
\* a pending one starts over when its threshold or hold time changed.
Judge(s, over, threshold, hold, observed, now) ==
    LET changed == ~s.active /\ (s.threshold # threshold \/ s.hold # hold)
        start   == IF changed THEN 0 ELSE s.since
        since   == IF over /\ start = 0 THEN now ELSE start
    IN  [since     |-> IF over THEN since ELSE 0,
         active    |-> over /\ \/ s.active
                               \/ hold = 0
                               \/ observed - since >= hold * Sec,
         threshold |-> threshold,
         hold      |-> hold]

\* A kind without a condition: offline and unknown CPU interrupt a pending
\* alarm; a node that never reported has nothing to interrupt.
Unjudged(s, n, r, now) ==
    IF Offline(n, r, now) \/ n.latest # NoSample THEN Restart(s) ELSE s

Evaluate(n, r, now) ==
    [n EXCEPT !.states = [k \in Kind |->
        IF k \in Judged(n, r, now)
        THEN Judge(n.states[k], Over(k, n, r, now), Threshold(k, r),
                   Hold(k, r), Observed(k, n, now), now)
        ELSE Unjudged(n.states[k], n, r, now)]]

\* The events Evaluate returns: the kinds whose alarm was raised or cleared.
Changed(old, new) ==
    {k \in Kind : new.states[k].active # old.states[k].active}
=============================================================================
