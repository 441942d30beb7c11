----------------------------- MODULE MCMonitor -----------------------------
(* Small instances of Monitor for TLC. One clock unit is one second. *)
EXTENDS Queries

Rule(cpu, hold, offline) ==
    [cpu |-> cpu, memory |-> 3, disk |-> 3,
     hold |-> hold, offline |-> offline, interval |-> 1]

\* Loose raises on readings of 4 that last 4 seconds, Strict on readings of 2
\* that last 2, after an offline limit of 6 seconds (the floor) for both.
Loose == Rule(3, 4, 5)
Strict == Rule(1, 2, 5)
HoldRules == {Loose, Strict}

\* Calm and Tense raise the memory alarm on readings of 4 that last 4 or 2
\* seconds, the disk alarm at once, the offline alarm after 8 or 15 seconds.
Calm == Rule(3, 4, 8)
Tense == [Rule(3, 2, 15) EXCEPT !.memory = 1, !.disk = 2]
FleetRules == {Calm, Tense}

Reading(c, m, d) == [cpu |-> c, memory |-> m, disk |-> d]
KnownUsage == {Reading(2, 2, 2), Reading(4, 2, 2)}
FullUsage == {Reading(2, 4, 4)}

\* The history of every table of up to four samples, for every window and
\* limit, is a faithful digest.
Instant == 0..3
Tables ==
    UNION {[ts -> [cpu : {1, 2, NoCPU}, disk : {1, 2}]] : ts \in SUBSET Instant}
Windows == {q \in [from : Instant, to : 1..4, limit : 1..4] : q.from < q.to}

ASSUME HistoryFaithful == \A rows \in Tables, q \in Windows : Digest(rows, q)
=============================================================================
