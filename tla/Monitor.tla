------------------------------ MODULE Monitor ------------------------------
(***************************************************************************)
(* The alarm core of the server (internal/server/server.go over            *)
(* internal/store): samples come in, the ticker re-evaluates every node,   *)
(* an administrator edits rules, old alerts are pruned, the process crashes *)
(* and restarts, and each database write may fail.                          *)
(*                                                                         *)
(* Every handler runs under Server.mu, so a handler is one action. It      *)
(* works on a copy of the in-memory record, writes that copy and the       *)
(* alerts of the evaluation in one transaction (Store.Record), and only    *)
(* then replaces the in-memory record. What can still go wrong is how the  *)
(* memory and the tables drift apart, which Outcomes controls:              *)
(*   "ok"     the transaction commits and the handler sees it              *)
(*   "error"  it does not commit and the handler sees an error             *)
(*   "lost"   it commits but the handler sees an error (the connection to  *)
(*            a remote PostgreSQL breaks while COMMIT is answered)         *)
(***************************************************************************)
EXTENDS Alarms, FiniteSets, Sequences

CONSTANTS
    Node,           \* the registered nodes
    Healthy,        \* the nodes whose writes are assumed to commit at times
    RuleSet,        \* the rules an administrator may set
    DefaultRules,   \* the rules of a fresh database
    Usage,          \* the readings [cpu, memory, disk] a snapshot may carry
    Boot,           \* boot times a node may report
    Skew,           \* how far an agent's clock is from the server's
    Outcomes,       \* what a write to the database may do
    Retention,      \* how long alerts are kept
    ClockStep,      \* how far the clock moves between two steps
    MaxClock,       \* bound: the clock stops here
    MaxSamples,     \* bound: samples folded into one node's record
    MaxEdits,       \* bound: administrative edits
    MaxCrashes,     \* bound: crashes of the server process
    MaxLost         \* bound: commits whose answer is lost

Metrics == [cpu : Nat \cup {NoCPU}, memory : Nat, disk : Nat]
Sample == [time : Int, boot : Boot, metrics : Metrics]

ASSUME MonitorAssumption ==
    /\ IsFiniteSet(Node) /\ Healthy \subseteq Node
    /\ RuleSet \subseteq [cpu : Nat, memory : Nat, disk : Nat, hold : Nat,
                          offline : Nat \ {0}, interval : Nat \ {0}]
    /\ NoRules \notin RuleSet
    /\ DefaultRules \in RuleSet
    /\ Usage \subseteq Metrics
    /\ NoCPU \notin Nat
    /\ NoSample \notin Sample
    /\ Skew \subseteq Int
    /\ Outcomes \subseteq {"ok", "error", "lost"}
    /\ Retention \in Nat
    /\ ClockStep \subseteq Nat
    /\ MaxClock \in Nat \ {0} /\ MaxSamples \in Nat
    /\ MaxEdits \in Nat /\ MaxCrashes \in Nat /\ MaxLost \in Nat

VARIABLES
    clock,      \* Server.Now
    up,         \* the server process is running
    nodes,      \* Server.nodes
    rules,      \* Server.settings.Rules
    db,         \* table nodes
    dbRules,    \* table settings
    alerts,     \* table alerts
    stamp,      \* order of the transactions that wrote alerts (the alert ids)
    acked,      \* history: server time of the last sample answered with 200
    edits,      \* bound counter: administrative edits made
    crashes,    \* bound counter: crashes so far
    losses      \* bound counter: lost answers so far

memory == <<nodes, rules>>
tables == <<db, dbRules, alerts, stamp>>
bounds == <<edits, crashes, losses>>
vars == <<clock, up, memory, tables, acked, bounds>>

Fresh == [created |-> 1, lastSeen |-> 0, rules |-> NoRules,
          latest |-> NoSample, states |-> [k \in Kind |-> Quiet],
          trail |-> <<>>]

Init ==
    /\ clock = 1 /\ up = TRUE
    /\ nodes = [n \in Node |-> Fresh] /\ rules = DefaultRules
    /\ db = nodes /\ dbRules = rules
    /\ alerts = {} /\ stamp = 0
    /\ acked = [n \in Node |-> 0]
    /\ edits = 0 /\ crashes = 0 /\ losses = 0

-----------------------------------------------------------------------------
(* Store.Record: the node row and one alert row per event, or nothing. *)

Rows(changes) ==
    {[id |-> stamp, node |-> c[1], kind |-> c[2], active |-> c[3],
      time |-> clock] : c \in changes}

\* The events of one evaluation of node n, which becomes record new.
EventsOf(n, new) ==
    {<<n, k, new.states[k].active>> : k \in Changed(nodes[n], new)}

\* The tables after the records in new (a function on some nodes) commit.
Commit(new) ==
    LET events == UNION {EventsOf(n, new[n]) : n \in DOMAIN new}
    IN  /\ db' = [n \in Node |-> IF n \in DOMAIN new THEN new[n] ELSE db[n]]
        /\ alerts' = alerts \cup Rows(events)
        /\ stamp' = IF events = {} THEN stamp ELSE stamp + 1

Recorded(outcome, new) ==
    IF outcome = "error" THEN UNCHANGED <<db, alerts, stamp>> ELSE Commit(new)

Counted(outcome) ==
    IF outcome = "lost"
    THEN losses < MaxLost /\ losses' = losses + 1
    ELSE UNCHANGED losses

\* Seeded fault: the in-memory record is replaced before Record is known to
\* have succeeded.
AdoptedAlways(outcome, n, record) == nodes' = [nodes EXCEPT ![n] = record]

\* The in-memory record is replaced only when Record returned no error.
Adopted(outcome, n, record) ==
    nodes' = IF outcome = "ok" THEN [nodes EXCEPT ![n] = record] ELSE nodes

-----------------------------------------------------------------------------
(* POST /api/ingest *)

\* Seeded fault: only a reboot interrupts a pending alarm, silence does not.
InterruptedByReboot(n, snap, r, now) ==
    n.latest # NoSample /\ snap.boot # n.latest.boot

\* The samples before this one say nothing about the time in between.
Interrupted(n, snap, r, now) ==
    \/ now - n.lastSeen > r.offline * Sec
    \/ n.latest # NoSample /\ snap.boot # n.latest.boot

\* Refused with 409: the sample is not newer than the latest of this boot.
Stale(n, snap) ==
    /\ n.latest # NoSample
    /\ snap.time <= n.latest.time
    /\ snap.boot = n.latest.boot

\* The record with the sample folded in, before it is evaluated.
Folded(n, snap, r, now) ==
    LET metrics == Derive(n.latest, snap)
    IN  [n EXCEPT
          !.latest   = [time |-> snap.time, boot |-> snap.boot,
                        metrics |-> metrics],
          !.lastSeen = now,
          !.states   = IF Interrupted(n, snap, r, now)
                       THEN [k \in Kind |-> Restart(n.states[k])]
                       ELSE n.states,
          !.trail    = Append(n.trail,
                        [time |-> now, boot |-> snap.boot,
                         metrics |-> metrics, window |-> r.offline * Sec])]

\* Seeded fault: the agent is answered 200 although the write failed.
AnsweredAlways(outcome, n) == acked' = [acked EXCEPT ![n] = clock]

\* 200 once the sample is durable and in memory, 503 otherwise.
Answered(outcome, n) ==
    acked' = IF outcome = "ok" THEN [acked EXCEPT ![n] = clock] ELSE acked

Ingested(n, snap) ==
    LET r == Effective(rules, nodes[n].rules)
    IN  Evaluate(Folded(nodes[n], snap, r, clock), r, clock)

Ingest(n, snap, outcome) ==
    /\ up
    /\ Len(nodes[n].trail) < MaxSamples
    /\ ~Stale(nodes[n], snap)
    /\ Recorded(outcome, [m \in {n} |-> Ingested(n, snap)])
    /\ Adopted(outcome, n, Ingested(n, snap))
    /\ Answered(outcome, n)
    /\ Counted(outcome)
    /\ UNCHANGED <<clock, up, rules, dbRules, edits, crashes>>

\* What an agent can send now.
Snapshot == [time : {clock + s : s \in Skew}, boot : Boot, usage : Usage]

-----------------------------------------------------------------------------
(* Server.Tick: every node in the random order of a Go map, one transaction *)
(* per node that has events; the first failing transaction ends the pass.   *)

Reevaluated(n) == Evaluate(nodes[n], Effective(rules, nodes[n].rules), clock)

\* Seeded fault: the pass replaces the in-memory records before it writes
\* them, so a failing pass has changed them all.
PassAdoptingAll(done, written) ==
    /\ up
    /\ Commit([n \in written |-> Reevaluated(n)])
    /\ nodes' = [n \in Node |-> Reevaluated(n)]
    /\ UNCHANGED <<clock, up, rules, dbRules, acked, edits, crashes>>

\* The pass went through the nodes in done; the nodes in written committed.
Pass(done, written) ==
    /\ up
    /\ Commit([n \in written |-> Reevaluated(n)])
    /\ nodes' = [n \in Node |-> IF n \in done THEN Reevaluated(n) ELSE nodes[n]]
    /\ UNCHANGED <<clock, up, rules, dbRules, acked, edits, crashes>>

Eventful(ns) == {n \in ns : EventsOf(n, Reevaluated(n)) # {}}

Tick == Pass(Node, Eventful(Node)) /\ UNCHANGED losses

\* The transaction of node n fails after the nodes in done were handled.
TickFails(done, n, outcome) ==
    /\ outcome # "ok"
    /\ n \in Eventful(Node \ done)
    /\ Pass(done, Eventful(done) \cup (IF outcome = "lost" THEN {n} ELSE {}))
    /\ Counted(outcome)

-----------------------------------------------------------------------------
(* Administration, retention, restarts, time. *)

\* PUT /api/nodes/{id}: SaveNode writes the whole in-memory record.
Edited(n, override) == [nodes[n] EXCEPT !.rules = override]

UpdateNode(n, override, outcome) ==
    /\ up
    /\ edits < MaxEdits
    /\ Recorded(outcome, [m \in {n} |-> Edited(n, override)])
    /\ Adopted(outcome, n, Edited(n, override))
    /\ edits' = edits + 1
    /\ Counted(outcome)
    /\ UNCHANGED <<clock, up, rules, dbRules, acked, crashes>>

\* PUT /api/settings, the global rules.
PutSettings(r, outcome) ==
    /\ up
    /\ edits < MaxEdits
    /\ dbRules' = IF outcome = "error" THEN dbRules ELSE r
    /\ rules' = IF outcome = "ok" THEN r ELSE rules
    /\ edits' = edits + 1
    /\ Counted(outcome)
    /\ UNCHANGED <<clock, up, nodes, db, alerts, stamp, acked, crashes>>

\* The hourly Prune, as far as alerts are concerned.
Prune ==
    /\ up
    /\ alerts' = {a \in alerts : a.time >= clock - Retention}
    /\ UNCHANGED <<clock, up, memory, db, dbRules, stamp, acked, bounds>>

\* The process ends: its memory is gone, the tables stay.
Crash ==
    /\ up
    /\ crashes < MaxCrashes
    /\ up' = FALSE
    /\ crashes' = crashes + 1
    /\ UNCHANGED <<clock, memory, tables, acked, edits, losses>>

\* server.New loads settings and nodes.
Start ==
    /\ ~up
    /\ up' = TRUE
    /\ nodes' = db /\ rules' = dbRules
    /\ UNCHANGED <<clock, tables, acked, bounds>>

Advance(d) ==
    /\ clock + d <= MaxClock
    /\ clock' = clock + d
    /\ UNCHANGED <<up, memory, tables, acked, bounds>>

Next ==
    \/ \E n \in Node, snap \in Snapshot, o \in Outcomes : Ingest(n, snap, o)
    \/ Tick
    \/ \E done \in SUBSET Node, n \in Node, o \in Outcomes :
          TickFails(done, n, o)
    \/ \E n \in Node, r \in RuleSet \cup {NoRules}, o \in Outcomes :
          UpdateNode(n, r, o)
    \/ \E r \in RuleSet, o \in Outcomes : PutSettings(r, o)
    \/ Prune
    \/ Crash
    \/ Start
    \/ \E d \in ClockStep : Advance(d)

Spec == Init /\ [][Next]_vars

\* A pass that goes through node n before any transaction fails.
Reaches(n) ==
    \/ Tick
    \/ \E done \in SUBSET Node, m \in Node, o \in Outcomes :
          n \in done /\ TickFails(done, m, o)

\* main restarts the ticker every second and systemd restarts the process. A
\* transaction that fails ends the pass, even if it fails for ever, but the
\* order of the nodes is drawn anew for every pass: a node whose own writes
\* commit is reached again and again.
Fairness == WF_vars(Start) /\ \A n \in Healthy : WF_vars(Reaches(n))

FairSpec == Spec /\ Fairness

-----------------------------------------------------------------------------
(* Properties *)

Rules == [cpu : Nat, memory : Nat, disk : Nat, hold : Nat,
          offline : Nat \ {0}, interval : Nat \ {0}]
AlarmState == [since : Nat, active : BOOLEAN, threshold : Nat, hold : Nat]
Sampled == [time : Nat, boot : Boot, metrics : Metrics, window : Nat]
NodeRecord ==
    [created : Nat, lastSeen : Nat, rules : Rules \cup {NoRules},
     latest : Sample \cup {NoSample},
     states : [Kind -> AlarmState], trail : Seq(Sampled)]
Alert == [id : Nat, node : Node, kind : Kind, active : BOOLEAN, time : Nat]

\* Every variable stays in the domain of its Go counterpart.
TypeOK ==
    /\ clock \in Nat /\ up \in BOOLEAN
    /\ nodes \in [Node -> NodeRecord] /\ db \in [Node -> NodeRecord]
    /\ rules \in Rules /\ dbRules \in Rules
    /\ alerts \in SUBSET Alert /\ stamp \in Nat
    /\ acked \in [Node -> Nat]
    /\ edits \in Nat /\ crashes \in Nat /\ losses \in Nat

\* Samples i to the last of record n are all above the threshold its state of
\* kind k was judged by and span its hold time.
Sustained(n, k, i) ==
    LET t == n.trail  s == n.states[k]
    IN  /\ \A j \in i..Len(t) :
              t[j].metrics[k] # NoCPU /\ t[j].metrics[k] > s.threshold
        /\ t[Len(t)].time - t[i].time >= s.hold * Sec

\* No two neighbours among samples i to the last are further apart than the
\* node's offline limit or belong to different boots.
Unbroken(n, i) ==
    LET t == n.trail
    IN  \A j \in i..(Len(t) - 1) :
            /\ t[j + 1].time - t[j].time <= t[j + 1].window
            /\ t[j + 1].boot = t[j].boot

\* This step commits an alert that alarm k of node n was raised or cleared.
Alerts(n, k, active) ==
    \E a \in alerts' \ alerts : a.node = n /\ a.kind = k /\ a.active = active

\* Every alert that says a CPU or memory alarm was raised, by an ingest or by
\* the ticker, rests on samples that exceed the threshold and span the hold
\* time: no alarm is raised because an old sample was left to age
\* (README.md:177). These samples are one unbroken observation: neither a
\* reboot nor a silence beyond the offline limit lies among them, whether or
\* not a tick noticed the silence and however rules were edited meanwhile.
HoldUnbroken ==
    [][\A n \in Node, k \in {"cpu", "memory"} :
        Alerts(n, k, TRUE) =>
            \E i \in 1..Len(db'[n].trail) :
                Sustained(db'[n], k, i) /\ Unbroken(db'[n], i)]_vars

\* An alert that an alarm was cleared rests on evidence: a resource alarm by a
\* known figure at or below the threshold of a node that is not offline, an
\* offline alarm by a node heard of within its limit. Going offline, an unknown CPU
\* figure, a reboot or a restart never clears an alarm, and a rule edit only
\* by what the last sample says of the new threshold or limit.
ClearedByEvidence ==
    [][\A n \in Node, k \in Kind :
        Alerts(n, k, FALSE) =>
            LET t == db'[n].trail[Len(db'[n].trail)]
            IN  IF k = "offline"
                THEN ~Offline(db'[n], Effective(rules, nodes[n].rules), clock)
                ELSE /\ ~db'[n].states["offline"].active
                     /\ t.metrics[k] # NoCPU
                     /\ t.metrics[k] <= db'[n].states[k].threshold]_vars

\* Alarm state m of the memory against d of the table: a raised alarm is
\* raised in both, since the same instant; its threshold and hold may differ,
\* for a tick without events takes over those of edited rules in memory only.
\* A pending alarm is never older in memory than it is in the table.
StatesAgree(m, d) ==
    /\ m.active = d.active
    /\ m.active => m.since = d.since
    /\ ~m.active /\ m.since # 0 => d.since <= m.since

\* What a pass of the ticker over record n would report under the rules r.
Verdict(n, r) == Changed(n, Evaluate(n, Effective(r, n.rules), clock))

\* While the server runs, the memory it answers from agrees with the tables a
\* restart would load: on the rules and on all of a node's record but its
\* alarm states, which agree as far as StatesAgree says, and far enough for a
\* pass to raise and clear the same alarms from either. (An ingest after a
\* restart may raise a pending alarm sooner than without the restart: what an
\* edit back and forth began anew in memory is still pending in the table.)
MemoryAgrees ==
    up => /\ rules = dbRules
          /\ \A n \in Node :
                /\ [nodes[n] EXCEPT !.states = db[n].states] = db[n]
                /\ \A k \in Kind :
                      StatesAgree(nodes[n].states[k], db[n].states[k])
                /\ Verdict(nodes[n], rules) = Verdict(db[n], dbRules)

\* A sample answered with 200 survives everything: it, or a later one, is in
\* the tables, and in the memory of a running server.
AckDurable ==
    \A n \in Node : /\ acked[n] <= db[n].lastSeen
                    /\ up => acked[n] <= nodes[n].lastSeen

\* The alert log promises what AlertLog says.
RaisedAlarms ==
    {a \in Node \X Kind : db[a[1]].states[a[2]].active}

Log == INSTANCE AlertLog
    WITH Time <- 0..MaxClock, raised <- RaisedAlarms, log <- alerts

AlertLogImplemented == Log!Spec

NewestAlertAgrees == Log!NewestEntryAgrees

\* A node that stays silent beyond its limit gets its offline alarm in the
\* tables, unless it reports again or its limit is raised: restarts, passes cut
\* short by other nodes' writes, even for ever, and edits only delay it.
SilenceIsRaised ==
    \A n \in Healthy :
        Offline(db[n], Effective(dbRules, db[n].rules), clock)
            ~> \/ db[n].states["offline"].active
               \/ ~Offline(db[n], Effective(dbRules, db[n].rules), clock)
=============================================================================
