--------------------------- MODULE MonitorProofs ---------------------------
(***************************************************************************)
(* Theorems about Monitor, for any nodes, rules, readings and bounds, about*)
(* the AlertLog it implements, and about the Queries on its tables: a history*)
(* query keeps its limit and places each sample near its point, whatever rows*)
(* it meets; the list of active alarms is exact, however many alerts there *)
(* are and wherever the list is cut off.                                   *)
(***************************************************************************)
EXTENDS Queries, FiniteSetTheorems, NaturalsInduction, TLAPS

-----------------------------------------------------------------------------
(* The operators of Alarms keep records well typed. *)

LEMMA EffectiveRules ==
    ASSUME NEW g \in Rules, NEW o \in Rules \cup {NoRules}
    PROVE  /\ Effective(g, o) \in Rules
           /\ Effective(g, o).offline >= OfflineFloor(Effective(g, o))
<1> DEFINE r == IF o = NoRules THEN g ELSE o
           limit == IF r.offline < OfflineFloor(r) THEN OfflineFloor(r)
                    ELSE r.offline
<1>1. r \in Rules
  OBVIOUS
<1>2. OfflineFloor(r) \in Nat \ {0} /\ r.offline \in Nat \ {0}
  BY <1>1 DEF Rules, OfflineFloor
<1>3. limit \in Nat \ {0} /\ limit >= OfflineFloor(r)
  BY <1>2
<1>4. Effective(g, o) = [r EXCEPT !.offline = limit]
  BY DEF Effective
<1>5. [r EXCEPT !.offline = limit] \in Rules
  BY <1>1, <1>3 DEF Rules
<1>6. Effective(g, o).offline = limit /\ Effective(g, o).interval = r.interval
  BY <1>1, <1>4 DEF Rules
<1>7. OfflineFloor(Effective(g, o)) = OfflineFloor(r)
  BY <1>6 DEF OfflineFloor
<1> QED  BY <1>3, <1>4, <1>5, <1>6, <1>7

LEMMA RestartState ==
    ASSUME NEW s \in AlarmState
    PROVE  Restart(s) \in AlarmState /\ Restart(s).active = s.active
  BY DEF Restart, AlarmState

LEMMA JudgeState ==
    ASSUME NEW s \in AlarmState, NEW over \in BOOLEAN, NEW threshold \in Nat,
           NEW hold \in Nat, NEW observed \in Int, NEW now \in Nat
    PROVE  Judge(s, over, threshold, hold, observed, now) \in AlarmState
<1> DEFINE changed == ~s.active /\ (s.threshold # threshold \/ s.hold # hold)
           start   == IF changed THEN 0 ELSE s.since
           since   == IF over /\ start = 0 THEN now ELSE start
           active  == over /\ \/ s.active
                              \/ hold = 0
                              \/ observed - since >= hold * Sec
<1>1. since \in Nat
  BY DEF AlarmState
<1>2. active \in BOOLEAN
  OBVIOUS
<1> HIDE DEF since, active
<1>3. [since |-> IF over THEN since ELSE 0, active |-> active,
       threshold |-> threshold, hold |-> hold] \in AlarmState
  BY <1>1, <1>2 DEF AlarmState
<1> QED  BY <1>3 DEF Judge, since, active

\* Evaluate changes nothing but the alarm states.
LEMMA EvaluateRecord ==
    ASSUME NEW n \in NodeRecord, NEW r \in Rules, NEW now \in Nat
    PROVE  /\ Evaluate(n, r, now) \in NodeRecord
           /\ [Evaluate(n, r, now) EXCEPT !.states = n.states] = n
           /\ Evaluate(n, r, now).lastSeen = n.lastSeen
<1> DEFINE state(k) ==
        IF k \in Judged(n, r, now)
        THEN Judge(n.states[k], Over(k, n, r, now), Threshold(k, r),
                   Hold(k, r), Observed(k, n, now), now)
        ELSE Unjudged(n.states[k], n, r, now)
<1>1. ASSUME NEW k \in Kind PROVE state(k) \in AlarmState
  <2>1. n.states[k] \in AlarmState
    BY DEF NodeRecord
  <2>2. Threshold(k, r) \in Nat /\ Hold(k, r) \in Nat
    BY DEF Threshold, Hold, Kind, Rules
  <2>3. Over(k, n, r, now) \in BOOLEAN
    <3>1. CASE k = "offline"
      <4>1. Over(k, n, r, now) = Offline(n, r, now)
        BY <3>1 DEF Over
      <4> QED  BY <4>1 DEF Offline
    <3>2. CASE k # "offline"
      <4>1. Over(k, n, r, now) = Above(k, n.latest.metrics, r)
        BY <3>2 DEF Over
      <4> QED  BY <4>1 DEF Above
    <3> QED  BY <3>1, <3>2
  <2>4. Observed(k, n, now) \in Int
    BY DEF Observed, NodeRecord
  <2>5. Unjudged(n.states[k], n, r, now) \in AlarmState
    BY <2>1, RestartState DEF Unjudged
  <2> QED  BY <2>1, <2>2, <2>3, <2>4, <2>5, JudgeState
<1> DEFINE states == [k \in Kind |-> state(k)]
<1>2. states \in [Kind -> AlarmState]
  BY <1>1
<1>3. Evaluate(n, r, now) = [n EXCEPT !.states = states]
  BY DEF Evaluate
<1> HIDE DEF states
<1> QED  BY <1>2, <1>3 DEF NodeRecord

LEMMA FoldedRecord ==
    ASSUME NEW n \in NodeRecord, NEW r \in Rules, NEW now \in Nat,
           NEW snap \in [time : Int, boot : Boot, usage : Usage]
    PROVE  /\ Folded(n, snap, r, now) \in NodeRecord
           /\ Folded(n, snap, r, now).lastSeen = now
           /\ Folded(n, snap, r, now).rules = n.rules
           /\ \A k \in Kind : Folded(n, snap, r, now).states[k].active
                              = n.states[k].active
<1> DEFINE metrics == Derive(n.latest, snap)
           latest == [time |-> snap.time, boot |-> snap.boot,
                      metrics |-> metrics]
           states == IF Interrupted(n, snap, r, now)
                     THEN [k \in Kind |-> Restart(n.states[k])]
                     ELSE n.states
           sampled == [time |-> now, boot |-> snap.boot, metrics |-> metrics,
                       window |-> r.offline * Sec]
           trail == Append(n.trail, sampled)
<1>1. metrics \in Metrics
  <2>1. snap.usage \in Metrics
    BY MonitorAssumption DEF Metrics
  <2>2. [snap.usage EXCEPT !.cpu = NoCPU] \in Metrics
    BY <2>1 DEF Metrics
  <2> QED  BY <2>1, <2>2 DEF Derive
<1>2. latest \in Sample
  BY <1>1 DEF Sample
<1>3. states \in [Kind -> AlarmState]
      /\ \A k \in Kind : states[k].active = n.states[k].active
  <2>1. n.states \in [Kind -> AlarmState]
    BY DEF NodeRecord
  <2> QED  BY <2>1, RestartState
<1>4. trail \in Seq(Sampled)
  <2>1. r.offline * Sec \in Nat
    BY SecAssumption DEF Rules
  <2>2. sampled \in Sampled
    BY <1>1, <2>1 DEF Sampled
  <2> QED  BY <2>2 DEF NodeRecord
<1>5. Folded(n, snap, r, now) =
        [n EXCEPT !.latest = latest, !.lastSeen = now,
                  !.states = states, !.trail = trail]
  BY DEF Folded
<1> HIDE DEF latest, states, trail
<1> QED  BY <1>2, <1>3, <1>4, <1>5 DEF NodeRecord

-----------------------------------------------------------------------------
(* What the handlers write. *)

LEMMA IngestedRecord ==
    ASSUME TypeOK,
           NEW n \in Node, NEW snap \in Snapshot
    PROVE  /\ Ingested(n, snap) \in NodeRecord
           /\ Ingested(n, snap).lastSeen = clock
<1> DEFINE r == Effective(rules, nodes[n].rules)
           f == Folded(nodes[n], snap, r, clock)
<1>1. nodes[n] \in NodeRecord /\ rules \in Rules /\ clock \in Nat
  BY DEF TypeOK
<1>2. r \in Rules
  <2>1. nodes[n].rules \in Rules \cup {NoRules}
    BY <1>1 DEF NodeRecord
  <2> QED  BY <1>1, <2>1, EffectiveRules
<1>3. snap \in [time : Int, boot : Boot, usage : Usage]
  <2>1. {clock + s : s \in Skew} \subseteq Int
    BY <1>1, MonitorAssumption
  <2> QED  BY <2>1 DEF Snapshot
<1>4. f \in NodeRecord /\ f.lastSeen = clock
  BY <1>1, <1>2, <1>3, FoldedRecord
<1>5. Ingested(n, snap) = Evaluate(f, r, clock)
  BY DEF Ingested
<1> HIDE DEF r, f
<1> QED  BY <1>1, <1>2, <1>4, <1>5, EvaluateRecord

LEMMA ReevaluatedRecord ==
    ASSUME TypeOK, NEW n \in Node
    PROVE  /\ Reevaluated(n) \in NodeRecord
           /\ Reevaluated(n).lastSeen = nodes[n].lastSeen
           /\ [Reevaluated(n) EXCEPT !.states = nodes[n].states] = nodes[n]
<1>1. nodes[n] \in NodeRecord /\ rules \in Rules /\ clock \in Nat
  BY DEF TypeOK
<1>2. Effective(rules, nodes[n].rules) \in Rules
  <2>1. nodes[n].rules \in Rules \cup {NoRules}
    BY <1>1 DEF NodeRecord
  <2> QED  BY <1>1, <2>1, EffectiveRules
<1> QED  BY <1>1, <1>2, EvaluateRecord DEF Reevaluated

LEMMA EditedRecord ==
    ASSUME TypeOK,
           NEW n \in Node, NEW o \in RuleSet \cup {NoRules}
    PROVE  /\ Edited(n, o) \in NodeRecord
           /\ Edited(n, o).lastSeen = nodes[n].lastSeen
           /\ Edited(n, o).states = nodes[n].states
<1>1. nodes[n] \in NodeRecord
  BY DEF TypeOK
<1>2. o \in Rules \cup {NoRules}
  BY MonitorAssumption DEF Rules
<1> QED  BY <1>1, <1>2 DEF Edited, NodeRecord

\* The rows of a transaction carry its id and its time.
LEMMA CommittedRows ==
    ASSUME TypeOK, NEW STATE new, DOMAIN new \subseteq Node,
           \A n \in DOMAIN new : new[n] \in NodeRecord, Commit(new)
    PROVE  /\ db' \in [Node -> NodeRecord]
           /\ \A n \in Node :
                db'[n] = IF n \in DOMAIN new THEN new[n] ELSE db[n]
           /\ alerts' \in SUBSET Alert /\ stamp' \in Nat
           /\ \A a \in alerts' : a \in alerts \/ (a.id = stamp /\ a.time = clock)
           /\ stamp' = stamp => alerts' = alerts
           /\ stamp' = stamp \/ stamp' = stamp + 1
<1> DEFINE events == UNION {EventsOf(n, new[n]) : n \in DOMAIN new}
<1>1. /\ db' = [n \in Node |-> IF n \in DOMAIN new THEN new[n] ELSE db[n]]
      /\ alerts' = alerts \cup Rows(events)
      /\ stamp' = IF events = {} THEN stamp ELSE stamp + 1
  BY DEF Commit
<1>2. events \subseteq Node \X Kind \X BOOLEAN
  <2>1. ASSUME NEW n \in DOMAIN new, NEW k \in Kind
        PROVE  new[n].states[k].active \in BOOLEAN
    BY DEF NodeRecord, AlarmState
  <2>2. \A n \in DOMAIN new :
            EventsOf(n, new[n]) \subseteq Node \X Kind \X BOOLEAN
    BY <2>1 DEF EventsOf, Changed
  <2> QED  BY <2>2
<1>3. ASSUME NEW a \in Rows(events)
      PROVE  a \in Alert /\ a.id = stamp /\ a.time = clock
  <2>1. PICK c \in events :
            a = [id |-> stamp, node |-> c[1], kind |-> c[2],
                 active |-> c[3], time |-> clock]
    BY DEF Rows
  <2>2. c[1] \in Node /\ c[2] \in Kind /\ c[3] \in BOOLEAN
    BY <1>2
  <2> QED  BY <2>1, <2>2 DEF Alert, TypeOK
<1>4. events = {} => Rows(events) = {}
  BY DEF Rows
<1> HIDE DEF events
<1>5. stamp \in Nat /\ db \in [Node -> NodeRecord] /\ alerts \in SUBSET Alert
  BY DEF TypeOK
<1>6. stamp' = stamp => events = {}
  BY <1>1, <1>5
<1>7. db' \in [Node -> NodeRecord]
  BY <1>1, <1>5
<1>8. /\ alerts' \in SUBSET Alert
      /\ \A a \in alerts' : a \in alerts \/ (a.id = stamp /\ a.time = clock)
      /\ stamp' = stamp => alerts' = alerts
  BY <1>1, <1>3, <1>4, <1>5, <1>6
<1> QED  BY <1>1, <1>5, <1>7, <1>8

-----------------------------------------------------------------------------
(* Safety for every outcome of a write, lost answers included. *)

\* Ids and times of the retained alerts grow together.
Ordered ==
    /\ \A a \in alerts : a.id < stamp /\ a.time <= clock
    /\ \A a, b \in alerts : a.id <= b.id => a.time <= b.time

IInv ==
    /\ TypeOK
    /\ clock <= MaxClock
    /\ Ordered
    /\ AckDurable
    /\ \A n \in Node : acked[n] <= clock

\* What every step that writes records to the database preserves.
LEMMA CommitKeeps ==
    ASSUME IInv, NEW STATE new, DOMAIN new \subseteq Node,
           \A n \in DOMAIN new : /\ new[n] \in NodeRecord
                                 /\ acked[n] <= new[n].lastSeen,
           NEW CONSTANT outcome, Recorded(outcome, new), clock' = clock
    PROVE  /\ db' \in [Node -> NodeRecord]
           /\ alerts' \in SUBSET Alert /\ stamp' \in Nat
           /\ Ordered'
           /\ \A n \in Node : acked[n] <= db'[n].lastSeen
           /\ outcome # "error" => \A n \in DOMAIN new : db'[n] = new[n]
<1>1. /\ TypeOK /\ Ordered
      /\ \A n \in Node : acked[n] <= db[n].lastSeen
  BY DEF IInv, AckDurable
<1>2. CASE outcome = "error"
  <2>1. db' = db /\ alerts' = alerts /\ stamp' = stamp
    BY <1>2 DEF Recorded
  <2> QED  BY <1>1, <1>2, <2>1 DEF TypeOK, Ordered
<1>3. CASE outcome # "error"
  <2>1. Commit(new)
    BY <1>3 DEF Recorded
  <2>2. /\ db' \in [Node -> NodeRecord]
        /\ \A n \in Node :
             db'[n] = IF n \in DOMAIN new THEN new[n] ELSE db[n]
        /\ alerts' \in SUBSET Alert /\ stamp' \in Nat
        /\ \A a \in alerts' : a \in alerts \/ (a.id = stamp /\ a.time = clock)
        /\ stamp' = stamp => alerts' = alerts
        /\ stamp' = stamp \/ stamp' = stamp + 1
    BY <1>1, <2>1, CommittedRows
  <2>3. Ordered'
    <3>1. CASE stamp' = stamp
      BY <3>1, <2>2, <1>1 DEF Ordered
    <3>2. CASE stamp' = stamp + 1
      <4>1. /\ stamp \in Nat /\ clock \in Nat
            /\ \A a \in alerts : /\ a.id \in Nat /\ a.id < stamp
                                 /\ a.time \in Nat /\ a.time <= clock
        BY <1>1 DEF TypeOK, Alert, Ordered
      <4>2. \A a \in alerts' : a.id < stamp' /\ a.time <= clock'
        BY <4>1, <2>2, <3>2
      <4>3. ASSUME NEW a \in alerts', NEW b \in alerts', a.id <= b.id
            PROVE  a.time <= b.time
        <5>1. CASE a \in alerts /\ b \in alerts
          BY <5>1, <4>3, <1>1 DEF Ordered
        <5>2. CASE b \notin alerts
          <6>1. b.time = clock
            BY <5>2, <2>2
          <6>2. a.time \in Nat /\ a.time <= clock
            BY <4>1, <2>2
          <6> QED  BY <6>1, <6>2
        <5>3. CASE a \notin alerts /\ b \in alerts
          <6>1. a.id = stamp /\ b.id < stamp /\ b.id \in Nat
            BY <5>3, <2>2, <4>1
          <6> QED  BY <6>1, <4>1, <4>3
        <5> QED  BY <5>1, <5>2, <5>3
      <4> QED  BY <4>2, <4>3 DEF Ordered
    <3> QED  BY <3>1, <3>2, <2>2
  <2> QED  BY <2>2, <2>3, <1>1
<1> QED  BY <1>2, <1>3

LEMMA InitIInv == Init => IInv
<1> SUFFICES ASSUME Init PROVE IInv
  OBVIOUS
<1>1. Fresh \in NodeRecord /\ Fresh.lastSeen = 0
  <2>1. Quiet \in AlarmState
    BY DEF Quiet, AlarmState
  <2>2. [k \in Kind |-> Quiet] \in [Kind -> AlarmState]
    BY <2>1
  <2>3. <<>> \in Seq(Sampled)
    OBVIOUS
  <2> QED  BY <2>2, <2>3 DEF Fresh, NodeRecord
<1>2. DefaultRules \in Rules
  BY MonitorAssumption DEF Rules
<1>3. TypeOK
  BY <1>1, <1>2 DEF Init, TypeOK
<1>4. clock <= MaxClock
  BY MonitorAssumption DEF Init
<1>5. Ordered
  BY DEF Init, Ordered
<1>6. AckDurable /\ \A n \in Node : acked[n] <= clock
  BY <1>1 DEF Init, AckDurable
<1> QED  BY <1>3, <1>4, <1>5, <1>6 DEF IInv

LEMMA IngestIInv ==
    ASSUME IInv, NEW n \in Node, NEW snap \in Snapshot,
           NEW o \in Outcomes, Ingest(n, snap, o)
    PROVE  IInv'
<1> DEFINE new == [m \in {n} |-> Ingested(n, snap)]
<1>1. /\ TypeOK /\ up /\ clock \in Nat
      /\ \A m \in Node : /\ acked[m] \in Nat /\ acked[m] <= clock
                         /\ acked[m] <= nodes[m].lastSeen
  BY DEF IInv, TypeOK, AckDurable, Ingest
<1>2. Ingested(n, snap) \in NodeRecord /\ Ingested(n, snap).lastSeen = clock
  BY <1>1, IngestedRecord
<1>3. /\ clock' = clock /\ up' = up /\ rules' = rules /\ dbRules' = dbRules
      /\ edits' = edits /\ crashes' = crashes
      /\ Recorded(o, new)
      /\ nodes' = IF o = "ok" THEN [nodes EXCEPT ![n] = Ingested(n, snap)]
                  ELSE nodes
      /\ acked' = IF o = "ok" THEN [acked EXCEPT ![n] = clock] ELSE acked
  BY DEF Ingest, Adopted, Answered
<1>4. losses' \in Nat
  BY <1>1 DEF Ingest, Counted, TypeOK
<1>5. /\ DOMAIN new = {n} /\ new[n] = Ingested(n, snap)
      /\ \A m \in DOMAIN new : /\ new[m] \in NodeRecord
                               /\ acked[m] <= new[m].lastSeen
  BY <1>1, <1>2
<1> HIDE DEF new
<1>6. /\ db' \in [Node -> NodeRecord]
      /\ alerts' \in SUBSET Alert /\ stamp' \in Nat
      /\ Ordered'
      /\ \A m \in Node : acked[m] <= db'[m].lastSeen
      /\ o # "error" => db'[n] = Ingested(n, snap)
  BY <1>3, <1>5, CommitKeeps
<1>7. TypeOK'
  BY <1>1, <1>2, <1>3, <1>4, <1>6 DEF TypeOK
<1>8. AckDurable' /\ \A m \in Node : acked'[m] <= clock'
  <2>1. CASE o = "ok"
    BY <2>1, <1>1, <1>2, <1>3, <1>6 DEF AckDurable, TypeOK
  <2>2. CASE o # "ok"
    BY <2>2, <1>1, <1>3, <1>6 DEF AckDurable
  <2> QED  BY <2>1, <2>2
<1> QED  BY <1>3, <1>6, <1>7, <1>8 DEF IInv

\* A pass of the ticker, complete or cut short.
LEMMA PassIInv ==
    ASSUME IInv, NEW done \in SUBSET Node, NEW written \in SUBSET Node,
           Pass(done, written), losses' \in Nat
    PROVE  IInv'
<1> DEFINE new == [n \in written |-> Reevaluated(n)]
<1>1. /\ TypeOK /\ up /\ clock \in Nat
      /\ \A m \in Node : /\ acked[m] \in Nat /\ acked[m] <= clock
                         /\ acked[m] <= nodes[m].lastSeen
  BY DEF IInv, TypeOK, AckDurable, Pass
<1>2. \A m \in Node : /\ Reevaluated(m) \in NodeRecord
                      /\ Reevaluated(m).lastSeen = nodes[m].lastSeen
  BY <1>1, ReevaluatedRecord
<1>3. /\ clock' = clock /\ up' = up /\ rules' = rules /\ dbRules' = dbRules
      /\ edits' = edits /\ crashes' = crashes /\ acked' = acked
      /\ Recorded("ok", new)
      /\ nodes' = [n \in Node |-> IF n \in done THEN Reevaluated(n)
                                  ELSE nodes[n]]
  BY DEF Pass, Recorded
<1>4. /\ DOMAIN new \subseteq Node
      /\ \A m \in DOMAIN new : /\ new[m] \in NodeRecord
                               /\ acked[m] <= new[m].lastSeen
  BY <1>1, <1>2
<1> HIDE DEF new
<1>5. /\ db' \in [Node -> NodeRecord]
      /\ alerts' \in SUBSET Alert /\ stamp' \in Nat
      /\ Ordered'
      /\ \A m \in Node : acked[m] <= db'[m].lastSeen
  BY <1>3, <1>4, CommitKeeps
<1>6. TypeOK'
  BY <1>1, <1>2, <1>3, <1>5 DEF TypeOK
<1>7. AckDurable' /\ \A m \in Node : acked'[m] <= clock'
  BY <1>1, <1>2, <1>3, <1>5 DEF AckDurable
<1> QED  BY <1>3, <1>5, <1>6, <1>7 DEF IInv

LEMMA UpdateNodeIInv ==
    ASSUME IInv, NEW n \in Node, NEW r \in RuleSet \cup {NoRules},
           NEW o \in Outcomes, UpdateNode(n, r, o)
    PROVE  IInv'
<1> DEFINE new == [m \in {n} |-> Edited(n, r)]
<1>1. /\ TypeOK /\ up /\ clock \in Nat
      /\ \A m \in Node : /\ acked[m] \in Nat /\ acked[m] <= clock
                         /\ acked[m] <= nodes[m].lastSeen
  BY DEF IInv, TypeOK, AckDurable, UpdateNode
<1>2. Edited(n, r) \in NodeRecord /\ Edited(n, r).lastSeen = nodes[n].lastSeen
  BY <1>1, EditedRecord
<1>3. /\ clock' = clock /\ up' = up /\ rules' = rules /\ dbRules' = dbRules
      /\ edits' = edits + 1 /\ crashes' = crashes /\ acked' = acked
      /\ Recorded(o, new)
      /\ nodes' = IF o = "ok" THEN [nodes EXCEPT ![n] = Edited(n, r)]
                  ELSE nodes
  BY DEF UpdateNode, Adopted
<1>4. losses' \in Nat
  BY <1>1 DEF UpdateNode, Counted, TypeOK
<1>5. /\ DOMAIN new \subseteq Node
      /\ \A m \in DOMAIN new : /\ new[m] \in NodeRecord
                               /\ acked[m] <= new[m].lastSeen
  BY <1>1, <1>2
<1> HIDE DEF new
<1>6. /\ db' \in [Node -> NodeRecord]
      /\ alerts' \in SUBSET Alert /\ stamp' \in Nat
      /\ Ordered'
      /\ \A m \in Node : acked[m] <= db'[m].lastSeen
  BY <1>3, <1>5, CommitKeeps
<1>7. TypeOK'
  BY <1>1, <1>2, <1>3, <1>4, <1>6 DEF TypeOK
<1>8. AckDurable' /\ \A m \in Node : acked'[m] <= clock'
  BY <1>1, <1>2, <1>3, <1>6 DEF AckDurable, TypeOK
<1> QED  BY <1>3, <1>6, <1>7, <1>8 DEF IInv

LEMMA PutSettingsIInv ==
    ASSUME IInv, NEW r \in RuleSet, NEW o \in Outcomes, PutSettings(r, o)
    PROVE  IInv'
<1>1. r \in Rules
  BY MonitorAssumption DEF Rules
<1>2. TypeOK'
  <2>1. losses' \in Nat
    BY DEF IInv, TypeOK, PutSettings, Counted
  <2> QED  BY <1>1, <2>1 DEF IInv, TypeOK, PutSettings
<1> QED  BY <1>2 DEF IInv, PutSettings, Ordered, AckDurable

LEMMA StepIInv == IInv /\ [Next]_vars => IInv'
<1> SUFFICES ASSUME IInv, [Next]_vars PROVE IInv'
  OBVIOUS
<1>1. CASE \E n \in Node, snap \in Snapshot, o \in Outcomes :
             Ingest(n, snap, o)
  BY <1>1, IngestIInv
<1>2. CASE Tick
  <2>1. losses' \in Nat
    BY <1>2 DEF Tick, IInv, TypeOK
  <2> QED  BY <1>2, <2>1, PassIInv DEF Tick, Eventful
<1>3. CASE \E done \in SUBSET Node, n \in Node, o \in Outcomes :
             TickFails(done, n, o)
  <2>1. PICK done \in SUBSET Node, n \in Node, o \in Outcomes :
            TickFails(done, n, o)
    BY <1>3
  <2>2. losses' \in Nat
    BY <2>1 DEF TickFails, Counted, IInv, TypeOK
  <2>3. Eventful(done) \cup (IF o = "lost" THEN {n} ELSE {}) \in SUBSET Node
    BY DEF Eventful
  <2> QED  BY <2>1, <2>2, <2>3, PassIInv DEF TickFails
<1>4. CASE \E n \in Node, r \in RuleSet \cup {NoRules}, o \in Outcomes :
             UpdateNode(n, r, o)
  BY <1>4, UpdateNodeIInv
<1>5. CASE \E r \in RuleSet, o \in Outcomes : PutSettings(r, o)
  BY <1>5, PutSettingsIInv
<1>6. CASE Prune
  BY <1>6 DEF IInv, Prune, TypeOK, Ordered, AckDurable, memory, bounds
<1>7. CASE Crash
  <2>1. /\ UNCHANGED <<clock, nodes, rules, db, dbRules, alerts, stamp, acked,
                       edits, losses>>
        /\ up' = FALSE /\ crashes' = crashes + 1
    BY <1>7 DEF Crash, memory, tables
  <2>2. TypeOK'
    <3>1. up' \in BOOLEAN
      BY <2>1
    <3>2. crashes' \in Nat
      BY <2>1 DEF IInv, TypeOK
    <3> QED  BY <2>1, <3>1, <3>2 DEF IInv, TypeOK
  <2>3. Ordered' /\ AckDurable' /\ clock' <= MaxClock
        /\ \A n \in Node : acked'[n] <= clock'
    BY <2>1 DEF IInv, Ordered, AckDurable
  <2> QED  BY <2>2, <2>3 DEF IInv
<1>8. CASE Start
  BY <1>8 DEF IInv, Start, TypeOK, Ordered, AckDurable, tables, bounds
<1>9. CASE \E d \in ClockStep : Advance(d)
  <2>1. PICK d \in ClockStep : Advance(d)
    BY <1>9
  <2>2. d \in Nat /\ clock' = clock + d /\ clock' <= MaxClock
    BY <2>1, MonitorAssumption DEF Advance
  <2>3. UNCHANGED <<up, nodes, rules, db, dbRules, alerts, stamp, acked,
                    edits, crashes, losses>>
    BY <2>1 DEF Advance, memory, tables, bounds
  <2>4. TypeOK'
    BY <2>2, <2>3 DEF IInv, TypeOK
  <2>5. Ordered'
    BY <2>2, <2>3 DEF IInv, TypeOK, Ordered, Alert
  <2>6. AckDurable' /\ \A n \in Node : acked'[n] <= clock'
    BY <2>2, <2>3 DEF IInv, TypeOK, AckDurable
  <2> QED  BY <2>2, <2>4, <2>5, <2>6 DEF IInv
<1>10. CASE UNCHANGED vars
  BY <1>10 DEF IInv, vars, TypeOK, Ordered, AckDurable, memory, tables, bounds
<1> QED
  BY <1>1, <1>2, <1>3, <1>4, <1>5, <1>6, <1>7, <1>8, <1>9, <1>10 DEF Next

LEMMA Invariance == Spec => []IInv
<1> QED  BY InitIInv, StepIInv, PTL DEF Spec

\* Every variable stays in its domain, whatever the database does.
THEOREM TypeCorrect == Spec => []TypeOK
<1>1. IInv => TypeOK
  BY DEF IInv
<1> QED  BY <1>1, Invariance, PTL

\* A sample answered with 200 is never lost, although writes fail, answers of
\* commits get lost, older records are saved again and the server crashes.
THEOREM AcksAreDurable == Spec => []AckDurable
<1>1. IInv => AckDurable
  BY DEF IInv
<1> QED  BY <1>1, Invariance, PTL

-----------------------------------------------------------------------------
(* The hold time, for every outcome of a write. A pending alarm remembers   *)
(* only an instant (since); that every sample from that instant on exceeds  *)
(* the threshold, without a gap or a reboot, is an invariant of the record, *)
(* in memory and in the table, as long as the alarm is pending.             *)

\* The latest sample is the last one folded in.
Traced(n) ==
    /\ n.latest = NoSample <=> n.trail = <<>>
    /\ n.latest # NoSample =>
          LET s == n.trail[Len(n.trail)]
          IN  /\ s.metrics = n.latest.metrics
              /\ s.boot = n.latest.boot
              /\ s.time = n.lastSeen

Pending(s) == ~s.active /\ s.since # 0

\* Samples i to last of record n exceed the threshold alarm k was judged by.
Exceed(n, k, i, last) ==
    \A j \in i..last : /\ n.trail[j].metrics[k] # NoCPU
                       /\ n.trail[j].metrics[k] > n.states[k].threshold

\* A pending alarm k has lasted since a sample of the record, up to sample
\* last, and its observation is unbroken to the end.
Lasting(n, k, last) ==
    Pending(n.states[k]) =>
        \E i \in 1..Len(n.trail) : /\ n.trail[i].time <= n.states[k].since
                                   /\ Exceed(n, k, i, last)
                                   /\ Unbroken(n, i)

Held == {"cpu", "memory"}

Sound(n, now) ==
    /\ Traced(n)
    /\ n.lastSeen <= now
    /\ \A k \in Held : Lasting(n, k, Len(n.trail))

HoldInv ==
    /\ IInv
    /\ \A n \in Node : Sound(nodes[n], clock) /\ Sound(db[n], clock)

\* The state Evaluate gives a CPU or memory alarm.
LEMMA EvaluatedState ==
    ASSUME NEW n \in NodeRecord, NEW r \in Rules, NEW now \in Nat,
           NEW k \in Kind
    PROVE  Evaluate(n, r, now).states[k] =
             IF k \in Judged(n, r, now)
             THEN Judge(n.states[k], Over(k, n, r, now), Threshold(k, r),
                        Hold(k, r), Observed(k, n, now), now)
             ELSE Unjudged(n.states[k], n, r, now)
<1> DEFINE states == [m \in Kind |->
             IF m \in Judged(n, r, now)
             THEN Judge(n.states[m], Over(m, n, r, now), Threshold(m, r),
                        Hold(m, r), Observed(m, n, now), now)
             ELSE Unjudged(n.states[m], n, r, now)]
<1>1. Evaluate(n, r, now) = [n EXCEPT !.states = states]
  BY DEF Evaluate
<1>2. states[k] = IF k \in Judged(n, r, now)
             THEN Judge(n.states[k], Over(k, n, r, now), Threshold(k, r),
                        Hold(k, r), Observed(k, n, now), now)
             ELSE Unjudged(n.states[k], n, r, now)
  OBVIOUS
<1> HIDE DEF states
<1>3. [n EXCEPT !.states = states].states = states
  BY DEF NodeRecord
<1> QED  BY <1>1, <1>2, <1>3

LEMMA EvaluatedFields ==
    ASSUME NEW n \in NodeRecord, NEW r, NEW now
    PROVE  /\ Evaluate(n, r, now).trail = n.trail
           /\ Evaluate(n, r, now).latest = n.latest
           /\ Evaluate(n, r, now).lastSeen = n.lastSeen
           /\ Evaluate(n, r, now).created = n.created
  BY DEF Evaluate, NodeRecord

\* Evaluating a record whose alarm lasted up to the last sample but one: the
\* last sample either ends it or is one more that exceeds the threshold, and
\* an alarm is raised only after the hold time.
LEMMA EvaluateHolds ==
    ASSUME NEW n \in NodeRecord, NEW r \in Rules, NEW now \in Nat,
           NEW k \in Held, Traced(n), n.lastSeen <= now,
           Lasting(n, k, Len(n.trail) - 1)
    PROVE  LET e == Evaluate(n, r, now)
           IN  /\ Lasting(e, k, Len(n.trail))
               /\ e.states[k].active /\ ~n.states[k].active =>
                     \E i \in 1..Len(n.trail) :
                         Sustained(e, k, i) /\ Unbroken(e, i)
<1> DEFINE e == Evaluate(n, r, now)
           t == n.trail
           s == n.states[k]
           es == e.states[k]
           over == Above(k, n.latest.metrics, r)
<1>1. /\ e.trail = t /\ t \in Seq(Sampled) /\ Len(t) \in Nat
      /\ s \in AlarmState /\ n.lastSeen \in Nat
      /\ k \in Kind /\ k # "offline" /\ k \in Held
  BY EvaluatedFields DEF NodeRecord, Held, Kind
<1>2. es = IF k \in Judged(n, r, now)
           THEN Judge(s, over, r[k], r.hold, n.lastSeen, now)
           ELSE Unjudged(s, n, r, now)
  BY <1>1, EvaluatedState DEF Over, Threshold, Hold, Observed, Held
<1>3. r[k] \in Nat /\ r.hold \in Nat /\ r.hold * Sec \in Nat
  BY SecAssumption DEF Rules, Held
<1>4. s.since \in Nat /\ s.active \in BOOLEAN
  BY <1>1 DEF AlarmState
<1>5. \A j \in 1..Len(t) : t[j].time \in Nat
  <2> HIDE DEF t
  <2>1. \A j \in 1..Len(t) : t[j] \in Sampled
    BY <1>1
  <2> QED  BY <2>1 DEF Sampled
<1> SUFFICES /\ Lasting(e, k, Len(t))
             /\ es.active /\ ~s.active =>
                   \E i \in 1..Len(t) : Sustained(e, k, i) /\ Unbroken(e, i)
  OBVIOUS
<1> HIDE DEF e, t, s, es
<1>6. \A i : Unbroken(e, i) <=> Unbroken(n, i)
  BY <1>1 DEF Unbroken, t
<1>7. CASE k \in Judged(n, r, now)
  <2>1. /\ n.latest # NoSample
        /\ t # <<>> /\ Len(t) \in 1..Len(t)
        /\ t[Len(t)].metrics = n.latest.metrics
        /\ t[Len(t)].time = n.lastSeen
    BY <1>1, <1>7 DEF Judged, Traced, t
  <2>2. es = Judge(s, over, r[k], r.hold, n.lastSeen, now)
    BY <1>2, <1>7
  <2>3. CASE ~over
    <3>1. es.since = 0 /\ es.active = FALSE
      BY <2>2, <2>3 DEF Judge
    <3> QED  BY <3>1 DEF Lasting, Pending, es
  <2>4. CASE over
    <3> DEFINE changed == ~s.active /\ (s.threshold # r[k] \/ s.hold # r.hold)
               start == IF changed THEN 0 ELSE s.since
               since == IF start = 0 THEN now ELSE start
    <3>1. /\ es.since = since /\ es.threshold = r[k] /\ es.hold = r.hold
          /\ es.active = (\/ s.active \/ r.hold = 0
                          \/ n.lastSeen - since >= r.hold * Sec)
      BY <2>2, <2>4, <1>4, Zenon DEF Judge
    <3>2. since \in Nat
      BY <1>4
    <3>3. t[Len(t)].metrics[k] # NoCPU /\ t[Len(t)].metrics[k] > r[k]
      BY <2>1, <2>4 DEF Above
    <3>4. CASE s.active
      BY <3>1, <3>4 DEF Lasting, Pending, es
    <3>5. CASE ~s.active
      <4>1. PICK i \in 1..Len(t) : /\ t[i].time <= since
                                   /\ Unbroken(n, i)
                                   /\ \A j \in i..Len(t) :
                                        /\ t[j].metrics[k] # NoCPU
                                        /\ t[j].metrics[k] > r[k]
        <5>1. CASE start = 0
          <6>1. t[Len(t)].time <= since
            BY <5>1, <2>1
          <6>2. Unbroken(n, Len(t))
            BY <1>1 DEF Unbroken, t
          <6>3. \A j \in Len(t)..Len(t) : j = Len(t)
            BY <1>1
          <6> QED  BY <2>1, <3>3, <6>1, <6>2, <6>3
        <5>2. CASE start # 0
          <6>1. Pending(s) /\ s.threshold = r[k] /\ since = s.since
            BY <3>5, <5>2 DEF Pending
          <6>2. PICK i \in 1..Len(t) : /\ t[i].time <= s.since
                                       /\ Exceed(n, k, i, Len(t) - 1)
                                       /\ Unbroken(n, i)
            BY <6>1 DEF Lasting, s, t
          <6>3. \A j \in i..Len(t) : j = Len(t) \/ j \in i..(Len(t) - 1)
            BY <1>1
          <6> QED  BY <6>1, <6>2, <6>3, <3>3 DEF Exceed, s, t
        <5> QED  BY <5>1, <5>2
      <4>2. /\ e.trail[i].time <= e.states[k].since
            /\ Exceed(e, k, i, Len(t)) /\ Unbroken(e, i)
        BY <4>1, <3>1, <1>1, <1>6 DEF Exceed, es
      <4>3. Lasting(e, k, Len(t))
        BY <4>2, <1>1 DEF Lasting
      <4>4. ASSUME es.active
            PROVE  \E m \in 1..Len(t) : Sustained(e, k, m) /\ Unbroken(e, m)
        <5>1. CASE r.hold = 0
          <6>1. t[Len(t)].time - t[Len(t)].time >= r.hold * Sec
            BY <5>1, <1>5, <2>1, SecAssumption
          <6>2. Unbroken(e, Len(t))
            BY <1>1, <1>6 DEF Unbroken, t
          <6>3. \A j \in Len(t)..Len(t) : j = Len(t)
            BY <1>1
          <6>4. Sustained(e, k, Len(t))
            BY <1>1, <3>1, <3>3, <6>1, <6>3 DEF Sustained, es
          <6> QED  BY <2>1, <6>2, <6>4
        <5>2. CASE r.hold # 0
          <6>1. n.lastSeen - since >= r.hold * Sec
            BY <3>1, <3>5, <4>4, <5>2
          <6>2. t[Len(t)].time - t[i].time >= r.hold * Sec
            BY <6>1, <4>1, <1>1, <1>3, <1>5, <2>1, <3>2
          <6>3. Sustained(e, k, i)
            BY <1>1, <3>1, <4>1, <6>2 DEF Sustained, es
          <6> QED  BY <4>2, <6>3
        <5> QED  BY <5>1, <5>2
      <4> QED  BY <4>3, <4>4
    <3> QED  BY <3>4, <3>5, <1>4
  <2> QED  BY <2>3, <2>4
<1>8. CASE k \notin Judged(n, r, now)
  <2>1. es = Unjudged(s, n, r, now)
    BY <1>2, <1>8
  <2>2. CASE es = Restart(s)
    BY <2>2, <1>4, <1>1 DEF Restart, Lasting, Pending, es, AlarmState
  <2>3. CASE es # Restart(s)
    <3>1. es = s /\ n.latest = NoSample
      BY <2>1, <2>3 DEF Unjudged
    <3>2. t = <<>>
      BY <3>1 DEF Traced, t
    <3>3. ~Pending(s)
      BY <3>2, <1>1 DEF Lasting, s, t
    <3> QED  BY <3>1, <3>3 DEF Lasting, es
  <2> QED  BY <2>2, <2>3
<1> QED  BY <1>7, <1>8

\* Folding a sample in: only an uninterrupted observation goes on.
LEMMA FoldedHolds ==
    ASSUME NEW n \in NodeRecord, NEW r \in Rules, NEW now \in Nat,
           NEW snap \in [time : Int, boot : Boot, usage : Usage],
           Sound(n, now)
    PROVE  LET f == Folded(n, snap, r, now)
           IN  /\ Traced(f)
               /\ \A k \in Held : Lasting(f, k, Len(f.trail) - 1)
<1> DEFINE f == Folded(n, snap, r, now)
           t == n.trail
           metrics == Derive(n.latest, snap)
           latest == [time |-> snap.time, boot |-> snap.boot,
                      metrics |-> metrics]
           sampled == [time |-> now, boot |-> snap.boot, metrics |-> metrics,
                       window |-> r.offline * Sec]
           states == IF Interrupted(n, snap, r, now)
                     THEN [k \in Kind |-> Restart(n.states[k])]
                     ELSE n.states
<1>1. /\ latest \in Sample /\ sampled \in Sampled
      /\ t \in Seq(Sampled) /\ Len(t) \in Nat
  <2>1. snap.usage \in Metrics
    BY MonitorAssumption
  <2>2. metrics \in Metrics
    BY <2>1 DEF Metrics, Derive
  <2>3. r.offline * Sec \in Nat
    BY SecAssumption DEF Rules
  <2> HIDE DEF metrics
  <2> QED  BY <2>2, <2>3 DEF Sample, Sampled, NodeRecord
<1>2. f = [n EXCEPT !.latest = latest, !.lastSeen = now, !.states = states,
                    !.trail = Append(t, sampled)]
  BY DEF Folded
<1>3. /\ latest.metrics = metrics /\ latest.boot = snap.boot
      /\ sampled.metrics = metrics /\ sampled.boot = snap.boot
      /\ sampled.time = now /\ sampled.window = r.offline * Sec
  OBVIOUS
<1> HIDE DEF metrics, latest, sampled, states
<1>4. /\ f.latest = latest /\ f.lastSeen = now /\ f.states = states
      /\ f.trail = Append(t, sampled)
  BY <1>2 DEF NodeRecord
<1> HIDE DEF f, t
<1>5. /\ Len(f.trail) = Len(t) + 1 /\ f.trail # <<>>
      /\ f.trail[Len(f.trail)] = sampled
      /\ \A j \in 1..Len(t) : f.trail[j] = t[j]
  BY <1>1, <1>4
<1>6. Traced(f)
  BY <1>1, <1>3, <1>4, <1>5, MonitorAssumption DEF Traced
<1>7. ASSUME NEW k \in Held, Pending(f.states[k])
      PROVE  \E i \in 1..Len(f.trail) : /\ f.trail[i].time <= f.states[k].since
                                        /\ Exceed(f, k, i, Len(f.trail) - 1)
                                        /\ Unbroken(f, i)
  <2>1. ~Interrupted(n, snap, r, now)
    <3> SUFFICES ASSUME Interrupted(n, snap, r, now) PROVE FALSE
      OBVIOUS
    <3>1. k \in Kind /\ n.states[k] \in AlarmState
      BY DEF Held, Kind, NodeRecord
    <3>2. f.states[k] = Restart(n.states[k])
      BY <3>1, <1>4 DEF states
    <3> QED  BY <3>1, <3>2, <1>7 DEF Restart, Pending, AlarmState
  <2>2. f.states = n.states
    BY <2>1, <1>4 DEF states
  <2>3. PICK i \in 1..Len(t) : /\ t[i].time <= n.states[k].since
                               /\ Exceed(n, k, i, Len(t))
                               /\ Unbroken(n, i)
    BY <2>2, <1>7 DEF Sound, Lasting, t
  <2>4. i \in 1..Len(f.trail) /\ f.trail[i].time <= f.states[k].since
    BY <2>2, <2>3, <1>1, <1>5
  <2>5. \A j \in i..(Len(f.trail) - 1) : j \in i..Len(t) /\ f.trail[j] = t[j]
    BY <1>1, <1>5
  <2>6. Exceed(f, k, i, Len(f.trail) - 1)
    BY <2>2, <2>3, <2>5 DEF Exceed, t
  <2>7. ASSUME NEW j \in i..(Len(f.trail) - 1)
        PROVE  /\ f.trail[j + 1].time - f.trail[j].time <= f.trail[j + 1].window
               /\ f.trail[j + 1].boot = f.trail[j].boot
    <3>1. CASE j < Len(t)
      <4>1. j \in i..(Len(t) - 1) /\ j \in 1..Len(t) /\ j + 1 \in 1..Len(t)
        BY <3>1, <1>1
      <4> QED  BY <4>1, <2>3, <1>5 DEF Unbroken, t
    <3>2. CASE j = Len(t)
      <4>1. f.trail[j + 1] = sampled /\ f.trail[j] = t[Len(t)]
        BY <3>2, <1>1, <1>5
      <4>2. t # <<>>
        BY <1>1, <2>3
      <4>3. /\ n.latest # NoSample
            /\ t[Len(t)].time = n.lastSeen /\ t[Len(t)].boot = n.latest.boot
        BY <4>2 DEF Sound, Traced, t
      <4>4. /\ ~(now - n.lastSeen > r.offline * Sec)
            /\ snap.boot = n.latest.boot
        BY <2>1, <4>3 DEF Interrupted
      <4>5. now - n.lastSeen \in Int /\ r.offline * Sec \in Int
        BY SecAssumption DEF NodeRecord, Rules
      <4> QED  BY <4>1, <4>3, <4>4, <4>5, <1>3
    <3> QED  BY <3>1, <3>2, <1>1, <1>5
  <2>8. Unbroken(f, i)
    BY <2>7 DEF Unbroken
  <2> QED  BY <2>4, <2>6, <2>8
<1> QED  BY <1>6, <1>7 DEF Lasting, f

\* What an alert that alarm k was raised rests on, and one that it was cleared.
Rests(n, k) == \E i \in 1..Len(n.trail) : Sustained(n, k, i) /\ Unbroken(n, i)

Evidence(n, k, r, now) ==
    LET t == n.trail[Len(n.trail)]
    IN  IF k = "offline" THEN ~Offline(n, r, now)
        ELSE /\ ~n.states["offline"].active
             /\ t.metrics[k] # NoCPU
             /\ t.metrics[k] <= n.states[k].threshold

\* Record new may replace record old: it is sound, and the alarms that differ
\* were raised or cleared with reason.
Justified(old, new, r, now) ==
    /\ Sound(new, now)
    /\ \A k \in Held :
          new.states[k].active /\ ~old.states[k].active => Rests(new, k)
    /\ \A k \in Kind :
          old.states[k].active /\ ~new.states[k].active
              => Evidence(new, k, r, now)

\* An alarm whose condition has ended is not raised.
LEMMA JudgeEnded ==
    ASSUME NEW s, NEW over, ~over, NEW threshold, NEW hold, NEW observed,
           NEW now
    PROVE  ~Judge(s, over, threshold, hold, observed, now).active
  BY DEF Judge

\* A raised alarm that is cleared was judged, and its condition had ended.
LEMMA EvaluateClears ==
    ASSUME NEW n \in NodeRecord, NEW r \in Rules, NEW now \in Nat, Traced(n),
           NEW k \in Kind, n.states[k].active,
           ~Evaluate(n, r, now).states[k].active
    PROVE  Evidence(Evaluate(n, r, now), k, r, now)
<1> DEFINE e == Evaluate(n, r, now)
           s == n.states[k]
           over == Over(k, n, r, now)
<1>1. /\ e.trail = n.trail /\ e.lastSeen = n.lastSeen /\ e.created = n.created
  BY EvaluatedFields
<1>2. Offline(e, r, now) <=> Offline(n, r, now)
  BY <1>1 DEF Offline, LastHeard
<1>3. s \in AlarmState /\ s.active = TRUE
  BY DEF NodeRecord, AlarmState
<1>4. k \in Judged(n, r, now)
  <2> SUFFICES ASSUME k \notin Judged(n, r, now) PROVE FALSE
    OBVIOUS
  <2>1. e.states[k] = Unjudged(s, n, r, now)
    BY EvaluatedState
  <2>2. e.states[k].active = s.active
    BY <2>1, <1>3, RestartState DEF Unjudged
  <2> QED  BY <2>2
<1>5. over \in BOOLEAN
  <2>1. Offline(n, r, now) \in BOOLEAN
    BY DEF Offline
  <2>2. Above(k, n.latest.metrics, r) \in BOOLEAN
    BY DEF Above
  <2> QED  BY <2>1, <2>2 DEF Over
<1>6. /\ e.states[k].active = over
      /\ e.states[k].threshold = Threshold(k, r)
  <2>1. e.states[k] = Judge(s, over, Threshold(k, r), Hold(k, r),
                            Observed(k, n, now), now)
    BY <1>4, EvaluatedState
  <2> DEFINE j == Judge(s, over, Threshold(k, r), Hold(k, r),
                        Observed(k, n, now), now)
  <2> HIDE DEF over, s, e
  <2>2. j.active = over /\ j.threshold = Threshold(k, r)
    BY <1>3, <1>5 DEF Judge
  <2> QED  BY <2>1, <2>2
<1>7. ~over
  BY <1>6
<1>8. CASE k = "offline"
  BY <1>7, <1>8, <1>2 DEF Over, Evidence
<1>9. CASE k # "offline"
  <2>1. ~Offline(n, r, now) /\ n.latest # NoSample
    BY <1>4, <1>9 DEF Judged
  <2>2. e.trail[Len(e.trail)].metrics = n.latest.metrics
    BY <2>1, <1>1 DEF Traced
  <2>3. n.latest.metrics \in Metrics
    BY <2>1 DEF NodeRecord, Sample
  <2>4. n.latest.metrics[k] # NoCPU
    <3>1. CASE k = "cpu"
      BY <1>4, <2>1, <3>1 DEF Judged
    <3>2. CASE k = "memory"
      BY <2>3, <3>2, MonitorAssumption DEF Metrics
    <3>3. CASE k = "disk"
      BY <2>3, <3>3, MonitorAssumption DEF Metrics
    <3> QED  BY <3>1, <3>2, <3>3, <1>9 DEF Kind
  <2>5. n.latest.metrics[k] \in Nat
    BY <2>3, <2>4, <1>9 DEF Kind, Metrics
  <2>6. r[k] \in Nat /\ Threshold(k, r) = r[k]
    BY <1>9 DEF Kind, Rules, Threshold
  <2>7. n.latest.metrics[k] <= r[k]
    BY <1>7, <1>9, <2>4, <2>5, <2>6 DEF Over, Above
  <2>8. ~e.states["offline"].active
    <3>1. "offline" \in Kind /\ "offline" \in Judged(n, r, now)
      BY DEF Kind, Judged
    <3>2. e.states["offline"]
            = Judge(n.states["offline"], Over("offline", n, r, now),
                    Threshold("offline", r), Hold("offline", r),
                    Observed("offline", n, now), now)
      BY <3>1, EvaluatedState
    <3>3. ~Over("offline", n, r, now)
      BY <2>1 DEF Over
    <3> QED  BY <3>2, <3>3, JudgeEnded
  <2> QED  BY <1>6, <1>9, <2>2, <2>4, <2>6, <2>7, <2>8 DEF Evidence
<1> QED  BY <1>8, <1>9

\* Evaluate justifies what it changes.
LEMMA EvaluateJustified ==
    ASSUME NEW old, NEW n \in NodeRecord, NEW r \in Rules,
           NEW now \in Nat, Traced(n), n.lastSeen <= now,
           \A k \in Held : Lasting(n, k, Len(n.trail) - 1),
           \A k \in Kind : n.states[k].active = old.states[k].active
    PROVE  Justified(old, Evaluate(n, r, now), r, now)
<1> DEFINE e == Evaluate(n, r, now)
<1>1. e.trail = n.trail /\ e.latest = n.latest /\ e.lastSeen = n.lastSeen
  BY EvaluatedFields
<1>2. ASSUME NEW k \in Held
      PROVE  /\ Lasting(e, k, Len(n.trail))
             /\ e.states[k].active /\ ~n.states[k].active =>
                   \E i \in 1..Len(n.trail) :
                       Sustained(e, k, i) /\ Unbroken(e, i)
  BY EvaluateHolds
<1>3. ASSUME NEW k \in Kind, old.states[k].active, ~e.states[k].active
      PROVE  Evidence(e, k, r, now)
  BY <1>3, EvaluateClears
<1> HIDE DEF e
<1>4. Sound(e, now)
  BY <1>1, <1>2 DEF Sound, Traced
<1>5. ASSUME NEW k \in Held, e.states[k].active, ~old.states[k].active
      PROVE  Rests(e, k)
  BY <1>1, <1>2, <1>5 DEF Rests, Held, Kind
<1>6. Justified(old, e, r, now)
  BY <1>3, <1>4, <1>5 DEF Justified
<1> QED  BY <1>6 DEF e

\* An alert of this step says what its transaction changed.
LEMMA CommitAlerts ==
    ASSUME TypeOK, NEW STATE new, DOMAIN new \subseteq Node, Commit(new),
           NEW CONSTANT n \in Node, NEW CONSTANT k \in Kind,
           NEW CONSTANT active \in BOOLEAN, Alerts(n, k, active)
    PROVE  /\ n \in DOMAIN new /\ db'[n] = new[n]
           /\ new[n].states[k].active = active
           /\ new[n].states[k].active # nodes[n].states[k].active
<1>1. PICK a \in alerts' \ alerts : /\ a.node = n /\ a.kind = k
                                    /\ a.active = active
  BY DEF Alerts
<1> DEFINE events == UNION {EventsOf(m, new[m]) : m \in DOMAIN new}
<1>2. a \in Rows(events)
  BY <1>1 DEF Commit
<1>3. PICK c \in events : a = [id |-> stamp, node |-> c[1], kind |-> c[2],
                               active |-> c[3], time |-> clock]
  BY <1>2 DEF Rows
<1>4. c[1] = n /\ c[2] = k /\ c[3] = active
  BY <1>1, <1>3
<1>5. PICK m \in DOMAIN new : c \in EventsOf(m, new[m])
  OBVIOUS
<1>6. PICK j \in Changed(nodes[m], new[m]) :
          c = <<m, j, new[m].states[j].active>>
  BY <1>5 DEF EventsOf
<1>7. m = n /\ j = k /\ new[n].states[k].active = active
  BY <1>4, <1>6
<1>8. new[n].states[k].active # nodes[n].states[k].active
  BY <1>6, <1>7 DEF Changed
<1>9. db'[n] = new[n]
  BY <1>7 DEF Commit
<1> QED  BY <1>7, <1>8, <1>9

\* What HoldUnbroken and ClearedByEvidence say of a step.
RaisedOnSamples ==
    \A n \in Node, k \in Held : Alerts(n, k, TRUE) => Rests(db'[n], k)

ClearedOnEvidence ==
    \A n \in Node, k \in Kind :
        Alerts(n, k, FALSE) =>
            Evidence(db'[n], k, Effective(rules, nodes[n].rules), clock)

\* A step that writes records which may replace those in memory.
LEMMA CommitJustified ==
    ASSUME HoldInv, NEW STATE new, DOMAIN new \subseteq Node,
           \A n \in DOMAIN new :
               Justified(nodes[n], new[n], Effective(rules, nodes[n].rules),
                         clock),
           NEW CONSTANT outcome, Recorded(outcome, new)
    PROVE  /\ \A n \in Node : Sound(db'[n], clock)
           /\ RaisedOnSamples /\ ClearedOnEvidence
<1>1. CASE outcome = "error"
  <2>1. db' = db /\ alerts' = alerts
    BY <1>1 DEF Recorded
  <2> QED
    BY <2>1 DEF HoldInv, RaisedOnSamples, ClearedOnEvidence, Alerts
<1>2. CASE outcome # "error"
  <2>1. Commit(new)
    BY <1>2 DEF Recorded
  <2>2. ASSUME NEW n \in Node PROVE Sound(db'[n], clock)
    <3>1. db'[n] = IF n \in DOMAIN new THEN new[n] ELSE db[n]
      BY <2>1 DEF Commit
    <3> QED  BY <3>1 DEF HoldInv, Justified
  <2>3. ASSUME NEW n \in Node, NEW k \in Kind, NEW active \in BOOLEAN,
               Alerts(n, k, active)
        PROVE  /\ Justified(nodes[n], db'[n],
                            Effective(rules, nodes[n].rules), clock)
               /\ db'[n].states[k].active = active
               /\ nodes[n].states[k].active # active
    BY <2>1, <2>3, CommitAlerts DEF HoldInv, IInv
  <2>4. ASSUME NEW n \in Node, NEW k \in Kind
        PROVE  nodes[n].states[k].active \in BOOLEAN
    BY DEF HoldInv, IInv, TypeOK, NodeRecord, AlarmState
  <2>5. RaisedOnSamples
    <3> SUFFICES ASSUME NEW n \in Node, NEW k \in Held, Alerts(n, k, TRUE)
                 PROVE  Rests(db'[n], k)
      BY DEF RaisedOnSamples
    <3>1. k \in Kind
      BY DEF Held, Kind
    <3>2. /\ Justified(nodes[n], db'[n], Effective(rules, nodes[n].rules),
                       clock)
          /\ db'[n].states[k].active = TRUE
          /\ nodes[n].states[k].active # TRUE
      BY <2>3, <3>1
    <3> QED  BY <2>4, <3>1, <3>2 DEF Justified
  <2>6. ClearedOnEvidence
    <3> SUFFICES ASSUME NEW n \in Node, NEW k \in Kind, Alerts(n, k, FALSE)
                 PROVE  Evidence(db'[n], k, Effective(rules, nodes[n].rules),
                                 clock)
      BY DEF ClearedOnEvidence
    <3>1. /\ Justified(nodes[n], db'[n], Effective(rules, nodes[n].rules),
                       clock)
          /\ db'[n].states[k].active = FALSE
          /\ nodes[n].states[k].active # FALSE
      BY <2>3
    <3> QED  BY <2>4, <3>1 DEF Justified
  <2> QED  BY <2>2, <2>5, <2>6
<1> QED  BY <1>1, <1>2

\* The records the handlers write may replace those in memory.
LEMMA IngestedJustified ==
    ASSUME HoldInv, NEW n \in Node, NEW snap \in Snapshot
    PROVE  Justified(nodes[n], Ingested(n, snap),
                     Effective(rules, nodes[n].rules), clock)
<1> DEFINE r == Effective(rules, nodes[n].rules)
           f == Folded(nodes[n], snap, r, clock)
<1>1. /\ nodes[n] \in NodeRecord /\ rules \in Rules /\ clock \in Nat
      /\ Sound(nodes[n], clock)
  BY DEF HoldInv, IInv, TypeOK
<1>2. r \in Rules
  <2>1. nodes[n].rules \in Rules \cup {NoRules}
    BY <1>1 DEF NodeRecord
  <2> QED  BY <1>1, <2>1, EffectiveRules
<1>3. snap \in [time : Int, boot : Boot, usage : Usage]
  <2>1. {clock + s : s \in Skew} \subseteq Int
    BY <1>1, MonitorAssumption
  <2> QED  BY <2>1 DEF Snapshot
<1>4. /\ f \in NodeRecord /\ f.lastSeen = clock
      /\ \A k \in Kind : f.states[k].active = nodes[n].states[k].active
  BY <1>1, <1>2, <1>3, FoldedRecord
<1>5. Traced(f) /\ \A k \in Held : Lasting(f, k, Len(f.trail) - 1)
  BY <1>1, <1>2, <1>3, FoldedHolds
<1>6. Ingested(n, snap) = Evaluate(f, r, clock)
  BY DEF Ingested
<1> HIDE DEF r, f
<1>7. f.lastSeen <= clock
  BY <1>1, <1>4
<1>8. Justified(nodes[n], Evaluate(f, r, clock), r, clock)
  BY <1>1, <1>2, <1>4, <1>5, <1>7, EvaluateJustified
<1> QED  BY <1>6, <1>8 DEF r

LEMMA ReevaluatedJustified ==
    ASSUME HoldInv, NEW n \in Node
    PROVE  Justified(nodes[n], Reevaluated(n),
                     Effective(rules, nodes[n].rules), clock)
<1> DEFINE r == Effective(rules, nodes[n].rules)
<1>1. /\ nodes[n] \in NodeRecord /\ rules \in Rules /\ clock \in Nat
      /\ Sound(nodes[n], clock)
  BY DEF HoldInv, IInv, TypeOK
<1>2. r \in Rules
  <2>1. nodes[n].rules \in Rules \cup {NoRules}
    BY <1>1 DEF NodeRecord
  <2> QED  BY <1>1, <2>1, EffectiveRules
<1> HIDE DEF r
<1>3. ASSUME NEW k \in Held
      PROVE  Lasting(nodes[n], k, Len(nodes[n].trail) - 1)
  <2>1. Lasting(nodes[n], k, Len(nodes[n].trail))
    BY <1>1 DEF Sound
  <2>2. Len(nodes[n].trail) \in Nat
    BY <1>1 DEF NodeRecord
  <2> QED  BY <2>1, <2>2 DEF Lasting, Exceed
<1>4. Justified(nodes[n], Evaluate(nodes[n], r, clock), r, clock)
  BY <1>1, <1>2, <1>3, EvaluateJustified DEF Sound
<1> QED  BY <1>4 DEF r, Reevaluated

LEMMA EditedJustified ==
    ASSUME HoldInv, NEW n \in Node, NEW o \in RuleSet \cup {NoRules}
    PROVE  Justified(nodes[n], Edited(n, o),
                     Effective(rules, nodes[n].rules), clock)
<1>1. nodes[n] \in NodeRecord /\ Sound(nodes[n], clock)
  BY DEF HoldInv, IInv, TypeOK
<1>2. /\ Edited(n, o).trail = nodes[n].trail
      /\ Edited(n, o).latest = nodes[n].latest
      /\ Edited(n, o).lastSeen = nodes[n].lastSeen
      /\ Edited(n, o).states = nodes[n].states
  BY <1>1 DEF Edited, NodeRecord
<1>3. Traced(Edited(n, o))
  BY <1>1, <1>2 DEF Sound, Traced
<1>4. ASSUME NEW k \in Held
      PROVE  Lasting(Edited(n, o), k, Len(Edited(n, o).trail))
  <2>1. Lasting(nodes[n], k, Len(nodes[n].trail))
    BY <1>1 DEF Sound
  <2> QED  BY <1>2, <2>1 DEF Lasting, Exceed, Unbroken
<1>5. Sound(Edited(n, o), clock)
  BY <1>1, <1>2, <1>3, <1>4 DEF Sound
<1> QED  BY <1>2, <1>5 DEF Justified

LEMMA HoldInit == Init => HoldInv
<1> SUFFICES ASSUME Init PROVE HoldInv
  OBVIOUS
<1>1. Traced(Fresh) /\ Fresh.lastSeen <= clock
  BY DEF Init, Fresh, Traced
<1>2. \A k \in Held : ~Pending(Fresh.states[k])
  BY DEF Held, Kind, Fresh, Quiet, Pending
<1>3. Sound(Fresh, clock)
  BY <1>1, <1>2 DEF Sound, Lasting
<1> QED  BY <1>3, InitIInv DEF HoldInv, Init

\* Records stay sound as time passes.
LEMMA SoundLater ==
    ASSUME NEW n \in NodeRecord, NEW now \in Nat, NEW later \in Nat,
           now <= later, Sound(n, now)
    PROVE  Sound(n, later)
  BY DEF Sound, NodeRecord

\* Every step keeps the records sound and justifies its alerts.
LEMMA HoldStep ==
    HoldInv /\ [Next]_vars
        => HoldInv' /\ [RaisedOnSamples /\ ClearedOnEvidence]_vars
<1> SUFFICES ASSUME HoldInv, [Next]_vars
             PROVE  HoldInv' /\ [RaisedOnSamples /\ ClearedOnEvidence]_vars
  OBVIOUS
<1>1. IInv'
  BY StepIInv DEF HoldInv
<1>2. \A n \in Node : Sound(nodes[n], clock) /\ Sound(db[n], clock)
  BY DEF HoldInv
<1>3. \* Steps that write no alert and leave the records as they are.
      ASSUME alerts' \subseteq alerts
      PROVE  RaisedOnSamples /\ ClearedOnEvidence
  BY <1>3 DEF RaisedOnSamples, ClearedOnEvidence, Alerts
<1>4. ASSUME NEW n \in Node, NEW snap \in Snapshot, NEW o \in Outcomes,
             Ingest(n, snap, o)
      PROVE  HoldInv' /\ RaisedOnSamples /\ ClearedOnEvidence
  <2> DEFINE record == Ingested(n, snap)
             new == [m \in {n} |-> record]
  <2>1. Justified(nodes[n], record, Effective(rules, nodes[n].rules), clock)
    BY IngestedJustified
  <2>2. /\ Recorded(o, new) /\ clock' = clock
        /\ nodes' = IF o = "ok" THEN [nodes EXCEPT ![n] = record] ELSE nodes
    BY <1>4 DEF Ingest, Adopted
  <2>3. nodes \in [Node -> NodeRecord]
    BY DEF HoldInv, IInv, TypeOK
  <2> HIDE DEF record
  <2>4. /\ DOMAIN new \subseteq Node
        /\ \A m \in DOMAIN new :
              Justified(nodes[m], new[m], Effective(rules, nodes[m].rules),
                        clock)
    BY <2>1
  <2> HIDE DEF new
  <2>5. /\ \A m \in Node : Sound(db'[m], clock)
        /\ RaisedOnSamples /\ ClearedOnEvidence
    BY <2>2, <2>4, CommitJustified
  <2>6. \A m \in Node : Sound(nodes'[m], clock)
    BY <1>2, <2>1, <2>2, <2>3 DEF Justified
  <2> QED  BY <1>1, <2>2, <2>5, <2>6 DEF HoldInv
<1>5. ASSUME NEW done \in SUBSET Node, NEW written \in SUBSET Node,
             Pass(done, written)
      PROVE  HoldInv' /\ RaisedOnSamples /\ ClearedOnEvidence
  <2> DEFINE new == [n \in written |-> Reevaluated(n)]
  <2>1. \A n \in Node : Justified(nodes[n], Reevaluated(n),
                                  Effective(rules, nodes[n].rules), clock)
    BY ReevaluatedJustified
  <2>2. /\ Recorded("ok", new) /\ clock' = clock
        /\ nodes' = [n \in Node |-> IF n \in done THEN Reevaluated(n)
                                    ELSE nodes[n]]
    BY <1>5 DEF Pass, Recorded
  <2>3. /\ DOMAIN new \subseteq Node
        /\ \A m \in DOMAIN new :
              Justified(nodes[m], new[m], Effective(rules, nodes[m].rules),
                        clock)
    BY <2>1
  <2> HIDE DEF new
  <2>4. /\ \A m \in Node : Sound(db'[m], clock)
        /\ RaisedOnSamples /\ ClearedOnEvidence
    BY <2>2, <2>3, CommitJustified
  <2>5. \A m \in Node : Sound(nodes'[m], clock)
    BY <1>2, <2>1, <2>2 DEF Justified
  <2> QED  BY <1>1, <2>2, <2>4, <2>5 DEF HoldInv
<1>6. ASSUME NEW n \in Node, NEW r \in RuleSet \cup {NoRules},
             NEW o \in Outcomes, UpdateNode(n, r, o)
      PROVE  HoldInv' /\ RaisedOnSamples /\ ClearedOnEvidence
  <2> DEFINE record == Edited(n, r)
             new == [m \in {n} |-> record]
  <2>1. Justified(nodes[n], record, Effective(rules, nodes[n].rules), clock)
    BY EditedJustified
  <2>2. /\ Recorded(o, new) /\ clock' = clock
        /\ nodes' = IF o = "ok" THEN [nodes EXCEPT ![n] = record] ELSE nodes
    BY <1>6 DEF UpdateNode, Adopted
  <2>3. nodes \in [Node -> NodeRecord]
    BY DEF HoldInv, IInv, TypeOK
  <2> HIDE DEF record
  <2>4. /\ DOMAIN new \subseteq Node
        /\ \A m \in DOMAIN new :
              Justified(nodes[m], new[m], Effective(rules, nodes[m].rules),
                        clock)
    BY <2>1
  <2> HIDE DEF new
  <2>5. /\ \A m \in Node : Sound(db'[m], clock)
        /\ RaisedOnSamples /\ ClearedOnEvidence
    BY <2>2, <2>4, CommitJustified
  <2>6. \A m \in Node : Sound(nodes'[m], clock)
    BY <1>2, <2>1, <2>2, <2>3 DEF Justified
  <2> QED  BY <1>1, <2>2, <2>5, <2>6 DEF HoldInv
<1>7. CASE Tick
  BY <1>5, <1>7 DEF Tick, Eventful
<1>8. CASE \E done \in SUBSET Node, n \in Node, o \in Outcomes :
             TickFails(done, n, o)
  <2>1. PICK done \in SUBSET Node, n \in Node, o \in Outcomes :
            TickFails(done, n, o)
    BY <1>8
  <2>2. Eventful(done) \cup (IF o = "lost" THEN {n} ELSE {}) \in SUBSET Node
    BY DEF Eventful
  <2> QED  BY <2>1, <2>2, <1>5 DEF TickFails
<1>9. CASE \/ \E r \in RuleSet, o \in Outcomes : PutSettings(r, o)
           \/ Prune \/ Crash
  <2>1. UNCHANGED <<clock, nodes, db>> /\ alerts' \subseteq alerts
    BY <1>9 DEF PutSettings, Prune, Crash, memory, tables
  <2> QED  BY <2>1, <1>1, <1>2, <1>3 DEF HoldInv
<1>10. CASE Start
  <2>1. UNCHANGED <<clock, db, alerts>> /\ nodes' = db
    BY <1>10 DEF Start, tables
  <2> QED  BY <2>1, <1>1, <1>2, <1>3 DEF HoldInv
<1>11. CASE \E d \in ClockStep : Advance(d)
  <2>1. PICK d \in ClockStep : Advance(d)
    BY <1>11
  <2>2. /\ d \in Nat /\ clock' = clock + d
        /\ UNCHANGED <<nodes, db, alerts>>
    BY <2>1, MonitorAssumption DEF Advance, memory, tables
  <2>3. /\ clock \in Nat /\ nodes \in [Node -> NodeRecord]
        /\ db \in [Node -> NodeRecord]
    BY DEF HoldInv, IInv, TypeOK
  <2>4. \A n \in Node : Sound(nodes[n], clock') /\ Sound(db[n], clock')
    BY <1>2, <2>2, <2>3, SoundLater
  <2> QED  BY <2>2, <2>4, <1>1, <1>3 DEF HoldInv
<1>12. CASE UNCHANGED vars
  BY <1>12, <1>1, <1>2 DEF HoldInv, vars, memory, tables
<1> QED
  BY <1>4, <1>6, <1>7, <1>8, <1>9, <1>10, <1>11, <1>12 DEF Next

LEMMA HoldInvariance == Spec => []HoldInv
  BY HoldInit, HoldStep, PTL DEF Spec

\* No CPU or memory alarm is raised on less than the hold time of unbroken
\* observation, whatever happens to writes, rules, boots and the process.
THEOREM HoldIsUnbroken == Spec => HoldUnbroken
<1>1. HoldInv /\ [Next]_vars
        => [\A n \in Node, k \in {"cpu", "memory"} :
              Alerts(n, k, TRUE) =>
                \E i \in 1..Len(db'[n].trail) :
                    Sustained(db'[n], k, i) /\ Unbroken(db'[n], i)]_vars
  BY HoldStep DEF RaisedOnSamples, Rests, Held
<1> QED  BY <1>1, HoldInvariance, PTL DEF Spec, HoldUnbroken

\* An alarm is cleared by evidence only.
THEOREM ClearsRestOnEvidence == Spec => ClearedByEvidence
<1>1. HoldInv /\ [Next]_vars
        => [\A n \in Node, k \in Kind :
              Alerts(n, k, FALSE) =>
                LET t == db'[n].trail[Len(db'[n].trail)]
                IN  IF k = "offline"
                    THEN ~Offline(db'[n], Effective(rules, nodes[n].rules),
                                  clock)
                    ELSE /\ ~db'[n].states["offline"].active
                         /\ t.metrics[k] # NoCPU
                         /\ t.metrics[k] <= db'[n].states[k].threshold]_vars
  BY HoldStep DEF ClearedOnEvidence, Evidence
<1> QED  BY <1>1, HoldInvariance, PTL DEF Spec, ClearedByEvidence

-----------------------------------------------------------------------------
(* A pass repeated at the instant of the first reports nothing again:        *)
(* judging a record twice is judging it once.                                *)

LEMMA JudgeTwice ==
    ASSUME NEW s \in AlarmState, NEW over \in BOOLEAN, NEW threshold \in Nat,
           NEW hold \in Nat, NEW observed \in Int, NEW now \in Nat
    PROVE  LET j == Judge(s, over, threshold, hold, observed, now)
           IN  Judge(j, over, threshold, hold, observed, now) = j
<1> DEFINE changed == ~s.active /\ (s.threshold # threshold \/ s.hold # hold)
           start   == IF changed THEN 0 ELSE s.since
           since   == IF over /\ start = 0 THEN now ELSE start
           active  == over /\ \/ s.active
                              \/ hold = 0
                              \/ observed - since >= hold * Sec
           j       == Judge(s, over, threshold, hold, observed, now)
           kept    == IF over THEN since ELSE 0
<1>1. since \in Nat /\ (over /\ since = 0 => now = 0)
  BY DEF AlarmState
<1>2. j = [since |-> kept, active |-> active, threshold |-> threshold,
           hold |-> hold]
  BY DEF Judge
<1>3. active \in BOOLEAN /\ (active => over)
      /\ (over => (active <=> \/ s.active \/ hold = 0
                              \/ observed - since >= hold * Sec))
  OBVIOUS
<1> HIDE DEF since, active, j
<1>4. /\ j.since = kept /\ j.active = active /\ j.threshold = threshold
      /\ j.hold = hold
  BY <1>2
<1> DEFINE again == IF over /\ kept = 0 THEN now ELSE kept
           raised == over /\ \/ active
                             \/ hold = 0
                             \/ observed - again >= hold * Sec
<1>5. Judge(j, over, threshold, hold, observed, now)
        = [since |-> IF over THEN again ELSE 0, active |-> raised,
           threshold |-> threshold, hold |-> hold]
  BY <1>4 DEF Judge
<1>6. (IF over THEN again ELSE 0) = kept /\ (over => again = since)
  BY <1>1
<1>7. raised = active
  BY <1>3, <1>6
<1> HIDE DEF kept, again, raised
<1> QED  BY <1>2, <1>5, <1>6, <1>7 DEF j

LEMMA EvaluateTwice ==
    ASSUME NEW n \in NodeRecord, NEW r \in Rules, NEW now \in Nat
    PROVE  LET e == Evaluate(n, r, now) IN Evaluate(e, r, now) = e
<1> DEFINE e == Evaluate(n, r, now)
           f == Evaluate(e, r, now)
<1>1. e \in NodeRecord /\ f \in NodeRecord
  BY EvaluateRecord
<1>2. e.latest = n.latest /\ e.lastSeen = n.lastSeen /\ e.created = n.created
  BY EvaluatedFields
<1>3. /\ Judged(e, r, now) = Judged(n, r, now)
      /\ Offline(e, r, now) = Offline(n, r, now)
  BY <1>2 DEF Judged, Offline, LastHeard
<1>4. ASSUME NEW k \in Kind PROVE f.states[k] = e.states[k]
  <2>1. Over(k, e, r, now) = Over(k, n, r, now)
    BY <1>2, <1>3 DEF Over
  <2>2. Observed(k, e, now) = Observed(k, n, now)
    BY <1>2 DEF Observed
  <2>3. CASE k \in Judged(n, r, now)
    <3>1. e.states[k] = Judge(n.states[k], Over(k, n, r, now),
                              Threshold(k, r), Hold(k, r),
                              Observed(k, n, now), now)
      BY <2>3, EvaluatedState
    <3>2. f.states[k] = Judge(e.states[k], Over(k, n, r, now),
                              Threshold(k, r), Hold(k, r),
                              Observed(k, n, now), now)
      BY <1>1, <1>3, <2>1, <2>2, <2>3, EvaluatedState
    <3>3. n.states[k] \in AlarmState
      BY DEF NodeRecord
    <3>4. Threshold(k, r) \in Nat /\ Hold(k, r) \in Nat
      BY DEF Threshold, Hold, Kind, Rules
    <3>5. Over(k, n, r, now) \in BOOLEAN
      <4>1. CASE k = "offline"
        BY <4>1 DEF Over, Offline
      <4>2. CASE k # "offline"
        BY <4>2 DEF Over, Above
      <4> QED  BY <4>1, <4>2
    <3>6. Observed(k, n, now) \in Int
      BY DEF Observed, NodeRecord
    <3> QED  BY <3>1, <3>2, <3>3, <3>4, <3>5, <3>6, JudgeTwice
  <2>4. CASE k \notin Judged(n, r, now)
    <3>1. e.states[k] = Unjudged(n.states[k], n, r, now)
      BY <2>4, EvaluatedState
    <3>2. f.states[k] = Unjudged(e.states[k], e, r, now)
      BY <1>1, <1>3, <2>4, EvaluatedState
    <3>3. n.states[k] \in AlarmState
      BY DEF NodeRecord
    <3>4. Restart(Restart(n.states[k])) = Restart(n.states[k])
      BY <3>3 DEF Restart, AlarmState
    <3> QED  BY <1>2, <1>3, <3>1, <3>2, <3>4 DEF Unjudged
  <2> QED  BY <2>3, <2>4
<1>5. \E states : f = [e EXCEPT !.states = states]
  BY DEF Evaluate
<1>6. f.states = e.states
  <2>1. f.states \in [Kind -> AlarmState] /\ e.states \in [Kind -> AlarmState]
    BY <1>1 DEF NodeRecord
  <2> HIDE DEF e, f
  <2> QED  BY <1>4, <2>1
<1> HIDE DEF e, f
<1>7. f = e
  BY <1>1, <1>5, <1>6 DEF NodeRecord
<1> QED  BY <1>7 DEF e, f

\* After a pass of the ticker, complete or cut short, the nodes it went through
\* have nothing left to report: a pass that is repeated at once, because the
\* first one failed midway, writes no alert of theirs twice (server.go Tick).
THEOREM RepeatedPassIsSilent ==
    Spec => [][\A done, written \in SUBSET Node :
                  Pass(done, written) => Eventful(done)' = {}]_vars
<1>1. IInv /\ [Next]_vars
        => [\A done, written \in SUBSET Node :
              Pass(done, written) => Eventful(done)' = {}]_vars
  <2> SUFFICES ASSUME IInv, NEW done \in SUBSET Node,
                      NEW written \in SUBSET Node, Pass(done, written)
               PROVE  Eventful(done)' = {}
    OBVIOUS
  <2>1. /\ UNCHANGED <<clock, rules>>
        /\ nodes' = [n \in Node |-> IF n \in done THEN Reevaluated(n)
                                    ELSE nodes[n]]
    BY DEF Pass
  <2>2. ASSUME NEW n \in done PROVE Reevaluated(n)' = nodes'[n]
    <3> DEFINE r == Effective(rules, nodes[n].rules)
    <3>1. nodes[n] \in NodeRecord /\ rules \in Rules /\ clock \in Nat
      BY DEF IInv, TypeOK
    <3>2. r \in Rules
      <4>1. nodes[n].rules \in Rules \cup {NoRules}
        BY <3>1 DEF NodeRecord
      <4> QED  BY <3>1, <4>1, EffectiveRules
    <3>3. nodes'[n] = Evaluate(nodes[n], r, clock)
      BY <2>1 DEF Reevaluated
    <3>4. nodes'[n].rules = nodes[n].rules
      BY <3>1, <3>3 DEF Evaluate, NodeRecord
    <3>5. Reevaluated(n)' = Evaluate(nodes'[n], r, clock)
      BY <2>1, <3>4 DEF Reevaluated
    <3> QED  BY <3>1, <3>2, <3>3, <3>5, EvaluateTwice
  <2>3. \A n \in done : EventsOf(n, Reevaluated(n))' = {}
    BY <2>2 DEF EventsOf, Changed
  <2> QED  BY <2>3 DEF Eventful
<1> QED  BY <1>1, Invariance, PTL DEF Spec

-----------------------------------------------------------------------------
(* A database whose answers are not lost: memory and tables agree, and the  *)
(* alert log is the one AlertLog specifies.                                 *)

\* What the alert log needs of MemoryAgrees: which alarms are raised.
RaisedAgree ==
    up => /\ rules = dbRules
          /\ \A n \in Node :
                /\ [nodes[n] EXCEPT !.states = db[n].states] = db[n]
                /\ \A k \in Kind :
                      nodes[n].states[k].active = db[n].states[k].active

LEMMA AgreeIngest ==
    ASSUME IInv, RaisedAgree, NEW n \in Node, NEW snap \in Snapshot,
           NEW o \in Outcomes, o # "lost", Ingest(n, snap, o)
    PROVE  RaisedAgree'
<1> DEFINE record == Ingested(n, snap)
<1>1. nodes \in [Node -> NodeRecord] /\ db \in [Node -> NodeRecord]
  BY DEF IInv, TypeOK
<1>2. record \in NodeRecord
  BY IngestedRecord DEF IInv
<1>3. up /\ up' = up /\ rules' = rules /\ dbRules' = dbRules
  BY DEF Ingest
<1> HIDE DEF record
<1>4. CASE o = "error"
  <2>1. db' = db /\ nodes' = nodes
    BY <1>4 DEF Ingest, Recorded, Adopted
  <2> QED  BY <2>1, <1>3 DEF RaisedAgree
<1>5. CASE o = "ok"
  <2>1. nodes' = [nodes EXCEPT ![n] = record]
    BY <1>5 DEF Ingest, Adopted, record
  <2>2. Commit([m \in {n} |-> record])
    BY <1>5 DEF Ingest, Recorded, record
  <2>3. db' = [m \in Node |-> IF m \in {n} THEN record ELSE db[m]]
    BY <2>2 DEF Commit
  <2> QED  BY <2>1, <2>3, <1>1, <1>2, <1>3 DEF RaisedAgree, NodeRecord
<1> QED  BY <1>4, <1>5, MonitorAssumption

LEMMA AgreePass ==
    ASSUME IInv, RaisedAgree, NEW done \in SUBSET Node,
           Pass(done, Eventful(done))
    PROVE  RaisedAgree'
<1>1. /\ nodes \in [Node -> NodeRecord] /\ db \in [Node -> NodeRecord]
      /\ TypeOK
  BY DEF IInv, TypeOK
<1>2. /\ up /\ up' = up /\ rules' = rules /\ dbRules' = dbRules
      /\ nodes' = [n \in Node |-> IF n \in done THEN Reevaluated(n)
                                  ELSE nodes[n]]
      /\ db' = [n \in Node |-> IF n \in Eventful(done) THEN Reevaluated(n)
                               ELSE db[n]]
  BY DEF Pass, Commit
<1>3. Eventful(done) \subseteq done
  BY DEF Eventful
<1>4. rules' = dbRules'
  BY <1>2 DEF RaisedAgree
<1>5. ASSUME NEW n \in Node
      PROVE  /\ [nodes'[n] EXCEPT !.states = db'[n].states] = db'[n]
             /\ \A k \in Kind :
                   nodes'[n].states[k].active = db'[n].states[k].active
  <2>1. /\ Reevaluated(n) \in NodeRecord
        /\ [Reevaluated(n) EXCEPT !.states = nodes[n].states] = nodes[n]
    BY <1>1, ReevaluatedRecord
  <2>2. /\ [nodes[n] EXCEPT !.states = db[n].states] = db[n]
        /\ \A k \in Kind : nodes[n].states[k].active = db[n].states[k].active
    BY <1>2 DEF RaisedAgree
  <2>3. CASE n \in Eventful(done)
    <3>1. nodes'[n] = Reevaluated(n) /\ db'[n] = Reevaluated(n)
      BY <2>3, <1>2, <1>3
    <3> QED  BY <3>1, <2>1 DEF NodeRecord
  <2>4. CASE n \in done /\ n \notin Eventful(done)
    <3>1. nodes'[n] = Reevaluated(n) /\ db'[n] = db[n]
      BY <2>4, <1>2
    <3>2. Changed(nodes[n], Reevaluated(n)) = {}
      BY <2>4 DEF Eventful, EventsOf
    <3>3. \A k \in Kind : Reevaluated(n).states[k].active
                          = nodes[n].states[k].active
      BY <3>2 DEF Changed
    <3>4. [Reevaluated(n) EXCEPT !.states = db[n].states]
            = [[Reevaluated(n) EXCEPT !.states = nodes[n].states]
                 EXCEPT !.states = db[n].states]
      BY <2>1 DEF NodeRecord
    <3> QED  BY <3>1, <3>3, <3>4, <2>1, <2>2
  <2>5. CASE n \notin done
    <3>1. nodes'[n] = nodes[n] /\ db'[n] = db[n]
      BY <2>5, <1>2, <1>3
    <3> QED  BY <3>1, <2>2
  <2> QED  BY <2>3, <2>4, <2>5, <1>3
<1> QED  BY <1>4, <1>5 DEF RaisedAgree

LEMMA AgreeUpdate ==
    ASSUME IInv, RaisedAgree, NEW n \in Node,
           NEW r \in RuleSet \cup {NoRules},
           NEW o \in Outcomes, o # "lost", UpdateNode(n, r, o)
    PROVE  RaisedAgree'
<1> DEFINE record == Edited(n, r)
<1>1. nodes \in [Node -> NodeRecord] /\ db \in [Node -> NodeRecord]
  BY DEF IInv, TypeOK
<1>2. record \in NodeRecord
  BY EditedRecord DEF IInv
<1>3. up /\ up' = up /\ rules' = rules /\ dbRules' = dbRules
  BY DEF UpdateNode
<1> HIDE DEF record
<1>4. CASE o = "error"
  <2>1. db' = db /\ nodes' = nodes
    BY <1>4 DEF UpdateNode, Recorded, Adopted
  <2> QED  BY <2>1, <1>3 DEF RaisedAgree
<1>5. CASE o = "ok"
  <2>1. nodes' = [nodes EXCEPT ![n] = record]
    BY <1>5 DEF UpdateNode, Adopted, record
  <2>2. Commit([m \in {n} |-> record])
    BY <1>5 DEF UpdateNode, Recorded, record
  <2>3. db' = [m \in Node |-> IF m \in {n} THEN record ELSE db[m]]
    BY <2>2 DEF Commit
  <2> QED  BY <2>1, <2>3, <1>1, <1>2, <1>3 DEF RaisedAgree, NodeRecord
<1> QED  BY <1>4, <1>5, MonitorAssumption

LEMMA AgreeStep ==
    ASSUME "lost" \notin Outcomes
    PROVE  IInv /\ RaisedAgree /\ [Next]_vars => RaisedAgree'
<1> SUFFICES ASSUME IInv, RaisedAgree, [Next]_vars PROVE RaisedAgree'
  OBVIOUS
<1>1. CASE \E n \in Node, snap \in Snapshot, o \in Outcomes :
             Ingest(n, snap, o)
  BY <1>1, AgreeIngest
<1>2. CASE Tick
  BY <1>2, AgreePass DEF Tick
<1>3. CASE \E done \in SUBSET Node, n \in Node, o \in Outcomes :
             TickFails(done, n, o)
  <2>1. PICK done \in SUBSET Node, n \in Node, o \in Outcomes :
            TickFails(done, n, o)
    BY <1>3
  <2>2. o # "lost"
    OBVIOUS
  <2>3. Pass(done, Eventful(done))
    BY <2>1, <2>2 DEF TickFails
  <2> QED  BY <2>3, AgreePass
<1>4. CASE \E n \in Node, r \in RuleSet \cup {NoRules}, o \in Outcomes :
             UpdateNode(n, r, o)
  BY <1>4, AgreeUpdate
<1>5. CASE \E r \in RuleSet, o \in Outcomes : PutSettings(r, o)
  <2>1. PICK r \in RuleSet, o \in Outcomes : PutSettings(r, o)
    BY <1>5
  <2>2. o = "ok" \/ o = "error"
    BY MonitorAssumption
  <2>3. rules' = dbRules' /\ UNCHANGED <<up, nodes, db>>
    BY <2>1, <2>2 DEF PutSettings, RaisedAgree
  <2> QED  BY <2>3 DEF RaisedAgree
<1>6. CASE Prune
  BY <1>6 DEF Prune, RaisedAgree, memory
<1>7. CASE Crash
  BY <1>7 DEF Crash, RaisedAgree
<1>8. CASE Start
  <2>1. nodes' = db' /\ rules' = dbRules' /\ db' \in [Node -> NodeRecord]
    BY <1>8 DEF Start, tables, IInv, TypeOK
  <2> QED  BY <2>1 DEF RaisedAgree, NodeRecord
<1>9. CASE \E d \in ClockStep : Advance(d)
  BY <1>9 DEF Advance, RaisedAgree, memory, tables
<1>10. CASE UNCHANGED vars
  BY <1>10 DEF vars, RaisedAgree, memory, tables
<1> QED
  BY <1>1, <1>2, <1>3, <1>4, <1>5, <1>6, <1>7, <1>8, <1>9, <1>10 DEF Next

LEMMA AgreeInit == Init => RaisedAgree
  BY DEF Init, RaisedAgree, Fresh

LEMMA RaisedAgreement ==
    ASSUME "lost" \notin Outcomes
    PROVE  Spec => []RaisedAgree
<1>1. IInv /\ RaisedAgree /\ [Next]_vars => RaisedAgree'
  BY AgreeStep
<1> QED  BY <1>1, AgreeInit, Invariance, PTL DEF Spec

(* What the pending states add. Only an ingest can ripen a pending alarm:   *)
(* between two ingests its observation stands still, so it is short of the  *)
(* hold time in memory and in the table, whichever is the older.            *)

Unripe(n, now) ==
    /\ n.lastSeen <= now
    /\ \A k \in Kind :
          LET s == n.states[k]
          IN  /\ s.since <= now
              /\ s.active => s.since # 0
              /\ Pending(s) => n.lastSeen - s.since < s.hold * Sec

DriftInv ==
    /\ clock # 0
    /\ \A n \in Node : Unripe(nodes[n], clock) /\ Unripe(db[n], clock)
    /\ up => \A n \in Node, k \in Kind :
                StatesAgree(nodes[n].states[k], db[n].states[k])

\* How Judge moves a state.
LEMMA JudgeAges ==
    ASSUME NEW s \in AlarmState, NEW over \in BOOLEAN, NEW threshold \in Nat,
           NEW hold \in Nat, NEW observed \in Int, NEW now \in Nat, now # 0,
           s.since <= now, s.active => s.since # 0
    PROVE  LET j == Judge(s, over, threshold, hold, observed, now)
           IN  /\ j.since <= now
               /\ j.active => j.since # 0
               /\ j.active => over
               /\ s.active => j.active = over
               /\ hold = 0 => j.active = over
               /\ s.active /\ j.active => j.since = s.since
               /\ j.since \in {0, s.since, now}
               /\ Pending(j) => observed - j.since < j.hold * Sec
<1> DEFINE changed == ~s.active /\ (s.threshold # threshold \/ s.hold # hold)
           start   == IF changed THEN 0 ELSE s.since
           since   == IF over /\ start = 0 THEN now ELSE start
           active  == over /\ \/ s.active
                              \/ hold = 0
                              \/ observed - since >= hold * Sec
           j       == Judge(s, over, threshold, hold, observed, now)
           kept    == IF over THEN since ELSE 0
<1>1. /\ s.since \in Nat /\ s.active \in BOOLEAN /\ since \in Nat
      /\ since <= now /\ since \in {0, s.since, now}
      /\ over => since # 0
      /\ s.active /\ over => since = s.since
  BY DEF AlarmState
<1>2. hold * Sec \in Nat
  BY SecAssumption
<1>3. j = [since |-> kept, active |-> active, threshold |-> threshold,
           hold |-> hold]
  BY DEF Judge
<1>4. /\ active \in BOOLEAN /\ (active => over)
      /\ s.active => active = over
      /\ hold = 0 => active = over
      /\ over /\ ~active => ~(observed - since >= hold * Sec)
  BY <1>1
<1> HIDE DEF since, active, j
<1>5. j.since = kept /\ j.active = active /\ j.hold = hold
  BY <1>3
<1>6. kept <= now /\ kept \in {0, s.since, now} /\ (over => kept = since)
  BY <1>1
<1>7. ASSUME ~active, kept # 0 PROVE observed - kept < hold * Sec
  <2>1. over /\ kept = since
    BY <1>7
  <2> QED  BY <2>1, <1>1, <1>2, <1>4, <1>7
<1> HIDE DEF kept
<1> QED  BY <1>1, <1>4, <1>5, <1>6, <1>7 DEF j, Pending

\* The state is not pending, or short of its hold time.
Short(s, observed) == s.since # 0 => observed - s.since < s.hold * Sec

\* A state short of its hold time is not raised by judging it again.
LEMMA JudgeUnripe ==
    ASSUME NEW s \in AlarmState, NEW over \in BOOLEAN, NEW threshold \in Nat,
           NEW hold \in Nat, NEW observed \in Int, NEW now \in Nat,
           hold # 0, observed <= now, ~s.active, Short(s, observed)
    PROVE  /\ Judge(s, over, threshold, hold, observed, now).active \in BOOLEAN
           /\ ~Judge(s, over, threshold, hold, observed, now).active
<1> DEFINE changed == s.threshold # threshold \/ s.hold # hold
           start   == IF changed THEN 0 ELSE s.since
           since   == IF over /\ start = 0 THEN now ELSE start
<1>1. hold * Sec \in Nat /\ hold * Sec > 0
  BY SecAssumption
<1>2. ASSUME over PROVE observed - since < hold * Sec
  <2>1. CASE start = 0
    BY <2>1, <1>1, <1>2
  <2>2. CASE start # 0
    <3>1. since = s.since /\ s.hold = hold /\ s.since # 0
      BY <2>2
    <3> QED  BY <3>1 DEF Short
  <2> QED  BY <2>1, <2>2
<1>3. since \in Nat
  BY DEF AlarmState
<1>4. over => ~(observed - since >= hold * Sec)
  BY <1>1, <1>2, <1>3
<1>5. Judge(s, over, threshold, hold, observed, now).active
        = (over /\ observed - since >= hold * Sec)
  BY DEF Judge
<1> QED  BY <1>4, <1>5

\* The arguments Evaluate judges a state with.
LEMMA JudgedWith ==
    ASSUME NEW n \in NodeRecord, NEW r \in Rules, NEW now \in Nat, NEW k \in Kind
    PROVE  /\ n.states[k] \in AlarmState
           /\ Threshold(k, r) \in Nat /\ Hold(k, r) \in Nat
           /\ Over(k, n, r, now) \in BOOLEAN
           /\ Observed(k, n, now) \in Int
           /\ Hold(k, r) # 0 => Observed(k, n, now) = n.lastSeen
<1>1. n.states[k] \in AlarmState /\ n.lastSeen \in Nat
  BY DEF NodeRecord
<1>2. Threshold(k, r) \in Nat /\ Hold(k, r) \in Nat
  BY DEF Threshold, Hold, Kind, Rules
<1>3. Over(k, n, r, now) \in BOOLEAN
  <2>1. CASE k = "offline"
    BY <2>1 DEF Over, Offline
  <2>2. CASE k # "offline"
    BY <2>2 DEF Over, Above
  <2> QED  BY <2>1, <2>2
<1>4. /\ Observed(k, n, now) \in Int
      /\ Hold(k, r) # 0 => Observed(k, n, now) = n.lastSeen
  BY <1>1 DEF Observed, Hold
<1> QED  BY <1>1, <1>2, <1>3, <1>4

\* How Evaluate moves a state: every pending state of the result is short of
\* its hold time.
LEMMA EvaluateAges ==
    ASSUME NEW n \in NodeRecord, NEW r \in Rules, NEW now \in Nat, now # 0,
           n.lastSeen <= now,
           \A k \in Kind : /\ n.states[k].since <= now
                           /\ n.states[k].active => n.states[k].since # 0,
           n.latest = NoSample => Unripe(n, now)
    PROVE  LET e == Evaluate(n, r, now)
           IN  /\ Unripe(e, now)
               /\ \A k \in Kind :
                     /\ n.states[k].active /\ e.states[k].active
                          => e.states[k].since = n.states[k].since
                     /\ e.states[k].since \in {0, n.states[k].since, now}
<1> DEFINE e == Evaluate(n, r, now)
<1>1. e.lastSeen = n.lastSeen /\ n.lastSeen \in Nat
  BY EvaluatedFields DEF NodeRecord
<1>2. ASSUME NEW k \in Kind
      PROVE  /\ e.states[k].since <= now
             /\ e.states[k].active => e.states[k].since # 0
             /\ Pending(e.states[k])
                  => n.lastSeen - e.states[k].since < e.states[k].hold * Sec
             /\ n.states[k].active /\ e.states[k].active
                  => e.states[k].since = n.states[k].since
             /\ e.states[k].since \in {0, n.states[k].since, now}
  <2> DEFINE s == n.states[k]
             j == Judge(s, Over(k, n, r, now), Threshold(k, r), Hold(k, r),
                        Observed(k, n, now), now)
  <2>1. /\ s \in AlarmState /\ s.since <= now /\ (s.active => s.since # 0)
        /\ s.since \in Nat /\ s.active \in BOOLEAN
    BY JudgedWith DEF AlarmState
  <2>2. CASE k \in Judged(n, r, now)
    <3>1. e.states[k] = j
      BY <2>2, EvaluatedState
    <3>2. /\ j.since <= now /\ (j.active => j.since # 0)
          /\ j.active => Over(k, n, r, now)
          /\ Hold(k, r) = 0 => j.active = Over(k, n, r, now)
          /\ s.active /\ j.active => j.since = s.since
          /\ j.since \in {0, s.since, now}
          /\ Pending(j) => Observed(k, n, now) - j.since < j.hold * Sec
      BY <2>1, JudgedWith, JudgeAges
    <3>3. Pending(j) => n.lastSeen - j.since < j.hold * Sec
      <4>1. CASE Hold(k, r) # 0
        BY <4>1, <3>2, JudgedWith
      <4>2. CASE Hold(k, r) = 0
        <5>1. ~j.active => j.since = 0
          BY <4>2, <3>2 DEF Judge
        <5> QED  BY <5>1 DEF Pending
      <4> QED  BY <4>1, <4>2
    <3> HIDE DEF j
    <3> QED  BY <3>1, <3>2, <3>3
  <2>3. CASE k \notin Judged(n, r, now)
    <3>1. e.states[k] = Unjudged(s, n, r, now)
      BY <2>3, EvaluatedState
    <3>2. CASE Offline(n, r, now) \/ n.latest # NoSample
      <4>1. e.states[k] = Restart(s)
        BY <3>1, <3>2 DEF Unjudged
      <4>2. /\ Restart(s).active = s.active
            /\ Restart(s).since = IF s.active THEN s.since ELSE 0
        BY <2>1 DEF Restart, AlarmState
      <4> QED  BY <4>1, <4>2, <2>1 DEF Pending
    <3>3. CASE ~Offline(n, r, now) /\ n.latest = NoSample
      <4>1. e.states[k] = s
        BY <3>1, <3>3 DEF Unjudged
      <4>2. Pending(s) => n.lastSeen - s.since < s.hold * Sec
        BY <3>3 DEF Unripe
      <4> QED  BY <4>1, <4>2, <2>1
    <3> QED  BY <3>2, <3>3
  <2> QED  BY <2>2, <2>3
<1> HIDE DEF e
<1>3. Unripe(e, now)
  BY <1>1, <1>2 DEF Unripe
<1> QED  BY <1>2, <1>3 DEF e

LEMMA UnripeLater ==
    ASSUME NEW n \in NodeRecord, NEW now \in Nat, NEW later \in Nat,
           now <= later, Unripe(n, now)
    PROVE  Unripe(n, later)
<1>1. n.lastSeen \in Nat /\ \A k \in Kind : n.states[k].since \in Nat
  BY DEF NodeRecord, AlarmState
<1> QED  BY <1>1 DEF Unripe

\* Two records whose states agree give the same verdict.
LEMMA SameVerdict ==
    ASSUME NEW m \in NodeRecord, NEW d \in NodeRecord, NEW r \in Rules,
           NEW now \in Nat, now # 0, Unripe(m, now), Unripe(d, now),
           [m EXCEPT !.states = d.states] = d,
           \A k \in Kind : m.states[k].active = d.states[k].active
    PROVE  Changed(m, Evaluate(m, r, now)) = Changed(d, Evaluate(d, r, now))
<1>1. /\ d.latest = m.latest /\ d.lastSeen = m.lastSeen
      /\ d.created = m.created
  BY DEF NodeRecord
<1>2. /\ Judged(d, r, now) = Judged(m, r, now)
      /\ \A k \in Kind : /\ Over(k, d, r, now) = Over(k, m, r, now)
                         /\ Observed(k, d, now) = Observed(k, m, now)
  BY <1>1 DEF Judged, Over, Observed, Offline, LastHeard
<1>3. ASSUME NEW k \in Kind
      PROVE  Evaluate(m, r, now).states[k].active
               = Evaluate(d, r, now).states[k].active
  <2>1. CASE k \notin Judged(m, r, now)
    <3>1. ASSUME NEW n \in {m, d}
          PROVE  Evaluate(n, r, now).states[k].active = n.states[k].active
      <4>1. n \in NodeRecord /\ k \notin Judged(n, r, now)
        BY <1>2, <2>1
      <4>2. Evaluate(n, r, now).states[k] = Unjudged(n.states[k], n, r, now)
        BY <4>1, EvaluatedState
      <4>3. n.states[k] \in AlarmState
        BY <4>1, JudgedWith
      <4> QED  BY <4>2, <4>3, RestartState DEF Unjudged
    <3> QED  BY <3>1
  <2>2. CASE k \in Judged(m, r, now)
    <3> DEFINE over == Over(k, m, r, now)
               observed == Observed(k, m, now)
               judge(s) == Judge(s, over, Threshold(k, r), Hold(k, r),
                                 observed, now)
    <3>1. /\ Evaluate(m, r, now).states[k] = judge(m.states[k])
          /\ Evaluate(d, r, now).states[k] = judge(d.states[k])
      BY <1>2, <2>2, EvaluatedState
    <3>2. /\ m.states[k] \in AlarmState /\ d.states[k] \in AlarmState
          /\ Threshold(k, r) \in Nat /\ Hold(k, r) \in Nat
          /\ over \in BOOLEAN /\ observed \in Int
          /\ Hold(k, r) # 0 => observed = m.lastSeen
      BY JudgedWith
    <3>3. ASSUME NEW n \in {m, d},
                 m.states[k].active \/ Hold(k, r) = 0
          PROVE  judge(n.states[k]).active = over
      <4>1. /\ n.states[k].since <= now
            /\ n.states[k].active => n.states[k].since # 0
            /\ n.states[k].active = m.states[k].active
            /\ n.states[k] \in AlarmState
        BY <3>2 DEF Unripe
      <4> HIDE DEF over, observed
      <4> QED  BY <4>1, <3>2, <3>3, JudgeAges
    <3>4. ASSUME NEW n \in {m, d},
                 ~m.states[k].active, Hold(k, r) # 0
          PROVE  judge(n.states[k]).active \in BOOLEAN /\ ~judge(n.states[k]).active
      <4>1. /\ ~n.states[k].active /\ n.states[k] \in AlarmState
            /\ Short(n.states[k], observed)
            /\ observed <= now
        BY <1>1, <3>2, <3>4 DEF Unripe, Pending, Short
      <4>2. Threshold(k, r) \in Nat /\ Hold(k, r) \in Nat /\ Hold(k, r) # 0
        BY <3>2, <3>4
      <4>3. over \in BOOLEAN /\ observed \in Int /\ now \in Nat
        BY <3>2
      <4> HIDE DEF over, observed
      <4> QED  BY <4>1, <4>2, <4>3, JudgeUnripe
    <3> HIDE DEF judge
    <3>5. CASE m.states[k].active \/ Hold(k, r) = 0
      <4>1. judge(m.states[k]).active = over /\ judge(d.states[k]).active = over
        BY <3>3, <3>5
      <4> QED  BY <4>1, <3>1
    <3>6. CASE ~(m.states[k].active \/ Hold(k, r) = 0)
      <4>1. /\ judge(m.states[k]).active \in BOOLEAN /\ ~judge(m.states[k]).active
            /\ judge(d.states[k]).active \in BOOLEAN /\ ~judge(d.states[k]).active
        BY <3>4, <3>6
      <4> QED  BY <4>1, <3>1
    <3> QED  BY <3>5, <3>6
  <2> QED  BY <2>1, <2>2
<1> QED  BY <1>3 DEF Changed


LEMMA EffectiveHere ==
    ASSUME TypeOK, NEW n \in Node
    PROVE  Effective(rules, nodes[n].rules) \in Rules
<1>1. nodes[n].rules \in Rules \cup {NoRules} /\ rules \in Rules
  BY DEF TypeOK, NodeRecord
<1> QED  BY <1>1, EffectiveRules

\* An ingest leaves no pending alarm that is ripe.
LEMMA IngestedUnripe ==
    ASSUME IInv, DriftInv, NEW n \in Node, NEW snap \in Snapshot
    PROVE  Unripe(Ingested(n, snap), clock)
<1> DEFINE r == Effective(rules, nodes[n].rules)
           f == Folded(nodes[n], snap, r, clock)
<1>1. nodes[n] \in NodeRecord /\ clock \in Nat /\ clock # 0 /\ TypeOK
  BY DEF IInv, TypeOK, DriftInv
<1>2. r \in Rules
  BY <1>1, EffectiveHere
<1>3. snap \in [time : Int, boot : Boot, usage : Usage]
  <2>1. {clock + s : s \in Skew} \subseteq Int
    BY <1>1, MonitorAssumption
  <2> QED  BY <2>1 DEF Snapshot
<1>4. f \in NodeRecord /\ f.lastSeen = clock
  BY <1>1, <1>2, <1>3, FoldedRecord
<1>5. f.latest # NoSample
  <2>1. f.latest = [time |-> snap.time, boot |-> snap.boot,
                    metrics |-> Derive(nodes[n].latest, snap)]
    BY <1>1 DEF Folded, NodeRecord
  <2>2. f.latest.boot = snap.boot
    BY <2>1
  <2>3. f.latest \in Sample
    <3>1. snap.usage \in Metrics
      BY <1>3, MonitorAssumption
    <3>2. [snap.usage EXCEPT !.cpu = NoCPU] \in Metrics
      BY <3>1 DEF Metrics
    <3>3. Derive(nodes[n].latest, snap) \in Metrics
      BY <3>1, <3>2 DEF Derive
    <3> QED  BY <2>1, <1>3, <3>3 DEF Sample
  <2> QED  BY <2>3, MonitorAssumption
<1>6. ASSUME NEW k \in Kind
      PROVE  /\ f.states[k].since <= clock
             /\ f.states[k].active => f.states[k].since # 0
  <2> DEFINE s == nodes[n].states[k]
  <2>1. s \in AlarmState /\ s.since <= clock /\ (s.active => s.since # 0)
    BY <1>1 DEF NodeRecord, DriftInv, Unripe
  <2>2. f.states[k] = s \/ f.states[k] = Restart(s)
    <3>1. f.states = IF Interrupted(nodes[n], snap, r, clock)
                     THEN [m \in Kind |-> Restart(nodes[n].states[m])]
                     ELSE nodes[n].states
      BY <1>1 DEF Folded, NodeRecord
    <3> QED  BY <3>1
  <2>3. /\ Restart(s).active = s.active
        /\ Restart(s).since = IF s.active THEN s.since ELSE 0
    BY <2>1 DEF Restart, AlarmState
  <2> HIDE DEF s, f
  <2> QED  BY <2>1, <2>2, <2>3, <1>1
<1>7. Ingested(n, snap) = Evaluate(f, r, clock)
  BY DEF Ingested
<1> HIDE DEF f, r
<1>8. f.lastSeen <= clock
  BY <1>1, <1>4
<1> QED  BY <1>1, <1>2, <1>4, <1>5, <1>6, <1>7, <1>8, EvaluateAges

\* A pass leaves none either, and moves the states as StatesAgree allows.
LEMMA ReevaluatedUnripe ==
    ASSUME IInv, DriftInv, NEW n \in Node
    PROVE  /\ Unripe(Reevaluated(n), clock)
           /\ \A k \in Kind :
                 LET s == nodes[n].states[k]  e == Reevaluated(n).states[k]
                 IN  /\ s.active /\ e.active => e.since = s.since
                     /\ e.since \in {0, s.since, clock}
<1>1. nodes[n] \in NodeRecord /\ clock \in Nat /\ clock # 0 /\ TypeOK
  BY DEF IInv, TypeOK, DriftInv
<1>2. Unripe(nodes[n], clock)
  BY DEF DriftInv
<1>3. /\ nodes[n].lastSeen <= clock
      /\ \A k \in Kind : /\ nodes[n].states[k].since <= clock
                         /\ nodes[n].states[k].active
                              => nodes[n].states[k].since # 0
  BY <1>2 DEF Unripe
<1>4. Effective(rules, nodes[n].rules) \in Rules
  BY <1>1, EffectiveHere
<1> QED  BY <1>1, <1>2, <1>3, <1>4, EvaluateAges DEF Reevaluated

\* A record written to memory and table agrees with itself.
LEMMA SelfAgrees ==
    ASSUME NEW n \in NodeRecord, NEW k \in Kind
    PROVE  StatesAgree(n.states[k], n.states[k])
<1>1. n.states[k].since \in Nat
  BY DEF NodeRecord, AlarmState
<1> QED  BY <1>1 DEF StatesAgree

\* A handler that writes record new of node n, or nothing.
LEMMA WriteDrift ==
    ASSUME IInv, DriftInv, NEW n \in Node, NEW STATE new,
           new \in NodeRecord, Unripe(new, clock),
           clock' = clock, up' = up,
           \/ nodes' = nodes /\ db' = db
           \/ /\ nodes' = [nodes EXCEPT ![n] = new]
              /\ db' = [m \in Node |-> IF m \in {n} THEN new ELSE db[m]]
    PROVE  DriftInv'
<1>1. nodes \in [Node -> NodeRecord] /\ db \in [Node -> NodeRecord]
  BY DEF IInv, TypeOK
<1>2. CASE nodes' = nodes /\ db' = db
  BY <1>2 DEF DriftInv
<1>3. CASE /\ nodes' = [nodes EXCEPT ![n] = new]
           /\ db' = [m \in Node |-> IF m \in {n} THEN new ELSE db[m]]
  <2>1. ASSUME NEW m \in Node
        PROVE  /\ nodes'[m] = IF m = n THEN new ELSE nodes[m]
               /\ db'[m] = IF m = n THEN new ELSE db[m]
    BY <1>1, <1>3
  <2>2. \A m \in Node : Unripe(nodes'[m], clock) /\ Unripe(db'[m], clock)
    BY <2>1 DEF DriftInv
  <2>3. up => \A m \in Node, k \in Kind :
                 StatesAgree(nodes'[m].states[k], db'[m].states[k])
    BY <2>1, SelfAgrees DEF DriftInv
  <2> QED  BY <2>2, <2>3 DEF DriftInv
<1> QED  BY <1>2, <1>3

LEMMA PassDrift ==
    ASSUME IInv, RaisedAgree, DriftInv, NEW done \in SUBSET Node,
           Pass(done, Eventful(done))
    PROVE  DriftInv'
<1>1. nodes \in [Node -> NodeRecord] /\ db \in [Node -> NodeRecord] /\ TypeOK
  BY DEF IInv, TypeOK
<1>2. /\ up /\ up' = up /\ clock' = clock /\ clock \in Nat
      /\ nodes' = [n \in Node |-> IF n \in done THEN Reevaluated(n)
                                  ELSE nodes[n]]
      /\ db' = [n \in Node |-> IF n \in Eventful(done) THEN Reevaluated(n)
                               ELSE db[n]]
  BY <1>1 DEF Pass, Commit, TypeOK
<1>3. Eventful(done) \subseteq done
  BY DEF Eventful
<1>4. \A n \in Node : Unripe(nodes'[n], clock) /\ Unripe(db'[n], clock)
  BY <1>2, ReevaluatedUnripe DEF DriftInv
<1>5. ASSUME NEW n \in Node, NEW k \in Kind
      PROVE  StatesAgree(nodes'[n].states[k], db'[n].states[k])
  <2> DEFINE e == Reevaluated(n).states[k]
             s == nodes[n].states[k]
             d == db[n].states[k]
  <2>1. StatesAgree(s, d)
    BY <1>2 DEF DriftInv
  <2>2. CASE n \in Eventful(done)
    <3>1. nodes'[n] = Reevaluated(n) /\ db'[n] = Reevaluated(n)
      BY <2>2, <1>2, <1>3
    <3> QED  BY <3>1, <1>1, ReevaluatedRecord, SelfAgrees
  <2>3. CASE n \in done /\ n \notin Eventful(done)
    <3>1. nodes'[n].states[k] = e /\ db'[n].states[k] = d
      BY <2>3, <1>2
    <3>2. Changed(nodes[n], Reevaluated(n)) = {}
      BY <2>3 DEF Eventful, EventsOf
    <3>3. e.active = s.active
      BY <3>2 DEF Changed
    <3>4. /\ s.active /\ e.active => e.since = s.since
          /\ e.since \in {0, s.since, clock}
      BY ReevaluatedUnripe
    <3>5. d.since <= clock
      BY DEF DriftInv, Unripe
    <3> HIDE DEF e, s, d
    <3>6. StatesAgree(e, d)
      BY <2>1, <3>3, <3>4, <3>5 DEF StatesAgree
    <3> QED  BY <3>1, <3>6
  <2>4. CASE n \notin done
    <3>1. nodes'[n] = nodes[n] /\ db'[n] = db[n]
      BY <2>4, <1>2, <1>3
    <3> QED  BY <3>1, <2>1
  <2> QED  BY <2>2, <2>3, <2>4
<1> QED  BY <1>2, <1>4, <1>5 DEF DriftInv

LEMMA DriftStep ==
    ASSUME "lost" \notin Outcomes
    PROVE  IInv /\ RaisedAgree /\ DriftInv /\ [Next]_vars => DriftInv'
<1> SUFFICES ASSUME IInv, RaisedAgree, DriftInv, [Next]_vars PROVE DriftInv'
  OBVIOUS
<1>1. nodes \in [Node -> NodeRecord] /\ db \in [Node -> NodeRecord]
      /\ clock \in Nat /\ TypeOK
  BY DEF IInv, TypeOK
<1>2. CASE \E n \in Node, snap \in Snapshot, o \in Outcomes :
             Ingest(n, snap, o)
  <2>1. PICK n \in Node, snap \in Snapshot, o \in Outcomes :
            Ingest(n, snap, o)
    BY <1>2
  <2>2. Ingested(n, snap) \in NodeRecord /\ Unripe(Ingested(n, snap), clock)
    BY <1>1, IngestedRecord, IngestedUnripe
  <2>3. \/ nodes' = nodes /\ db' = db
        \/ /\ nodes' = [nodes EXCEPT ![n] = Ingested(n, snap)]
           /\ db' = [m \in Node |-> IF m \in {n} THEN Ingested(n, snap)
                                    ELSE db[m]]
    <3>1. o = "ok" \/ o = "error"
      BY MonitorAssumption
    <3>2. Recorded(o, [m \in {n} |-> Ingested(n, snap)])
          /\ Adopted(o, n, Ingested(n, snap))
      BY <2>1 DEF Ingest
    <3> QED  BY <3>1, <3>2 DEF Recorded, Adopted, Commit
  <2>4. clock' = clock /\ up' = up
    BY <2>1 DEF Ingest
  <2> QED  BY <2>2, <2>3, <2>4, WriteDrift
<1>3. CASE Tick
  BY <1>3, PassDrift DEF Tick
<1>4. CASE \E done \in SUBSET Node, n \in Node, o \in Outcomes :
             TickFails(done, n, o)
  <2>1. PICK done \in SUBSET Node, n \in Node, o \in Outcomes :
            TickFails(done, n, o)
    BY <1>4
  <2>2. o # "lost"
    OBVIOUS
  <2>3. Pass(done, Eventful(done))
    BY <2>1, <2>2 DEF TickFails
  <2> QED  BY <2>3, PassDrift
<1>5. CASE \E n \in Node, r \in RuleSet \cup {NoRules}, o \in Outcomes :
             UpdateNode(n, r, o)
  <2>1. PICK n \in Node, r \in RuleSet \cup {NoRules}, o \in Outcomes :
            UpdateNode(n, r, o)
    BY <1>5
  <2>2. Edited(n, r) \in NodeRecord /\ Unripe(Edited(n, r), clock)
    BY <1>1, EditedRecord DEF DriftInv, Unripe
  <2>3. \/ nodes' = nodes /\ db' = db
        \/ /\ nodes' = [nodes EXCEPT ![n] = Edited(n, r)]
           /\ db' = [m \in Node |-> IF m \in {n} THEN Edited(n, r)
                                    ELSE db[m]]
    <3>1. o = "ok" \/ o = "error"
      BY MonitorAssumption
    <3>2. Recorded(o, [m \in {n} |-> Edited(n, r)])
          /\ Adopted(o, n, Edited(n, r))
      BY <2>1 DEF UpdateNode
    <3> QED  BY <3>1, <3>2 DEF Recorded, Adopted, Commit
  <2>4. clock' = clock /\ up' = up
    BY <2>1 DEF UpdateNode
  <2> QED  BY <2>2, <2>3, <2>4, WriteDrift
<1>6. CASE \E r \in RuleSet, o \in Outcomes : PutSettings(r, o)
  BY <1>6 DEF PutSettings, DriftInv
<1>7. CASE Prune
  BY <1>7 DEF Prune, DriftInv, memory
<1>8. CASE Crash
  BY <1>8 DEF Crash, DriftInv, memory, tables
<1>9. CASE Start
  <2>1. nodes' = db /\ db' = db /\ clock' = clock
    BY <1>9 DEF Start, tables
  <2>2. \A n \in Node, k \in Kind :
            StatesAgree(nodes'[n].states[k], db'[n].states[k])
    BY <2>1, <1>1, SelfAgrees
  <2> QED  BY <2>1, <2>2 DEF DriftInv
<1>10. CASE \E d \in ClockStep : Advance(d)
  <2>1. PICK d \in ClockStep : Advance(d)
    BY <1>10
  <2>2. /\ clock' = clock + d /\ d \in Nat
        /\ nodes' = nodes /\ db' = db /\ up' = up
    BY <2>1, MonitorAssumption DEF Advance, memory, tables
  <2>3. clock' \in Nat /\ clock <= clock' /\ clock' # 0
    BY <1>1, <2>2 DEF DriftInv
  <2>4. \A n \in Node : Unripe(nodes[n], clock') /\ Unripe(db[n], clock')
    BY <1>1, <2>3, UnripeLater DEF DriftInv
  <2> QED  BY <2>2, <2>3, <2>4 DEF DriftInv
<1>11. CASE UNCHANGED vars
  BY <1>11 DEF vars, DriftInv, memory, tables
<1> QED
  BY <1>2, <1>3, <1>4, <1>5, <1>6, <1>7, <1>8, <1>9, <1>10, <1>11 DEF Next

LEMMA DriftInit == Init => DriftInv
<1> SUFFICES ASSUME Init PROVE DriftInv
  OBVIOUS
<1>1. /\ Fresh.lastSeen = 0
      /\ \A k \in Kind : Fresh.states[k] = Quiet
  BY DEF Fresh
<1>2. Quiet.since = 0 /\ Quiet.active = FALSE
  BY DEF Quiet
<1>3. clock = 1 /\ \A n \in Node : nodes[n] = Fresh /\ db[n] = Fresh
  BY DEF Init
<1>4. Unripe(Fresh, 1)
  BY <1>1, <1>2 DEF Unripe, Pending
<1>5. \A k \in Kind : StatesAgree(Fresh.states[k], Fresh.states[k])
  BY <1>1, <1>2 DEF StatesAgree
<1> QED  BY <1>3, <1>4, <1>5 DEF DriftInv

\* Unless the answer of a commit is lost, what a restart would load differs
\* from the memory of a running server at most in the age of pending alarms
\* and in the thresholds and hold times alarms were last judged by, and from
\* either the ticker raises and clears the same alarms.
THEOREM MemoryIsDurable ==
    ASSUME "lost" \notin Outcomes
    PROVE  Spec => []MemoryAgrees
<1>1. IInv /\ RaisedAgree /\ DriftInv => MemoryAgrees
  <2> SUFFICES ASSUME IInv, RaisedAgree, DriftInv, up,
                      NEW n \in Node
               PROVE  /\ \A k \in Kind :
                           StatesAgree(nodes[n].states[k], db[n].states[k])
                      /\ Verdict(nodes[n], rules) = Verdict(db[n], dbRules)
    BY DEF RaisedAgree, MemoryAgrees
  <2>1. /\ nodes[n] \in NodeRecord /\ db[n] \in NodeRecord
        /\ clock \in Nat /\ TypeOK
    BY DEF IInv, TypeOK
  <2>2. /\ rules = dbRules
        /\ [nodes[n] EXCEPT !.states = db[n].states] = db[n]
        /\ \A k \in Kind : nodes[n].states[k].active = db[n].states[k].active
    BY DEF RaisedAgree
  <2>3. nodes[n].rules = db[n].rules
    BY <2>1, <2>2 DEF NodeRecord
  <2>4. Effective(rules, nodes[n].rules) \in Rules
    BY <2>1, EffectiveHere
  <2>5. clock # 0 /\ Unripe(nodes[n], clock) /\ Unripe(db[n], clock)
    BY DEF DriftInv
  <2>6. Verdict(nodes[n], rules) = Verdict(db[n], dbRules)
    BY <2>1, <2>2, <2>3, <2>4, <2>5, SameVerdict DEF Verdict
  <2> QED  BY <2>6 DEF DriftInv
<1>2. IInv /\ RaisedAgree /\ DriftInv /\ [Next]_vars => DriftInv'
  BY DriftStep
<1>3. Spec => []RaisedAgree
  BY RaisedAgreement
<1> QED  BY <1>1, <1>2, <1>3, DriftInit, Invariance, PTL DEF Spec

\* The log as one transaction leaves it.
LEMMA CommitSwitches ==
    ASSUME IInv, RaisedAgree, up, NEW STATE new, DOMAIN new \subseteq Node,
           \A n \in DOMAIN new : new[n] \in NodeRecord, Commit(new)
    PROVE  [Log!Next]_Log!vars
<1> DEFINE events == UNION {EventsOf(n, new[n]) : n \in DOMAIN new}
           S == Log!Switched(RaisedAlarms, RaisedAlarms')
<1>1. /\ db' = [n \in Node |-> IF n \in DOMAIN new THEN new[n] ELSE db[n]]
      /\ alerts' = alerts \cup Rows(events)
      /\ stamp' = IF events = {} THEN stamp ELSE stamp + 1
  BY DEF Commit
<1>2. /\ nodes \in [Node -> NodeRecord] /\ db \in [Node -> NodeRecord]
      /\ clock \in 0..MaxClock /\ stamp \in Nat
      /\ \A n \in Node, k \in Kind :
            nodes[n].states[k].active = db[n].states[k].active
  BY MonitorAssumption DEF IInv, TypeOK, RaisedAgree
<1>3. ASSUME NEW n \in Node, NEW k \in Kind
      PROVE  /\ <<n, k>> \in RaisedAlarms <=> db[n].states[k].active
             /\ <<n, k>> \in RaisedAlarms' <=> db'[n].states[k].active
  BY DEF RaisedAlarms
<1>4. ASSUME NEW n \in Node, NEW k \in Kind
      PROVE  /\ db[n].states[k].active \in BOOLEAN
             /\ db'[n].states[k].active \in BOOLEAN
  <2>1. db'[n] \in NodeRecord
    BY <1>1, <1>2
  <2> QED  BY <1>2, <2>1 DEF NodeRecord, AlarmState
<1>5. ASSUME NEW n \in Node, NEW k \in Kind
      PROVE  <<n, k>> \in S <=>
                db'[n].states[k].active # db[n].states[k].active
  BY <1>3, <1>4 DEF Log!Switched
<1>6. ASSUME NEW c \in events
      PROVE  \E n \in Node, k \in Kind :
                /\ c = <<n, k, db'[n].states[k].active>>
                /\ <<n, k>> \in S
  <2>1. PICK n \in DOMAIN new : c \in EventsOf(n, new[n])
    OBVIOUS
  <2>2. PICK k \in Kind : /\ c = <<n, k, new[n].states[k].active>>
                         /\ new[n].states[k].active
                              # nodes[n].states[k].active
    BY <2>1 DEF EventsOf, Changed
  <2>3. n \in Node /\ db'[n] = new[n]
    BY <1>1
  <2>4. <<n, k>> \in S
    BY <2>2, <2>3, <1>2, <1>5
  <2> QED  BY <2>2, <2>3, <2>4
<1>7. ASSUME NEW n \in Node, NEW k \in Kind, <<n, k>> \in S
      PROVE  <<n, k, db'[n].states[k].active>> \in events
  <2>1. db'[n].states[k].active # db[n].states[k].active
    BY <1>5, <1>7
  <2>2. n \in DOMAIN new /\ db'[n] = new[n]
    BY <2>1, <1>1
  <2>3. k \in Changed(nodes[n], new[n])
    BY <2>1, <2>2, <1>2 DEF Changed
  <2>4. <<n, k, new[n].states[k].active>> \in EventsOf(n, new[n])
    BY <2>3 DEF EventsOf
  <2> QED  BY <2>2, <2>4
<1>8. S \subseteq Node \X Kind
  BY DEF Log!Switched, RaisedAlarms
<1> HIDE DEF events
<1>9. Rows(events) = Log!Logged(RaisedAlarms, RaisedAlarms', stamp, clock)
  <2>1. ASSUME NEW a \in Rows(events)
        PROVE  a \in Log!Logged(RaisedAlarms, RaisedAlarms', stamp, clock)
    <3>1. PICK c \in events :
              a = [id |-> stamp, node |-> c[1], kind |-> c[2],
                   active |-> c[3], time |-> clock]
      BY DEF Rows
    <3>2. PICK n \in Node, k \in Kind :
              c = <<n, k, db'[n].states[k].active>> /\ <<n, k>> \in S
      BY <1>6
    <3>3. db'[n].states[k].active = (<<n, k>> \in RaisedAlarms')
      BY <1>3, <1>4
    <3>4. a = [id |-> stamp, node |-> <<n, k>>[1], kind |-> <<n, k>>[2],
               active |-> <<n, k>> \in RaisedAlarms', time |-> clock]
      BY <3>1, <3>2, <3>3
    <3> QED  BY <3>2, <3>4 DEF Log!Logged
  <2>2. ASSUME NEW a \in Log!Logged(RaisedAlarms, RaisedAlarms', stamp, clock)
        PROVE  a \in Rows(events)
    <3>1. PICK p \in S :
              a = [id |-> stamp, node |-> p[1], kind |-> p[2],
                   active |-> p \in RaisedAlarms', time |-> clock]
      BY DEF Log!Logged
    <3>2. PICK n \in Node, k \in Kind : p = <<n, k>>
      BY <1>8
    <3>3. (<<n, k>> \in RaisedAlarms') = db'[n].states[k].active
      BY <1>3, <1>4
    <3>4. <<n, k, db'[n].states[k].active>> \in events
      BY <1>7, <3>1, <3>2
    <3>5. a = [id |-> stamp, node |-> <<n, k, db'[n].states[k].active>>[1],
               kind |-> <<n, k, db'[n].states[k].active>>[2],
               active |-> <<n, k, db'[n].states[k].active>>[3],
               time |-> clock]
      BY <3>1, <3>2, <3>3
    <3> QED  BY <3>4, <3>5 DEF Rows
  <2> QED  BY <2>1, <2>2
<1>10. RaisedAlarms \subseteq Node \X Kind /\ RaisedAlarms' \subseteq Node \X Kind
  BY DEF RaisedAlarms
<1>11. CASE events = {}
  <2>1. S = {}
    BY <1>7, <1>8, <1>11
  <2>2. RaisedAlarms' = RaisedAlarms
    BY <2>1 DEF Log!Switched
  <2>3. Rows(events) = {}
    BY <1>11 DEF Rows
  <2> QED  BY <2>2, <2>3, <1>1, <1>11 DEF Log!vars
<1>12. CASE events # {}
  <2>1. S # {}
    BY <1>6, <1>12
  <2>2. RaisedAlarms' # RaisedAlarms
    BY <2>1 DEF Log!Switched
  <2>3. RaisedAlarms' \in SUBSET Log!Alarm
    BY <1>10 DEF Log!Alarm
  <2>4. Log!Switch
    BY <1>1, <1>2, <1>9, <1>12, <2>2, <2>3 DEF Log!Switch
  <2> QED  BY <2>4 DEF Log!Next
<1> QED  BY <1>11, <1>12

LEMMA LogInit == Init => Log!Init
  BY DEF Init, Log!Init, RaisedAlarms, Fresh, Quiet

LEMMA LogStep ==
    ASSUME "lost" \notin Outcomes
    PROVE  IInv /\ RaisedAgree /\ [Next]_vars => [Log!Next]_Log!vars
<1> SUFFICES ASSUME IInv, RaisedAgree, [Next]_vars
             PROVE  [Log!Next]_Log!vars
  OBVIOUS
<1>1. \* Steps that leave the node and alert tables alone.
      UNCHANGED <<db, alerts, stamp>> => UNCHANGED Log!vars
  BY DEF Log!vars, RaisedAlarms
<1>2. ASSUME NEW n \in Node, NEW snap \in Snapshot, NEW o \in Outcomes,
             Ingest(n, snap, o)
      PROVE  [Log!Next]_Log!vars
  <2> DEFINE new == [m \in {n} |-> Ingested(n, snap)]
  <2>1. /\ DOMAIN new \subseteq Node
        /\ \A m \in DOMAIN new : new[m] \in NodeRecord
    BY IngestedRecord DEF IInv
  <2>2. up /\ Recorded(o, new)
    BY <1>2 DEF Ingest
  <2> HIDE DEF new
  <2> QED  BY <2>1, <2>2, <1>1, CommitSwitches DEF Recorded
<1>3. ASSUME NEW done \in SUBSET Node, NEW written \in SUBSET Node,
             Pass(done, written)
      PROVE  [Log!Next]_Log!vars
  <2> DEFINE new == [n \in written |-> Reevaluated(n)]
  <2>1. /\ DOMAIN new \subseteq Node
        /\ \A m \in DOMAIN new : new[m] \in NodeRecord
    BY ReevaluatedRecord DEF IInv
  <2>2. up /\ Commit(new)
    BY <1>3 DEF Pass
  <2> HIDE DEF new
  <2> QED  BY <2>1, <2>2, CommitSwitches
<1>4. ASSUME NEW n \in Node, NEW r \in RuleSet \cup {NoRules},
             NEW o \in Outcomes, UpdateNode(n, r, o)
      PROVE  [Log!Next]_Log!vars
  <2> DEFINE new == [m \in {n} |-> Edited(n, r)]
  <2>1. /\ DOMAIN new \subseteq Node
        /\ \A m \in DOMAIN new : new[m] \in NodeRecord
    BY EditedRecord DEF IInv
  <2>2. up /\ Recorded(o, new)
    BY <1>4 DEF UpdateNode
  <2> HIDE DEF new
  <2> QED  BY <2>1, <2>2, <1>1, CommitSwitches DEF Recorded
<1>5. CASE Prune
  <2>1. /\ alerts' = {a \in alerts : a.time >= clock - Retention}
        /\ stamp' = stamp /\ RaisedAlarms' = RaisedAlarms
    BY <1>5 DEF Prune, RaisedAlarms
  <2>2. /\ \A a \in alerts : a.id \in Nat /\ a.time \in Nat
        /\ clock \in Nat /\ Retention \in Nat
    BY MonitorAssumption DEF IInv, TypeOK, Alert
  <2>3. ASSUME NEW a \in alerts \ alerts', NEW b \in alerts' PROVE a.id < b.id
    <3>1. b \in alerts /\ a.time < b.time
      BY <2>1, <2>2
    <3>2. b.id <= a.id => b.time <= a.time
      BY <3>1 DEF IInv, Ordered
    <3> QED  BY <3>1, <3>2, <2>2
  <2>4. Log!Retire
    BY <2>1, <2>3 DEF Log!Retire
  <2> QED  BY <2>4 DEF Log!Next
<1>6. CASE Tick
  BY <1>6, <1>3 DEF Tick, Eventful
<1>7. CASE \E done \in SUBSET Node, n \in Node, o \in Outcomes :
             TickFails(done, n, o)
  <2>1. PICK done \in SUBSET Node, n \in Node, o \in Outcomes :
            TickFails(done, n, o)
    BY <1>7
  <2>2. Pass(done, Eventful(done)) /\ Eventful(done) \in SUBSET Node
    BY <2>1 DEF TickFails, Eventful
  <2> QED  BY <2>2, <1>3
<1>8. CASE \/ \E r \in RuleSet, o \in Outcomes : PutSettings(r, o)
           \/ Crash \/ Start
           \/ \E d \in ClockStep : Advance(d)
           \/ UNCHANGED vars
  <2>1. UNCHANGED <<db, alerts, stamp>>
    BY <1>8 DEF PutSettings, Crash, Start, Advance, vars, tables
  <2> QED  BY <2>1, <1>1
<1> QED  BY <1>2, <1>4, <1>5, <1>6, <1>7, <1>8 DEF Next

\* Monitor implements the abstract alert log: samples, ticks, edits, failed
\* writes, crashes and restarts all map to its steps or to stuttering.
THEOREM ImplementsAlertLog ==
    ASSUME "lost" \notin Outcomes
    PROVE  Spec => AlertLogImplemented
<1>1. IInv /\ RaisedAgree /\ [Next]_vars => [Log!Next]_Log!vars
  BY LogStep
<1>2. Spec => []RaisedAgree
  BY RaisedAgreement
<1> QED
  BY <1>1, <1>2, LogInit, Invariance, PTL
  DEF Spec, Log!Spec, AlertLogImplemented

-----------------------------------------------------------------------------
(* The alert log itself, proved from its own steps: nothing below, up to the *)
(* theorem that inherits it, looks into Monitor. NewestEntryAgrees is not    *)
(* inductive: it says nothing of the entries below the newest, which a later *)
(* step needs. Superseded does, and implies it.                              *)

\* Ids are issued in order.
InOrder == \A a \in alerts : a.id < stamp

\* An entry that no longer says what its alarm is was followed by one that
\* says the opposite.
Superseded ==
    \A a \in alerts : ~(a.active <=> <<a.node, a.kind>> \in RaisedAlarms) =>
        \E c \in alerts : /\ Log!SameAlarm(a, c)
                          /\ a.id < c.id /\ c.active # a.active

LogInv == Log!TypeOK /\ InOrder /\ Superseded /\ Log!EntriesAlternate

\* The entries a Switch adds: one for each switched alarm, saying what it is.
LEMMA LogEntries ==
    ASSUME Log!TypeOK, RaisedAlarms' \in SUBSET Log!Alarm,
           NEW t \in 0..MaxClock
    PROVE  /\ Log!Logged(RaisedAlarms, RaisedAlarms', stamp, t)
                \subseteq Log!Entry
           /\ \A e \in Log!Logged(RaisedAlarms, RaisedAlarms', stamp, t) :
                /\ e.id = stamp
                /\ e.active <=> <<e.node, e.kind>> \in RaisedAlarms'
                /\ ~(e.active <=> <<e.node, e.kind>> \in RaisedAlarms)
           /\ \A n \in Node, k \in Kind :
                ~(<<n, k>> \in RaisedAlarms <=> <<n, k>> \in RaisedAlarms') =>
                    \E e \in Log!Logged(RaisedAlarms, RaisedAlarms',
                                        stamp, t) : e.node = n /\ e.kind = k
<1> DEFINE S == Log!Switched(RaisedAlarms, RaisedAlarms')
           E == Log!Logged(RaisedAlarms, RaisedAlarms', stamp, t)
<1>1. S \subseteq Node \X Kind
  BY DEF Log!TypeOK, Log!Alarm, Log!Switched
<1>2. ASSUME NEW e \in E
      PROVE  /\ e \in Log!Entry
             /\ e.id = stamp
             /\ e.active <=> <<e.node, e.kind>> \in RaisedAlarms'
             /\ ~(e.active <=> <<e.node, e.kind>> \in RaisedAlarms)
  <2>1. PICK a \in S : e = [id |-> stamp, node |-> a[1], kind |-> a[2],
                            active |-> a \in RaisedAlarms', time |-> t]
    BY DEF Log!Logged
  <2>2. PICK n \in Node, k \in Kind : a = <<n, k>>
    BY <1>1
  <2>3. e = [id |-> stamp, node |-> n, kind |-> k,
             active |-> <<n, k>> \in RaisedAlarms', time |-> t]
    BY <2>1, <2>2
  <2>4. /\ e.id = stamp /\ e.node = n /\ e.kind = k
        /\ e.active = (<<n, k>> \in RaisedAlarms')
    BY <2>3
  <2>5. ~(<<n, k>> \in RaisedAlarms <=> <<n, k>> \in RaisedAlarms')
    BY <2>2 DEF Log!Switched
  <2>6. e \in Log!Entry
    BY <2>3 DEF Log!Entry, Log!TypeOK
  <2> QED  BY <2>4, <2>5, <2>6
<1>3. ASSUME NEW n \in Node, NEW k \in Kind,
             ~(<<n, k>> \in RaisedAlarms <=> <<n, k>> \in RaisedAlarms')
      PROVE  \E e \in E : e.node = n /\ e.kind = k
  <2>1. <<n, k>> \in S
    BY <1>3 DEF Log!Switched
  <2>2. [id |-> stamp, node |-> n, kind |-> k,
         active |-> <<n, k>> \in RaisedAlarms', time |-> t] \in E
    BY <2>1 DEF Log!Logged
  <2> QED  BY <2>2
<1> QED  BY <1>2, <1>3

LEMMA LogInvInit == Log!Init => LogInv
  BY DEF Log!Init, LogInv, Log!TypeOK, InOrder, Superseded,
         Log!EntriesAlternate, Log!Alarm

LEMMA SwitchKeepsLog == LogInv /\ Log!Switch => LogInv'
<1> SUFFICES ASSUME LogInv, Log!Switch PROVE LogInv'
  OBVIOUS
<1>1. PICK t \in 0..MaxClock :
          alerts' = alerts
                      \cup Log!Logged(RaisedAlarms, RaisedAlarms', stamp, t)
  BY DEF Log!Switch
<1> DEFINE E == Log!Logged(RaisedAlarms, RaisedAlarms', stamp, t)
<1>2. alerts' = alerts \cup E
  BY <1>1
<1>3. /\ E \subseteq Log!Entry
      /\ \A e \in E : /\ e.id = stamp
                      /\ e.active <=> <<e.node, e.kind>> \in RaisedAlarms'
                      /\ ~(e.active <=> <<e.node, e.kind>> \in RaisedAlarms)
      /\ \A n \in Node, k \in Kind :
            ~(<<n, k>> \in RaisedAlarms <=> <<n, k>> \in RaisedAlarms') =>
                \E e \in E : e.node = n /\ e.kind = k
  BY LogEntries DEF LogInv, Log!Switch
<1> HIDE DEF E
<1>4. /\ alerts \subseteq Log!Entry /\ stamp \in Nat /\ stamp' = stamp + 1
      /\ \A a \in alerts : a.id < stamp
      /\ RaisedAlarms' \in SUBSET Log!Alarm
  BY DEF LogInv, Log!TypeOK, InOrder, Log!Switch
<1>5. Log!TypeOK'
  BY <1>2, <1>3, <1>4 DEF Log!TypeOK
<1>6. InOrder'
  <2> SUFFICES ASSUME NEW a \in alerts' PROVE a.id < stamp'
    BY DEF InOrder
  <2>1. a.id \in Nat /\ (a.id = stamp \/ a.id < stamp)
    BY <1>2, <1>3, <1>4 DEF Log!Entry
  <2> QED  BY <2>1, <1>4
<1>7. Superseded'
  <2> SUFFICES ASSUME NEW a \in alerts',
                      ~(a.active <=> <<a.node, a.kind>> \in RaisedAlarms')
               PROVE  \E c \in alerts' : /\ Log!SameAlarm(a, c) /\ a.id < c.id
                                      /\ c.active # a.active
    BY DEF Superseded, Log!SameAlarm
  <2>1. a \in alerts /\ a \in Log!Entry /\ a.id < stamp
    BY <1>2, <1>3, <1>4
  <2>2. CASE <<a.node, a.kind>> \in RaisedAlarms
               <=> <<a.node, a.kind>> \in RaisedAlarms'
    <3>1. PICK c \in alerts : /\ Log!SameAlarm(a, c) /\ a.id < c.id
                           /\ c.active # a.active
      BY <2>1, <2>2 DEF LogInv, Superseded
    <3> QED  BY <3>1, <1>2
  <2>3. CASE ~(<<a.node, a.kind>> \in RaisedAlarms
                 <=> <<a.node, a.kind>> \in RaisedAlarms')
    <3>1. a.node \in Node /\ a.kind \in Kind
      BY <2>1 DEF Log!Entry
    <3>2. PICK c \in E : c.node = a.node /\ c.kind = a.kind
      BY <1>3, <2>3, <3>1
    <3>3. c.active <=> <<a.node, a.kind>> \in RaisedAlarms'
      BY <1>3, <3>2
    <3>4. c.active # a.active
      BY <3>3
    <3>5. a.id < c.id
      BY <1>3, <2>1
    <3> QED  BY <3>2, <3>4, <3>5, <1>2 DEF Log!SameAlarm
  <2> QED  BY <2>2, <2>3
<1>8. Log!EntriesAlternate'
  <2> SUFFICES ASSUME NEW a \in alerts', NEW b \in alerts',
                      Log!SameAlarm(a, b), a.id < b.id, a.active = b.active
               PROVE  \E c \in alerts' : /\ Log!SameAlarm(a, c)
                                      /\ a.id < c.id /\ c.id < b.id
                                      /\ c.active # a.active
    BY DEF Log!EntriesAlternate, Log!SameAlarm
  <2>1. \A e \in alerts' : e.id \in Nat /\ (e.id < stamp \/ e.id = stamp)
    BY <1>2, <1>3, <1>4 DEF Log!Entry
  <2>2. a \in alerts
    <3>1. a.id \in Nat /\ b.id \in Nat /\ a.id # stamp
      BY <2>1, <1>4
    <3>2. \A e \in E : e.id = stamp
      BY <1>3
    <3>3. a \notin E
      BY <3>1, <3>2
    <3> QED  BY <3>3, <1>2
  <2>3. CASE b \in alerts
    <3>1. \E c \in alerts : /\ Log!SameAlarm(a, c)
                            /\ a.id < c.id /\ c.id < b.id
                            /\ c.active # a.active
      BY <2>2, <2>3 DEF LogInv, Log!EntriesAlternate
    <3> QED  BY <3>1, <1>2
  <2>4. CASE b \in E
    <3>1. b.id = stamp /\ ~(b.active <=> <<b.node, b.kind>> \in RaisedAlarms)
      BY <2>4, <1>3
    <3>2. ~(a.active <=> <<a.node, a.kind>> \in RaisedAlarms)
      BY <3>1 DEF Log!SameAlarm
    <3>3. PICK c \in alerts : /\ Log!SameAlarm(a, c) /\ a.id < c.id
                           /\ c.active # a.active
      BY <2>2, <3>2 DEF LogInv, Superseded
    <3>4. c.id < b.id
      BY <3>1, <1>4
    <3> QED  BY <3>3, <3>4, <1>2
  <2> QED  BY <2>3, <2>4, <1>2
<1> QED  BY <1>5, <1>6, <1>7, <1>8 DEF LogInv

LEMMA RetireKeepsLog == LogInv /\ Log!Retire => LogInv'
<1> SUFFICES ASSUME LogInv, Log!Retire PROVE LogInv'
  OBVIOUS
<1>1. /\ alerts' \subseteq alerts /\ alerts \subseteq Log!Entry
      /\ \A a \in alerts \ alerts', b \in alerts' : a.id < b.id
      /\ RaisedAlarms' = RaisedAlarms /\ stamp' = stamp
  BY DEF Log!Retire, LogInv, Log!TypeOK
<1>2. \* An entry that followed a kept one is kept.
      ASSUME NEW a \in alerts', NEW c \in alerts, a.id < c.id
      PROVE  c \in alerts'
  BY <1>1, <1>2 DEF Log!Entry
<1>3. Log!TypeOK' /\ InOrder'
  BY <1>1 DEF LogInv, Log!TypeOK, InOrder
<1>4. Superseded'
  <2> SUFFICES ASSUME NEW a \in alerts',
                      ~(a.active <=> <<a.node, a.kind>> \in RaisedAlarms)
               PROVE  \E c \in alerts' : /\ Log!SameAlarm(a, c) /\ a.id < c.id
                                      /\ c.active # a.active
    BY <1>1 DEF Superseded, Log!SameAlarm
  <2>1. PICK c \in alerts : /\ Log!SameAlarm(a, c)
                            /\ a.id < c.id /\ c.active # a.active
    BY <1>1 DEF LogInv, Superseded
  <2> QED  BY <2>1, <1>2
<1>5. Log!EntriesAlternate'
  <2> SUFFICES ASSUME NEW a \in alerts', NEW b \in alerts',
                      Log!SameAlarm(a, b), a.id < b.id, a.active = b.active
               PROVE  \E c \in alerts' : /\ Log!SameAlarm(a, c)
                                      /\ a.id < c.id /\ c.id < b.id
                                      /\ c.active # a.active
    BY DEF Log!EntriesAlternate, Log!SameAlarm
  <2>1. PICK c \in alerts : /\ Log!SameAlarm(a, c)
                            /\ a.id < c.id /\ c.id < b.id
                            /\ c.active # a.active
    BY <1>1 DEF LogInv, Log!EntriesAlternate
  <2> QED  BY <2>1, <1>2
<1> QED  BY <1>3, <1>4, <1>5 DEF LogInv

LEMMA StutterKeepsLog == LogInv /\ UNCHANGED Log!vars => LogInv'
  BY DEF LogInv, Log!vars, Log!TypeOK, InOrder, Superseded,
         Log!EntriesAlternate, Log!SameAlarm

LEMMA LogInvariance == Log!Spec => []LogInv
<1>1. Log!Init => LogInv
  BY LogInvInit
<1>2. LogInv /\ [Log!Next]_Log!vars => LogInv'
  BY SwitchKeepsLog, RetireKeepsLog, StutterKeepsLog DEF Log!Next
<1> QED  BY <1>1, <1>2, PTL DEF Log!Spec

\* The newest retained entry of an alarm always says what the alarm is, so a
\* list of active alarms derived from the log is right (App.vue activeAlerts).
THEOREM NewestAgrees == Log!Spec => []Log!NewestEntryAgrees
<1>1. LogInv => Log!NewestEntryAgrees
  <2> SUFFICES ASSUME LogInv, NEW a \in alerts, Log!Newest(a)
               PROVE  a.active <=> <<a.node, a.kind>> \in RaisedAlarms
    BY DEF Log!NewestEntryAgrees
  <2>1. \A c \in alerts : Log!SameAlarm(a, c) => ~(a.id < c.id)
    BY DEF Log!Newest, LogInv, Log!TypeOK, Log!Entry
  <2> QED  BY <2>1 DEF LogInv, Superseded
<1> QED  BY <1>1, LogInvariance, PTL

\* Entries of one alarm alternate: a change is neither reported twice nor lost
\* between two retained reports.
THEOREM Alternation == Log!Spec => []Log!EntriesAlternate
<1>1. LogInv => Log!EntriesAlternate
  BY DEF LogInv
<1> QED  BY <1>1, LogInvariance, PTL

\* The newest retained alert of an alarm says whether the alarm is raised: the
\* promise AlertLog makes, inherited through the implementation.
THEOREM NewestAlertIsRight ==
    ASSUME "lost" \notin Outcomes
    PROVE  Spec => []NewestAlertAgrees
<1>1. Spec => Log!Spec
  BY ImplementsAlertLog DEF AlertLogImplemented
<1>2. Log!Spec => []Log!NewestEntryAgrees
  BY NewestAgrees
<1>3. Log!NewestEntryAgrees <=> NewestAlertAgrees
  BY DEF NewestAlertAgrees
<1> QED  BY <1>1, <1>2, <1>3, PTL

\* The alerts of one alarm alternate between raised and cleared: no change is
\* reported twice, and none between two retained reports is missing.
THEOREM AlertsAlternate ==
    ASSUME "lost" \notin Outcomes
    PROVE  Spec => []Log!EntriesAlternate
<1>1. Spec => Log!Spec
  BY ImplementsAlertLog DEF AlertLogImplemented
<1>2. Log!Spec => []Log!EntriesAlternate
  BY Alternation
<1> QED  BY <1>1, <1>2, PTL

-----------------------------------------------------------------------------
(* Queries: the points of a history, and the list of active alarms.         *)

\* What a query may be, by the checks of Store.History.
HistoryQuery ==
    {q \in [from : Nat, to : Nat, limit : Nat \ {0}] : q.from < q.to}

\* Division rounds down: what it leaves is less than the divisor.
LEMMA Division ==
    ASSUME NEW x \in Nat, NEW y \in Nat \ {0}
    PROVE  /\ x \div y \in Nat
           /\ y * (x \div y) <= x
           /\ x < y * (x \div y) + y
  OBVIOUS

LEMMA FewerMultiples ==
    ASSUME NEW a \in Nat, NEW b \in Nat, NEW w \in Nat \ {0}, w * a < b * w
    PROVE  a < b
<1> SUFFICES ASSUME b <= a PROVE FALSE
  OBVIOUS
<1> DEFINE k == a - b
<1>1. k \in Nat /\ a = b + k
  OBVIOUS
<1>2. w * (b + k) = b * w + w * k
  BY <1>1
<1>3. w * k >= 0
  BY <1>1
<1> QED  BY <1>1, <1>2, <1>3

\* The buckets cover the window.
LEMMA WidthSuffices ==
    ASSUME NEW q \in HistoryQuery
    PROVE  Width(q) \in Nat \ {0} /\ q.to - q.from <= q.limit * Width(q)
<1> DEFINE d == q.to - q.from
           x == q.to - q.from + q.limit - 1
           y == x \div q.limit
<1>1. /\ q.limit \in Nat \ {0} /\ d \in Nat \ {0}
      /\ x \in Nat /\ q.limit <= x /\ x = d + q.limit - 1
  BY DEF HistoryQuery
<1>2. y \in Nat /\ q.limit * y <= x /\ x < q.limit * y + q.limit
  BY <1>1, Division
<1>3. q.limit * y \in Nat
  BY <1>1, <1>2
<1>4. y # 0
  <2> SUFFICES ASSUME y = 0 PROVE FALSE
    OBVIOUS
  <2>1. q.limit * y = 0
    BY <1>1
  <2> QED  BY <1>1, <1>2, <2>1
<1>5. Width(q) = y
  <2>1. y \in {1, y} /\ \A z \in {1, y} : y >= z
    BY <1>2, <1>4
  <2>2. \A z \in {1, y} : (\A u \in {1, y} : z >= u) => z = y
    BY <1>2, <1>4
  <2> HIDE DEF y
  <2>3. Max({1, y}) = y
    BY <2>1, <2>2 DEF Max
  <2> QED  BY <2>3 DEF Width, y
<1>6. d <= q.limit * y
  BY <1>1, <1>2, <1>3
<1> QED  BY <1>2, <1>4, <1>5, <1>6

LEMMA BucketBound ==
    ASSUME NEW q \in HistoryQuery, NEW t \in Nat, q.from <= t, t < q.to
    PROVE  /\ Bucket(t, q) \in 0..(q.limit - 1)
           /\ q.from + Width(q) * Bucket(t, q) <= t
           /\ t < q.from + Width(q) * Bucket(t, q) + Width(q)
<1> DEFINE u == t - q.from
           w == Width(q)
           b == u \div w
<1>1. /\ u \in Nat /\ u < q.to - q.from /\ t = q.from + u
      /\ q.limit \in Nat \ {0} /\ q.from \in Nat /\ q.to \in Nat
  BY DEF HistoryQuery
<1>2. w \in Nat \ {0} /\ q.to - q.from <= q.limit * w
  BY WidthSuffices
<1> HIDE DEF w
<1>3. b \in Nat /\ w * b <= u /\ u < w * b + w
  BY <1>1, <1>2, Division
<1>4. w * b \in Nat /\ q.limit * w \in Nat
  BY <1>1, <1>2, <1>3
<1> HIDE DEF b
<1>5. w * b < q.limit * w
  BY <1>1, <1>2, <1>3, <1>4
<1>6. b < q.limit
  BY <1>1, <1>2, <1>3, <1>5, FewerMultiples
<1>7. Bucket(t, q) = b
  BY DEF Bucket, b, w
<1> QED
  <2>1. b \in 0..(q.limit - 1)
    BY <1>1, <1>3, <1>6
  <2>2. q.from + w * b <= t /\ t < q.from + w * b + w
    BY <1>1, <1>2, <1>3, <1>4
  <2> QED  BY <1>7, <2>1, <2>2 DEF w

LEMMA MinOfNats ==
    ASSUME NEW S, S \subseteq Nat, S # {}
    PROVE  Min(S) \in S /\ \A t \in S : Min(S) <= t
<1>1. PICK m \in S : \A t \in S : ~(<<t, m>> \in OpToRel(<, Nat))
  BY NatLessThanWellFounded, WFMin
<1>2. \A t \in S : m <= t
  <2> SUFFICES ASSUME NEW t \in S PROVE m <= t
    OBVIOUS
  <2>1. m \in Nat /\ t \in Nat
    OBVIOUS
  <2>2. ~(t < m)
    BY <1>1, <2>1, Zenon DEF OpToRel
  <2> QED  BY <2>1, <2>2
<1> QED  BY <1>2 DEF Min

LEMMA PointTime ==
    ASSUME NEW rows, NEW ts
    PROVE  Point(rows, ts).time = Min(ts)
  BY DEF Point

-----------------------------------------------------------------------------

\* A chart never gets more points than it asked for (store.go:195): rounding
\* the width up is enough for every window and limit.
THEOREM HistoryKeepsLimit ==
    ASSUME NEW rows, DOMAIN rows \subseteq Nat, NEW q \in HistoryQuery
    PROVE  Cardinality(Points(rows, q)) <= q.limit
<1> DEFINE ts == Selected(rows, q)
           B == {Bucket(t, q) : t \in ts}
           At(b) == Point(rows, {t \in ts : Bucket(t, q) = b})
           P == {At(b) : b \in B}
<1>1. B \subseteq 0..(q.limit - 1)
  <2> SUFFICES ASSUME NEW t \in ts PROVE Bucket(t, q) \in 0..(q.limit - 1)
    OBVIOUS
  <2>1. t \in Nat /\ q.from <= t /\ t < q.to
    BY DEF Selected
  <2> QED  BY <2>1, BucketBound
<1>2. q.limit \in Nat \ {0}
  BY DEF HistoryQuery
<1>3. IsFiniteSet(0..(q.limit - 1)) /\ Cardinality(0..(q.limit - 1)) = q.limit
  <2> DEFINE last == q.limit - 1
  <2>1. last \in Int /\ ~(0 > last) /\ last - 0 + 1 = q.limit
    BY <1>2
  <2> HIDE DEF last
  <2>2. IsFiniteSet(0..last) /\ Cardinality(0..last) = last - 0 + 1
    BY <2>1, FS_Interval
  <2> QED  BY <2>1, <2>2 DEF last
<1>4. IsFiniteSet(B) /\ Cardinality(B) <= q.limit
  BY <1>1, <1>3, FS_Subset
<1> HIDE DEF B
<1>5. [b \in B |-> At(b)] \in Surjection(B, P)
  <2> HIDE DEF At
  <2> QED  BY DEF Surjection
<1>6. IsFiniteSet(P) /\ Cardinality(P) <= Cardinality(B)
  BY <1>4, <1>5, FS_Surjection
<1>7. Cardinality(P) \in Nat /\ Cardinality(B) \in Nat
  BY <1>4, <1>6, FS_CardinalityType
<1>8. Points(rows, q) = P
  BY DEF Points, B
<1> HIDE DEF P
<1> QED  BY <1>2, <1>4, <1>6, <1>7, <1>8

\* Every sample of the window is drawn: some point lies at most a bucket's
\* length before it.
THEOREM HistoryCoversSamples ==
    ASSUME NEW rows, DOMAIN rows \subseteq Nat, NEW q \in HistoryQuery,
           NEW t \in Selected(rows, q)
    PROVE  \E p \in Points(rows, q) : p.time <= t /\ t < p.time + Width(q)
<1> DEFINE ts == Selected(rows, q)
           w == Width(q)
           b == Bucket(t, q)
           S == {u \in ts : Bucket(u, q) = b}
<1>1. S \subseteq Nat /\ t \in S
  BY DEF Selected
<1>2. Min(S) \in S /\ Min(S) <= t
  BY <1>1, MinOfNats
<1>3. \A u \in S : /\ u \in Nat /\ q.from + w * b <= u
                    /\ u < q.from + w * b + w
  <2> SUFFICES ASSUME NEW u \in S
               PROVE  /\ u \in Nat /\ q.from + w * b <= u
                      /\ u < q.from + w * b + w
    OBVIOUS
  <2>1. u \in Nat /\ q.from <= u /\ u < q.to /\ Bucket(u, q) = b
    BY DEF Selected
  <2> QED  BY <2>1, BucketBound
<1>4. w \in Nat /\ b \in Int /\ q.from \in Nat /\ w * b \in Int
  <2>1. t \in Nat /\ q.from <= t /\ t < q.to
    BY DEF Selected
  <2>2. w \in Nat /\ q.from \in Nat /\ q.limit \in Nat
    BY WidthSuffices DEF HistoryQuery
  <2>3. b \in 0..(q.limit - 1)
    BY <2>1, BucketBound
  <2> HIDE DEF w, b
  <2>4. b \in Int
    BY <2>2, <2>3
  <2> QED  BY <2>2, <2>4
<1>5. Point(rows, S) \in Points(rows, q)
  BY <1>1 DEF Points
<1> HIDE DEF w, b, S
<1>6. t < Min(S) + w
  <2>1. Min(S) \in Nat /\ q.from + w * b <= Min(S)
    BY <1>2, <1>3, Zenon
  <2>2. t \in Nat /\ t < q.from + w * b + w
    BY <1>1, <1>3, Zenon
  <2> QED  BY <1>4, <2>1, <2>2
<1> QED  BY <1>2, <1>5, <1>6, PointTime DEF w

-----------------------------------------------------------------------------
(* The alert table is finite: a transaction adds at most one row per alarm. *)

LEMMA KindFinite == IsFiniteSet(Kind)
<1>1. IsFiniteSet({"offline", "cpu"})
  <2>1. {"offline", "cpu"} = {"offline"} \cup {"cpu"}
    OBVIOUS
  <2>2. IsFiniteSet({"offline"})
    BY FS_Singleton
  <2> QED  BY <2>1, <2>2, FS_AddElement
<1>2. IsFiniteSet({"offline", "cpu", "memory"})
  <2>1. {"offline", "cpu", "memory"} = {"offline", "cpu"} \cup {"memory"}
    OBVIOUS
  <2> QED  BY <2>1, <1>1, FS_AddElement
<1>3. Kind = {"offline", "cpu", "memory"} \cup {"disk"}
  BY DEF Kind
<1> QED  BY <1>2, <1>3, FS_AddElement

LEMMA CommitFinite ==
    ASSUME IsFiniteSet(alerts), NEW STATE new, DOMAIN new \subseteq Node,
           Commit(new)
    PROVE  IsFiniteSet(alerts')
<1> DEFINE events == UNION {EventsOf(n, new[n]) : n \in DOMAIN new}
           P == Node \X Kind
           row(p) == [id |-> stamp, node |-> p[1], kind |-> p[2],
                      active |-> new[p[1]].states[p[2]].active,
                      time |-> clock]
           T == {row(p) : p \in P}
<1>1. IsFiniteSet(P)
  BY KindFinite, FS_Product, MonitorAssumption
<1>2. IsFiniteSet(T)
  <2>1. [p \in P |-> row(p)] \in Surjection(P, T)
    <3> HIDE DEF row
    <3> QED  BY DEF Surjection
  <2> QED  BY <1>1, <2>1, FS_Surjection
<1>3. Rows(events) \subseteq T
  <2> SUFFICES ASSUME NEW a \in Rows(events) PROVE a \in T
    OBVIOUS
  <2>1. PICK c \in events :
            a = [id |-> stamp, node |-> c[1], kind |-> c[2],
                 active |-> c[3], time |-> clock]
    BY DEF Rows
  <2>2. PICK n \in DOMAIN new : c \in EventsOf(n, new[n])
    OBVIOUS
  <2>3. PICK k \in Kind : c = <<n, k, new[n].states[k].active>>
    BY <2>2 DEF EventsOf, Changed
  <2>4. <<n, k>> \in P /\ a = row(<<n, k>>)
    BY <2>1, <2>3
  <2> QED  BY <2>4
<1>4. alerts' = alerts \cup Rows(events)
  BY DEF Commit
<1> HIDE DEF events, T
<1>5. IsFiniteSet(alerts \cup T)
  BY <1>2, FS_Union
<1>6. alerts' \in SUBSET (alerts \cup T)
  BY <1>3, <1>4
<1> QED  BY <1>5, <1>6, FS_Subset

LEMMA FiniteStep == IsFiniteSet(alerts) /\ [Next]_vars => IsFiniteSet(alerts')
<1> SUFFICES ASSUME IsFiniteSet(alerts), [Next]_vars
             PROVE  IsFiniteSet(alerts')
  OBVIOUS
<1>1. ASSUME NEW STATE new, DOMAIN new \subseteq Node, NEW CONSTANT outcome,
             Recorded(outcome, new)
      PROVE  IsFiniteSet(alerts')
  BY <1>1, CommitFinite DEF Recorded
<1>2. ASSUME alerts' \subseteq alerts PROVE IsFiniteSet(alerts')
  BY <1>2, FS_Subset
<1>3. CASE \E n \in Node, snap \in Snapshot, o \in Outcomes :
             Ingest(n, snap, o)
  <2>1. PICK n \in Node, snap \in Snapshot, o \in Outcomes :
            Ingest(n, snap, o)
    BY <1>3
  <2> DEFINE new == [m \in {n} |-> Ingested(n, snap)]
  <2>2. DOMAIN new \subseteq Node /\ Recorded(o, new)
    BY <2>1 DEF Ingest
  <2> HIDE DEF new
  <2> QED  BY <2>2, <1>1
<1>4. ASSUME NEW done \in SUBSET Node, NEW written \in SUBSET Node,
             Pass(done, written)
      PROVE  IsFiniteSet(alerts')
  <2> DEFINE new == [n \in written |-> Reevaluated(n)]
  <2>1. DOMAIN new \subseteq Node /\ Commit(new)
    BY <1>4 DEF Pass
  <2> HIDE DEF new
  <2> QED  BY <2>1, CommitFinite
<1>5. CASE Tick
  BY <1>4, <1>5 DEF Tick, Eventful
<1>6. CASE \E done \in SUBSET Node, n \in Node, o \in Outcomes :
             TickFails(done, n, o)
  <2>1. PICK done \in SUBSET Node, n \in Node, o \in Outcomes :
            TickFails(done, n, o)
    BY <1>6
  <2>2. Eventful(done) \cup (IF o = "lost" THEN {n} ELSE {}) \in SUBSET Node
    BY DEF Eventful
  <2> QED  BY <2>1, <2>2, <1>4 DEF TickFails
<1>7. CASE \E n \in Node, r \in RuleSet \cup {NoRules}, o \in Outcomes :
             UpdateNode(n, r, o)
  <2>1. PICK n \in Node, r \in RuleSet \cup {NoRules}, o \in Outcomes :
            UpdateNode(n, r, o)
    BY <1>7
  <2> DEFINE new == [m \in {n} |-> Edited(n, r)]
  <2>2. DOMAIN new \subseteq Node /\ Recorded(o, new)
    BY <2>1 DEF UpdateNode
  <2> HIDE DEF new
  <2> QED  BY <2>2, <1>1
<1>8. CASE \/ \E r \in RuleSet, o \in Outcomes : PutSettings(r, o)
           \/ Prune \/ Crash \/ Start
           \/ \E d \in ClockStep : Advance(d)
           \/ UNCHANGED vars
  <2>1. alerts' \subseteq alerts
    BY <1>8 DEF PutSettings, Prune, Crash, Start, Advance, vars, tables
  <2> QED  BY <2>1, <1>2
<1> QED  BY <1>3, <1>5, <1>6, <1>7, <1>8 DEF Next

Finite == IsFiniteSet(alerts)

LEMMA AlertsFinite == Spec => []Finite
<1>1. Init => Finite
  BY FS_EmptySet DEF Init, Finite
<1>2. Finite /\ [Next]_vars => Finite'
  BY FiniteStep DEF Finite
<1> QED  BY <1>1, <1>2, PTL DEF Spec

-----------------------------------------------------------------------------
(* The list of active alarms. *)

\* Every alarm in the log has a newest alert.
LEMMA NewestExists ==
    ASSUME TypeOK, Ordered, NEW a \in alerts
    PROVE  \E m \in alerts : Log!SameAlarm(a, m) /\ Log!Newest(m)
<1> DEFINE S == {stamp - 1 - b.id : b \in {c \in alerts : Log!SameAlarm(a, c)}}
<1>1. /\ stamp \in Nat
      /\ \A b \in alerts : b.id \in Nat /\ b.id < stamp
  BY DEF TypeOK, Ordered, Alert
<1>2. S \subseteq Nat
  BY <1>1
<1>3. Log!SameAlarm(a, a)
  BY DEF Log!SameAlarm
<1>4. S # {}
  BY <1>3
<1>5. Min(S) \in S /\ \A t \in S : Min(S) <= t
  <2> HIDE DEF S
  <2> QED  BY <1>2, <1>4, MinOfNats
<1>6. PICK m \in alerts : Log!SameAlarm(a, m) /\ Min(S) = stamp - 1 - m.id
  BY <1>5
<1>7. ASSUME NEW b \in alerts, Log!SameAlarm(m, b) PROVE b.id <= m.id
  <2>1. Log!SameAlarm(a, b)
    BY <1>6, <1>7 DEF Log!SameAlarm
  <2>2. stamp - 1 - b.id \in S
    BY <2>1
  <2>3. stamp - 1 - m.id <= stamp - 1 - b.id
    BY <2>2, <1>5, <1>6
  <2> QED  BY <2>3, <1>1
<1> QED  BY <1>6, <1>7 DEF Log!Newest

\* Within an alarm, the order of the list is the order of the ids.
LEMMA NewestIsListedFirst ==
    ASSUME TypeOK, Ordered, NEW a \in alerts, NEW b \in alerts
    PROVE  b.id <= a.id <=> ~Newer(b, a)
<1>1. /\ a.id \in Nat /\ b.id \in Nat /\ a.time \in Nat /\ b.time \in Nat
      /\ a.id <= b.id => a.time <= b.time
      /\ b.id <= a.id => b.time <= a.time
  BY DEF TypeOK, Ordered, Alert
<1> QED  BY <1>1 DEF Newer

\* The page counts an alarm as active exactly while it is raised, unless its
\* alert is no longer retained or ListLimit newer ones have pushed it out.
THEOREM ActiveListIsExact ==
    ASSUME "lost" \notin Outcomes
    PROVE  Spec => []ActiveAlertsExact
<1>1. TypeOK /\ Ordered /\ Finite /\ NewestAlertAgrees => ActiveAlertsExact
  <2> SUFFICES ASSUME TypeOK, Ordered, Finite, NewestAlertAgrees,
                      NEW list \in Listings
               PROVE  LET shown == {Alarm(a) : a \in ActiveAlerts(list)}
                      IN  /\ shown \subseteq RaisedAlarms
                          /\ \A a \in alerts :
                                Alarm(a) \in RaisedAlarms \ shown =>
                                  Cardinality({b \in alerts : ~Newer(a, b)}
                                                \ {a}) >= ListLimit
    BY DEF ActiveAlertsExact
  <2> DEFINE shown == {Alarm(a) : a \in ActiveAlerts(list)}
             length == Min({ListLimit, Cardinality(alerts)})
  <2>1. /\ list \subseteq alerts /\ Cardinality(list) = length
        /\ \A a \in alerts \ list, b \in list : ~Newer(a, b)
    BY DEF Listings, kSubset
  <2>2. /\ IsFiniteSet(alerts) /\ IsFiniteSet(list)
        /\ Cardinality(alerts) \in Nat /\ ListLimit \in Nat
    BY <2>1, FS_Subset, FS_CardinalityType, QueriesAssumption DEF Finite
  <2>3. length = ListLimit \/ list = alerts
    <3>1. length \in {ListLimit, Cardinality(alerts)}
      <4>1. {ListLimit, Cardinality(alerts)} \subseteq Nat
        BY <2>2
      <4> QED  BY <4>1, MinOfNats
    <3> QED  BY <3>1, <2>1, <2>2, FS_Subset
  <2>4. \A a, b \in alerts : b.id <= a.id <=> ~Newer(b, a)
    BY NewestIsListedFirst
  <2>5. \A a, b \in alerts : Log!SameAlarm(a, b) <=>
                                b.node = a.node /\ b.kind = a.kind
    BY DEF Log!SameAlarm
  <2>6. \A a \in alerts :
          Log!Newest(a) => (a.active <=> Alarm(a) \in RaisedAlarms)
    BY DEF NewestAlertAgrees, Log!NewestEntryAgrees, Alarm
  <2>7. ASSUME NEW a \in ActiveAlerts(list) PROVE Alarm(a) \in RaisedAlarms
    <3>1. /\ a \in list /\ a \in alerts /\ a.active
          /\ \A b \in list : b.node = a.node /\ b.kind = a.kind => ~Newer(b, a)
      BY <2>1 DEF ActiveAlerts
    <3>2. \A b \in alerts : b.node = a.node /\ b.kind = a.kind => ~Newer(b, a)
      BY <2>1, <3>1
    <3>3. Log!Newest(a)
      BY <2>4, <2>5, <3>1, <3>2 DEF Log!Newest
    <3> QED  BY <2>6, <3>1, <3>3
  <2>8. ASSUME NEW a \in list, Log!Newest(a), Alarm(a) \in RaisedAlarms
        PROVE  Alarm(a) \in shown
    <3>1. a.active
      BY <2>1, <2>6, <2>8
    <3>2. \A b \in list : b.node = a.node /\ b.kind = a.kind => ~Newer(b, a)
      BY <2>1, <2>4, <2>5, <2>8 DEF Log!Newest
    <3>3. a \in ActiveAlerts(list)
      BY <3>1, <3>2 DEF ActiveAlerts
    <3> QED  BY <3>3
  <2>9. ASSUME NEW a \in alerts, Alarm(a) \in RaisedAlarms \ shown
        PROVE  Cardinality({b \in alerts : ~Newer(a, b)} \ {a}) >= ListLimit
    <3> HIDE DEF shown, length
    <3>1. PICK m \in alerts : Log!SameAlarm(a, m) /\ Log!Newest(m)
      BY NewestExists
    <3>2. Alarm(m) = Alarm(a)
      BY <3>1 DEF Log!SameAlarm, Alarm
    <3>3. m \notin list
      BY <2>8, <2>9, <3>1, <3>2
    <3>4. a \notin list
      <4> SUFFICES ASSUME a \in list PROVE FALSE
        OBVIOUS
      <4>1. ~Newer(m, a)
        BY <2>1, <3>3
      <4>2. m.id <= a.id
        BY <2>4, <4>1
      <4>3. m.id \in Nat /\ a.id \in Nat /\ \A b \in alerts : b.id \in Nat
        BY DEF TypeOK, Alert
      <4>4. \A b \in alerts : Log!SameAlarm(a, b) => b.id <= a.id
        <5> SUFFICES ASSUME NEW b \in alerts, Log!SameAlarm(a, b)
                     PROVE  b.id <= a.id
          OBVIOUS
        <5>1. b.id <= m.id
          BY <3>1 DEF Log!SameAlarm, Log!Newest
        <5> QED  BY <5>1, <4>2, <4>3
      <4>5. Log!Newest(a)
        BY <4>4 DEF Log!Newest
      <4> QED  BY <4>5, <2>8, <2>9
    <3> DEFINE rivals == {b \in alerts : ~Newer(a, b)} \ {a}
    <3>5. list \subseteq rivals
      BY <2>1, <3>4
    <3>6. IsFiniteSet(rivals)
      BY <2>2, FS_Subset
    <3> HIDE DEF rivals
    <3>7. Cardinality(list) <= Cardinality(rivals)
      BY <3>5, <3>6, FS_Subset
    <3>8. length = ListLimit
      BY <2>3, <3>4
    <3> QED  BY <2>1, <3>7, <3>8 DEF rivals
  <2> QED  BY <2>7, <2>9
<1>2. Spec => []NewestAlertAgrees
  BY NewestAlertIsRight
<1>3. IInv => TypeOK /\ Ordered
  BY DEF IInv
<1> QED  BY <1>1, <1>2, <1>3, AlertsFinite, Invariance, PTL
=============================================================================
