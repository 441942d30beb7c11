------------------------------ MODULE Queries ------------------------------
(***************************************************************************)
(* What readers are told (Store.History, Store.Alerts and the list of      *)
(* active alarms App.vue derives from the latter), over the states of      *)
(* Monitor. The queries change nothing, so they are operators on its       *)
(* tables.                                                                  *)
(***************************************************************************)
EXTENDS Monitor, FiniteSetsExt

CONSTANT ListLimit   \* alerts one query returns (100)

ASSUME QueriesAssumption == ListLimit \in Nat \ {0}

-----------------------------------------------------------------------------
(* GET /api/nodes/{id}/history, over the rows of one node. Their key is the *)
(* time, so the rows are a function from some instants to figures.          *)

Selected(rows, q) == {t \in DOMAIN rows : q.from <= t /\ t < q.to}

\* The length of a bucket: the window over the limit, rounded up.
Width(q) == Max({1, (q.to - q.from + q.limit - 1) \div q.limit})

Bucket(t, q) == (t - q.from) \div Width(q)

Known(rows, ts) == {t \in ts : rows[t].cpu # NoCPU}

\* One row of the answer, of the samples at ts: the average of a column is
\* its sum over the rows that have a figure.
Point(rows, ts) ==
    LET known == Known(rows, ts)
    IN  [time |-> Min(ts),
         cpu  |-> [sum   |-> MapThenSumSet(LAMBDA t : rows[t].cpu, known),
                   count |-> Cardinality(known)],
         disk |-> Max({rows[t].disk : t \in ts})]

Points(rows, q) ==
    LET ts == Selected(rows, q)
    IN  {Point(rows, {t \in ts : Bucket(t, q) = b}) :
            b \in {Bucket(t, q) : t \in ts}}

\* The chart is a faithful digest: it has no more points than were asked for,
\* each sample lies within a bucket's length after its point and none exceeds
\* the disk figure there, every disk figure is one of a sample, and no sample
\* is averaged twice (README.md:181).
Digest(rows, q) ==
    LET ts == Selected(rows, q)  points == Points(rows, q)
    IN  /\ Cardinality(points) <= q.limit
        /\ \A t \in ts : \E p \in points :
              /\ p.time <= t /\ t < p.time + Width(q)
              /\ p.disk >= rows[t].disk
        /\ \A p \in points : \E t \in ts : rows[t].disk = p.disk
        /\ Cardinality(Known(rows, ts)) =
              MapThenSumSet(LAMBDA p : p.cpu.count, points)

-----------------------------------------------------------------------------
(* GET /api/alerts and the list of active alarms *)

\* Seeded fault: alerts of one instant are listed in any order.
NewerByTime(a, b) == a.time > b.time

\* ORDER BY ts DESC, id DESC
Newer(a, b) == a.time > b.time \/ (a.time = b.time /\ a.id > b.id)

\* The lists the query may return: the alerts of one transaction have the same
\* time and, within a nanosecond, random ids.
Listings ==
    {l \in kSubset(Min({ListLimit, Cardinality(alerts)}), alerts) :
        \A a \in alerts \ l, b \in l : ~Newer(a, b)}

\* activeAlerts: the first entry of each alarm in the list, if it is active.
ActiveAlerts(list) ==
    {a \in list :
        /\ a.active
        /\ \A b \in list : b.node = a.node /\ b.kind = a.kind => ~Newer(b, a)}

Alarm(a) == <<a.node, a.kind>>

\* The page counts an alarm as active exactly while it is raised, as long as
\* its alert is retained and ListLimit newer ones have not pushed it out: the
\* list is cut off and several alerts of one alarm may carry one time.
ActiveAlertsExact ==
    \A list \in Listings :
        LET shown == {Alarm(a) : a \in ActiveAlerts(list)}
        IN  /\ shown \subseteq RaisedAlarms
            /\ \A a \in alerts : Alarm(a) \in RaisedAlarms \ shown =>
                  Cardinality({b \in alerts : ~Newer(a, b)} \ {a}) >= ListLimit
=============================================================================
