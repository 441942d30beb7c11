------------------------------ MODULE AlertLog ------------------------------
(***************************************************************************)
(* What the alert log promises, without samples, rules, clocks or crashes: *)
(* an alarm (a node and a kind) is either raised or not, each change of an *)
(* alarm is logged by the very step that makes it durable, and old entries *)
(* leave the log oldest first. Monitor implements this specification.      *)
(***************************************************************************)
EXTENDS Integers

CONSTANTS Node, Kind, Time

VARIABLES
    raised,     \* the alarms raised now
    log,        \* the retained entries
    stamp       \* the order of the entries: the next id

vars == <<raised, log, stamp>>

Alarm == Node \X Kind

Entry == [id : Nat, node : Node, kind : Kind, active : BOOLEAN, time : Time]

Init == raised = {} /\ log = {} /\ stamp = 0

\* The alarms that differ between two sets of raised alarms.
Switched(old, new) == (old \ new) \cup (new \ old)

Logged(old, new, id, t) ==
    {[id |-> id, node |-> a[1], kind |-> a[2], active |-> a \in new,
      time |-> t] : a \in Switched(old, new)}

\* One or more alarms are raised or cleared and logged.
Switch ==
    /\ raised' \in SUBSET Alarm
    /\ raised' # raised
    /\ \E t \in Time : log' = log \cup Logged(raised, raised', stamp, t)
    /\ stamp' = stamp + 1

\* Retention: what is dropped is older than everything kept.
Retire ==
    /\ log' \in SUBSET log
    /\ \A a \in log \ log', b \in log' : a.id < b.id
    /\ UNCHANGED <<raised, stamp>>

Next == Switch \/ Retire

Spec == Init /\ [][Next]_vars

-----------------------------------------------------------------------------
TypeOK ==
    /\ raised \in SUBSET Alarm
    /\ log \in SUBSET Entry
    /\ stamp \in Nat

SameAlarm(a, b) == a.node = b.node /\ a.kind = b.kind

Newest(a) == \A b \in log : SameAlarm(a, b) => b.id <= a.id

\* The newest retained entry of an alarm says what the alarm is now: the
\* dashboard derives the list of active alarms from the log alone.
NewestEntryAgrees ==
    \A a \in log : Newest(a) => (a.active <=> <<a.node, a.kind>> \in raised)

\* Between two entries that raise (or two that clear) one alarm there is one
\* that does the opposite: no change is reported twice and none is missing.
EntriesAlternate ==
    \A a, b \in log :
        SameAlarm(a, b) /\ a.id < b.id /\ a.active = b.active =>
            \E c \in log : /\ SameAlarm(a, c)
                           /\ a.id < c.id /\ c.id < b.id
                           /\ c.active # a.active
=============================================================================
