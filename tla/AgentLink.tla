------------------------------ MODULE AgentLink ------------------------------
(***************************************************************************)
(* One agent and its server (internal/collector/run.go, Upload in           *)
(* collector.go, the end of ingest in internal/server/server.go): the       *)
(* agent collects, uploads and sleeps for the interval it was last told;    *)
(* the server takes it for offline after a limit that depends on the rules  *)
(* in force, which the agent learns only with its next report.              *)
(*                                                                         *)
(* Time passes in seconds and is kept relative: what is left of the agent's *)
(* timer, and how long ago the server last accepted a sample. A request the *)
(* agent has given up may still be handled; the server accepts it unless it *)
(* has accepted a later one. The agent's clock may be set back: its samples *)
(* are refused (UploadFails) until it has caught up.                        *)
(***************************************************************************)
EXTENDS Integers

CONSTANTS
    RuleSet,            \* the rules [interval, offline] that may be in force
    DefaultInterval,    \* what a new agent assumes (3)
    CollectTimeout, UploadTimeout,      \* 10 and 10 seconds
    MaxLate,            \* bound: requests given up that may still be handled
    Horizon             \* bound: a silence this long stands for any longer

\* Seeded fault: Effective leaves room for one missed report only.
LimitOfTwo(r) == IF r.offline < r.interval * 2 + 3 THEN r.interval * 2 + 3
                 ELSE r.offline

\* Effective: never less than three intervals and three seconds.
Limit(r) == IF r.offline < r.interval * 3 + 3 THEN r.interval * 3 + 3
            ELSE r.offline

\* Rules.Validate and Upload agree on the intervals, 1 to 3600 seconds.
ASSUME AgentAssumption ==
    /\ RuleSet \subseteq [interval : Nat \ {0}, offline : Nat]
    /\ DefaultInterval \in Nat \ {0}
    /\ CollectTimeout \in Nat /\ UploadTimeout \in Nat
    /\ MaxLate \in Nat
    /\ Horizon \in Nat /\ \A r \in RuleSet : Limit(r) < Horizon

VARIABLES
    rules,      \* the effective rules of the node
    agent,      \* phase, what is left of its timer, and Run's interval
    answer,     \* the interval in the answer on its way, 0 for none
    late,       \* requests given up that the server could still accept
    silence,    \* time since LastSeen (since creation before the first one)
    since       \* history: what happened since the server last accepted

vars == <<rules, agent, answer, late, silence, since>>

\* misses: cycles that ended without an accepted sample; spent: time the agent
\* did not sleep; lowered: the interval was lowered or the agent slept longer
\* than the interval in force; absent: it was not running.
Calm == [misses |-> 0, spent |-> 0, lowered |-> FALSE, absent |-> FALSE]

Upto(n, bound) == IF n < bound THEN n ELSE bound

Down == [at |-> "down", left |-> 0, interval |-> DefaultInterval]

Init ==
    /\ rules \in RuleSet
    /\ agent = Down /\ answer = 0 /\ late = 0
    /\ silence = 0 /\ since = [Calm EXCEPT !.absent = TRUE]

Running == agent.at # "down"

Offline == silence > Limit(rules)

-----------------------------------------------------------------------------
(* The agent: collector.Run *)

Launch ==
    /\ ~Running
    /\ agent' = [Down EXCEPT !.at = "collect", !.left = CollectTimeout]
    /\ UNCHANGED <<rules, answer, late, silence, since>>

\* A request that its sender gives up may get lost or be handled later,
\* unless the server has already accepted it.
GiveUp ==
    /\ answer' = 0
    /\ \/ late' = late
       \/ agent.at = "upload" /\ answer = 0 /\ late' = Upto(late + 1, MaxLate)

Kill ==
    /\ Running
    /\ agent' = Down
    /\ GiveUp
    /\ since' = [since EXCEPT !.absent = TRUE]
    /\ UNCHANGED <<rules, silence>>

\* Sleeping longer than the interval in force counts as lowered.
TooLong(interval) == interval > rules.interval

Sleep(interval, misses) ==
    /\ agent' = [at |-> "sleep", left |-> interval, interval |-> interval]
    /\ since' = [since EXCEPT !.misses  = Upto(@ + misses, 3),
                              !.lowered = @ \/ TooLong(interval)]

Collected ==
    /\ agent.at = "collect"
    /\ agent' = [agent EXCEPT !.at = "upload", !.left = UploadTimeout]
    /\ UNCHANGED <<rules, answer, late, silence, since>>

\* Collect fails or its context expires: reported, and the interval kept.
CollectFails ==
    /\ agent.at = "collect"
    /\ Sleep(agent.interval, 1)
    /\ UNCHANGED <<rules, answer, late, silence>>

\* Seeded fault: Run declares a new variable in its loop (:= for =).
ReceiveShadowed ==
    /\ agent.at = "upload" /\ answer > 0
    /\ Sleep(agent.interval, 0)
    /\ answer' = 0
    /\ UNCHANGED <<rules, late, silence>>

\* Upload returns nil: the interval of the answer is Run's from now on.
Receive ==
    /\ agent.at = "upload" /\ answer > 0
    /\ Sleep(answer, 0)
    /\ answer' = 0
    /\ UNCHANGED <<rules, late, silence>>

\* Seeded fault: Run takes over Upload's first result whatever the error.
SleepZero ==
    /\ agent.at = "upload"
    /\ Sleep(answer, 1)
    /\ GiveUp
    /\ UNCHANGED <<rules, silence>>

\* Upload fails: the server is not reached or refuses the sample, or accepts
\* it and the answer is lost.
UploadFails ==
    /\ agent.at = "upload"
    /\ Sleep(agent.interval, IF answer = 0 THEN 1 ELSE 0)
    /\ GiveUp
    /\ UNCHANGED <<rules, silence>>

SleepEnds ==
    /\ agent.at = "sleep" /\ agent.left = 0
    /\ agent' = [agent EXCEPT !.at = "collect", !.left = CollectTimeout]
    /\ UNCHANGED <<rules, answer, late, silence, since>>

-----------------------------------------------------------------------------
(* The server: ingest, and the administrator who changes the rules *)

Accept == silence' = 0

\* ingest accepts the sample of this cycle: samples with an earlier time are
\* refused from now on (409), which are all the late ones unless the agent's
\* clock was set back meanwhile. The answer carries the interval in force.
Handle ==
    /\ agent.at = "upload" /\ answer = 0
    /\ Accept
    /\ late' \in 0..late
    /\ answer' = rules.interval
    /\ since' = Calm
    /\ UNCHANGED <<rules, agent>>

\* ingest accepts a sample whose sender no longer waits for the answer.
HandleLate ==
    /\ late > 0
    /\ Accept
    /\ late' \in 0..(late - 1)
    /\ since' = [Calm EXCEPT
            !.lowered = agent.at = "sleep" /\ TooLong(agent.interval),
            !.absent  = ~Running]
    /\ UNCHANGED <<rules, agent, answer>>

\* updateNode or putSettings.
SetRules(r) ==
    /\ r # rules
    /\ rules' = r
    /\ since' = [since EXCEPT !.lowered = @ \/ r.interval < rules.interval]
    /\ UNCHANGED <<agent, answer, late, silence>>

-----------------------------------------------------------------------------
\* A second passes; an agent whose timer is over acts before that.
Advance ==
    /\ Running => agent.left > 0
    /\ agent' = IF Running THEN [agent EXCEPT !.left = @ - 1] ELSE agent
    /\ silence' = Upto(silence + 1, Horizon)
    /\ since' = IF agent.at \in {"collect", "upload"}
                THEN [since EXCEPT !.spent = Upto(@ + 1, 4)] ELSE since
    /\ UNCHANGED <<rules, answer, late>>

Next ==
    \/ Launch \/ Kill
    \/ Collected \/ CollectFails \/ Receive \/ UploadFails \/ SleepEnds
    \/ Handle \/ HandleLate
    \/ \E r \in RuleSet : SetRules(r)
    \/ Advance

\* The timers run and Run acts when one is over. That collection, request and
\* answer succeed again and again is asked of the host and the network.
Fairness ==
    /\ WF_vars(Advance) /\ WF_vars(SleepEnds)
    /\ WF_vars(CollectFails /\ agent.left = 0)
    /\ WF_vars(UploadFails /\ agent.left = 0)
    /\ SF_vars(Collected) /\ SF_vars(Handle) /\ SF_vars(Receive)

Spec == Init /\ [][Next]_vars
FairSpec == Spec /\ Fairness

-----------------------------------------------------------------------------
Interval == Nat \ {0}

\* Every variable keeps its type: the agent always has an interval of a second
\* or more to sleep (a zero would make Run a busy loop), and its timer is never
\* negative.
TypeOK ==
    /\ rules \in RuleSet
    /\ agent \in [at : {"down", "collect", "upload", "sleep"}, left : Nat,
                  interval : Interval]
    /\ answer \in Nat
    /\ late \in 0..MaxLate
    /\ silence \in 0..Horizon
    /\ since \in [misses : 0..3, spent : 0..4, lowered : BOOLEAN,
                  absent : BOOLEAN]

\* A node is taken for offline only with a reason. While its agent runs, its
\* cycles take no more than three seconds in all and the interval is not
\* lowered under it, two reports in a row may be missed: the limit Effective
\* enforces (three intervals and three seconds) is just enough.
OfflineExplained ==
    Running /\ Offline =>
        \/ since.misses >= 3
        \/ since.spent > 3
        \/ since.lowered
        \/ since.absent

\* An interval that is left alone reaches a running agent and stays, although
\* it travels only in answers, which may get lost or be overtaken by a change.
IntervalLearned ==
    \A r \in RuleSet :
        <>[](rules = r /\ Running) => <>[](agent.interval = r.interval)
=============================================================================
