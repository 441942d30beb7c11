-------------------------- MODULE AgentLinkProofs --------------------------
(***************************************************************************)
(* Proofs about AgentLink for every set of rules, timeout and bound.       *)
(***************************************************************************)
EXTENDS AgentLink, TLAPS

\* No cause was recorded that could explain an offline node.
Regular == since.spent <= 3 /\ ~since.lowered /\ ~since.absent

\* While the server's answer is on its way, no cycle has been missed.
AnswerSound == answer > 0 => agent.at = "upload" /\ since.misses = 0

\* An agent sleeps for no longer than its interval, which is not longer than
\* the one in force unless that was lowered.
SleepSound ==
    agent.at = "sleep" =>
        /\ agent.left <= agent.interval
        /\ ~since.lowered => agent.interval <= rules.interval

\* n misses cost no more than n intervals; the sleep under way is one more.
Budget(n) ==
    Regular /\ since.misses = n =>
        CASE agent.at = "sleep"  -> silence + agent.left <=
                                    since.spent + (n + 1) * rules.interval
          [] answer > 0          -> silence <= since.spent
          [] OTHER               -> silence <=
                                    since.spent + (n + 1) * rules.interval

\* A stopped agent is recorded as absent until a sample is accepted again.
AbsentSound == ~Running => since.absent

IInv ==
    /\ TypeOK
    /\ AnswerSound /\ SleepSound /\ AbsentSound
    /\ Budget(0) /\ Budget(1) /\ Budget(2)

Since == [misses : 0..3, spent : 0..4, lowered : BOOLEAN, absent : BOOLEAN]

USE AgentAssumption

\* The types of a rule set.
LEMMA RuleTypes ==
    ASSUME NEW r \in RuleSet
    PROVE  /\ r.interval \in Nat \ {0}
           /\ r.offline \in Nat /\ Limit(r) \in Nat
           /\ r.interval * 3 + 3 <= Limit(r)
BY DEF Limit

\* What an accepted sample records.
Clean(l, b) == [misses |-> 0, spent |-> 0, lowered |-> l, absent |-> b]

LEMMA CleanTypes == \A l, b \in BOOLEAN : Clean(l, b) \in Since
BY DEF Clean, Since

\* An agent before its first cycle.
LEMMA InitIInv == Init => IInv
<1> SUFFICES ASSUME Init PROVE IInv
    OBVIOUS
<1> USE DEF Init, Down, Calm
<1>1. TypeOK
  <2>1. since = Clean(FALSE, TRUE)
    BY DEF Clean
  <2>2. since \in Since
    BY <2>1, CleanTypes, Zenon
  <2>3. agent \in [at : {"down", "collect", "upload", "sleep"}, left : Nat,
                   interval : Interval]
    BY DEF Interval
  <2> QED
    BY <2>2, <2>3 DEF TypeOK, Since
<1>2. AnswerSound /\ SleepSound /\ AbsentSound
  BY DEF AnswerSound, SleepSound, AbsentSound
<1>3. since.absent
  OBVIOUS
<1>4. Budget(0) /\ Budget(1) /\ Budget(2)
  BY <1>3 DEF Budget, Regular
<1> QED
  BY <1>1, <1>2, <1>4 DEF IInv

\* Falling asleep keeps the invariant's part about sleep and types.
LEMMA SleepTypes ==
    ASSUME TypeOK, NEW i \in Interval, NEW m \in {0, 1}, Sleep(i, m)
    PROVE  /\ agent'.at = "sleep" /\ agent'.left = i /\ agent'.interval = i
           /\ agent' \in [at : {"down", "collect", "upload", "sleep"},
                          left : Nat, interval : Interval]
           /\ since' \in Since
           /\ since'.spent = since.spent /\ since'.absent = since.absent
           /\ since'.misses = Upto(since.misses + m, 3)
           /\ since'.lowered = (since.lowered \/ i > rules.interval)
<1> USE DEF TypeOK, Sleep, TooLong, Interval, Since
<1>1. since.misses \in 0..3 /\ Upto(since.misses + m, 3) \in 0..3
  BY DEF Upto
<1>2. since' = [misses |-> Upto(since.misses + m, 3), spent |-> since.spent,
                lowered |-> since.lowered \/ i > rules.interval,
                absent |-> since.absent]
  OBVIOUS
<1>3. (since.lowered \/ i > rules.interval) \in BOOLEAN
  OBVIOUS
<1>4. since' \in Since
  BY <1>1, <1>2, <1>3
<1> QED
  BY <1>2, <1>4

\* What HandleLate records.
LEMMA LateTypes ==
    ASSUME TypeOK, HandleLate
    PROVE  /\ since' \in Since
           /\ since'.misses = 0 /\ since'.spent = 0
           /\ since'.lowered = (agent.at = "sleep" /\ TooLong(agent.interval))
           /\ since'.absent = ~Running
<1>1. since' = Clean(agent.at = "sleep" /\ TooLong(agent.interval), ~Running)
  BY DEF HandleLate, Calm, Clean
<1> QED
  BY <1>1, CleanTypes DEF Clean, Running, TooLong

\* Every step keeps the types.
LEMMA NextTypeOK == TypeOK /\ [Next]_vars => TypeOK'
<1> SUFFICES ASSUME TypeOK, [Next]_vars PROVE TypeOK'
    OBVIOUS
<1> USE DEF TypeOK, Interval
<1>0. agent.interval \in Interval
  OBVIOUS
<1>1. CASE Launch
  BY <1>1 DEF Launch, Down
<1>2. CASE Kill
  <2>1. agent' \in [at : {"down", "collect", "upload", "sleep"}, left : Nat,
                    interval : Interval]
    BY <1>2 DEF Kill, Down
  <2>2. since' = [since EXCEPT !.absent = TRUE]
    BY <1>2 DEF Kill
  <2>3. answer' \in Nat /\ late' \in 0..MaxLate
    BY <1>2 DEF Kill, GiveUp, Upto
  <2> QED
    BY <1>2, <2>1, <2>2, <2>3 DEF Kill
<1>3. CASE Collected
  BY <1>3 DEF Collected
<1>4. CASE CollectFails
  BY <1>0, <1>4, SleepTypes DEF CollectFails, Since
<1>5. CASE Receive
  <2>1. answer \in Interval
    BY <1>5 DEF Receive
  <2> QED
    BY <1>5, <2>1, SleepTypes DEF Receive, Since
<1>6. CASE UploadFails
  <2>1. PICK m \in {0, 1} : Sleep(agent.interval, m)
    BY <1>6 DEF UploadFails
  <2>2. late' \in 0..MaxLate /\ answer' \in Nat
    BY <1>6 DEF UploadFails, GiveUp, Upto
  <2> QED
    BY <1>0, <1>6, <2>1, <2>2, SleepTypes DEF UploadFails, Since
<1>7. CASE SleepEnds
  BY <1>7 DEF SleepEnds
<1>8. CASE Handle
  BY <1>8, RuleTypes DEF Handle, Accept, Calm
<1>9. CASE HandleLate
  <2>1. since' \in Since
    BY <1>9, LateTypes
  <2>2. silence' \in 0..Horizon /\ late' \in 0..MaxLate
    BY <1>9 DEF HandleLate, Accept
  <2> QED
    BY <1>9, <2>1, <2>2 DEF HandleLate, Since
<1>10. ASSUME NEW r \in RuleSet, SetRules(r) PROVE TypeOK'
  BY <1>10, RuleTypes DEF SetRules
<1>11. CASE Advance
  BY <1>11 DEF Advance, Upto, Running
<1>12. CASE UNCHANGED vars
  BY <1>12 DEF vars
<1> QED
  BY <1>1, <1>2, <1>3, <1>4, <1>5, <1>6, <1>7, <1>8, <1>9, <1>10, <1>11,
     <1>12 DEF Next

\* Every step keeps the invariant: a cycle adds at most one interval and the
\* time the agent was awake to the silence.
LEMMA NextIInv == IInv /\ [Next]_vars => IInv'
<1> SUFFICES ASSUME IInv, [Next]_vars PROVE IInv'
    OBVIOUS
<1>t. TypeOK /\ TypeOK'
  BY NextTypeOK DEF IInv
<1>r. /\ rules.interval \in Nat \ {0} /\ rules'.interval \in Nat \ {0}
      /\ agent.left \in Nat /\ agent.interval \in Nat \ {0}
      /\ silence \in Nat /\ silence' \in Nat
      /\ since.misses \in 0..3 /\ since.spent \in 0..4
  BY <1>t, RuleTypes DEF TypeOK, Interval
<1>s. since \in Since
  BY <1>t DEF TypeOK, Since
<1> USE DEF IInv, AnswerSound, SleepSound, AbsentSound, Budget, Regular
<1>1. CASE Launch
  BY <1>1, <1>r, <1>t DEF Launch, Down, Running, TypeOK
<1>2. CASE Kill
  BY <1>2, <1>t DEF Kill, GiveUp, Down, Running, TypeOK
<1>3. CASE Collected
  BY <1>3, <1>r, <1>t DEF Collected, Running, TypeOK
<1>4. CASE CollectFails
  <2>1. agent.interval \in Interval /\ Sleep(agent.interval, 1)
    BY <1>4, <1>r DEF CollectFails, Interval
  <2> QED
    BY <1>4, <1>r, <1>t, <2>1, SleepTypes
       DEF CollectFails, Upto, Running, TypeOK
<1>5. CASE Receive
  <2>1. answer \in Interval /\ Sleep(answer, 0)
    BY <1>5, <1>t DEF Receive, Interval, TypeOK
  <2> QED
    BY <1>5, <1>r, <1>t, <2>1, SleepTypes
       DEF Receive, Upto, Running, TypeOK
<1>6. CASE UploadFails
  <2>1. agent.interval \in Interval
    BY <1>r DEF Interval
  <2>2. CASE answer = 0
    BY <1>6, <1>r, <1>t, <2>1, <2>2, SleepTypes
       DEF UploadFails, GiveUp, Upto, Running, TypeOK
  <2>3. CASE answer # 0
    BY <1>6, <1>r, <1>t, <2>1, <2>3, SleepTypes
       DEF UploadFails, GiveUp, Upto, Running, TypeOK
  <2> QED
    BY <2>2, <2>3
<1>7. CASE SleepEnds
  BY <1>7, <1>r, <1>t DEF SleepEnds, Running, TypeOK
<1>8. CASE Handle
  BY <1>8, <1>r, <1>t DEF Handle, Accept, Calm, Running, TypeOK
<1>9. CASE HandleLate
  BY <1>9, <1>r, <1>t, LateTypes DEF HandleLate, Accept, Running, TooLong, TypeOK
<1>10. ASSUME NEW r \in RuleSet, SetRules(r) PROVE IInv'
  BY <1>10, <1>r, <1>t, RuleTypes DEF SetRules, Running, TypeOK
<1>11. CASE Advance
  BY <1>11, <1>r, <1>t DEF Advance, Upto, Running, TypeOK
<1>12. CASE UNCHANGED vars
  BY <1>12, <1>t DEF vars, Running
<1> QED
  BY <1>t, <1>1, <1>2, <1>3, <1>4, <1>5, <1>6, <1>7, <1>8, <1>9, <1>10,
     <1>11, <1>12 DEF Next

-----------------------------------------------------------------------------
\* The types are kept: the agent never sleeps for less than a second.
THEOREM TypeCorrect == Spec => []TypeOK
<1>1. IInv => TypeOK
  BY DEF IInv
<1> QED
  BY InitIInv, NextIInv, <1>1, PTL DEF Spec

\* The limit that Effective enforces tolerates two missed reports, for every
\* interval and limit that the rules allow.
THEOREM OfflineHasReason == Spec => []OfflineExplained
<1>1. IInv => OfflineExplained
  <2> SUFFICES ASSUME IInv, Running, Offline, since.misses < 3, Regular
               PROVE  FALSE
    BY DEF OfflineExplained, Regular, IInv, TypeOK
  <2>1. /\ rules.interval * 3 + 3 < silence
        /\ rules.interval \in Nat /\ silence \in Nat
        /\ agent.left \in Nat /\ since.misses \in 0..2 /\ since.spent \in 0..3
    BY RuleTypes DEF Offline, IInv, TypeOK, Regular
  <2> QED
    BY <2>1 DEF IInv, Budget
<1> QED
  BY InitIInv, NextIInv, <1>1, PTL DEF Spec
=============================================================================
