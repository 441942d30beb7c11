---------------------------- MODULE OutboxProofs ----------------------------
(***************************************************************************)
(* The outbox drops nothing, repeats a message only for a reason and never  *)
(* sends a settled row again, for any number of alerts, attempts, faults    *)
(* and crashes, and any timeouts.                                           *)
(***************************************************************************)
EXTENDS Outbox, FiniteSetTheorems, TLAPS

-----------------------------------------------------------------------------
(* The query: the ranks of the due rows are 1 to their number, each once.   *)

LEMMA RowFinite == IsFiniteSet(Row)
<1>1. IsFiniteSet({"telegram"})
  BY FS_Singleton
<1>2. IsFiniteSet({"telegram", "webhook"})
  <2>1. {"telegram", "webhook"} = {"telegram"} \cup {"webhook"}
    OBVIOUS
  <2> QED  BY <1>1, <2>1, FS_AddElement
<1>3. IsFiniteSet(Channel)
  <2>1. Channel \in SUBSET {"telegram", "webhook"}
    BY OutboxAssumption
  <2> QED  BY <1>2, <2>1, FS_Subset
<1>4. IsFiniteSet(1..MaxAlerts)
  BY FS_Interval, OutboxAssumption
<1> QED  BY <1>3, <1>4, FS_Product DEF Row

\* (next_at, id) orders the rows totally.
LEMMA BeforeOrders ==
    ASSUME TypeOK, NEW r \in Row, NEW s \in Row
    PROVE  /\ ~Before(r, r)
           /\ Before(r, s) => ~Before(s, r)
           /\ r # s => Before(r, s) \/ Before(s, r)
           /\ \A t \in Row : Before(r, s) /\ Before(s, t) => Before(r, t)
<1>1. ASSUME NEW x \in Row
      PROVE  /\ x[1] \in Nat /\ x[2] \in {"telegram", "webhook"}
             /\ x = <<x[1], x[2]>>
             /\ deliveries[x].nextAt \in Nat
  <2>1. deliveries[x] \in Delivery
    BY DEF TypeOK
  <2>2. PICK i \in 1..MaxAlerts, c \in Channel : x = <<i, c>>
    BY DEF Row
  <2>3. i \in Nat /\ c \in {"telegram", "webhook"}
    BY <2>2, OutboxAssumption
  <2> QED  BY <2>1, <2>2, <2>3 DEF Delivery
<1>2. r = s <=> r[1] = s[1] /\ r[2] = s[2]
  BY <1>1
<1>3. ~Before(r, r) /\ (Before(r, s) => ~Before(s, r))
  BY <1>1 DEF Before
<1>4. r # s => Before(r, s) \/ Before(s, r)
  BY <1>1, <1>2 DEF Before
<1>5. ASSUME NEW t \in Row, Before(r, s), Before(s, t) PROVE Before(r, t)
  BY <1>1, <1>5 DEF Before
<1> QED  BY <1>3, <1>4, <1>5

\* Store.Due returns due rows, none of them twice, in their order, and those it
\* leaves out, because the batch is full, come after all it returns.
THEOREM DueIsFirst ==
    ASSUME TypeOK, NEW now \in Nat
    PROVE  /\ Due(now) \in Seq(DueRows(now))
           /\ \A i, j \in 1..Len(Due(now)) : Due(now)[i] = Due(now)[j] => i = j
           /\ \A i, j \in 1..Len(Due(now)) :
                 i < j => Before(Due(now)[i], Due(now)[j])
           /\ \A r \in DueRows(now) :
                 \/ \E i \in 1..Len(Due(now)) : Due(now)[i] = r
                 \/ /\ Len(Due(now)) = BatchSize
                    /\ \A i \in 1..BatchSize : Before(Due(now)[i], r)
<1> DEFINE rows == DueRows(now)
           below(r) == {s \in rows : Before(s, r)}
           rank(r) == Cardinality(below(r)) + 1
           count == Cardinality(rows)
           size == IF count < BatchSize THEN count ELSE BatchSize
           due == [i \in 1..size |-> CHOOSE r \in rows : rank(r) = i]
<1>1. rows \subseteq Row
  BY DEF DueRows
<1>2. IsFiniteSet(rows) /\ count \in Nat
  BY <1>1, RowFinite, FS_Subset, FS_CardinalityType
<1>3. Due(now) = due
  BY DEF Due
<1> HIDE DEF rows
<1>4. ASSUME NEW r \in rows
      PROVE  /\ IsFiniteSet(below(r)) /\ Cardinality(below(r)) \in Nat
             /\ rank(r) \in 1..count
  <2>1. IsFiniteSet(rows \ {r}) /\ Cardinality(rows \ {r}) = count - 1
    BY <1>2, FS_RemoveElement
  <2>2. below(r) \in SUBSET (rows \ {r})
    BY <1>1, BeforeOrders
  <2> HIDE DEF below
  <2>3. /\ IsFiniteSet(below(r))
        /\ Cardinality(below(r)) <= Cardinality(rows \ {r})
    BY <2>1, <2>2, FS_Subset
  <2>4. Cardinality(below(r)) \in Nat
    BY <2>3, FS_CardinalityType
  <2> QED  BY <2>1, <2>3, <2>4, <1>2
<1>5. ASSUME NEW r \in rows, NEW s \in rows, Before(r, s)
      PROVE  rank(r) < rank(s)
  <2>1. r \in below(s) /\ below(r) \in SUBSET (below(s) \ {r})
    BY <1>1, <1>5, BeforeOrders
  <2>2. /\ IsFiniteSet(below(s)) /\ Cardinality(below(s)) \in Nat
        /\ Cardinality(below(r)) \in Nat
    BY <1>4
  <2> HIDE DEF below
  <2>3. /\ IsFiniteSet(below(s) \ {r})
        /\ Cardinality(below(s) \ {r}) = Cardinality(below(s)) - 1
    BY <2>1, <2>2, FS_RemoveElement
  <2>4. Cardinality(below(r)) <= Cardinality(below(s) \ {r})
    BY <2>1, <2>3, FS_Subset
  <2> QED  BY <2>2, <2>3, <2>4
<1>6. \A i \in 1..count : \E r \in rows : rank(r) = i
  <2> DEFINE f == [r \in rows |-> rank(r)]
  <2>1. \A r \in rows : rank(r) \in 1..count /\ rank(r) \in Int
    <3> SUFFICES ASSUME NEW r \in rows PROVE rank(r) \in 1..count
      BY <1>2
    <3> QED  BY <1>4
  <2>2. \A r, s \in rows : rank(r) = rank(s) => r = s
    <3> SUFFICES ASSUME NEW r \in rows, NEW s \in rows, r # s
                 PROVE  rank(r) # rank(s)
      OBVIOUS
    <3>1. Before(r, s) \/ Before(s, r)
      BY <1>1, BeforeOrders
    <3>2. rank(r) < rank(s) \/ rank(s) < rank(r)
      BY <1>5, <3>1
    <3> HIDE DEF rank
    <3> QED  BY <2>1, <3>2
  <2> HIDE DEF rank
  <2>3. f \in Injection(rows, 1..count)
    <3>1. f \in [rows -> 1..count]
      BY <2>1
    <3>2. \A r, s \in rows : f[r] = f[s] => r = s
      BY <2>2
    <3> QED  BY <3>1, <3>2 DEF Injection, IsInjective
  <2>4. IsFiniteSet(1..count) /\ Cardinality(1..count) = count
    BY <1>2, FS_Interval
  <2>5. f \in Surjection(rows, 1..count)
    BY <2>3, <2>4, FS_Injection
  <2> QED  BY <2>5 DEF Surjection
<1>7. size \in Nat /\ size <= count
  BY <1>2, OutboxAssumption
<1>8. ASSUME NEW i \in 1..size PROVE due[i] \in rows /\ rank(due[i]) = i
  <2>1. i \in 1..count
    BY <1>2, <1>7
  <2>2. \E r \in rows : rank(r) = i
    BY <2>1, <1>6
  <2>3. due[i] = CHOOSE r \in rows : rank(r) = i
    OBVIOUS
  <2> HIDE DEF rank, due
  <2> QED  BY <2>2, <2>3
<1> HIDE DEF rank, size
<1>9. due \in Seq(rows) /\ Len(due) = size
  BY <1>7, <1>8
<1>10. \A i, j \in 1..size : due[i] = due[j] => i = j
  BY <1>8
<1>11. ASSUME NEW r \in rows, NEW s \in rows, rank(r) < rank(s)
       PROVE  Before(r, s)
  <2>1. rank(r) \in Nat /\ rank(s) \in Nat
    <3>1. rank(r) \in 1..count /\ rank(s) \in 1..count
      BY <1>4
    <3> QED  BY <3>1, <1>2
  <2>2. ~(rank(s) < rank(r)) /\ r # s
    BY <2>1, <1>11
  <2>3. ~Before(s, r)
    BY <2>2, <1>5
  <2> QED  BY <2>2, <2>3, <1>1, BeforeOrders
<1>12. ASSUME NEW i \in 1..size, NEW j \in 1..size, i < j
       PROVE  Before(due[i], due[j])
  <2>1. /\ due[i] \in rows /\ due[j] \in rows
        /\ rank(due[i]) < rank(due[j])
    BY <1>8, <1>12
  <2> QED  BY <2>1, <1>11
<1>13. ASSUME NEW r \in rows, \A i \in 1..size : due[i] # r
       PROVE  size = BatchSize /\ \A i \in 1..size : Before(due[i], r)
  <2>1. rank(r) \in 1..count
    BY <1>4
  <2>2. ~(rank(r) \in 1..size)
    <3> SUFFICES ASSUME rank(r) \in 1..size PROVE FALSE
      OBVIOUS
    <3>1. due[rank(r)] \in rows /\ rank(due[rank(r)]) = rank(r)
      BY <1>8
    <3>2. due[rank(r)] # r
      BY <1>13
    <3> DEFINE s == due[rank(r)]
    <3> HIDE DEF s
    <3>3. s \in rows /\ s # r /\ rank(s) = rank(r)
      BY <3>1, <3>2 DEF s
    <3>4. Before(r, s) \/ Before(s, r)
      BY <3>3, <1>1, BeforeOrders
    <3>5. rank(r) < rank(s) \/ rank(s) < rank(r)
      BY <3>3, <3>4, <1>5
    <3> QED  BY <3>3, <3>5, <2>1, <1>2
  <2>3. rank(r) \in Nat /\ size < rank(r)
    BY <2>1, <2>2, <1>2, <1>7
  <2>4. size = BatchSize
    BY <2>1, <2>3, <1>2, OutboxAssumption DEF size
  <2>5. ASSUME NEW i \in 1..size PROVE Before(due[i], r)
    <3>1. due[i] \in rows /\ rank(due[i]) < rank(r)
      BY <1>7, <1>8, <2>3
    <3> QED  BY <3>1, <1>11
  <2> QED  BY <2>4, <2>5
<1> HIDE DEF due
<1>14. /\ \A i, j \in 1..Len(due) : due[i] = due[j] => i = j
       /\ \A i, j \in 1..Len(due) : i < j => Before(due[i], due[j])
  BY <1>9, <1>10, <1>12
<1>15. \A r \in rows : \/ \E i \in 1..Len(due) : due[i] = r
                      \/ /\ Len(due) = BatchSize
                         /\ \A i \in 1..BatchSize : Before(due[i], r)
  BY <1>9, <1>13
<1> QED  BY <1>3, <1>9, <1>14, <1>15 DEF rows

-----------------------------------------------------------------------------
(* The invariant: what the rows, the task and the network history have to   *)
(* do with each other.                                                      *)

\* Rows of alerts that are not raised yet have no past.
Unissued ==
    \A r \in Row : r[1] > raised =>
        deliveries[r] = Absent /\ history[r] = Untouched

\* A pending row has not been settled, its attempts were sent, and one is left.
PendingOpen ==
    \A r \in Row : deliveries[r].done = "pending" =>
        /\ history[r].final = "none"
        /\ deliveries[r].attempts <= history[r].sent
        /\ deliveries[r].attempts < MaxAttempts

\* The rows the task has left are pending, and each is there once.
BatchOpen ==
    /\ \A i \in 1..Len(task.batch) :
          /\ deliveries[task.batch[i].row].done = "pending"
          /\ task.batch[i].attempts <= history[task.batch[i].row].sent
          /\ task.batch[i].attempts < MaxAttempts
    /\ \A i, j \in 1..Len(task.batch) :
          task.batch[i].row = task.batch[j].row => i = j

\* What has become of the row the task is at.
AtWork ==
    /\ task.at \in {"idle", "query"} => task.batch = <<>>
    /\ task.at \in {"sending", "succeeded", "failed"} => task.batch # <<>>
    /\ task.at = "succeeded" =>
          history[Current.row].got > 0 \/ history[Current.row].skipped
    /\ task.at \in {"sending", "failed"} =>
          history[Current.row].sent > Current.attempts
    /\ task.at = "sending" => Current.row[2] \in task.config

\* Every message that arrived is in doubt, but one of a row that is settled or
\* about to be.
Arrivals ==
    \A r \in Row :
        /\ history[r].got <= 1 + history[r].doubts
        /\ history[r].final = "none" /\ ~(Reached /\ r = Current.row) =>
              history[r].got <= history[r].doubts

\* The task has the settings of its start: a channel it has and that is not
\* enabled was disabled since.
Window ==
    /\ task.now <= Now
    /\ task.at # "idle" =>
          \A c \in task.config \ enabled : task.now <= disabledAt[c]

IInv ==
    /\ TypeOK /\ Unissued /\ PendingOpen /\ BatchOpen /\ AtWork /\ Arrivals
    /\ Window /\ NothingDropped

Past == [queued : BOOLEAN, sent : 0..MaxCount, got : 0..MaxCount,
         doubts : 0..MaxCount, skipped : BOOLEAN,
         final : {"none"} \cup Settled]
Task == [at : {"idle", "query", "next", "sending", "succeeded", "failed"},
         config : SUBSET Channel, now : Nat, batch : Seq(Item), since : Nat]

LEMMA Types ==
    ASSUME TypeOK
    PROVE  /\ Now \in Nat /\ MaxCount \in Nat /\ enabled \subseteq Channel
           /\ deliveries \in [Row -> Delivery] /\ history \in [Row -> Past]
           /\ raised \in Nat /\ task \in Task /\ task.batch \in Seq(Item)
           /\ Len(task.batch) \in Nat /\ task.config \subseteq Channel
           /\ task.now \in Nat /\ disabledAt \in [Channel -> Nat]
<1>1. task \in Task /\ history \in [Row -> Past]
  BY DEF TypeOK, Task, Past
<1>2. task.batch \in Seq(Item)
  BY <1>1 DEF Task
<1>3. Now \in Nat /\ MaxCount \in Nat /\ raised \in Nat
  BY OutboxAssumption DEF TypeOK
<1> QED  BY <1>1, <1>2, <1>3 DEF TypeOK, Task

\* What the task does to itself and to the past of its rows keeps the types.
LEMMA TaskTypes ==
    ASSUME TypeOK, task' \in Task, history' \in [Row -> Past],
           UNCHANGED <<enabled, deliveries, raised, disabledAt, edits>>,
           up' \in BOOLEAN, faults' \in Nat, crashes' \in Nat
    PROVE  TypeOK'
<1>1. history' \in [Row -> [queued : BOOLEAN, sent : 0..MaxCount,
                           got : 0..MaxCount, doubts : 0..MaxCount,
                           skipped : BOOLEAN, final : {"none"} \cup Settled]]
  BY DEF Past
<1>2. task' \in [at : {"idle", "query", "next", "sending", "succeeded",
                      "failed"},
                config : SUBSET Channel, now : Nat, batch : Seq(Item),
                since : Nat]
  BY DEF Task
<1>3. /\ enabled' \in SUBSET Channel
      /\ deliveries' \in [Row -> Delivery] /\ raised' \in 0..MaxAlerts
      /\ disabledAt' \in [Channel -> Nat] /\ edits' \in Nat
  BY DEF TypeOK
<1> QED  BY <1>1, <1>2, <1>3 DEF TypeOK

LEMMA CurrentItem ==
    ASSUME TypeOK, task.batch # <<>>
    PROVE  /\ Current = task.batch[1] /\ 1 \in 1..Len(task.batch)
           /\ Current \in Item /\ Current.row \in Row
           /\ Current.attempts \in Nat
<1>1. task.batch \in Seq(Item) /\ Len(task.batch) \in Nat
  BY Types
<1>2. Current = task.batch[1] /\ 1 \in 1..Len(task.batch)
  BY <1>1 DEF Current
<1>3. Current \in Item
  BY <1>1, <1>2
<1> QED  BY <1>2, <1>3 DEF Item

LEMMA DelayType == ASSUME NEW a \in Nat PROVE Delay(a) \in Nat
<1> DEFINE e == IF a < 5 THEN a ELSE 5
<1>1. e = 0 \/ e = 1 \/ e = 2 \/ e = 3 \/ e = 4 \/ e = 5
  OBVIOUS
<1>2. Delay(a) = 2 ^ e
  BY DEF Delay
<1> HIDE DEF e
<1>3. CASE e = 0
  BY <1>2, <1>3
<1>4. CASE e = 1
  BY <1>2, <1>4
<1>5. CASE e = 2
  BY <1>2, <1>5
<1>6. CASE e = 3
  BY <1>2, <1>6
<1>7. CASE e = 4
  BY <1>2, <1>7
<1>8. CASE e = 5
  BY <1>2, <1>8
<1> QED  BY <1>1, <1>3, <1>4, <1>5, <1>6, <1>7, <1>8

\* What the history counts up to its bound.
LEMMA CountType ==
    ASSUME NEW n \in 0..MaxCount
    PROVE  /\ Count(n) \in 0..MaxCount /\ n <= Count(n) /\ Count(n) > 0
           /\ \A m \in 0..MaxCount : /\ m <= n => Count(m) <= Count(n)
                                     /\ m <= 1 + n => m <= Count(n)
           /\ \A a \in Nat : a <= n /\ a < MaxAttempts => Count(n) > a
  BY OutboxAssumption DEF Count

LEMMA InitIInv == Init => IInv
<1> SUFFICES ASSUME Init PROVE IInv
  OBVIOUS
<1>1. Idle \in Task /\ Idle.batch = <<>> /\ Idle.at = "idle" /\ Idle.now = 0
  BY DEF Idle, Task
<1>2. TypeOK
  <2>1. Absent \in Delivery
    BY DEF Absent, Delivery
  <2>2. Untouched \in Past
    BY OutboxAssumption DEF Untouched, Past
  <2> QED
    BY <1>1, <2>1, <2>2, OutboxAssumption
    DEF Init, TypeOK, Past, Task
<1>3. Unissued /\ PendingOpen /\ Arrivals /\ NothingDropped
  BY DEF Init, Unissued, PendingOpen, Arrivals, NothingDropped, Untouched,
         Absent
<1>4. BatchOpen /\ AtWork /\ Window
  BY <1>1, OutboxAssumption DEF Init, BatchOpen, AtWork, Window
<1> QED  BY <1>2, <1>3, <1>4 DEF IInv

-----------------------------------------------------------------------------
(* One lemma per action: it preserves IInv.                                 *)

\* Steps that leave the rows and their history alone.
LEMMA RowsAlone ==
    ASSUME IInv, UNCHANGED <<deliveries, history, raised>>
    PROVE  Unissued' /\ PendingOpen' /\ NothingDropped'
  BY DEF IInv, Unissued, PendingOpen, NothingDropped

\* The task ends, with no row in doubt.
LEMMA TaskEnds ==
    ASSUME TypeOK, Window, task' = Idle
    PROVE  BatchOpen' /\ AtWork' /\ Window' /\ task' \in Task /\ ~Reached'
<1>1. /\ task'.at = "idle" /\ task'.batch = <<>> /\ task'.now = 0
      /\ task' \in Task
  BY DEF Idle, Task
<1>2. Now \in Nat
  BY Types
<1> QED  BY <1>1, <1>2 DEF BatchOpen, AtWork, Window, Reached

LEMMA EnqueueIInv == IInv /\ Enqueue => IInv'
<1> SUFFICES ASSUME IInv, Enqueue PROVE IInv'
  OBVIOUS
<1> DEFINE new(r) == r[1] = raised + 1 /\ r[2] \in enabled
<1>1. /\ raised' = raised + 1 /\ raised < MaxAlerts
      /\ UNCHANGED <<up, enabled, task, disabledAt, edits, faults,
                     crashes>>
      /\ deliveries' = [r \in Row |-> IF new(r)
             THEN [done |-> "pending", attempts |-> 0, nextAt |-> 0]
             ELSE deliveries[r]]
      /\ history' = [r \in Row |-> IF new(r)
             THEN [history[r] EXCEPT !.queued = TRUE] ELSE history[r]]
  BY DEF Enqueue, bounds
<1>2. /\ TypeOK /\ raised \in Nat /\ deliveries \in [Row -> Delivery]
      /\ history \in [Row -> Past] /\ task.batch \in Seq(Item)
      /\ Len(task.batch) \in Nat
  BY Types DEF IInv
<1>3. \A r \in Row : r[1] \in Nat
  BY OutboxAssumption DEF Row
<1>4. ASSUME NEW r \in Row
      PROVE  /\ history'[r] \in Past /\ deliveries'[r] \in Delivery
             /\ history'[r].sent = history[r].sent
             /\ history'[r].got = history[r].got
             /\ history'[r].doubts = history[r].doubts
             /\ history'[r].skipped = history[r].skipped
             /\ history'[r].final = history[r].final
  <2>1. [done |-> "pending", attempts |-> 0, nextAt |-> 0] \in Delivery
    BY DEF Delivery
  <2>2. history[r] \in Past /\ deliveries[r] \in Delivery
    BY <1>2
  <2>3. CASE new(r)
    <3>1. /\ history'[r] = [history[r] EXCEPT !.queued = TRUE]
          /\ deliveries'[r] = [done |-> "pending", attempts |-> 0, nextAt |-> 0]
      BY <1>1, <2>3
    <3> QED  BY <2>1, <2>2, <3>1 DEF Past
  <2>4. CASE ~new(r)
    <3>1. history'[r] = history[r] /\ deliveries'[r] = deliveries[r]
      BY <1>1, <2>4
    <3> QED  BY <2>2, <3>1
  <2> QED  BY <2>3, <2>4
<1>5. ASSUME NEW r \in Row, new(r)
      PROVE  /\ deliveries[r] = Absent /\ history[r] = Untouched
             /\ deliveries'[r].done = "pending"
             /\ deliveries'[r].attempts = 0
  <2>1. r[1] > raised
    BY <1>2, <1>5
  <2> QED  BY <1>1, <1>5, <2>1 DEF IInv, Unissued
<1>6. ASSUME NEW r \in Row, ~new(r)
      PROVE  deliveries'[r] = deliveries[r] /\ history'[r] = history[r]
  BY <1>1, <1>6
<1>7. TypeOK'
  <2>1. /\ deliveries' \in [Row -> Delivery] /\ history' \in [Row -> Past]
    BY <1>1, <1>4
  <2>2. raised' \in 0..MaxAlerts
    BY <1>1, <1>2, OutboxAssumption
  <2> QED  BY <1>1, <1>2, <2>1, <2>2 DEF TypeOK, Past
<1> HIDE DEF new
<1>8. Unissued'
  <2> SUFFICES ASSUME NEW r \in Row, r[1] > raised'
               PROVE  deliveries'[r] = Absent /\ history'[r] = Untouched
    BY DEF Unissued
  <2>1. r[1] > raised /\ ~new(r)
    BY <1>1, <1>2, <1>3 DEF new
  <2> QED  BY <2>1, <1>6 DEF IInv, Unissued
<1>9. PendingOpen'
  <2> SUFFICES ASSUME NEW r \in Row, deliveries'[r].done = "pending"
               PROVE  /\ history'[r].final = "none"
                      /\ deliveries'[r].attempts <= history'[r].sent
                      /\ deliveries'[r].attempts < MaxAttempts
    BY DEF PendingOpen
  <2>1. CASE new(r)
    BY <2>1, <1>4, <1>5, OutboxAssumption DEF Untouched
  <2>2. CASE ~new(r)
    BY <2>2, <1>6 DEF IInv, PendingOpen
  <2> QED  BY <2>1, <2>2
<1>10. ASSUME NEW i \in 1..Len(task.batch)
       PROVE  /\ task.batch[i].row \in Row
              /\ deliveries'[task.batch[i].row] = deliveries[task.batch[i].row]
  <2>1. task.batch[i].row \in Row
    <3>1. task.batch[i] \in Item
      BY <1>2
    <3> QED  BY <3>1 DEF Item
  <2>2. deliveries[task.batch[i].row].done = "pending"
    BY DEF IInv, BatchOpen
  <2>3. ~new(task.batch[i].row)
    BY <2>1, <2>2, <1>5 DEF Absent
  <2> QED  BY <2>1, <2>3, <1>6
<1>11. BatchOpen'
  <2>1. BatchOpen /\ task' = task
    BY <1>1 DEF IInv
  <2>2. \A i \in 1..Len(task.batch) :
            /\ deliveries'[task.batch[i].row] = deliveries[task.batch[i].row]
            /\ history'[task.batch[i].row].sent = history[task.batch[i].row].sent
    BY <1>4, <1>10
  <2> QED  BY <2>1, <2>2 DEF BatchOpen
<1>12. task.batch # <<>> => Current.row \in Row
  BY <1>2, CurrentItem
<1>13. AtWork'
  BY <1>1, <1>4, <1>12 DEF IInv, AtWork, Current
<1>14. Arrivals'
  BY <1>1, <1>4 DEF IInv, Arrivals, Reached, Current
<1>15. Window'
  BY <1>1 DEF IInv, Window
<1>16. NothingDropped'
  <2> SUFFICES ASSUME NEW r \in Row, history'[r].queued,
                      deliveries'[r].done # "pending"
               PROVE  \/ history'[r].got > 0 \/ history'[r].skipped
                      \/ /\ history'[r].final = "abandoned"
                         /\ history'[r].sent >= MaxAttempts
    BY DEF NothingDropped
  <2>1. ~new(r)
    BY <1>5
  <2> QED  BY <2>1, <1>6 DEF IInv, NothingDropped
<1> QED
  BY <1>7, <1>8, <1>9, <1>11, <1>13, <1>14, <1>15, <1>16 DEF IInv

LEMMA ToggleIInv == ASSUME IInv, NEW c \in Channel, ToggleChannel(c) PROVE IInv'
<1>1. /\ UNCHANGED <<up, deliveries, raised, task, history, faults,
                     crashes>>
      /\ edits' = edits + 1
      /\ enabled' = IF c \in enabled THEN enabled \ {c} ELSE enabled \cup {c}
      /\ disabledAt' = IF c \in enabled THEN [disabledAt EXCEPT ![c] = Now]
                       ELSE disabledAt
  BY DEF ToggleChannel
<1>2. /\ TypeOK /\ Now \in Nat /\ enabled \subseteq Channel
      /\ disabledAt \in [Channel -> Nat] /\ task.config \subseteq Channel
      /\ task.now \in Nat
  BY Types DEF IInv
<1>3. TypeOK'
  BY <1>1, <1>2 DEF TypeOK
<1>4. Unissued' /\ PendingOpen' /\ NothingDropped'
  BY <1>1, RowsAlone
<1>5. BatchOpen' /\ AtWork' /\ Arrivals'
  BY <1>1 DEF IInv, BatchOpen, AtWork, Arrivals, Reached, Current
<1>6. Window'
  <2> SUFFICES ASSUME task.at # "idle", NEW d \in task.config \ enabled'
               PROVE  task.now <= disabledAt'[d]
    BY <1>1 DEF IInv, Window
  <2>1. CASE d \in enabled
    <3>1. d = c /\ disabledAt'[d] = Now
      BY <2>1, <1>1, <1>2
    <3> QED  BY <3>1 DEF IInv, Window
  <2>2. CASE d \notin enabled
    <3>1. task.now <= disabledAt[d] /\ d # c
      BY <2>2, <1>1 DEF IInv, Window
    <3> QED  BY <3>1, <1>1, <1>2
  <2> QED  BY <2>1, <2>2
<1> QED  BY <1>3, <1>4, <1>5, <1>6 DEF IInv

LEMMA ReadConfigIInv == IInv /\ ReadConfig => IInv'
<1> SUFFICES ASSUME IInv, ReadConfig PROVE IInv'
  OBVIOUS
<1>1. /\ UNCHANGED <<up, enabled, deliveries, raised, history,
                     disabledAt, edits, faults, crashes>>
      /\ task.at = "idle"
      /\ task' = [at |-> "query", config |-> enabled, now |-> Now,
                  batch |-> <<>>, since |-> 0]
  BY DEF ReadConfig, Idle, bounds
<1>2. TypeOK /\ Now \in Nat /\ enabled \subseteq Channel
  BY Types DEF IInv
<1>3. /\ task'.at = "query" /\ task'.config = enabled /\ task'.now = Now
      /\ task'.batch = <<>> /\ task' \in Task
  BY <1>1, <1>2 DEF Task
<1>4. TypeOK'
  BY <1>1, <1>2, <1>3 DEF TypeOK, Task
<1>5. Unissued' /\ PendingOpen' /\ NothingDropped'
  BY <1>1, RowsAlone
<1>6. BatchOpen' /\ AtWork' /\ Window'
  BY <1>1, <1>2, <1>3 DEF BatchOpen, AtWork, Window
<1>7. Arrivals'
  BY <1>1, <1>3 DEF IInv, Arrivals, Reached
<1> QED  BY <1>4, <1>5, <1>6, <1>7 DEF IInv

LEMMA QueryDueIInv == IInv /\ QueryDue => IInv'
<1> SUFFICES ASSUME IInv, QueryDue PROVE IInv'
  OBVIOUS
<1>1. /\ UNCHANGED <<up, enabled, deliveries, raised, history,
                     disabledAt, edits, crashes>>
      /\ task.at = "query" /\ faults' \in Nat
  BY DEF QueryDue, Fault, IInv, TypeOK
<1>2. /\ TypeOK /\ task \in Task /\ task.now \in Nat
      /\ deliveries \in [Row -> Delivery]
  BY Types DEF IInv
<1>3. Unissued' /\ PendingOpen' /\ NothingDropped'
  BY <1>1, RowsAlone
<1>4. CASE task' = Idle
  <2>1. BatchOpen' /\ AtWork' /\ Window' /\ task' \in Task /\ ~Reached'
    BY <1>1, <1>4, TaskEnds DEF IInv
  <2>2. Arrivals'
    BY <1>1, <2>1 DEF IInv, Arrivals, Reached
  <2>3. TypeOK'
    BY <1>1, <1>2, <2>1 DEF TypeOK, Task
  <2> QED  BY <1>3, <2>1, <2>2, <2>3 DEF IInv
<1>5. CASE task' # Idle
  <2> DEFINE due == Due(task.now)
             batch == [i \in DOMAIN due |->
                         [row |-> due[i], attempts |-> deliveries[due[i]].attempts]]
  <2>1. task' = [task EXCEPT !.at = "next", !.batch = batch]
    BY <1>5 DEF QueryDue
  <2>2. /\ due \in Seq(DueRows(task.now))
        /\ \A i, j \in 1..Len(due) : due[i] = due[j] => i = j
    BY <1>2, DueIsFirst
  <2>3. ASSUME NEW i \in 1..Len(due)
        PROVE  /\ due[i] \in Row /\ deliveries[due[i]].done = "pending"
               /\ deliveries[due[i]].attempts \in Nat
    <3>1. due[i] \in DueRows(task.now)
      BY <2>2
    <3> QED  BY <3>1, <1>2 DEF DueRows, Delivery
  <2> HIDE DEF due
  <2>4. /\ DOMAIN due = 1..Len(due) /\ Len(due) \in Nat
    BY <2>2
  <2>5. ASSUME NEW i \in 1..Len(due)
        PROVE  /\ batch[i].row = due[i] /\ batch[i] \in Item
               /\ batch[i].attempts = deliveries[due[i]].attempts
    BY <2>3, <2>4 DEF Item
  <2>6. batch \in Seq(Item) /\ Len(batch) = Len(due)
    <3>1. batch = [i \in 1..Len(due) |-> batch[i]]
      BY <2>4
    <3> HIDE DEF batch
    <3> QED  BY <2>4, <2>5, <3>1
  <2> HIDE DEF batch
  <2>7. /\ task'.at = "next" /\ task'.batch = batch /\ task' \in Task
        /\ task'.now = task.now /\ task'.config = task.config
    BY <1>2, <2>1, <2>6 DEF Task
  <2>8. TypeOK'
    BY <1>1, <1>2, <2>7 DEF TypeOK, Task
  <2>9. BatchOpen'
    <3>1. ASSUME NEW i \in 1..Len(due)
          PROVE  /\ deliveries[batch[i].row].done = "pending"
                 /\ batch[i].attempts <= history[batch[i].row].sent
                 /\ batch[i].attempts < MaxAttempts
      BY <2>3, <2>5 DEF IInv, PendingOpen
    <3>2. \A i, j \in 1..Len(due) : batch[i].row = batch[j].row => i = j
      BY <2>2, <2>5
    <3> QED  BY <1>1, <2>6, <2>7, <3>1, <3>2 DEF BatchOpen
  <2>10. AtWork'
    BY <2>7 DEF AtWork
  <2>11. Arrivals'
    BY <1>1, <2>7 DEF IInv, Arrivals, Reached
  <2>12. Window'
    BY <1>1, <2>7 DEF IInv, Window
  <2> QED  BY <1>3, <2>8, <2>9, <2>10, <2>11, <2>12 DEF IInv
<1> QED  BY <1>4, <1>5

LEMMA FinishIInv == IInv /\ Finish => IInv'
<1> SUFFICES ASSUME IInv, Finish PROVE IInv'
  OBVIOUS
<1>1. /\ UNCHANGED <<up, enabled, deliveries, raised, history,
                     disabledAt, edits, faults, crashes>>
      /\ task.at = "next" /\ task' = Idle
  BY DEF Finish, bounds
<1>2. Unissued' /\ PendingOpen' /\ NothingDropped'
  BY <1>1, RowsAlone
<1>3. BatchOpen' /\ AtWork' /\ Window' /\ task' \in Task /\ ~Reached'
  BY <1>1, TaskEnds DEF IInv
<1>4. Arrivals'
  BY <1>1, <1>3 DEF IInv, Arrivals, Reached
<1>5. TypeOK'
  BY <1>1, <1>3 DEF IInv, TypeOK, Task
<1> QED  BY <1>2, <1>3, <1>4, <1>5 DEF IInv

\* The row the task is at is open.
LEMMA CurrentOpen ==
    ASSUME IInv, task.batch # <<>>
    PROVE  /\ Current.row \in Row /\ Current.attempts \in Nat
           /\ deliveries[Current.row].done = "pending"
           /\ history[Current.row] \in Past
           /\ history[Current.row].final = "none"
           /\ Current.attempts <= history[Current.row].sent
           /\ Current.attempts < MaxAttempts
           /\ ~(Current.row[1] > raised)
<1>1. TypeOK
  BY DEF IInv
<1>2. /\ Current = task.batch[1] /\ 1 \in 1..Len(task.batch)
      /\ Current.row \in Row /\ Current.attempts \in Nat
  BY <1>1, CurrentItem
<1>3. /\ deliveries[Current.row].done = "pending"
      /\ Current.attempts <= history[Current.row].sent
      /\ Current.attempts < MaxAttempts
  BY <1>2 DEF IInv, BatchOpen
<1>4. history[Current.row].final = "none"
  BY <1>2, <1>3 DEF IInv, PendingOpen
<1>5. history[Current.row] \in Past
  BY <1>1, <1>2, Types
<1>6. ~(Current.row[1] > raised)
  BY <1>2, <1>3 DEF IInv, Unissued, Absent
<1> QED  BY <1>2, <1>3, <1>4, <1>5, <1>6

\* Steps that add to the history of the row the task is at, and write none.
LEMMA OnePast ==
    ASSUME IInv, task.batch # <<>>, UNCHANGED <<deliveries, raised>>,
           history' \in [Row -> Past],
           \A s \in Row : s # Current.row => history'[s] = history[s],
           history'[Current.row].queued = history[Current.row].queued,
           history'[Current.row].sent >= history[Current.row].sent,
           history'[Current.row].got >= history[Current.row].got,
           history[Current.row].skipped => history'[Current.row].skipped,
           history'[Current.row].final = history[Current.row].final
    PROVE  /\ Unissued' /\ PendingOpen' /\ NothingDropped'
           /\ \A i \in 1..Len(task.batch) :
                 /\ deliveries[task.batch[i].row].done = "pending"
                 /\ task.batch[i].attempts <= history'[task.batch[i].row].sent
<1> DEFINE c == Current.row
<1>1. /\ c \in Row /\ deliveries[c].done = "pending" /\ ~(c[1] > raised)
      /\ history[c] \in Past
  BY CurrentOpen
<1>2. \A r \in Row : r # c => history'[r] = history[r]
  OBVIOUS
<1>3. /\ TypeOK /\ deliveries \in [Row -> Delivery]
      /\ history \in [Row -> Past] /\ task.batch \in Seq(Item)
  BY Types DEF IInv
<1>4. \A r \in Row : /\ history[r].sent \in Nat /\ history'[r].sent \in Nat
                     /\ history[r].got \in Nat /\ history'[r].got \in Nat
                     /\ deliveries[r].attempts \in Nat
                     /\ history'[r].sent >= history[r].sent
                     /\ history'[r].final = history[r].final
  <2> SUFFICES ASSUME NEW r \in Row
               PROVE  /\ history[r].sent \in Nat /\ history'[r].sent \in Nat
                      /\ history[r].got \in Nat /\ history'[r].got \in Nat
                      /\ deliveries[r].attempts \in Nat
                      /\ history'[r].sent >= history[r].sent
                      /\ history'[r].final = history[r].final
    OBVIOUS
  <2>1. /\ history[r] \in Past /\ history'[r] \in Past
        /\ deliveries[r] \in Delivery
    BY <1>3
  <2>2. /\ history[r].sent \in Nat /\ history'[r].sent \in Nat
        /\ history[r].got \in Nat /\ history'[r].got \in Nat
        /\ deliveries[r].attempts \in Nat
    BY <2>1 DEF Past, Delivery
  <2>3. CASE r = c
    BY <2>2, <2>3
  <2>4. CASE r # c
    BY <2>2, <2>4
  <2> QED  BY <2>2, <2>3, <2>4
<1> HIDE DEF c
<1>5. Unissued'
  <2> SUFFICES ASSUME NEW r \in Row, r[1] > raised
               PROVE  deliveries[r] = Absent /\ history'[r] = Untouched
    BY DEF Unissued
  <2>1. r # c
    BY <1>1
  <2> QED  BY <2>1, <1>2 DEF IInv, Unissued
<1>6. PendingOpen'
  <2> SUFFICES ASSUME NEW r \in Row, deliveries[r].done = "pending"
               PROVE  /\ history'[r].final = "none"
                      /\ deliveries[r].attempts <= history'[r].sent
                      /\ deliveries[r].attempts < MaxAttempts
    BY DEF PendingOpen
  <2>1. /\ history[r].final = "none"
        /\ deliveries[r].attempts <= history[r].sent
        /\ deliveries[r].attempts < MaxAttempts
    BY DEF IInv, PendingOpen
  <2> QED  BY <2>1, <1>4
<1>7. NothingDropped'
  <2> SUFFICES ASSUME NEW r \in Row, history'[r].queued,
                      deliveries[r].done # "pending"
               PROVE  \/ history'[r].got > 0 \/ history'[r].skipped
                      \/ /\ history'[r].final = "abandoned"
                         /\ history'[r].sent >= MaxAttempts
    BY DEF NothingDropped
  <2>1. r # c
    BY <1>1
  <2> QED  BY <2>1, <1>2 DEF IInv, NothingDropped
<1>8. ASSUME NEW i \in 1..Len(task.batch)
      PROVE  /\ deliveries[task.batch[i].row].done = "pending"
             /\ task.batch[i].attempts <= history'[task.batch[i].row].sent
  <2>1. task.batch[i] \in Item
    BY <1>3
  <2>2. task.batch[i].row \in Row /\ task.batch[i].attempts \in Nat
    BY <2>1 DEF Item
  <2>3. /\ deliveries[task.batch[i].row].done = "pending"
        /\ task.batch[i].attempts <= history[task.batch[i].row].sent
    BY DEF IInv, BatchOpen
  <2> QED  BY <2>2, <2>3, <1>4
<1> QED  BY <1>5, <1>6, <1>7, <1>8

LEMMA SkipIInv == IInv /\ Skip => IInv'
<1> SUFFICES ASSUME IInv, Skip PROVE IInv'
  OBVIOUS
<1> DEFINE c == Current.row
<1>1. /\ UNCHANGED <<up, enabled, deliveries, raised, disabledAt, edits,
                     faults, crashes>>
      /\ task.at = "next" /\ task.batch # <<>>
      /\ c[2] \notin task.config
      /\ task' = [task EXCEPT !.at = "succeeded"]
      /\ history' = [history EXCEPT ![c].skipped = TRUE]
  BY DEF Skip, GoOn, bounds
<1>2. /\ TypeOK /\ task \in Task /\ history \in [Row -> Past]
      /\ task.batch \in Seq(Item)
  BY Types DEF IInv
<1>3. c \in Row /\ history[c] \in Past
  BY <1>1, CurrentOpen
<1>4. /\ task'.at = "succeeded" /\ task'.batch = task.batch
      /\ task'.config = task.config /\ task'.now = task.now /\ task' \in Task
      /\ Current' = Current
  BY <1>1, <1>2 DEF Task, Current
<1> HIDE DEF c
<1>5. /\ history'[c] = [history[c] EXCEPT !.skipped = TRUE]
      /\ \A s \in Row : s # c => history'[s] = history[s]
  BY <1>1, <1>2, <1>3
<1>6. /\ history'[c] \in Past /\ history'[c].skipped
      /\ history'[c].queued = history[c].queued
      /\ history'[c].sent = history[c].sent
      /\ history'[c].got = history[c].got
      /\ history'[c].doubts = history[c].doubts
      /\ history'[c].final = history[c].final
      /\ history[c].sent \in Nat /\ history[c].got \in Nat
  <2>1. history[c].sent \in Nat /\ history[c].got \in Nat
    BY <1>3 DEF Past
  <2>2. history'[c] \in Past /\ history'[c].skipped
    BY <1>3, <1>5 DEF Past
  <2>3. /\ history'[c].queued = history[c].queued
        /\ history'[c].sent = history[c].sent
        /\ history'[c].got = history[c].got
        /\ history'[c].doubts = history[c].doubts
        /\ history'[c].final = history[c].final
    BY <1>3, <1>5 DEF Past
  <2> QED  BY <2>1, <2>2, <2>3
<1>7. history' \in [Row -> Past]
  BY <1>1, <1>2, <1>3, <1>5, <1>6
<1>8. /\ Unissued' /\ PendingOpen' /\ NothingDropped'
      /\ \A i \in 1..Len(task.batch) :
            /\ deliveries[task.batch[i].row].done = "pending"
            /\ task.batch[i].attempts <= history'[task.batch[i].row].sent
  <2>1. /\ history'[c].sent >= history[c].sent
        /\ history'[c].got >= history[c].got
    BY <1>6
  <2>2. history[c].skipped => history'[c].skipped
    BY <1>6
  <2>3. /\ history'[c].queued = history[c].queued
        /\ history'[c].final = history[c].final
    BY <1>6
  <2>4. \A s \in Row : s # c => history'[s] = history[s]
    BY <1>5
  <2>5. UNCHANGED <<deliveries, raised>> /\ task.batch # <<>>
    BY <1>1
  <2> QED  BY <1>7, <2>1, <2>2, <2>3, <2>4, <2>5, OnePast DEF c
<1>9. TypeOK'
  <2>1. up' \in BOOLEAN /\ faults' \in Nat /\ crashes' \in Nat
    BY <1>1, <1>2 DEF TypeOK
  <2> QED  BY <1>1, <1>2, <1>4, <1>7, <2>1, TaskTypes
<1>10. BatchOpen'
  BY <1>1, <1>4, <1>8 DEF IInv, BatchOpen
<1>11. AtWork'
  BY <1>1, <1>4, <1>6 DEF AtWork, c
<1>12. Arrivals'
  <2> SUFFICES ASSUME NEW r \in Row
               PROVE  /\ history'[r].got <= 1 + history'[r].doubts
                      /\ history'[r].final = "none" =>
                            history'[r].got <= history'[r].doubts
    BY DEF Arrivals
  <2>1. /\ history[r].got <= 1 + history[r].doubts
        /\ history[r].final = "none" => history[r].got <= history[r].doubts
    BY <1>1 DEF IInv, Arrivals, Reached
  <2>2. CASE r = c
    BY <2>1, <2>2, <1>6
  <2>3. CASE r # c
    BY <2>1, <2>3, <1>5
  <2> QED  BY <2>2, <2>3
<1>13. Window'
  BY <1>1, <1>4 DEF IInv, Window
<1> QED  BY <1>8, <1>9, <1>10, <1>11, <1>12, <1>13 DEF IInv

LEMMA SendIInv == IInv /\ Send => IInv'
<1> SUFFICES ASSUME IInv, Send PROVE IInv'
  OBVIOUS
<1> DEFINE c == Current.row
<1>1. /\ UNCHANGED <<up, enabled, deliveries, raised, disabledAt, edits,
                     faults, crashes>>
      /\ task.at = "next" /\ task.batch # <<>>
      /\ c[2] \in task.config
      /\ task' = [task EXCEPT !.at = "sending", !.since = Now]
      /\ history' = [history EXCEPT ![c].sent = Count(@)]
  BY DEF Send, GoOn, bounds
<1>2. /\ TypeOK /\ task \in Task /\ history \in [Row -> Past]
      /\ task.batch \in Seq(Item) /\ Now \in Nat
  BY Types DEF IInv
<1>3. /\ c \in Row /\ history[c] \in Past
      /\ Current.attempts \in Nat /\ Current.attempts <= history[c].sent
      /\ Current.attempts < MaxAttempts
  BY <1>1, CurrentOpen
<1>4. /\ task'.at = "sending" /\ task'.batch = task.batch
      /\ task'.config = task.config /\ task'.now = task.now /\ task' \in Task
      /\ Current' = Current
  BY <1>1, <1>2 DEF Task, Current
<1> HIDE DEF c
<1>5. /\ history'[c] = [history[c] EXCEPT !.sent = Count(@)]
      /\ \A s \in Row : s # c => history'[s] = history[s]
  BY <1>1, <1>2, <1>3
<1>6. /\ history'[c] \in Past
      /\ history'[c].skipped = history[c].skipped
      /\ history'[c].queued = history[c].queued
      /\ history'[c].sent = Count(history[c].sent)
      /\ history'[c].got = history[c].got
      /\ history'[c].doubts = history[c].doubts
      /\ history'[c].final = history[c].final
      /\ history[c].sent \in 0..MaxCount /\ history[c].got \in Nat
  <2> DEFINE n == Count(history[c].sent)
  <2>1. history[c].sent \in 0..MaxCount
    BY <1>3 DEF Past
  <2>2. n \in 0..MaxCount /\ history'[c] = [history[c] EXCEPT !.sent = n]
    BY <1>5, <2>1, CountType
  <2> HIDE DEF n
  <2>3. /\ history'[c] \in Past
        /\ history'[c].skipped = history[c].skipped
        /\ history'[c].queued = history[c].queued
        /\ history'[c].sent = n
        /\ history'[c].got = history[c].got
        /\ history'[c].doubts = history[c].doubts
        /\ history'[c].final = history[c].final
        /\ history[c].got \in Nat
    BY <1>3, <2>2 DEF Past
  <2> QED  BY <2>1, <2>3 DEF n
<1>7. history' \in [Row -> Past]
  BY <1>1, <1>2, <1>3, <1>5, <1>6
<1>8. /\ Unissued' /\ PendingOpen' /\ NothingDropped'
      /\ \A i \in 1..Len(task.batch) :
            /\ deliveries[task.batch[i].row].done = "pending"
            /\ task.batch[i].attempts <= history'[task.batch[i].row].sent
  <2>1. /\ history'[c].sent >= history[c].sent
        /\ history'[c].got >= history[c].got
    BY <1>6, CountType
  <2>2. history[c].skipped => history'[c].skipped
    BY <1>6
  <2>3. /\ history'[c].queued = history[c].queued
        /\ history'[c].final = history[c].final
    BY <1>6
  <2>4. \A s \in Row : s # c => history'[s] = history[s]
    BY <1>5
  <2>5. UNCHANGED <<deliveries, raised>> /\ task.batch # <<>>
    BY <1>1
  <2> QED  BY <1>7, <2>1, <2>2, <2>3, <2>4, <2>5, OnePast DEF c
<1>9. TypeOK'
  <2>1. up' \in BOOLEAN /\ faults' \in Nat /\ crashes' \in Nat
    BY <1>1, <1>2 DEF TypeOK
  <2> QED  BY <1>1, <1>2, <1>4, <1>7, <2>1, TaskTypes
<1>10. BatchOpen'
  BY <1>1, <1>4, <1>8 DEF IInv, BatchOpen
<1>11. AtWork'
  <2>1. history'[c].sent > Current.attempts
    BY <1>3, <1>6, CountType
  <2> QED  BY <1>1, <1>4, <2>1 DEF AtWork, c
<1>12. Arrivals'
  <2> SUFFICES ASSUME NEW r \in Row
               PROVE  /\ history'[r].got <= 1 + history'[r].doubts
                      /\ history'[r].final = "none" =>
                            history'[r].got <= history'[r].doubts
    BY DEF Arrivals
  <2>1. /\ history[r].got <= 1 + history[r].doubts
        /\ history[r].final = "none" => history[r].got <= history[r].doubts
    BY <1>1 DEF IInv, Arrivals, Reached
  <2>2. CASE r = c
    BY <2>1, <2>2, <1>6
  <2>3. CASE r # c
    BY <2>1, <2>3, <1>5
  <2> QED  BY <2>2, <2>3
<1>13. Window'
  BY <1>1, <1>4 DEF IInv, Window
<1> QED  BY <1>8, <1>9, <1>10, <1>11, <1>12, <1>13 DEF IInv

LEMMA AnswerIInv ==
    ASSUME IInv, NEW ok \in BOOLEAN, NEW arrived \in BOOLEAN,
           Answer(ok, arrived)
    PROVE  IInv'
<1> DEFINE c == Current.row
<1>1. /\ UNCHANGED <<up, enabled, deliveries, raised, disabledAt, edits,
                     faults, crashes>>
      /\ task.at = "sending" /\ task.batch # <<>>
      /\ c[2] \in task.config /\ history[c].sent > Current.attempts
      /\ task' = [task EXCEPT !.at = IF ok THEN "succeeded" ELSE "failed"]
      /\ history' = [history EXCEPT
            ![c].got    = IF arrived THEN Count(@) ELSE @,
            ![c].doubts = IF arrived /\ ~ok THEN Count(@) ELSE @]
      /\ ok => arrived
  BY DEF Answer, bounds, IInv, AtWork
<1>2. /\ TypeOK /\ task \in Task /\ history \in [Row -> Past]
      /\ task.batch \in Seq(Item)
  BY Types DEF IInv
<1>3. c \in Row /\ history[c] \in Past /\ history[c].final = "none"
  BY <1>1, CurrentOpen
<1>4. /\ task'.at = (IF ok THEN "succeeded" ELSE "failed")
      /\ task'.batch = task.batch /\ task'.config = task.config
      /\ task'.now = task.now /\ task' \in Task /\ Current' = Current
  BY <1>1, <1>2 DEF Task, Current
<1> HIDE DEF c
<1>5. \A s \in Row : s # c => history'[s] = history[s]
  BY <1>1, <1>2, <1>3
<1>6. /\ history'[c] \in Past
      /\ history'[c].skipped = history[c].skipped
      /\ history'[c].queued = history[c].queued
      /\ history'[c].sent = history[c].sent
      /\ history'[c].final = history[c].final
      /\ history'[c].got = (IF arrived THEN Count(history[c].got)
                            ELSE history[c].got)
      /\ history'[c].doubts = (IF arrived /\ ~ok THEN Count(history[c].doubts)
                               ELSE history[c].doubts)
      /\ history[c].sent \in Nat /\ history[c].got \in 0..MaxCount
      /\ history[c].doubts \in 0..MaxCount
  <2> DEFINE g == IF arrived THEN Count(history[c].got) ELSE history[c].got
             d == IF arrived /\ ~ok THEN Count(history[c].doubts)
                  ELSE history[c].doubts
  <2>1. history'[c] = [history[c] EXCEPT !.got = g, !.doubts = d]
    BY <1>1, <1>2, <1>3
  <2>2. /\ history[c].sent \in Nat /\ history[c].got \in 0..MaxCount
        /\ history[c].doubts \in 0..MaxCount
    BY <1>3 DEF Past
  <2>3. g \in 0..MaxCount /\ d \in 0..MaxCount
    BY <2>2, CountType
  <2> HIDE DEF g, d
  <2>4. /\ history'[c] \in Past
        /\ history'[c].skipped = history[c].skipped
        /\ history'[c].queued = history[c].queued
        /\ history'[c].sent = history[c].sent
        /\ history'[c].final = history[c].final
        /\ history'[c].got = g /\ history'[c].doubts = d
    BY <2>1, <2>3, <1>3 DEF Past
  <2> QED  BY <2>2, <2>4 DEF g, d
<1>7. history' \in [Row -> Past]
  BY <1>1, <1>2, <1>3, <1>5, <1>6
<1>8. /\ Unissued' /\ PendingOpen' /\ NothingDropped'
      /\ \A i \in 1..Len(task.batch) :
            /\ deliveries[task.batch[i].row].done = "pending"
            /\ task.batch[i].attempts <= history'[task.batch[i].row].sent
  <2>1. /\ history'[c].sent >= history[c].sent
        /\ history'[c].got >= history[c].got
    BY <1>6, CountType
  <2>2. history[c].skipped => history'[c].skipped
    BY <1>6
  <2>3. /\ history'[c].queued = history[c].queued
        /\ history'[c].final = history[c].final
    BY <1>6
  <2>4. \A s \in Row : s # c => history'[s] = history[s]
    BY <1>5
  <2>5. UNCHANGED <<deliveries, raised>> /\ task.batch # <<>>
    BY <1>1
  <2> QED  BY <1>7, <2>1, <2>2, <2>3, <2>4, <2>5, OnePast DEF c
<1>9. TypeOK'
  <2>1. up' \in BOOLEAN /\ faults' \in Nat /\ crashes' \in Nat
    BY <1>1, <1>2 DEF TypeOK
  <2> QED  BY <1>1, <1>2, <1>4, <1>7, <2>1, TaskTypes
<1>10. BatchOpen'
  <2>1. deliveries' = deliveries /\ task'.batch = task.batch
    BY <1>1, <1>4
  <2>2. /\ \A i, j \in 1..Len(task.batch) :
              task.batch[i].row = task.batch[j].row => i = j
        /\ \A i \in 1..Len(task.batch) : task.batch[i].attempts < MaxAttempts
    BY DEF IInv, BatchOpen
  <2> QED  BY <2>1, <2>2, <1>8 DEF BatchOpen
<1>11. AtWork'
  <2>1. ok => history'[c].got > 0
    BY <1>1, <1>6, CountType
  <2>2. /\ task'.batch # <<>> /\ task'.at \in {"succeeded", "failed"}
        /\ task'.at = "succeeded" => ok
        /\ history'[c].sent > Current.attempts
    BY <1>1, <1>4, <1>6
  <2> QED  BY <1>4, <2>1, <2>2 DEF AtWork, c
<1>12. Arrivals'
  <2>1. Reached' <=> ok
    BY <1>1, <1>4 DEF Reached, c
  <2>2. ASSUME NEW r \in Row
        PROVE  /\ history'[r].got <= 1 + history'[r].doubts
               /\ history'[r].final = "none" /\ ~(ok /\ r = c) =>
                     history'[r].got <= history'[r].doubts
    <3>1. /\ history[r].got <= 1 + history[r].doubts
          /\ history[r].final = "none" => history[r].got <= history[r].doubts
      BY <1>1 DEF IInv, Arrivals, Reached
    <3>2. CASE r = c
      <4>1. history[c].got <= history[c].doubts
        BY <3>1, <3>2, <1>3
      <4>2. CASE ~arrived
        BY <4>1, <4>2, <3>2, <1>1, <1>6
      <4>3. CASE arrived /\ ok
        <5>1. Count(history[c].got) <= 1 + history[c].doubts
          BY <4>1, <1>6, OutboxAssumption DEF Count
        <5> QED  BY <4>1, <4>3, <5>1, <3>2, <1>6
      <4>4. CASE arrived /\ ~ok
        <5>1. Count(history[c].got) <= Count(history[c].doubts)
          BY <4>1, <1>6, CountType
        <5>2. Count(history[c].doubts) \in Nat
          BY <1>6, CountType
        <5>3. Count(history[c].got) \in Nat
          BY <1>6, CountType
        <5> QED  BY <4>4, <5>1, <5>2, <5>3, <3>2, <1>6
      <4> QED  BY <4>2, <4>3, <4>4, <1>1
    <3>3. CASE r # c
      BY <3>1, <3>3, <1>5
    <3> QED  BY <3>2, <3>3
  <2> QED  BY <2>1, <2>2, <1>4 DEF Arrivals, c
<1>13. Window'
  BY <1>1, <1>4 DEF IInv, Window
<1> QED  BY <1>8, <1>9, <1>10, <1>11, <1>12, <1>13 DEF IInv

LEMMA ConfirmIInv == IInv /\ Confirm => IInv'
<1> SUFFICES ASSUME IInv, Confirm PROVE IInv'
  OBVIOUS
<1> DEFINE c == Current.row
           w == Written(task.at = "succeeded")
<1>1. /\ UNCHANGED <<up, enabled, raised, disabledAt, edits, crashes>>
      /\ task.at \in {"succeeded", "failed"} /\ task.batch # <<>>
      /\ deliveries' = [deliveries EXCEPT
             ![c] = IF deliveries[c].done = "absent" THEN @ ELSE w]
      /\ history' = [history EXCEPT
             ![c].final = IF w.done \in Settled THEN w.done ELSE @]
      /\ faults' \in Nat
  BY DEF Confirm, Deliver, Fault, IInv, AtWork, TypeOK
<1>2. /\ TypeOK /\ task \in Task /\ history \in [Row -> Past]
      /\ deliveries \in [Row -> Delivery]
      /\ task.batch \in Seq(Item) /\ Len(task.batch) \in Nat
      /\ task.now \in Nat
  BY Types DEF IInv
<1>3. /\ c \in Row /\ history[c] \in Past /\ history[c].final = "none"
      /\ Current.attempts \in Nat /\ deliveries[c].done = "pending"
      /\ ~(c[1] > raised)
  BY <1>1, CurrentOpen
<1>4. /\ task.at = "succeeded" => history[c].got > 0 \/ history[c].skipped
      /\ task.at = "failed" => history[c].sent > Current.attempts
  BY DEF IInv, AtWork
<1>5. /\ w \in Delivery /\ w.done \in {"pending", "sent", "abandoned"}
      /\ task.at = "succeeded" => w.done = "sent"
      /\ task.at = "failed" =>
            \/ w.done = "pending" /\ Current.attempts + 1 < MaxAttempts
            \/ w.done = "abandoned" /\ Current.attempts + 1 >= MaxAttempts
      /\ w.attempts = Current.attempts + 1
  <2>1. Delay(Current.attempts + 1) \in Nat /\ Current.attempts + 1 \in Nat
    BY <1>3, DelayType
  <2> DEFINE later == task.now + Delay(Current.attempts + 1)
             done == IF task.at = "succeeded" THEN "sent"
                     ELSE IF Current.attempts + 1 >= MaxAttempts THEN "abandoned"
                     ELSE "pending"
  <2>2. later \in Nat
    <3> DEFINE d == Delay(Current.attempts + 1)
    <3> HIDE DEF d
    <3>1. d \in Nat
      BY <2>1 DEF d
    <3>2. task.now + d \in Nat
      BY <3>1, <1>2
    <3> QED  BY <3>2 DEF d
  <2>3. w = [done |-> done, attempts |-> Current.attempts + 1,
             nextAt |-> later]
    BY DEF Written
  <2> HIDE DEF later
  <2>4. MaxAttempts \in Nat
    BY OutboxAssumption
  <2> QED  BY <1>1, <1>3, <2>1, <2>2, <2>3, <2>4 DEF Delivery, Settled
<1> HIDE DEF c, w
<1>6. /\ deliveries'[c] = w
      /\ \A s \in Row : s # c => /\ deliveries'[s] = deliveries[s]
                                 /\ history'[s] = history[s]
      /\ history'[c] = [history[c] EXCEPT
             !.final = IF w.done \in Settled THEN w.done ELSE @]
  BY <1>1, <1>2, <1>3
<1>7. /\ history'[c] \in Past
      /\ history'[c].skipped = history[c].skipped
      /\ history'[c].queued = history[c].queued
      /\ history'[c].sent = history[c].sent
      /\ history'[c].got = history[c].got
      /\ history'[c].doubts = history[c].doubts
      /\ history'[c].final = (IF w.done = "pending" THEN "none" ELSE w.done)
      /\ history[c].sent \in Nat /\ history[c].got \in Nat
  BY <1>3, <1>5, <1>6 DEF Past, Settled
<1>8. deliveries' \in [Row -> Delivery] /\ history' \in [Row -> Past]
  BY <1>1, <1>2, <1>3, <1>5, <1>6, <1>7
<1>9. /\ task' \in Task /\ task'.at \in {"next", "idle"}
      /\ task'.at = "idle" => task'.batch = <<>> /\ task'.now = 0
      /\ task'.at = "next" => /\ task'.batch = Tail(task.batch)
                              /\ task'.now = task.now
                              /\ task'.config = task.config
  <2>1. CASE task' = Idle
    BY <2>1 DEF Idle, Task
  <2>2. CASE task' # Idle
    <3>1. task' = [task EXCEPT !.at = "next", !.batch = Tail(@)]
      BY <2>2 DEF Confirm
    <3>2. Tail(task.batch) \in Seq(Item)
      BY <1>1, <1>2
    <3> QED  BY <3>1, <3>2, <1>2 DEF Task
  <2> QED  BY <2>1, <2>2
<1>10. TypeOK'
  BY <1>1, <1>2, <1>8, <1>9 DEF TypeOK, Task, Past
<1>11. Unissued'
  <2> SUFFICES ASSUME NEW r \in Row, r[1] > raised
               PROVE  deliveries'[r] = Absent /\ history'[r] = Untouched
    BY <1>1 DEF Unissued
  <2>1. r # c
    BY <1>3
  <2> QED  BY <2>1, <1>6 DEF IInv, Unissued
<1>12. PendingOpen'
  <2> SUFFICES ASSUME NEW r \in Row, deliveries'[r].done = "pending"
               PROVE  /\ history'[r].final = "none"
                      /\ deliveries'[r].attempts <= history'[r].sent
                      /\ deliveries'[r].attempts < MaxAttempts
    BY DEF PendingOpen
  <2>1. CASE r = c
    BY <2>1, <1>1, <1>3, <1>4, <1>5, <1>6, <1>7
  <2>2. CASE r # c
    BY <2>2, <1>6 DEF IInv, PendingOpen
  <2> QED  BY <2>1, <2>2
<1>13. BatchOpen'
  <2>1. CASE task'.at = "idle"
    BY <2>1, <1>9 DEF BatchOpen
  <2>2. CASE task'.at = "next"
    <3> DEFINE b == task.batch
               t == task'.batch
    <3>1. t = Tail(b) /\ Len(b) >= 1
      BY <2>2, <1>1, <1>2, <1>9
    <3>2. Len(t) = Len(b) - 1 /\ \A i \in 1..Len(t) : t[i] = b[i + 1]
      BY <3>1, <1>2
    <3>3. b[1].row = c
      BY <1>1, <1>2, CurrentItem DEF c
    <3>4. /\ \A i \in 1..Len(b) : /\ deliveries[b[i].row].done = "pending"
                                  /\ b[i].attempts <= history[b[i].row].sent
                                  /\ b[i].attempts < MaxAttempts
                                  /\ b[i] \in Item
          /\ \A i, j \in 1..Len(b) : b[i].row = b[j].row => i = j
      BY <1>2 DEF IInv, BatchOpen
    <3> HIDE DEF b, t
    <3>5. Len(b) \in Nat
      BY <1>2 DEF b
    <3>6. ASSUME NEW i \in 1..Len(t)
          PROVE  /\ deliveries'[t[i].row].done = "pending"
                 /\ t[i].attempts <= history'[t[i].row].sent
                 /\ t[i].attempts < MaxAttempts
      <4>1. i + 1 \in 1..Len(b) /\ i + 1 # 1 /\ 1 \in 1..Len(b)
        BY <3>1, <3>2, <3>5
      <4>2. t[i] = b[i + 1] /\ b[i + 1] \in Item /\ b[i + 1].row # c
        BY <4>1, <3>2, <3>3, <3>4
      <4>3. t[i].row \in Row
        BY <4>2 DEF Item
      <4>4. /\ deliveries[t[i].row].done = "pending"
            /\ t[i].attempts <= history[t[i].row].sent
            /\ t[i].attempts < MaxAttempts
        BY <4>1, <4>2, <3>4
      <4> QED  BY <4>2, <4>3, <4>4, <1>6
    <3>7. ASSUME NEW i \in 1..Len(t), NEW j \in 1..Len(t), t[i].row = t[j].row
          PROVE  i = j
      <4>1. i + 1 \in 1..Len(b) /\ j + 1 \in 1..Len(b)
        BY <3>2, <3>5
      <4>2. i + 1 = j + 1
        BY <4>1, <3>2, <3>4, <3>7
      <4> QED  BY <4>2
    <3> QED  BY <3>6, <3>7 DEF BatchOpen, t
  <2> QED  BY <2>1, <2>2, <1>9
<1>14. AtWork'
  BY <1>9 DEF AtWork
<1>15. Arrivals'
  <2> SUFFICES ASSUME NEW r \in Row
               PROVE  /\ history'[r].got <= 1 + history'[r].doubts
                      /\ history'[r].final = "none" =>
                            history'[r].got <= history'[r].doubts
    BY DEF Arrivals
  <2>1. /\ history[r].got <= 1 + history[r].doubts
        /\ history[r].final = "none" /\ ~(Reached /\ r = c) =>
              history[r].got <= history[r].doubts
    BY DEF IInv, Arrivals, c
  <2>2. CASE r = c
    <3>1. history'[r].final = "none" => task.at = "failed"
      BY <2>2, <1>1, <1>5, <1>7
    <3>2. task.at = "failed" => ~Reached
      BY DEF Reached
    <3> QED  BY <2>1, <2>2, <3>1, <3>2, <1>3, <1>7
  <2>3. CASE r # c
    BY <2>1, <2>3, <1>6
  <2> QED  BY <2>2, <2>3
<1>16. Window'
  BY <1>1, <1>2, <1>9, Types DEF IInv, Window
<1>17. NothingDropped'
  <2> SUFFICES ASSUME NEW r \in Row, history'[r].queued,
                      deliveries'[r].done # "pending"
               PROVE  \/ history'[r].got > 0 \/ history'[r].skipped
                      \/ /\ history'[r].final = "abandoned"
                         /\ history'[r].sent >= MaxAttempts
    BY DEF NothingDropped
  <2>1. CASE r = c
    <3>1. MaxAttempts \in Nat
      BY OutboxAssumption
    <3> QED  BY <2>1, <3>1, <1>1, <1>3, <1>4, <1>5, <1>6, <1>7
  <2>2. CASE r # c
    BY <2>2, <1>6 DEF IInv, NothingDropped
  <2> QED  BY <2>1, <2>2
<1> QED
  BY <1>10, <1>11, <1>12, <1>13, <1>14, <1>15, <1>16, <1>17 DEF IInv

LEMMA ConfirmFailsIInv == IInv /\ ConfirmFails => IInv'
<1> SUFFICES ASSUME IInv, ConfirmFails PROVE IInv'
  OBVIOUS
<1> DEFINE c == Current.row
<1>1. /\ UNCHANGED <<up, enabled, deliveries, raised, disabledAt, edits,
                     crashes>>
      /\ task.batch # <<>> /\ task' = Idle /\ faults' \in Nat
      /\ history' = [history EXCEPT ![c] = Doubted(@)]
  BY DEF ConfirmFails, Fault, IInv, AtWork, TypeOK
<1>2. /\ TypeOK /\ history \in [Row -> Past]
  BY Types DEF IInv
<1>3. c \in Row /\ history[c] \in Past
  BY <1>1, CurrentOpen
<1>4. BatchOpen' /\ AtWork' /\ Window' /\ task' \in Task /\ ~Reached'
  BY <1>1, TaskEnds DEF IInv
<1> HIDE DEF c
<1>5. /\ history'[c] = Doubted(history[c])
      /\ \A s \in Row : s # c => history'[s] = history[s]
  BY <1>1, <1>2, <1>3
<1>6. /\ history'[c] \in Past
      /\ history'[c].skipped = history[c].skipped
      /\ history'[c].queued = history[c].queued
      /\ history'[c].sent = history[c].sent
      /\ history'[c].got = history[c].got
      /\ history'[c].final = history[c].final
      /\ history'[c].doubts = (IF Reached THEN Count(history[c].doubts)
                               ELSE history[c].doubts)
      /\ history[c].sent \in Nat /\ history[c].got \in 0..MaxCount
      /\ history[c].doubts \in 0..MaxCount
  <2>1. CASE Reached
    <3> DEFINE d == Count(history[c].doubts)
    <3>1. history'[c] = [history[c] EXCEPT !.doubts = d]
      BY <1>5, <2>1 DEF Doubted
    <3>2. history[c].doubts \in 0..MaxCount
      BY <1>3 DEF Past
    <3>3. d \in 0..MaxCount
      BY <3>2, CountType
    <3> HIDE DEF d
    <3>4. /\ history'[c] \in Past
          /\ history'[c].skipped = history[c].skipped
          /\ history'[c].queued = history[c].queued
          /\ history'[c].sent = history[c].sent
          /\ history'[c].got = history[c].got
          /\ history'[c].final = history[c].final
          /\ history'[c].doubts = d
          /\ history[c].sent \in Nat /\ history[c].got \in 0..MaxCount
      BY <3>1, <3>3, <1>3 DEF Past
    <3> QED  BY <3>2, <3>4, <2>1 DEF d
  <2>2. CASE ~Reached
    <3>1. history'[c] = history[c]
      BY <1>5, <2>2 DEF Doubted
    <3> QED  BY <3>1, <2>2, <1>3 DEF Past
  <2> QED  BY <2>1, <2>2
<1>7. history' \in [Row -> Past]
  BY <1>1, <1>2, <1>3, <1>5, <1>6
<1>8. Unissued' /\ PendingOpen' /\ NothingDropped'
  <2>1. /\ history'[c].sent >= history[c].sent
        /\ history'[c].got >= history[c].got
    BY <1>6
  <2>2. history[c].skipped => history'[c].skipped
    BY <1>6
  <2>3. /\ history'[c].queued = history[c].queued
        /\ history'[c].final = history[c].final
    BY <1>6
  <2>4. \A s \in Row : s # c => history'[s] = history[s]
    BY <1>5
  <2>5. UNCHANGED <<deliveries, raised>> /\ task.batch # <<>>
    BY <1>1
  <2> QED  BY <1>7, <2>1, <2>2, <2>3, <2>4, <2>5, OnePast DEF c
<1>9. TypeOK'
  <2>1. up' \in BOOLEAN /\ faults' \in Nat /\ crashes' \in Nat
    BY <1>1, <1>2 DEF TypeOK
  <2> QED  BY <1>1, <1>2, <1>4, <1>7, <2>1, TaskTypes
<1>10. Arrivals'
  <2> SUFFICES ASSUME NEW r \in Row
               PROVE  /\ history'[r].got <= 1 + history'[r].doubts
                      /\ history'[r].final = "none" =>
                            history'[r].got <= history'[r].doubts
    BY DEF Arrivals
  <2>1. /\ history[r].got <= 1 + history[r].doubts
        /\ history[r].final = "none" /\ ~(Reached /\ r = c) =>
              history[r].got <= history[r].doubts
    BY DEF IInv, Arrivals, c
  <2>2. CASE r = c
    <3>1. CASE Reached
      <4>1. history[c].got <= Count(history[c].doubts)
        BY <2>1, <2>2, <1>6, CountType
      <4>2. Count(history[c].doubts) \in Nat
        BY <1>6, CountType
      <4> QED  BY <4>1, <4>2, <3>1, <2>2, <1>6
    <3>2. CASE ~Reached
      BY <2>1, <2>2, <3>2, <1>6
    <3> QED  BY <3>1, <3>2
  <2>3. CASE r # c
    BY <2>1, <2>3, <1>5
  <2> QED  BY <2>2, <2>3
<1> QED  BY <1>4, <1>8, <1>9, <1>10 DEF IInv

LEMMA PruneIInv == IInv /\ Prune => IInv'
<1> SUFFICES ASSUME IInv, Prune PROVE IInv'
  OBVIOUS
<1>1. /\ UNCHANGED <<up, enabled, raised, task, history, disabledAt,
                     edits, faults, crashes>>
      /\ deliveries' = [r \in Row |-> IF Stale(r) THEN Absent
                                      ELSE deliveries[r]]
  BY DEF Prune, bounds
<1>2. /\ TypeOK /\ deliveries \in [Row -> Delivery]
      /\ task.batch \in Seq(Item)
  BY Types DEF IInv
<1>3. Absent \in Delivery /\ Absent.done = "absent"
  BY DEF Absent, Delivery
<1>4. ASSUME NEW r \in Row
      PROVE  /\ deliveries'[r] \in Delivery
             /\ deliveries'[r] = Absent \/ deliveries'[r] = deliveries[r]
             /\ deliveries[r].done = "pending" => deliveries'[r] = deliveries[r]
             /\ deliveries'[r].done = "pending" => deliveries'[r] = deliveries[r]
  <2>1. deliveries'[r] = IF Stale(r) THEN Absent ELSE deliveries[r]
    BY <1>1
  <2>2. Stale(r) => deliveries[r].done # "pending"
    BY DEF Stale, Settled
  <2> QED  BY <2>1, <2>2, <1>2, <1>3
<1>5. TypeOK'
  <2>1. deliveries' \in [Row -> Delivery]
    BY <1>1, <1>4
  <2> QED  BY <2>1, <1>1, <1>2 DEF TypeOK
<1>6. Unissued'
  BY <1>1, <1>4 DEF IInv, Unissued
<1>7. PendingOpen'
  BY <1>1, <1>4 DEF IInv, PendingOpen
<1>8. BatchOpen'
  <2>1. ASSUME NEW i \in 1..Len(task.batch)
        PROVE  deliveries'[task.batch[i].row].done = "pending"
    <3>1. task.batch[i] \in Item
      BY <1>2
    <3>2. task.batch[i].row \in Row
      BY <3>1 DEF Item
    <3> QED  BY <3>2, <1>4 DEF IInv, BatchOpen
  <2> QED  BY <2>1, <1>1 DEF IInv, BatchOpen
<1>9. AtWork' /\ Arrivals' /\ Window'
  BY <1>1 DEF IInv, AtWork, Arrivals, Window, Reached, Current
<1>10. NothingDropped'
  <2> SUFFICES ASSUME NEW r \in Row, history[r].queued,
                      deliveries'[r].done # "pending"
               PROVE  \/ history[r].got > 0 \/ history[r].skipped
                      \/ /\ history[r].final = "abandoned"
                         /\ history[r].sent >= MaxAttempts
    BY <1>1 DEF NothingDropped
  <2>1. deliveries[r].done # "pending"
    BY <1>4
  <2> QED  BY <2>1 DEF IInv, NothingDropped
<1> QED  BY <1>5, <1>6, <1>7, <1>8, <1>9, <1>10 DEF IInv

LEMMA CrashIInv ==
    ASSUME IInv, NEW arrived \in BOOLEAN, Crash(arrived) PROVE IInv'
<1> DEFINE c == Current.row
<1>1. /\ UNCHANGED <<enabled, deliveries, raised, disabledAt, edits,
                     faults>>
      /\ up' = FALSE /\ task' = Idle /\ crashes' = crashes + 1
      /\ arrived => task.at = "sending" /\ task.batch # <<>>
      /\ history' =
           IF arrived
           THEN [history EXCEPT ![c].got = Count(@), ![c].doubts = Count(@)]
           ELSE IF task.batch # <<>>
                THEN [history EXCEPT ![c] = Doubted(@)]
                ELSE history
  BY DEF Crash, IInv, AtWork
<1>2. /\ TypeOK /\ history \in [Row -> Past] /\ crashes' \in Nat
  <2>1. TypeOK /\ crashes \in Nat
    BY DEF IInv, TypeOK
  <2> QED  BY <1>1, <2>1, Types
<1>3. BatchOpen' /\ AtWork' /\ Window' /\ task' \in Task /\ ~Reached'
  BY <1>1, TaskEnds DEF IInv
<1>4. CASE task.batch = <<>>
  <2>1. history' = history /\ ~Reached
    BY <1>1, <1>4 DEF Reached, IInv, AtWork
  <2>2. Unissued' /\ PendingOpen' /\ NothingDropped'
    BY <1>1, <2>1, RowsAlone
  <2>3. Arrivals'
    BY <1>3, <2>1 DEF IInv, Arrivals
  <2>4. TypeOK'
    BY <1>1, <1>2, <1>3, <2>1 DEF TypeOK, Task
  <2> QED  BY <1>3, <2>2, <2>3, <2>4 DEF IInv
<1>5. CASE task.batch # <<>>
  <2>1. c \in Row /\ history[c] \in Past
    BY <1>5, CurrentOpen
  <2> HIDE DEF c
  <2>2. /\ history'[c] = (IF arrived
               THEN [history[c] EXCEPT !.got = Count(@), !.doubts = Count(@)]
               ELSE Doubted(history[c]))
        /\ history' = [history EXCEPT ![c] = history'[c]]
        /\ \A s \in Row : s # c => history'[s] = history[s]
    <3>1. CASE arrived
      <4>1. history' = [history EXCEPT ![c].got = Count(@), ![c].doubts = Count(@)]
        BY <1>1, <3>1
      <4> QED  BY <4>1, <3>1, <1>2, <2>1
    <3>2. CASE ~arrived
      <4>1. history' = [history EXCEPT ![c] = Doubted(@)]
        BY <1>1, <1>5, <3>2
      <4> QED  BY <4>1, <3>2, <1>2, <2>1
    <3> QED  BY <3>1, <3>2
  <2>3. /\ history'[c] \in Past
        /\ history'[c].skipped = history[c].skipped
        /\ history'[c].queued = history[c].queued
        /\ history'[c].sent = history[c].sent
        /\ history'[c].got = (IF arrived THEN Count(history[c].got)
                              ELSE history[c].got)
        /\ history'[c].final = history[c].final
        /\ history'[c].doubts = (IF arrived \/ Reached
                                 THEN Count(history[c].doubts)
                                 ELSE history[c].doubts)
        /\ history[c].sent \in Nat /\ history[c].got \in 0..MaxCount
        /\ history[c].doubts \in 0..MaxCount
    <3> DEFINE g == Count(history[c].got)
               d == Count(history[c].doubts)
    <3>0. /\ history[c].sent \in Nat /\ history[c].got \in 0..MaxCount
          /\ history[c].doubts \in 0..MaxCount
      BY <2>1 DEF Past
    <3>4. g \in 0..MaxCount /\ d \in 0..MaxCount
      BY <3>0, CountType
    <3>1. CASE arrived
      <4>1. history'[c] = [history[c] EXCEPT !.got = g, !.doubts = d]
        BY <3>1, <2>2
      <4> HIDE DEF g, d
      <4>2. /\ history'[c] \in Past
            /\ history'[c].skipped = history[c].skipped
            /\ history'[c].queued = history[c].queued
            /\ history'[c].sent = history[c].sent
            /\ history'[c].got = g /\ history'[c].doubts = d
            /\ history'[c].final = history[c].final
        BY <4>1, <3>4, <2>1 DEF Past
      <4> QED  BY <4>2, <3>0, <3>1 DEF g, d
    <3>2. CASE ~arrived /\ Reached
      <4>1. history'[c] = [history[c] EXCEPT !.doubts = d]
        BY <3>2, <2>2 DEF Doubted
      <4> HIDE DEF g, d
      <4>2. /\ history'[c] \in Past
            /\ history'[c].skipped = history[c].skipped
            /\ history'[c].queued = history[c].queued
            /\ history'[c].sent = history[c].sent
            /\ history'[c].got = history[c].got /\ history'[c].doubts = d
            /\ history'[c].final = history[c].final
        BY <4>1, <3>4, <2>1 DEF Past
      <4> QED  BY <4>2, <3>0, <3>2 DEF d
    <3>3. CASE ~arrived /\ ~Reached
      <4>1. history'[c] = history[c]
        BY <3>3, <2>2 DEF Doubted
      <4> QED  BY <4>1, <3>3, <2>1 DEF Past
    <3> QED  BY <3>1, <3>2, <3>3
  <2>4. history' \in [Row -> Past]
    BY <1>2, <2>1, <2>2, <2>3
  <2>5. Unissued' /\ PendingOpen' /\ NothingDropped'
    <3>1. history'[c].sent >= history[c].sent
      BY <2>3
    <3>2. history'[c].got >= history[c].got
      BY <2>3, CountType
    <3>3. history[c].skipped => history'[c].skipped
      BY <2>3
    <3>4. /\ history'[c].queued = history[c].queued
          /\ history'[c].final = history[c].final
      BY <2>3
    <3>5. \A s \in Row : s # c => history'[s] = history[s]
      BY <2>2
    <3>6. UNCHANGED <<deliveries, raised>>
      BY <1>1
    <3> QED
      BY <1>5, <2>4, <3>1, <3>2, <3>3, <3>4, <3>5, <3>6, OnePast DEF c
  <2>6. TypeOK'
    <3>1. up' \in BOOLEAN /\ faults' \in Nat /\ crashes' \in Nat
      BY <1>1, <1>2 DEF TypeOK
    <3> QED  BY <1>1, <1>2, <1>3, <2>4, <3>1, TaskTypes
  <2>7. Arrivals'
    <3> SUFFICES ASSUME NEW r \in Row
                 PROVE  /\ history'[r].got <= 1 + history'[r].doubts
                        /\ history'[r].final = "none" =>
                              history'[r].got <= history'[r].doubts
      BY DEF Arrivals
    <3>1. /\ history[r].got <= 1 + history[r].doubts
          /\ history[r].final = "none" /\ ~(Reached /\ r = c) =>
                history[r].got <= history[r].doubts
      BY DEF IInv, Arrivals, c
    <3>2. arrived => ~Reached
      BY <1>1 DEF Reached
    <3>3. CASE r = c
      <4>1. /\ Count(history[c].doubts) \in Nat /\ Count(history[c].got) \in Nat
        BY <2>3, CountType
      <4>2. CASE arrived
        <5>1. history[c].got <= history[c].doubts
          BY <3>1, <3>2, <3>3, <4>2, <1>5, CurrentOpen DEF c
        <5>2. Count(history[c].got) <= Count(history[c].doubts)
          BY <5>1, <2>3, CountType
        <5> QED  BY <4>1, <4>2, <5>2, <3>3, <2>3
      <4>3. CASE ~arrived /\ Reached
        <5>1. history[c].got <= Count(history[c].doubts)
          BY <3>1, <3>3, <2>3, CountType
        <5> QED  BY <4>1, <4>3, <5>1, <3>3, <2>3
      <4>4. CASE ~arrived /\ ~Reached
        BY <3>1, <3>3, <4>4, <2>3
      <4> QED  BY <4>2, <4>3, <4>4
    <3>4. CASE r # c
      BY <3>1, <3>4, <2>2
    <3> QED  BY <3>3, <3>4
  <2> QED  BY <1>3, <2>5, <2>6, <2>7 DEF IInv
<1> QED  BY <1>4, <1>5

\* A restart leaves the rows and the task alone.
LEMMA StartIInv == IInv /\ (Start \/ UNCHANGED vars) => IInv'
<1> SUFFICES ASSUME IInv, Start \/ UNCHANGED vars PROVE IInv'
  OBVIOUS
<1>1. /\ UNCHANGED <<enabled, deliveries, raised, task, history, disabledAt,
                     edits, faults, crashes>>
      /\ up' \in BOOLEAN
  BY DEF Start, vars, bounds, IInv, TypeOK
<1>2. TypeOK'
  BY <1>1 DEF IInv, TypeOK
<1>3. Unissued' /\ PendingOpen' /\ NothingDropped'
  BY <1>1, RowsAlone
<1>4. BatchOpen' /\ AtWork' /\ Arrivals' /\ Window'
  BY <1>1 DEF IInv, BatchOpen, AtWork, Arrivals, Window, Reached, Current
<1> QED  BY <1>2, <1>3, <1>4 DEF IInv

\* Instants stay instants, and those that were in order are.
LEMMA BackType ==
    ASSUME NEW t \in Nat
    PROVE  /\ Back(t) \in Nat /\ Back(t) <= t
           /\ \A u \in Nat : t <= u => Back(t) <= Back(u)
  BY DEF Back

LEMMA OlderType == Older(0) = 0 /\ \A t \in Nat : Older(t) \in Nat
  BY DEF Older

\* Time passes: the rows, the task and its settings stay what they are.
LEMMA AdvanceIInv == IInv /\ Advance => IInv'
<1> SUFFICES ASSUME IInv, Advance PROVE IInv'
  OBVIOUS
<1> DEFINE n == Back(task.now)
           s == Back(task.since)
<1>1. /\ UNCHANGED <<up, enabled, raised, history, edits, faults, crashes>>
      /\ deliveries' = [r \in Row |->
                          [deliveries[r] EXCEPT !.nextAt = Older(@)]]
      /\ task' = [task EXCEPT !.now = n, !.since = s]
      /\ disabledAt' = [c \in Channel |-> Back(disabledAt[c])]
  BY DEF Advance, bounds
<1>2. /\ TypeOK /\ task \in Task /\ deliveries \in [Row -> Delivery]
      /\ task.now \in Nat /\ Now \in Nat /\ task.config \subseteq Channel
      /\ disabledAt \in [Channel -> Nat] /\ task.batch \in Seq(Item)
  BY Types DEF IInv
<1>3. n \in Nat /\ s \in Nat /\ n <= task.now
  <2>1. task.since \in Nat
    BY <1>2 DEF Task
  <2> QED  BY <1>2, <2>1, BackType
<1>4. ASSUME NEW r \in Row
      PROVE  /\ deliveries'[r] \in Delivery
             /\ deliveries'[r].done = deliveries[r].done
             /\ deliveries'[r].attempts = deliveries[r].attempts
             /\ deliveries[r] = Absent => deliveries'[r] = Absent
  <2> DEFINE o == Older(deliveries[r].nextAt)
  <2>1. deliveries'[r] = [deliveries[r] EXCEPT !.nextAt = o]
    BY <1>1
  <2>2. deliveries[r] \in Delivery /\ deliveries[r].nextAt \in Nat
    BY <1>2 DEF Delivery
  <2>3. o \in Nat
    BY <2>2, OlderType
  <2>4. deliveries[r] = Absent => o = 0
    BY OlderType DEF Absent
  <2> HIDE DEF o
  <2> QED  BY <2>1, <2>2, <2>3, <2>4 DEF Delivery, Absent
<1> HIDE DEF n, s
<1>5. /\ task'.at = task.at /\ task'.config = task.config
      /\ task'.batch = task.batch /\ task'.now = n /\ task' \in Task
      /\ Current' = Current
  BY <1>1, <1>2, <1>3 DEF Task, Current
<1>6. TypeOK'
  <2>1. deliveries' \in [Row -> Delivery]
    BY <1>1, <1>4
  <2>2. disabledAt' \in [Channel -> Nat]
    <3>1. \A c \in Channel : Back(disabledAt[c]) \in Nat
      BY <1>2, BackType
    <3> QED  BY <1>1, <3>1
  <2> QED  BY <1>1, <1>2, <1>5, <2>1, <2>2 DEF TypeOK, Task
<1>7. Unissued'
  BY <1>1, <1>4 DEF IInv, Unissued
<1>8. PendingOpen' /\ NothingDropped'
  BY <1>1, <1>4 DEF IInv, PendingOpen, NothingDropped
<1>9. BatchOpen'
  <2>1. ASSUME NEW i \in 1..Len(task.batch)
        PROVE  deliveries'[task.batch[i].row].done = "pending"
    <3>1. task.batch[i] \in Item
      BY <1>2
    <3>2. task.batch[i].row \in Row
      BY <3>1 DEF Item
    <3> QED  BY <3>2, <1>4 DEF IInv, BatchOpen
  <2> QED  BY <2>1, <1>1, <1>5 DEF IInv, BatchOpen
<1>10. AtWork' /\ Arrivals'
  BY <1>1, <1>5 DEF IInv, AtWork, Arrivals, Reached
<1>11. Window'
  <2>1. n <= Now
    BY <1>2, <1>3 DEF IInv, Window
  <2>2. ASSUME task.at # "idle", NEW c \in task.config \ enabled
        PROVE  n <= disabledAt'[c]
    <3>1. task.now <= disabledAt[c] /\ disabledAt[c] \in Nat /\ c \in Channel
      BY <2>2, <1>2 DEF IInv, Window
    <3>2. n <= Back(disabledAt[c])
      BY <3>1, <1>2, BackType DEF n
    <3> QED  BY <3>1, <3>2, <1>1
  <2> QED  BY <2>1, <2>2, <1>1, <1>5 DEF Window
<1> QED  BY <1>6, <1>7, <1>8, <1>9, <1>10, <1>11 DEF IInv

-----------------------------------------------------------------------------
LEMMA StepIInv == IInv /\ [Next]_vars => IInv'
<1> SUFFICES ASSUME IInv, [Next]_vars PROVE IInv'
  OBVIOUS
<1>1. CASE Enqueue
  BY <1>1, EnqueueIInv
<1>2. ASSUME NEW c \in Channel, ToggleChannel(c) PROVE IInv'
  BY <1>2, ToggleIInv
<1>3. CASE Notify
  <2>1. ASSUME NEW ok \in BOOLEAN, NEW arrived \in BOOLEAN,
               Answer(ok, arrived)
        PROVE  IInv'
    BY <2>1, AnswerIInv
  <2> QED
    BY <1>3, <2>1, ReadConfigIInv, QueryDueIInv, FinishIInv, SkipIInv,
       SendIInv, ConfirmIInv, ConfirmFailsIInv
    DEF Notify
<1>4. CASE Prune
  BY <1>4, PruneIInv
<1>5. ASSUME NEW arrived \in BOOLEAN, Crash(arrived) PROVE IInv'
  BY <1>5, CrashIInv
<1>6. CASE Start \/ UNCHANGED vars
  BY <1>6, StartIInv
<1>7. CASE Advance
  BY <1>7, AdvanceIInv
<1> QED  BY <1>1, <1>2, <1>3, <1>4, <1>5, <1>6, <1>7 DEF Next

LEMMA Invariance == Spec => []IInv
  BY InitIInv, StepIInv, PTL DEF Spec

\* Every variable of the outbox stays in its domain: in particular a delay
\* never makes a row's next_at anything but an instant (Store.Delivered).
THEOREM TypeCorrect == Spec => []TypeOK
<1>1. IInv => TypeOK
  BY DEF IInv
<1> QED  BY <1>1, Invariance, PTL

\* A row that was queued and is settled or gone was received, skipped because
\* its channel was disabled, or attempted as often as the limit says, whatever
\* fails, crashes or is pruned (Server.Notify, Store.Delivered, Store.Prune).
THEOREM NothingIsDropped == Spec => []NothingDropped
<1>1. IInv => NothingDropped
  BY DEF IInv
<1> QED  BY <1>1, Invariance, PTL

\* The receiver gets a message at most once more often than answers came too
\* late, write-backs failed or the process died (Server.Notify).
THEOREM DuplicatesAreExplained == Spec => []DuplicatesExplained
<1>1. IInv => DuplicatesExplained
  BY DEF IInv, Arrivals, DuplicatesExplained
<1> QED  BY <1>1, Invariance, PTL

\* A request goes out by Send only.
LEMMA WhoSends ==
    ASSUME IInv, [Next]_vars, NEW r \in Row, Sends(r)
    PROVE  Send /\ r = Current.row
<1>1. task \in Task
  BY Types DEF IInv
<1>2. task.at = "next" /\ task'.at = "sending" /\ r = Current.row
  BY DEF Sends
<1>3. task' # task /\ task' # Idle
  BY <1>2 DEF Idle
<1>4. ~Skip
  <2> SUFFICES ASSUME Skip PROVE FALSE
    OBVIOUS
  <2>1. task' = [task EXCEPT !.at = "succeeded"]
    BY DEF Skip
  <2> QED  BY <1>1, <1>2, <2>1 DEF Task
<1> QED
  BY <1>2, <1>3, <1>4
  DEF Next, Notify, Enqueue, ToggleChannel, ReadConfig, QueryDue, Finish,
      Answer, Confirm, ConfirmFails, Prune, Crash, Start, Advance, vars

\* A settled row is never sent again: every row a pass holds is pending, and no
\* pending row has been settled (Store.Due, Store.Delivered, Server.Notify).
THEOREM SettledStaysFinal == Spec => SettledIsFinal
<1>1. ASSUME IInv, [Next]_vars, NEW r \in Row, Sends(r)
      PROVE  history[r].final = "none"
  <2>1. r = Current.row /\ task.batch # <<>>
    BY <1>1, WhoSends DEF Send, GoOn
  <2> QED  BY <2>1, <1>1, CurrentOpen
<1>2. IInv /\ [Next]_vars =>
          [\A r \in Row : Sends(r) => history[r].final = "none"]_vars
  BY <1>1
<1> QED  BY <1>2, Invariance, PTL DEF Spec, SettledIsFinal

\* A message goes to a disabled channel only within TaskLimit of its being
\* disabled: the pass that sends it read the settings before that and its
\* context is not done (Server.Notify).
THEOREM SilentSoonAfterDisabling == Spec => DisabledSoonSilent
<1>1. ASSUME IInv, [Next]_vars, NEW r \in Row, Sends(r), r[2] \notin enabled
      PROVE  Now < disabledAt[r[2]] + TaskLimit
  <2>1. /\ r = Current.row /\ task.at = "next" /\ ~Expired
        /\ r[2] \in task.config
    BY <1>1, WhoSends DEF Send, GoOn
  <2>2. task.now <= disabledAt[r[2]]
    BY <1>1, <2>1 DEF IInv, Window
  <2>3. /\ Now \in Nat /\ task.now \in Nat /\ task.config \subseteq Channel
        /\ disabledAt \in [Channel -> Nat] /\ TaskLimit \in Nat
    BY <1>1, Types, OutboxAssumption DEF IInv
  <2>4. disabledAt[r[2]] \in Nat
    BY <2>1, <2>3
  <2> QED  BY <2>1, <2>2, <2>3, <2>4 DEF Expired
<1>2. IInv /\ [Next]_vars =>
          [\A r \in Row : Sends(r) /\ r[2] \notin enabled =>
                Now < disabledAt[r[2]] + TaskLimit]_vars
  BY <1>1
<1> QED  BY <1>2, Invariance, PTL DEF Spec, DisabledSoonSilent

-----------------------------------------------------------------------------
(* The outbox is a mailbox: each step is one of Mailbox or changes nothing  *)
(* a mailbox has.                                                           *)

Capped(n) == IF n < MaxAttempts THEN n ELSE MaxAttempts

LEMMA CappedCount ==
    ASSUME NEW n \in 0..MaxCount
    PROVE  Capped(Count(n)) = IF Capped(n) < MaxAttempts THEN Capped(n) + 1
                              ELSE Capped(n)
  BY OutboxAssumption DEF Capped, Count

\* While a request is out it is that of the row the task is at, a pending one.
LEMMA OneOut ==
    ASSUME IInv, task.at = "sending"
    PROVE  /\ Current.row \in Row /\ RowsOut = {Current.row}
           /\ Statuses[Current.row] = "pending"
<1>1. task.batch # <<>>
  BY DEF IInv, AtWork
<1>2. Current.row \in Row /\ deliveries[Current.row].done = "pending"
  BY <1>1, CurrentOpen
<1> QED  BY <1>2 DEF RowsOut, Statuses

LEMMA NoneOut ==
    /\ task.at # "sending" => RowsOut = {}
    /\ task'.at # "sending" => RowsOut' = {}
    /\ task' = task => RowsOut' = RowsOut
  BY DEF RowsOut, Current

\* A step that adds to the past of one row.
LEMMA OneRowInBox ==
    ASSUME history \in [Row -> Past], NEW c \in Row, NEW h \in Past,
           history' = [history EXCEPT ![c] = h], UNCHANGED deliveries,
           h.queued = history[c].queued
    PROVE  /\ Statuses' = Statuses /\ QueuedRows' = QueuedRows
           /\ Attempts' = [Attempts EXCEPT ![c] = Capped(h.sent)]
           /\ h.sent = history[c].sent => Attempts' = Attempts
           /\ h.got = history[c].got => ReceivedRows' = ReceivedRows
           /\ h.got > 0 => ReceivedRows' = ReceivedRows \cup {c}
           /\ h.skipped = history[c].skipped => SkippedRows' = SkippedRows
           /\ h.skipped => SkippedRows' = SkippedRows \cup {c}
<1>1. /\ \A r \in Row : history'[r] = IF r = c THEN h ELSE history[r]
      /\ history'[c] = h
  OBVIOUS
<1>2. Statuses' = Statuses
  BY DEF Statuses
<1>3. QueuedRows' = QueuedRows
  BY <1>1 DEF QueuedRows
<1>4. Attempts' = [Attempts EXCEPT ![c] = Capped(h.sent)]
  BY <1>1 DEF Attempts, Capped
<1>5. h.sent = history[c].sent => Attempts' = Attempts
  BY <1>1 DEF Attempts
<1>6. h.got = history[c].got => ReceivedRows' = ReceivedRows
  BY <1>1 DEF ReceivedRows
<1>7. h.got > 0 => ReceivedRows' = ReceivedRows \cup {c}
  BY <1>1 DEF ReceivedRows
<1>8. h.skipped = history[c].skipped => SkippedRows' = SkippedRows
  BY <1>1 DEF SkippedRows
<1>9. h.skipped => SkippedRows' = SkippedRows \cup {c}
  BY <1>1 DEF SkippedRows
<1> QED  BY <1>2, <1>3, <1>4, <1>5, <1>6, <1>7, <1>8, <1>9

\* A step that leaves the status of the rows and their past alone, and has no
\* request go out or end.
LEMMA RowsAloneInBox ==
    ASSUME \A r \in Row : deliveries'[r].done = deliveries[r].done,
           history' = history, RowsOut' = RowsOut
    PROVE  UNCHANGED Box!vars
<1>1. Statuses' = Statuses
  BY DEF Statuses
<1>2. QueuedRows' = QueuedRows
  BY DEF QueuedRows
<1>3. Attempts' = Attempts /\ ReceivedRows' = ReceivedRows
  BY DEF Attempts, ReceivedRows
<1>4. SkippedRows' = SkippedRows
  BY DEF SkippedRows
<1> QED  BY <1>1, <1>2, <1>3, <1>4 DEF Box!vars

\* Server.Notify passes over a row whose channel was disabled at its start.
LEMMA SkipInBox == ASSUME IInv, Skip PROVE Box!Excuse(Current.row)
<1> DEFINE c == Current.row
           h == [history[c] EXCEPT !.skipped = TRUE]
<1>1. /\ task.at = "next" /\ task.batch # <<>> /\ UNCHANGED deliveries
      /\ task' = [task EXCEPT !.at = "succeeded"]
      /\ history' = [history EXCEPT ![c].skipped = TRUE]
  BY DEF Skip, GoOn
<1>2. /\ TypeOK /\ task \in Task /\ history \in [Row -> Past]
  BY Types DEF IInv
<1>3. /\ c \in Row /\ history[c] \in Past
      /\ deliveries[c].done = "pending"
  BY <1>1, CurrentOpen
<1>4. RowsOut' = RowsOut
  <2>1. task'.at = "succeeded"
    BY <1>1, <1>2 DEF Task
  <2> QED  BY <1>1, <2>1, NoneOut
<1>5. /\ h \in Past /\ h.queued = history[c].queued /\ h.skipped
      /\ h.sent = history[c].sent /\ h.got = history[c].got
  BY <1>3 DEF Past
<1>6. history' = [history EXCEPT ![c] = h]
  BY <1>1, <1>2, <1>3
<1> HIDE DEF h, c
<1>7. /\ Statuses' = Statuses /\ QueuedRows' = QueuedRows
      /\ Attempts' = Attempts /\ ReceivedRows' = ReceivedRows
      /\ SkippedRows' = SkippedRows \cup {c}
  BY <1>1, <1>2, <1>3, <1>5, <1>6, OneRowInBox
<1>8. Statuses[c] = "pending"
  BY <1>3 DEF Statuses
<1>9. Box!Excuse(c)
  BY <1>4, <1>7, <1>8 DEF Box!Excuse
<1> QED  BY <1>9 DEF c

\* A request goes out (Send).
LEMMA SendInBox == ASSUME IInv, Send PROVE Box!Try(Current.row)
<1> DEFINE c == Current.row
           n == Count(history[c].sent)
           h == [history[c] EXCEPT !.sent = n]
<1>1. /\ task.at = "next" /\ task.batch # <<>> /\ UNCHANGED deliveries
      /\ task' = [task EXCEPT !.at = "sending", !.since = Now]
      /\ history' = [history EXCEPT ![c].sent = Count(@)]
  BY DEF Send, GoOn
<1>2. /\ TypeOK /\ task \in Task /\ history \in [Row -> Past] /\ Now \in Nat
  BY Types DEF IInv
<1>3. /\ c \in Row /\ history[c] \in Past
      /\ deliveries[c].done = "pending"
  BY <1>1, CurrentOpen
<1>4. RowsOut = {} /\ RowsOut' = {c}
  <2>1. task'.at = "sending" /\ Current' = Current
    BY <1>1, <1>2 DEF Task, Current
  <2> QED  BY <1>1, <1>3, <2>1 DEF RowsOut
<1>5. history[c].sent \in 0..MaxCount /\ n \in 0..MaxCount
  <2>1. history[c].sent \in 0..MaxCount
    BY <1>3 DEF Past
  <2> QED  BY <2>1, CountType
<1>6. history' = [history EXCEPT ![c] = h]
  BY <1>1, <1>2, <1>3
<1> HIDE DEF n
<1>7. /\ h \in Past /\ h.queued = history[c].queued
      /\ h.skipped = history[c].skipped
      /\ h.sent = n /\ h.got = history[c].got
  BY <1>3, <1>5 DEF Past
<1> HIDE DEF h, c
<1>8. /\ Statuses' = Statuses /\ QueuedRows' = QueuedRows
      /\ ReceivedRows' = ReceivedRows /\ SkippedRows' = SkippedRows
      /\ Attempts' = [Attempts EXCEPT ![c] = Capped(n)]
  BY <1>1, <1>2, <1>3, <1>6, <1>7, OneRowInBox
<1>9. Statuses[c] = "pending" /\ Attempts[c] = Capped(history[c].sent)
  BY <1>3 DEF Statuses, Attempts, Capped
<1>10. Capped(n) = IF Attempts[c] < MaxAttempts THEN Attempts[c] + 1
                   ELSE Attempts[c]
  BY <1>5, <1>9, CappedCount DEF n
<1>11. Box!Try(c)
  BY <1>4, <1>8, <1>9, <1>10 DEF Box!Try
<1> QED  BY <1>11 DEF c

\* A request ends: the message reached the receiver or did not, whether an
\* answer comes, comes too late or the process dies (Send, Crash).
LEMMA EndInBox ==
    ASSUME IInv, task.at = "sending", task'.at # "sending",
           UNCHANGED deliveries,
           history' = [history EXCEPT ![Current.row] = history'[Current.row]],
           history'[Current.row] \in Past,
           history'[Current.row].queued = history[Current.row].queued,
           history'[Current.row].skipped = history[Current.row].skipped,
           history'[Current.row].sent = history[Current.row].sent,
           \/ history'[Current.row].got > 0
           \/ history'[Current.row].got = history[Current.row].got
    PROVE  Box!Arrive(Current.row) \/ Box!Miss(Current.row)
<1> DEFINE c == Current.row
           h == history'[c]
<1>1. c \in Row /\ RowsOut = {c} /\ RowsOut' = {}
  BY OneOut, NoneOut
<1>2. history \in [Row -> Past]
  BY Types DEF IInv
<1>3. /\ history' = [history EXCEPT ![c] = h]
      /\ h \in Past /\ h.queued = history[c].queued
      /\ h.skipped = history[c].skipped /\ h.sent = history[c].sent
      /\ h.got > 0 \/ h.got = history[c].got
  OBVIOUS
<1> HIDE DEF h, c
<1>4. /\ Statuses' = Statuses /\ QueuedRows' = QueuedRows
      /\ Attempts' = Attempts /\ SkippedRows' = SkippedRows
      /\ \/ ReceivedRows' = ReceivedRows \cup {c}
         \/ ReceivedRows' = ReceivedRows
  BY <1>1, <1>2, <1>3, OneRowInBox
<1>5. c \in RowsOut /\ RowsOut' = RowsOut \ {c}
  BY <1>1
<1>6. Box!Arrive(c) \/ Box!Miss(c)
  BY <1>4, <1>5 DEF Box!Arrive, Box!Miss
<1> QED  BY <1>6 DEF c

\* The answer, an error or the timeout (Send).
LEMMA AnswerInBox ==
    ASSUME IInv, NEW ok \in BOOLEAN, NEW arrived \in BOOLEAN,
           Answer(ok, arrived)
    PROVE  Box!Arrive(Current.row) \/ Box!Miss(Current.row)
<1> DEFINE c == Current.row
           g == IF arrived THEN Count(history[c].got) ELSE history[c].got
           d == IF arrived /\ ~ok THEN Count(history[c].doubts)
                ELSE history[c].doubts
<1>1. /\ task.at = "sending" /\ UNCHANGED deliveries
      /\ task' = [task EXCEPT !.at = IF ok THEN "succeeded" ELSE "failed"]
      /\ history' = [history EXCEPT
            ![c].got    = IF arrived THEN Count(@) ELSE @,
            ![c].doubts = IF arrived /\ ~ok THEN Count(@) ELSE @]
  BY DEF Answer
<1>2. task \in Task /\ history \in [Row -> Past]
  BY Types DEF IInv
<1>3. c \in Row /\ history[c] \in Past
  <2>1. task.batch # <<>>
    BY <1>1 DEF IInv, AtWork
  <2> QED  BY <2>1, CurrentOpen
<1>4. task'.at # "sending"
  BY <1>1, <1>2 DEF Task
<1>5. /\ g \in 0..MaxCount /\ d \in 0..MaxCount
      /\ g > 0 \/ g = history[c].got
  <2>1. history[c].got \in 0..MaxCount /\ history[c].doubts \in 0..MaxCount
    BY <1>3 DEF Past
  <2> QED  BY <2>1, CountType
<1>6. history'[c] = [history[c] EXCEPT !.got = g, !.doubts = d]
  BY <1>1, <1>2, <1>3
<1>7. history' = [history EXCEPT ![c] = history'[c]]
  BY <1>1, <1>2, <1>3
<1> HIDE DEF c, g, d
<1>8. /\ history'[c] \in Past
      /\ history'[c].queued = history[c].queued
      /\ history'[c].skipped = history[c].skipped
      /\ history'[c].sent = history[c].sent
      /\ history'[c].got = g
  BY <1>3, <1>5, <1>6 DEF Past
<1> QED  BY <1>1, <1>4, <1>5, <1>7, <1>8, EndInBox DEF c

\* What a doubt adds to the past of a row.
LEMMA DoubtedPast ==
    ASSUME NEW h \in Past
    PROVE  /\ Doubted(h) \in Past /\ Doubted(h).queued = h.queued
           /\ Doubted(h).skipped = h.skipped /\ Doubted(h).sent = h.sent
           /\ Doubted(h).got = h.got
<1> DEFINE d == Count(h.doubts)
<1>1. d \in 0..MaxCount
  <2>1. h.doubts \in 0..MaxCount
    BY DEF Past
  <2> QED  BY <2>1, CountType
<1>2. Doubted(h) = IF Reached THEN [h EXCEPT !.doubts = d] ELSE h
  BY DEF Doubted
<1> HIDE DEF d
<1> QED  BY <1>1, <1>2 DEF Past

\* Counting a doubt is nothing a mailbox does.
LEMMA DoubtInBox ==
    ASSUME IInv, task.batch # <<>>, task.at # "sending", task'.at # "sending",
           UNCHANGED deliveries,
           history' = [history EXCEPT ![Current.row] = Doubted(@)]
    PROVE  UNCHANGED Box!vars
<1> DEFINE c == Current.row
           h == Doubted(history[c])
<1>1. history \in [Row -> Past] /\ RowsOut' = RowsOut
  BY Types, NoneOut DEF IInv
<1>2. c \in Row /\ history[c] \in Past
  BY CurrentOpen
<1>3. /\ h \in Past /\ h.queued = history[c].queued
      /\ h.skipped = history[c].skipped
      /\ h.sent = history[c].sent /\ h.got = history[c].got
  BY <1>2, DoubtedPast
<1>4. history' = [history EXCEPT ![c] = h]
  BY <1>1, <1>2
<1> HIDE DEF h, c
<1>5. /\ Statuses' = Statuses /\ QueuedRows' = QueuedRows
      /\ Attempts' = Attempts /\ ReceivedRows' = ReceivedRows
      /\ SkippedRows' = SkippedRows
  BY <1>1, <1>2, <1>3, <1>4, OneRowInBox
<1> QED  BY <1>1, <1>5 DEF Box!vars

\* The process dies with a request out, or with a result it has not written.
LEMMA CrashInBox ==
    ASSUME IInv, NEW arrived \in BOOLEAN, Crash(arrived)
    PROVE  \/ /\ task.at = "sending"
              /\ Box!Arrive(Current.row) \/ Box!Miss(Current.row)
           \/ UNCHANGED Box!vars
<1>1. /\ task' = Idle /\ UNCHANGED deliveries
      /\ arrived => task.at = "sending"
      /\ history' =
           IF arrived
           THEN [history EXCEPT ![Current.row].got = Count(@),
                                ![Current.row].doubts = Count(@)]
           ELSE IF task.batch # <<>>
                THEN [history EXCEPT ![Current.row] = Doubted(@)]
                ELSE history
  BY DEF Crash
<1>2. task'.at # "sending"
  BY <1>1 DEF Idle
<1>3. ASSUME task.batch # <<>>
      PROVE  /\ Current.row \in Row /\ history[Current.row] \in Past
             /\ history \in [Row -> Past]
  BY <1>3, CurrentOpen, Types DEF IInv
<1>4. task.at = "sending" => task.batch # <<>>
  BY DEF IInv, AtWork
<1>5. CASE arrived
  <2> DEFINE c == Current.row
             g == Count(history[c].got)
             d == Count(history[c].doubts)
  <2>1. task.at = "sending" /\ task.batch # <<>>
    BY <1>1, <1>4, <1>5
  <2>2. c \in Row /\ history[c] \in Past /\ history \in [Row -> Past]
    BY <1>3, <2>1
  <2>3. g \in 0..MaxCount /\ d \in 0..MaxCount /\ g > 0
    <3>1. history[c].got \in 0..MaxCount /\ history[c].doubts \in 0..MaxCount
      BY <2>2 DEF Past
    <3> QED  BY <3>1, CountType
  <2>4. history'[c] = [history[c] EXCEPT !.got = g, !.doubts = d]
    BY <1>1, <1>5, <2>2
  <2>5. history' = [history EXCEPT ![c] = history'[c]]
    BY <1>1, <1>5, <2>2
  <2> HIDE DEF d, c, g
  <2>6. /\ history'[c] \in Past
        /\ history'[c].queued = history[c].queued
        /\ history'[c].skipped = history[c].skipped
        /\ history'[c].sent = history[c].sent
        /\ history'[c].got = g
    BY <2>2, <2>3, <2>4 DEF Past
  <2> QED  BY <1>1, <1>2, <2>1, <2>3, <2>5, <2>6, EndInBox DEF c
<1>6. CASE ~arrived /\ task.at = "sending"
  <2> DEFINE c == Current.row
  <2>1. c \in Row /\ history[c] \in Past /\ history \in [Row -> Past]
    BY <1>3, <1>4, <1>6
  <2>2. history' = [history EXCEPT ![c] = Doubted(@)]
    BY <1>1, <1>4, <1>6
  <2>3. history'[c] = Doubted(history[c])
    BY <2>1, <2>2
  <2>4. history' = [history EXCEPT ![c] = history'[c]]
    BY <2>1, <2>2
  <2>5. /\ history'[c] \in Past
        /\ history'[c].queued = history[c].queued
        /\ history'[c].skipped = history[c].skipped
        /\ history'[c].sent = history[c].sent
        /\ history'[c].got = history[c].got
    BY <2>1, <2>3, DoubtedPast
  <2> QED  BY <1>1, <1>2, <1>6, <2>4, <2>5, EndInBox
<1>7. CASE ~arrived /\ task.at # "sending" /\ task.batch # <<>>
  <2>1. history' = [history EXCEPT ![Current.row] = Doubted(@)]
    BY <1>1, <1>7
  <2> QED  BY <1>1, <1>2, <1>7, <2>1, DoubtInBox
<1>8. CASE ~arrived /\ task.at # "sending" /\ task.batch = <<>>
  <2>1. history' = history
    BY <1>1, <1>8
  <2>2. RowsOut' = RowsOut
    BY <1>2, <1>8, NoneOut
  <2> QED  BY <1>1, <2>1, <2>2, RowsAloneInBox
<1> QED  BY <1>5, <1>6, <1>7, <1>8

\* The result is written back: the row is settled or stays pending (Delivered).
LEMMA ConfirmInBox ==
    ASSUME IInv, Confirm
    PROVE  \/ \E outcome \in {"sent", "abandoned"} :
                 Box!Settle(Current.row, outcome)
           \/ UNCHANGED Box!vars
<1> DEFINE c == Current.row
           w == Written(task.at = "succeeded")
           f == IF w.done \in Settled THEN w.done ELSE history[c].final
           h == [history[c] EXCEPT !.final = f]
<1>1. /\ task.at \in {"succeeded", "failed"} /\ task.batch # <<>>
      /\ deliveries' = [deliveries EXCEPT
             ![c] = IF deliveries[c].done = "absent" THEN @ ELSE w]
      /\ history' = [history EXCEPT
             ![c].final = IF w.done \in Settled THEN w.done ELSE @]
      /\ task'.at # "sending"
  <2>1. /\ task.at \in {"succeeded", "failed"} /\ Deliver
        /\ task' = [task EXCEPT !.at = "next", !.batch = Tail(@)] \/ task' = Idle
    BY DEF Confirm
  <2>2. task \in Task
    BY Types DEF IInv
  <2>3. task'.at # "sending"
    <3> DEFINE b == Tail(task.batch)
    <3>1. task' = [task EXCEPT !.at = "next", !.batch = b] \/ task' = Idle
      BY <2>1
    <3> HIDE DEF b
    <3>2. CASE task' = [task EXCEPT !.at = "next", !.batch = b]
      BY <2>2, <3>2 DEF Task
    <3>3. CASE task' = Idle
      BY <3>3 DEF Idle
    <3> QED  BY <3>1, <3>2, <3>3
  <2>4. task.batch # <<>>
    BY <2>1 DEF IInv, AtWork
  <2>5. /\ deliveries' = [deliveries EXCEPT
             ![c] = IF deliveries[c].done = "absent" THEN @ ELSE w]
        /\ history' = [history EXCEPT
             ![c].final = IF w.done \in Settled THEN w.done ELSE @]
    BY DEF Confirm, Deliver
  <2> QED  BY <2>1, <2>3, <2>4, <2>5
<1>2. /\ history \in [Row -> Past] /\ deliveries \in [Row -> Delivery]
  BY Types DEF IInv
<1>3. /\ c \in Row /\ history[c] \in Past /\ history[c].sent \in Nat
      /\ Current.attempts \in Nat /\ deliveries[c].done = "pending"
  BY <1>1, CurrentOpen DEF Past
<1>4. /\ task.at = "succeeded" => history[c].got > 0 \/ history[c].skipped
      /\ task.at = "failed" => history[c].sent > Current.attempts
  BY DEF IInv, AtWork
<1>5. /\ w.done \in {"pending", "sent", "abandoned"}
      /\ w.done = "sent" => task.at = "succeeded"
      /\ w.done = "abandoned" =>
            task.at = "failed" /\ Current.attempts + 1 >= MaxAttempts
  BY <1>1 DEF Written
<1>6. /\ w.done = "sent" => history[c].got > 0 \/ history[c].skipped
      /\ w.done = "abandoned" => history[c].sent >= MaxAttempts
  BY <1>3, <1>4, <1>5, OutboxAssumption
<1>7. /\ h.sent = history[c].sent /\ h.got = history[c].got
      /\ h.queued = history[c].queued /\ h.skipped = history[c].skipped
  BY <1>3 DEF Past
<1>8. history' = [history EXCEPT ![c] = h]
  BY <1>1, <1>2, <1>3
<1>9. RowsOut = {} /\ RowsOut' = {}
  BY <1>1, NoneOut
<1> HIDE DEF c, w, h
<1>10. /\ QueuedRows' = QueuedRows /\ SkippedRows' = SkippedRows
       /\ Attempts' = Attempts /\ ReceivedRows' = ReceivedRows
  <2>1. \A r \in Row : /\ history'[r].got = history[r].got
                       /\ history'[r].sent = history[r].sent
                       /\ history'[r].queued = history[r].queued
                       /\ history'[r].skipped = history[r].skipped
    BY <1>2, <1>3, <1>7, <1>8
  <2> QED  BY <2>1 DEF QueuedRows, SkippedRows, Attempts, ReceivedRows
<1>11. deliveries' = [deliveries EXCEPT ![c] = w]
  BY <1>1, <1>2, <1>3
<1>12. Statuses' = [Statuses EXCEPT ![c] = w.done]
  BY <1>2, <1>3, <1>11 DEF Statuses
<1>13. /\ Statuses[c] = "pending"
       /\ history[c].sent >= MaxAttempts => Attempts[c] = MaxAttempts
       /\ history[c].got > 0 \/ history[c].skipped =>
             c \in ReceivedRows \cup SkippedRows
  BY <1>3, OutboxAssumption DEF Statuses, Attempts, ReceivedRows, SkippedRows
<1>14. CASE w.done = "pending"
  <2>1. Statuses' = Statuses
    BY <1>12, <1>13, <1>14 DEF Statuses
  <2> QED  BY <1>9, <1>10, <2>1 DEF Box!vars
<1>15. ASSUME NEW outcome \in {"sent", "abandoned"}, w.done = outcome
       PROVE  Box!Settle(c, outcome)
  <2>1. outcome = "sent" => c \in ReceivedRows \cup SkippedRows
    BY <1>6, <1>13, <1>15
  <2>2. outcome = "abandoned" => Attempts[c] = MaxAttempts
    BY <1>6, <1>13, <1>15
  <2>3. c \notin RowsOut /\ RowsOut' = RowsOut
    BY <1>9
  <2> QED
    BY <1>10, <1>12, <1>13, <1>15, <2>1, <2>2, <2>3 DEF Box!Settle
<1> QED  BY <1>5, <1>14, <1>15 DEF c

\* Retention removes settled rows only (Store.Prune).
LEMMA PruneInBox ==
    ASSUME IInv, Prune PROVE Box!Remove
<1> DEFINE old == {r \in Row : Stale(r)}
<1>1. /\ UNCHANGED <<task, history>>
      /\ deliveries' = [r \in Row |-> IF Stale(r) THEN Absent ELSE deliveries[r]]
  BY DEF Prune
<1>2. old \in SUBSET {r \in Row : Statuses[r] \in {"sent", "abandoned"}}
  BY DEF Stale, Settled, Statuses
<1>3. Statuses' = [r \in Row |-> IF r \in old THEN "absent" ELSE Statuses[r]]
  BY <1>1 DEF Statuses, Absent
<1>4. /\ QueuedRows' = QueuedRows /\ SkippedRows' = SkippedRows
      /\ Attempts' = Attempts /\ ReceivedRows' = ReceivedRows
      /\ RowsOut' = RowsOut
  BY <1>1, NoneOut DEF QueuedRows, SkippedRows, Attempts, ReceivedRows
<1> HIDE DEF old
<1> QED  BY <1>2, <1>3, <1>4 DEF Box!Remove

\* An alert and its rows are committed together (Store.Record).
LEMMA EnqueueInBox ==
    ASSUME IInv, Enqueue PROVE Box!Queue
<1> DEFINE new == {r \in Row : r[1] = raised + 1 /\ r[2] \in enabled}
<1>1. /\ task' = task
      /\ deliveries' = [r \in Row |-> IF r \in new
             THEN [done |-> "pending", attempts |-> 0, nextAt |-> 0]
             ELSE deliveries[r]]
      /\ history' = [r \in Row |-> IF r \in new
             THEN [history[r] EXCEPT !.queued = TRUE] ELSE history[r]]
  BY DEF Enqueue
<1>2. /\ TypeOK /\ history \in [Row -> Past] /\ raised \in Nat
  BY Types DEF IInv
<1>3. new \in SUBSET (Row \ QueuedRows)
  <2> SUFFICES ASSUME NEW r \in new PROVE r \notin QueuedRows
    OBVIOUS
  <2>1. r \in Row /\ r[1] > raised
    BY <1>2
  <2>2. history[r] = Untouched
    BY <2>1 DEF IInv, Unissued
  <2> QED  BY <2>2 DEF QueuedRows, Untouched
<1> HIDE DEF new
<1>4. ASSUME NEW r \in Row
      PROVE  /\ history'[r].sent = history[r].sent
             /\ history'[r].got = history[r].got
             /\ history'[r].skipped = history[r].skipped
             /\ history'[r].queued <=> history[r].queued \/ r \in new
  <2>1. history[r] \in Past
    BY <1>2
  <2>2. CASE r \in new
    <3>1. history'[r] = [history[r] EXCEPT !.queued = TRUE]
      BY <1>1, <2>2
    <3> QED  BY <2>1, <2>2, <3>1 DEF Past
  <2>3. CASE r \notin new
    BY <1>1, <2>3
  <2> QED  BY <2>2, <2>3
<1>5. /\ SkippedRows' = SkippedRows /\ Attempts' = Attempts
      /\ ReceivedRows' = ReceivedRows /\ RowsOut' = RowsOut
  BY <1>1, <1>4, NoneOut DEF SkippedRows, Attempts, ReceivedRows
<1>6. QueuedRows' = QueuedRows \cup new
  BY <1>3, <1>4 DEF QueuedRows
<1>7. Statuses' = [r \in Row |-> IF r \in new THEN "pending" ELSE Statuses[r]]
  BY <1>1 DEF Statuses
<1> QED  BY <1>3, <1>5, <1>6, <1>7 DEF Box!Queue

LEMMA BoxInit == Init => Box!Init
<1> SUFFICES ASSUME Init PROVE Box!Init
  OBVIOUS
<1>1. /\ deliveries = [r \in Row |-> Absent] /\ task = Idle
      /\ history = [r \in Row |-> Untouched]
  BY DEF Init
<1>2. Statuses = [r \in Row |-> "absent"]
  BY <1>1 DEF Statuses, Absent
<1>3. QueuedRows = {} /\ SkippedRows = {} /\ ReceivedRows = {}
  BY <1>1 DEF QueuedRows, SkippedRows, ReceivedRows, Untouched
<1>4. Attempts = [r \in Row |-> 0]
  BY <1>1, OutboxAssumption DEF Attempts, Untouched
<1>5. RowsOut = {}
  BY <1>1, NoneOut DEF Idle
<1> QED  BY <1>2, <1>3, <1>4, <1>5 DEF Box!Init

LEMMA BoxStep == ASSUME IInv, [Next]_vars PROVE [Box!Next]_Box!vars
<1>1. task.batch # <<>> => Current.row \in Row
  BY CurrentOpen
<1>2. task.at = "sending" => Current.row \in Row
  BY <1>1 DEF IInv, AtWork
<1>3. ASSUME NEW r \in Row,
             \/ Box!Try(r) \/ Box!Arrive(r) \/ Box!Miss(r) \/ Box!Excuse(r)
             \/ \E outcome \in {"sent", "abandoned"} : Box!Settle(r, outcome)
      PROVE  Box!Next
  BY <1>3 DEF Box!Next
<1>4. CASE Enqueue
  BY <1>4, EnqueueInBox DEF Box!Next
<1>5. CASE Prune
  BY <1>5, PruneInBox DEF Box!Next
<1>6. CASE Skip
  <2>1. task.batch # <<>>
    BY <1>6 DEF Skip, GoOn
  <2> QED  BY <1>1, <1>3, <1>6, <2>1, SkipInBox
<1>7. CASE Send
  <2>1. task.batch # <<>>
    BY <1>7 DEF Send, GoOn
  <2> QED  BY <1>1, <1>3, <1>7, <2>1, SendInBox
<1>8. ASSUME NEW ok \in BOOLEAN, NEW arrived \in BOOLEAN, Answer(ok, arrived)
      PROVE  Box!Next
  <2>1. task.at = "sending"
    BY <1>8 DEF Answer
  <2> QED  BY <1>2, <1>3, <1>8, <2>1, AnswerInBox
<1>9. CASE Confirm
  <2>1. task.batch # <<>>
    BY <1>9 DEF Confirm, IInv, AtWork
  <2> QED  BY <1>1, <1>3, <1>9, <2>1, ConfirmInBox
<1>10. CASE ConfirmFails
  <2>1. /\ task.batch # <<>> /\ task.at # "sending" /\ task'.at # "sending"
        /\ UNCHANGED deliveries
        /\ history' = [history EXCEPT ![Current.row] = Doubted(@)]
    BY <1>10 DEF ConfirmFails, Idle, IInv, AtWork
  <2> QED  BY <2>1, DoubtInBox
<1>11. ASSUME NEW arrived \in BOOLEAN, Crash(arrived)
       PROVE  [Box!Next]_Box!vars
  BY <1>2, <1>3, <1>11, CrashInBox
<1>12. CASE \/ \E c \in Channel : ToggleChannel(c)
            \/ Start \/ UNCHANGED vars
  <2>1. UNCHANGED <<deliveries, history, task>>
    BY <1>12 DEF ToggleChannel, Start, vars
  <2> QED  BY <2>1, NoneOut, RowsAloneInBox
<1>13. CASE ReadConfig \/ QueryDue \/ Finish
  <2>1. UNCHANGED <<deliveries, history>> /\ task.at # "sending"
    BY <1>13 DEF ReadConfig, QueryDue, Finish
  <2>2. task \in Task
    BY Types DEF IInv
  <2>3. task'.at # "sending"
    <3>1. CASE QueryDue
      <4> DEFINE b == [i \in DOMAIN Due(task.now) |->
                          [row |-> Due(task.now)[i],
                           attempts |-> deliveries[Due(task.now)[i]].attempts]]
      <4>1. task' = [task EXCEPT !.at = "next", !.batch = b] \/ task' = Idle
        BY <3>1 DEF QueryDue
      <4> HIDE DEF b
      <4>2. CASE task' = [task EXCEPT !.at = "next", !.batch = b]
        BY <2>2, <4>2 DEF Task
      <4>3. CASE task' = Idle
        BY <4>3 DEF Idle
      <4> QED  BY <4>1, <4>2, <4>3
    <3>2. CASE ReadConfig
      <4>1. task' = [at |-> "query", config |-> enabled, now |-> Now,
                     batch |-> <<>>, since |-> 0]
        BY <3>2 DEF ReadConfig, Idle
      <4> QED  BY <4>1
    <3>3. CASE Finish
      BY <3>3 DEF Finish, Idle
    <3> QED  BY <1>13, <3>1, <3>2, <3>3
  <2> QED  BY <2>1, <2>3, NoneOut, RowsAloneInBox
<1>14. CASE Advance
  <2> DEFINE n == Back(task.now)
             s == Back(task.since)
  <2>1. /\ history' = history /\ task' = [task EXCEPT !.now = n, !.since = s]
        /\ deliveries' = [r \in Row |->
                            [deliveries[r] EXCEPT !.nextAt = Older(@)]]
    BY <1>14 DEF Advance
  <2>2. task \in Task /\ deliveries \in [Row -> Delivery]
    BY Types DEF IInv
  <2> HIDE DEF n, s
  <2>3. \A r \in Row : deliveries'[r].done = deliveries[r].done
    BY <2>1, <2>2 DEF Delivery
  <2>4. task'.at = task.at /\ Current' = Current
    BY <2>1, <2>2 DEF Task, Current
  <2>5. RowsOut' = RowsOut
    BY <2>4 DEF RowsOut
  <2> QED  BY <2>1, <2>3, <2>5, RowsAloneInBox
<1> QED
  BY <1>4, <1>5, <1>6, <1>7, <1>8, <1>9, <1>10, <1>11, <1>12, <1>13, <1>14
  DEF Next, Notify

\* The outbox implements the mailbox: passes with settings of their own, late
\* answers, lost write-backs, crashes and pruning are its steps or stuttering.
THEOREM ImplementsMailbox == Spec => MailboxImplemented
<1>1. IInv /\ [Next]_vars => [Box!Next]_Box!vars
  BY BoxStep
<1>2. Init => Box!Init
  BY BoxInit
<1> QED
  BY <1>1, <1>2, Invariance, PTL
  DEF Spec, Box!Spec, MailboxImplemented

-----------------------------------------------------------------------------
(* The mailbox itself, proved from its own steps: nothing below, up to the  *)
(* theorems that inherit it, looks into Outbox.                             *)

BoxInv == Box!TypeOK /\ Box!Accounted /\ Box!NothingForgotten

LEMMA BoxInvInit == Box!Init => BoxInv
  BY OutboxAssumption
  DEF Box!Init, BoxInv, Box!TypeOK, Box!Accounted, Box!NothingForgotten

LEMMA BoxInvStep == BoxInv /\ [Box!Next]_Box!vars => BoxInv'
<1> SUFFICES ASSUME BoxInv, [Box!Next]_Box!vars PROVE BoxInv'
  OBVIOUS
<1> USE DEF BoxInv, Box!TypeOK, Box!Accounted, Box!NothingForgotten
<1>1. CASE Box!Queue
  BY <1>1 DEF Box!Queue
<1>2. ASSUME NEW m \in Row, Box!Try(m) PROVE BoxInv'
  BY <1>2, OutboxAssumption DEF Box!Try
<1>3. ASSUME NEW m \in Row, Box!Arrive(m) \/ Box!Miss(m) PROVE BoxInv'
  BY <1>3 DEF Box!Arrive, Box!Miss
<1>4. ASSUME NEW m \in Row, Box!Excuse(m) PROVE BoxInv'
  BY <1>4 DEF Box!Excuse
<1>5. ASSUME NEW m \in Row, NEW outcome \in {"sent", "abandoned"},
             Box!Settle(m, outcome)
      PROVE  BoxInv'
  BY <1>5 DEF Box!Settle
<1>6. CASE Box!Remove
  BY <1>6 DEF Box!Remove
<1>7. CASE UNCHANGED Box!vars
  BY <1>7 DEF Box!vars
<1> QED  BY <1>1, <1>2, <1>3, <1>4, <1>5, <1>6, <1>7 DEF Box!Next

LEMMA BoxInvariance == Box!Spec => []BoxInv
  BY BoxInvInit, BoxInvStep, PTL DEF Box!Spec

\* A mailbox keeps its promise: a message that is no longer pending was
\* received, excused or tried as often as it is to be tried, only what is
\* pending is under way, and nothing arrives that was not tried.
THEOREM MailboxForgetsNothing ==
    Box!Spec => [](Box!NothingForgotten /\ Box!Accounted)
<1>1. BoxInv => Box!NothingForgotten /\ Box!Accounted
  BY DEF BoxInv
<1> QED  BY <1>1, BoxInvariance, PTL

\* In a mailbox a life ends once: a record that was settled is never pending
\* again, whether or not it was removed, and its message is neither tried nor
\* received again.
THEOREM MailboxEndsOnce == Box!Spec => Box!EndsOnce
<1> DEFINE Kept(m) == /\ Box!Over(m)' /\ m \notin RowsOut'
                      /\ Attempts'[m] = Attempts[m]
                      /\ m \in ReceivedRows' <=> m \in ReceivedRows
<1>1. ASSUME BoxInv, Box!Next, NEW m \in Row, Box!Over(m) PROVE Kept(m)
  <2>1. /\ m \in QueuedRows /\ Statuses[m] # "pending" /\ m \notin RowsOut
        /\ Statuses \in [Row -> {"absent", "pending", "sent", "abandoned"}]
        /\ Attempts \in [Row -> 0..MaxAttempts]
        /\ \A n \in RowsOut : n # m
    BY <1>1 DEF BoxInv, Box!TypeOK, Box!Accounted, Box!Over
  <2>2. CASE Box!Queue
    BY <2>1, <2>2 DEF Box!Queue, Box!Over
  <2>3. CASE Box!Remove
    BY <2>1, <2>3 DEF Box!Remove, Box!Over
  <2>4. ASSUME NEW n \in Row, \/ Box!Try(n) \/ Box!Arrive(n) \/ Box!Miss(n)
                              \/ Box!Excuse(n)
        PROVE  Kept(m)
    BY <2>1, <2>4
    DEF Box!Try, Box!Arrive, Box!Miss, Box!Excuse, Box!Over
  <2>5. ASSUME NEW n \in Row, NEW outcome \in {"sent", "abandoned"},
               Box!Settle(n, outcome)
        PROVE  Kept(m)
    BY <2>1, <2>5 DEF Box!Settle, Box!Over
  <2> QED  BY <1>1, <2>2, <2>3, <2>4, <2>5 DEF Box!Next
<1>2. BoxInv /\ [Box!Next]_Box!vars =>
         [\A m \in Row : Box!Over(m) =>
             /\ Box!Over(m)'
             /\ m \notin RowsOut'
             /\ Attempts'[m] = Attempts[m]
             /\ m \in ReceivedRows' <=> m \in ReceivedRows]_Box!vars
  BY <1>1
<1> QED  BY <1>2, BoxInvariance, PTL DEF Box!Spec, Box!EndsOnce

\* Inherited by the outbox: once a queued row is settled it is never pending
\* again, neither brought back by a pass that still holds it nor by pruning
\* and a restart, and its message is neither sent nor received again.
THEOREM RowsEndOnce == Spec => Box!EndsOnce
  BY ImplementsMailbox, MailboxEndsOnce, PTL DEF MailboxImplemented
=============================================================================
