------------------------------- MODULE Outbox -------------------------------
(***************************************************************************)
(* The delivery of alerts: Record queues one row per alert and enabled     *)
(* channel (internal/store/store.go), and one background task,             *)
(* Server.Notify (internal/server/notify.go), reads the channel settings,  *)
(* asks for the rows that are due, sends them one after the other and      *)
(* writes each result back, all without holding Server.mu, within a task   *)
(* deadline that cancels whatever it is doing.                             *)
(*                                                                         *)
(* The unit of time is five seconds: a send takes at most SendTimeout, a   *)
(* task TaskLimit (1 and 6 in the code), and the delay after attempt a is  *)
(* 2^Min(a, 5) units. Time never ends: an instant is kept by its distance  *)
(* from the present, Now, and when time passes every instant that is       *)
(* recorded moves back, a long past one as far as its order among the rows  *)
(* allows. The receiver is outside the program: a send that fails may have *)
(* reached it, one that succeeds has.                                      *)
(***************************************************************************)
EXTENDS Integers, Sequences, FiniteSets

CONSTANTS
    Channel,        \* the channels an administrator may enable
    MaxAttempts,    \* attempts after which a row is abandoned (5 in the code)
    BatchSize,      \* rows one query returns (20 in the code)
    SendTimeout, TaskLimit,
    Retention,      \* how long settled rows are kept
    MaxAlerts,      \* bound: alerts that are raised
    MaxEdits,       \* bound: changes of the channel settings
    MaxFaults,      \* bound: failing database calls
    MaxCrashes,     \* bound: crashes
    Now,            \* the present; instants before 1 have run together
    MaxCount        \* bound: the history counts no further

ASSUME OutboxAssumption ==
    /\ Channel \subseteq {"telegram", "webhook"}
    /\ MaxAttempts \in Nat \ {0} /\ BatchSize \in Nat \ {0}
    /\ SendTimeout \in Nat \ {0} /\ TaskLimit \in Nat \ {0}
    /\ Retention \in Nat /\ MaxAlerts \in Nat /\ MaxEdits \in Nat
    /\ MaxFaults \in Nat /\ MaxCrashes \in Nat
    /\ MaxCount \in Nat /\ MaxCount >= MaxAttempts
    /\ Now \in Nat
    /\ Now >= MaxAlerts * Cardinality(Channel) + Retention + TaskLimit

VARIABLES
    up,             \* the server process is running
    enabled,        \* the channels enabled in the settings
    deliveries,     \* table deliveries
    raised,         \* alerts raised so far (the id of the newest)
    task,           \* the notification task: where it is and what it read
    history,        \* per row: what happened to it on the network
    disabledAt,     \* history: when each channel was last disabled
    edits, faults, crashes      \* bound counters

bounds == <<edits, faults, crashes>>
vars == <<up, enabled, deliveries, raised, task, history, disabledAt,
          bounds>>

\* The primary key "<alert id>:<channel>", ordered as the text is.
Row == (1..MaxAlerts) \X Channel

\* A row that is not in the table, before it is queued or after Prune.
Absent == [done |-> "absent", attempts |-> 0, nextAt |-> 0]

\* Column done: pending 0, sent 1, abandoned 2.
Settled == {"sent", "abandoned"}

Count(n) == IF n < MaxCount THEN n + 1 ELSE n

Idle == [at |-> "idle", config |-> {}, now |-> 0, batch |-> <<>>, since |-> 0]

Untouched == [queued |-> FALSE, sent |-> 0, got |-> 0, doubts |-> 0, skipped |-> FALSE,
              final |-> "none"]

Init ==
    /\ up = TRUE
    /\ enabled \in SUBSET Channel
    /\ deliveries = [r \in Row |-> Absent]
    /\ raised = 0
    /\ task = Idle
    /\ history = [r \in Row |-> Untouched]
    /\ disabledAt = [c \in Channel |-> 0]
    /\ edits = 0 /\ faults = 0 /\ crashes = 0

-----------------------------------------------------------------------------
(* Record: the rows of an alert are committed with the alert, one for each  *)
(* channel that is enabled. (Monitor models when alerts are raised.)        *)
Enqueue ==
    /\ up
    /\ raised < MaxAlerts
    /\ raised' = raised + 1
    /\ deliveries' = [r \in Row |->
            IF r[1] = raised + 1 /\ r[2] \in enabled
            THEN [done |-> "pending", attempts |-> 0, nextAt |-> 0]
            ELSE deliveries[r]]
    /\ history' = [r \in Row |->
            IF r[1] = raised + 1 /\ r[2] \in enabled
            THEN [history[r] EXCEPT !.queued = TRUE] ELSE history[r]]
    /\ UNCHANGED <<up, enabled, task, disabledAt, bounds>>

\* PUT /api/settings: a channel is enabled or disabled.
ToggleChannel(c) ==
    /\ up
    /\ edits < MaxEdits
    /\ edits' = edits + 1
    /\ enabled' = IF c \in enabled THEN enabled \ {c} ELSE enabled \cup {c}
    /\ disabledAt' = IF c \in enabled THEN [disabledAt EXCEPT ![c] = Now]
                     ELSE disabledAt
    /\ UNCHANGED <<up, deliveries, raised, task, history, faults,
                   crashes>>

-----------------------------------------------------------------------------
(* Server.Notify, one step for each thing other goroutines can come between *)

Fault == faults < MaxFaults /\ faults' = faults + 1

\* Seeded fault: the context of a pass lasts no longer than that of one send.
ExpiredEarly == Now - task.now >= SendTimeout

\* The context of the task is done.
Expired == Now - task.now >= TaskLimit

\* Seeded fault: the settings are those the process started with.
ReadConfigOfStart ==
    /\ up /\ task.at = "idle"
    /\ task' = [Idle EXCEPT !.at = "query", !.config = Channel, !.now = Now]
    /\ UNCHANGED <<up, enabled, deliveries, raised, history,
                   disabledAt, bounds>>

\* Settings and time are read together, under Server.mu.
ReadConfig ==
    /\ up /\ task.at = "idle"
    /\ task' = [Idle EXCEPT !.at = "query", !.config = enabled, !.now = Now]
    /\ UNCHANGED <<up, enabled, deliveries, raised, history,
                   disabledAt, bounds>>

\* Seeded fault: rows are due whatever became of them.
AnyRows(now) ==
    {r \in Row : deliveries[r].done # "absent" /\ deliveries[r].nextAt <= now}

\* Seeded fault: abandoned rows are due again.
UnfinishedRows(now) ==
    {r \in Row : /\ deliveries[r].done \in {"pending", "abandoned"}
                 /\ deliveries[r].nextAt <= now}

DueRows(now) ==
    {r \in Row : deliveries[r].done = "pending" /\ deliveries[r].nextAt <= now}

Before(r, s) ==
    \/ deliveries[r].nextAt < deliveries[s].nextAt
    \/ /\ deliveries[r].nextAt = deliveries[s].nextAt
       /\ \/ r[1] < s[1]
          \/ r[1] = s[1] /\ r[2] = "telegram" /\ s[2] = "webhook"

\* Store.Due: the first BatchSize due rows by (next_at, id).
Due(now) ==
    LET rows  == DueRows(now)
        rank(r) == Cardinality({s \in rows : Before(s, r)}) + 1
        count == Cardinality(rows)
        size  == IF count < BatchSize THEN count ELSE BatchSize
    IN  [i \in 1..size |-> CHOOSE r \in rows : rank(r) = i]

\* The query; its rows carry the attempts made so far.
QueryDue ==
    /\ up /\ task.at = "query"
    /\ \/ /\ task' = [task EXCEPT !.at = "next", !.batch =
                        [i \in DOMAIN Due(task.now) |->
                            [row      |-> Due(task.now)[i],
                             attempts |->
                                deliveries[Due(task.now)[i]].attempts]]]
          /\ UNCHANGED faults
       \/ task' = Idle /\ Fault
    /\ UNCHANGED <<up, enabled, deliveries, raised, history,
                   disabledAt, edits, crashes>>

Current == Head(task.batch)

\* The loop goes on: a row is left and the context is not done.
GoOn == task.batch # <<>> /\ ~Expired

\* The pass is over.
Finish ==
    /\ up /\ task.at = "next"
    /\ ~GoOn
    /\ task' = Idle
    /\ UNCHANGED <<up, enabled, deliveries, raised, history,
                   disabledAt, bounds>>

\* Send for a channel the settings, as read, have disabled: reported as sent.
Skip ==
    /\ up /\ task.at = "next"
    /\ GoOn
    /\ Current.row[2] \notin task.config
    /\ task' = [task EXCEPT !.at = "succeeded"]
    /\ history' = [history EXCEPT ![Current.row].skipped = TRUE]
    /\ UNCHANGED <<up, enabled, deliveries, raised, disabledAt, bounds>>

\* The request goes out.
Send ==
    /\ up /\ task.at = "next"
    /\ GoOn
    /\ Current.row[2] \in task.config
    /\ task' = [task EXCEPT !.at = "sending", !.since = Now]
    /\ history' = [history EXCEPT ![Current.row].sent = Count(@)]
    /\ UNCHANGED <<up, enabled, deliveries, raised, disabledAt, bounds>>

\* The answer, an error status, a refused connection or the timeout.
Answer(ok, arrived) ==
    /\ up /\ task.at = "sending"
    /\ ok => arrived
    /\ task' = [task EXCEPT !.at = IF ok THEN "succeeded" ELSE "failed"]
    /\ history' = [history EXCEPT
            ![Current.row].got    = IF arrived THEN Count(@) ELSE @,
            ![Current.row].doubts = IF arrived /\ ~ok THEN Count(@) ELSE @]
    /\ UNCHANGED <<up, enabled, deliveries, raised, disabledAt, bounds>>

Reached == task.at = "succeeded" /\ Current.row[2] \in task.config

\* A message the receiver got, but whose row does not say so.
Doubted(h) == IF Reached THEN [h EXCEPT !.doubts = Count(@)] ELSE h

Delay(attempts) == 2 ^ (IF attempts < 5 THEN attempts ELSE 5)

\* Seeded fault: the delay is subtracted.
WrittenBack(success) ==
    [done     |-> IF success THEN "sent"
                  ELSE IF Current.attempts + 1 >= MaxAttempts THEN "abandoned"
                  ELSE "pending",
     attempts |-> Current.attempts + 1,
     nextAt   |-> task.now - Delay(Current.attempts + 1)]

\* The row Store.Delivered writes: the attempt is counted and the delay runs
\* from the start of the pass.
Written(success) ==
    LET attempts == Current.attempts + 1
    IN  [done     |-> IF success THEN "sent"
                      ELSE IF attempts >= MaxAttempts THEN "abandoned"
                      ELSE "pending",
         attempts |-> attempts,
         nextAt   |-> task.now + Delay(attempts)]

\* Delivered updates the row, unless Prune has removed it.
Deliver ==
    LET r == Current.row  w == Written(task.at = "succeeded")
    IN  /\ deliveries' = [deliveries EXCEPT
                ![r] = IF deliveries[r].done = "absent" THEN @ ELSE w]
        /\ history' = [history EXCEPT
                ![r].final = IF w.done \in Settled THEN w.done ELSE @]

\* Delivered succeeds and the next row follows; when only its answer is lost
\* the row is written all the same and the rest of the pass is dropped.
Confirm ==
    /\ up /\ task.at \in {"succeeded", "failed"}
    /\ ~Expired
    /\ Deliver
    /\ \/ /\ task' = [task EXCEPT !.at = "next", !.batch = Tail(@)]
          /\ UNCHANGED faults
       \/ task' = Idle /\ Fault
    /\ UNCHANGED <<up, enabled, raised, disabledAt, edits, crashes>>

\* Delivered fails, as it must when the context is done: nothing is written
\* and the rest of the pass is dropped.
ConfirmFails ==
    /\ up /\ task.at \in {"succeeded", "failed"}
    /\ IF Expired THEN UNCHANGED faults ELSE Fault
    /\ history' = [history EXCEPT ![Current.row] = Doubted(@)]
    /\ task' = Idle
    /\ UNCHANGED <<up, enabled, deliveries, raised, disabledAt, edits,
                   crashes>>

-----------------------------------------------------------------------------
\* Seeded fault: retention looks only at the age of a row.
StaleAtAnyRate(r) ==
    /\ deliveries[r].done # "absent"
    /\ deliveries[r].nextAt < Now - Retention

\* What Prune deletes: settled rows whose next_at is old.
Stale(r) ==
    /\ deliveries[r].done \in Settled
    /\ deliveries[r].nextAt < Now - Retention

Prune ==
    /\ up
    /\ deliveries' = [r \in Row |-> IF Stale(r) THEN Absent ELSE deliveries[r]]
    /\ UNCHANGED <<up, enabled, raised, task, history, disabledAt,
                   bounds>>

\* The process dies. A request in flight may or may not arrive.
Crash(arrived) ==
    /\ up
    /\ crashes < MaxCrashes
    /\ crashes' = crashes + 1
    /\ up' = FALSE
    /\ task' = Idle
    /\ arrived => task.at = "sending"
    /\ history' =
         IF arrived
         THEN [history EXCEPT ![Current.row].got = Count(@),
                              ![Current.row].doubts = Count(@)]
         ELSE IF task.batch # <<>>
              THEN [history EXCEPT ![Current.row] = Doubted(@)]
              ELSE history
    /\ UNCHANGED <<enabled, deliveries, raised, disabledAt, edits,
                   faults>>

Start ==
    /\ ~up
    /\ up' = TRUE
    /\ UNCHANGED <<enabled, deliveries, raised, task, history,
                   disabledAt, bounds>>

\* An instant one unit later.
Back(t) == IF t = 0 THEN 0 ELSE t - 1

\* For next_at, which orders the rows: it moves back while the past has room.
Older(t) ==
    IF \E h \in 1..(t - 1) : \A r \in Row : deliveries[r].nextAt # h
    THEN t - 1 ELSE t

\* Time passes while the task waits for its ticker or for an answer, and no
\* longer than the timeouts allow; a database call takes no time.
Advance ==
    /\ task.at \in {"idle", "sending"}
    /\ task.at = "sending" =>
            Now < task.since + SendTimeout /\ Now < task.now + TaskLimit
    /\ deliveries' = [r \in Row |-> [deliveries[r] EXCEPT !.nextAt = Older(@)]]
    /\ task' = [task EXCEPT !.now = Back(@), !.since = Back(@)]
    /\ disabledAt' = [c \in Channel |-> Back(disabledAt[c])]
    /\ UNCHANGED <<up, enabled, raised, history, bounds>>

Notify ==
    \/ ReadConfig \/ QueryDue \/ Finish \/ Skip \/ Send
    \/ \E ok, arrived \in BOOLEAN : Answer(ok, arrived)
    \/ Confirm \/ ConfirmFails

Next ==
    \/ Enqueue
    \/ \E c \in Channel : ToggleChannel(c)
    \/ Notify
    \/ Prune
    \/ \E arrived \in BOOLEAN : Crash(arrived)
    \/ Start
    \/ Advance

Spec == Init /\ [][Next]_vars

\* The ticker runs the task again and again, every call of the task returns,
\* the service manager restarts the process, and time passes: Advance is
\* disabled during database calls and enabled again between passes, hence SF.
Fairness == WF_vars(Notify) /\ WF_vars(Start) /\ SF_vars(Advance)

FairSpec == Spec /\ Fairness

-----------------------------------------------------------------------------
(* Properties *)

Delivery == [done : {"absent", "pending"} \cup Settled, attempts : Nat,
             nextAt : Nat]
Item == [row : Row, attempts : Nat]

\* Every variable stays in its domain.
TypeOK ==
    /\ up \in BOOLEAN
    /\ enabled \in SUBSET Channel
    /\ deliveries \in [Row -> Delivery]
    /\ raised \in 0..MaxAlerts
    /\ task \in [at : {"idle", "query", "next", "sending", "succeeded",
                       "failed"},
                 config : SUBSET Channel, now : Nat, batch : Seq(Item),
                 since : Nat]
    /\ history \in [Row -> [queued : BOOLEAN, sent : 0..MaxCount,
                            got : 0..MaxCount, doubts : 0..MaxCount,
                            skipped : BOOLEAN,
                            final : {"none"} \cup Settled]]
    /\ disabledAt \in [Channel -> Nat]
    /\ edits \in Nat /\ faults \in Nat /\ crashes \in Nat

\* No notification is dropped silently: once a row that was queued is settled
\* or gone from the table, either the receiver got the message, or a pass skipped it
\* because its channel was disabled, or every attempt was used up.
NothingDropped ==
    \A r \in Row :
        LET h == history[r]
        IN  h.queued /\ deliveries[r].done # "pending" =>
                \/ h.got > 0
                \/ h.skipped
                \/ h.final = "abandoned" /\ h.sent >= MaxAttempts

\* Every message the receiver got beyond the first is explained by an answer
\* that came too late or never, a write-back that failed or a crash: nothing
\* else makes the program repeat a message (README.md:183).
DuplicatesExplained ==
    \A r \in Row : history[r].got <= 1 + history[r].doubts

\* This step sends the message of row r.
Sends(r) == task.at = "next" /\ task'.at = "sending" /\ Current.row = r

\* A row that has been settled is never sent again: not by a later pass, not
\* after a restart.
SettledIsFinal ==
    [][\A r \in Row : Sends(r) => history[r].final = "none"]_vars

\* A pass works with the settings it read at its start, so it may send to a
\* channel that has been disabled since, but only within its task limit.
DisabledSoonSilent ==
    [][\A r \in Row : Sends(r) /\ r[2] \notin enabled =>
            Now < disabledAt[r[2]] + TaskLimit]_vars

\* Every queued row is settled in the end, however often the receiver keeps a
\* pass waiting until its deadline cuts off the write-back: a pass that is cut
\* off has written back a row before, and the row it lost comes earlier in the
\* next one. Rows of new alerts come before every retry, so this takes an end
\* of the alerts: MaxAlerts of them are raised.
EventuallySettled ==
    \A r \in Row : deliveries[r].done = "pending"
                        ~> deliveries[r].done # "pending"

\* The table, the task and the network together are the Mailbox: passes, late
\* answers, lost write-backs, crashes and pruning are its steps or none.
Statuses == [r \in Row |-> deliveries[r].done]
QueuedRows == {r \in Row : history[r].queued}
Attempts ==
    [r \in Row |-> IF history[r].sent < MaxAttempts THEN history[r].sent
                   ELSE MaxAttempts]
RowsOut == {r \in Row : task.at = "sending" /\ Current.row = r}
ReceivedRows == {r \in Row : history[r].got > 0}
SkippedRows == {r \in Row : history[r].skipped}

Box == INSTANCE Mailbox
    WITH Message <- Row, record <- Statuses, queued <- QueuedRows,
         tries <- Attempts, out <- RowsOut, received <- ReceivedRows,
         excused <- SkippedRows

MailboxImplemented == Box!Spec

\* README.md:183: the queue attempts a message at most 5 times.
AtMostMaxAttempts ==
    \A r \in Row : history[r].got = 0 => history[r].sent <= MaxAttempts
=============================================================================
