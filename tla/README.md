# A formal model of SPM

SPM is a small monitoring service: agents on hosts post samples to one server,
the server keeps them in SQLite or PostgreSQL, raises alarms and sends them to
a webhook or to Telegram, and a web dashboard shows the state. This directory
holds TLA+ modules translated from the Go code, TLC configurations that check
them on small instances, and theorems about them that TLAPS checks for every
value of the constants. Paths below are relative to the repository (`src/`
here); line numbers are those of the modelled commit. `PROJECT.json` maps each
definition to its lines.

## 1. Inventory

### Components, their state and operations

| Component | Source | State | Operations |
| --- | --- | --- | --- |
| Alarm rules | `internal/model/model.go` | four `AlarmState`s per node: since, active, threshold, hold | `Effective`, `Derive`, `Evaluate` |
| Ingest, ticker, administration | `internal/server/server.go`, `internal/store/store.go` | `Server.nodes`, `Server.settings`; tables `nodes`, `samples`, `alerts`, `settings` | `ingest`, `Tick`, `updateNode`, `putSettings`, `Prune`, `New` |
| Node registry, tokens | `server.go`, `store.go`, `maintenance.go` | `Server.nodes`, the index `Server.tokenNodes`; tables `nodes`, `samples` | `createNode`, `updateNode`, `rotateToken`, `deleteNode`, both ingest routes, `New` |
| Notification outbox | `internal/server/notify.go`, `internal/store/maintenance.go`, `Record` | table `deliveries`; the rows, settings and time one pass holds | `Record`, `Notify`, `Send`, `Due`, `Delivered`, `Prune` |
| Database migration | `internal/store/runtime.go`, `Copy` in `store.go` | `database.json`, `Runtime`, the databases, the marker in `metadata` | `Schedule`, `Load`, `Copy`, `persist` |
| Login and sessions | `server.go:94-216` | `sessions`, `attempts`, `loginSlot` | `login`, `logout`, `session`, `require` |
| Agent loop | `internal/collector`, `cmd/agent` | the reporting interval | `Run`, `Collect`, `Upload` |
| Dashboard | `web/src/App.vue` | what is shown; `authVersion`, `historyVersion`, `refreshVersion` | poll, login, logout, selection, edits |
| Installers | `install.sh`, `install-user.sh` | programs, unit and configuration files, their backups, the service | install, update, rollback |
| HTTP shell, static files | `server.go:72-138`, `web/embed.go`, `cmd/server/main.go` | none across requests | routing, header checks, the task loop |
| Read-only queries | `server.go`, `store.go`, `activeAlerts` in `App.vue` | none | `listNodes`, `history`, `alerts`, `getSettings` |

### How they interact

`Server.mu` serialises the handlers and `Tick`; each holds it across its
database transaction. Three loops of `cmd/server/main.go` run `Tick` every
second, `Notify` every two seconds and `Prune` every hour, each call with a
context of 30 seconds. `Notify` and `Prune` take the lock only to read the
settings and the clock. The alarm core talks to the outbox through the
database: `Record` writes the node row, the sample, the alerts and one
`deliveries` row per alert and enabled channel in one transaction. The
registry shares the node records with the alarm core. `Load` runs before
anything else and decides which database all of them use. Agents and the
dashboard see the server through HTTP only.

### What is hard

- Memory is a cache of the tables that handlers update only after the
  transaction has succeeded. A tick that raises nothing changes memory only.
  A commit whose answer is lost makes the tables newer than memory, and the
  next write saves the whole older record over it.
- The ticker judges old samples against a new clock, and between two samples
  there may have been silence, a reboot, an edit, or a restart of the server.
- A pass of the ticker over a Go map fails midway in an order nobody chose.
- A notification pass works without the lock on settings, a time and rows that
  change under it, with a deadline that can cut off its own write-back.
- Tokens are known in three places.
- The migration commits in one database and switches in a file; the process
  can end between the two, a power failure can undo the second, and an
  environment variable can override the file.
- A login checks the limits under the lock, compares the password without it
  and stores the session under it again.
- The installer replaces a running service piece by piece; commands may fail,
  and a signal ends it without the rollback.

`PROJECT.json` lists each hazard at its line with the properties that would
catch it.

### What makes each component correct

| Component | Properties |
| --- | --- |
| Alarms, ingest, ticker | a CPU or memory alarm rests on samples that span the hold time in one unbroken observation (`HoldUnbroken`); an alarm is cleared on evidence only (`ClearedByEvidence`); memory and tables agree up to what a tick that raises nothing keeps in memory only, and the next pass would report the same from either (`MemoryAgrees`); an acknowledged sample is never lost (`AckDurable`); the alert table is a faithful log (`AlertLogImplemented`, `NewestAlertAgrees`); silence is reported in the end (`SilenceIsRaised`) |
| Registry | the index is exact (`IndexExact`); a revoked token is refused for ever (`RevokedIsRefused`); the token given out works (`IssuedIsAccepted`); no samples without a node (`NoOrphanSamples`) |
| Outbox | nothing is dropped silently (`NothingDropped`) or repeated without cause (`DuplicatesExplained`); a message is queued once, settled once, and not sent after that (`MailboxImplemented`); a disabled channel falls silent soon (`DisabledSoonSilent`); every row is settled once alerts cease (`EventuallySettled`) |
| Migration | the active database holds exactly what was written, and so does the one a power failure brings back (`ActiveIsTruth`); seen from the server there is one set of rows that no migration changes (`DataStoreImplemented`); an occupied database is left alone (`OccupiedKept`) |
| Agent loop | a node counts as offline only for a reason (`OfflineExplained`); the agent learns the interval (`IntervalLearned`) |
| Dashboard | administrators' data goes with the access (`AdminOnly`); the chart and the open host belong together and to the list (`ChartOfSelected`, `SelectedIsListed`); nothing read before a login, a logout or an own change is shown (`NothingFromBefore`); the page comes to agree with the server (`Converges`) |
| Login | the tables keep their limits (`TablesBounded`); guesses are limited in any window (`GuessesLimited`); a session lasts exactly until logout or expiry (`SessionExact`); nobody is shut out for ever (`LockoutEnds`) |
| Queries | the list of active alarms is exact unless newer alerts crowd it out (`ActiveAlertsExact`); a history is a faithful digest of its samples (`HistoryFaithful`, an assumption TLC evaluates) |
| Installer | a run that succeeds leaves one whole release (`SucceededIsNew`); one that fails leaves what it found (`FailedIsRestored`) |

## 2. Plan

The order follows what the program is for: alarms first, then what carries
them out of the process, then what the rest relies on.

| Step | Modules | State |
| --- | --- | --- |
| 1 | `Alarms` (operators), `Monitor` (composes them with store, ticker and administration), `AlertLog` (what the alert table promises) | done |
| 2 | `Outbox`, `Mailbox` (what it promises of each message) | done |
| 3 | `Registry`, `Migration`, `DataStore` (what a migration promises of the data) | done |
| 4 | `AgentLink`, `Dashboard` | done |
| 5 | `Queries` (over `Monitor`) | done |
| 6 | `Login` | done |
| 7 | `Installer` | done for `install.sh` |

"Done" means that the runs of section 4 pass and that every safety invariant and
action property they check is a theorem of section 6. What is left to TLC is
liveness, which the prover cannot reach. `Login` and `Registry` have no abstract
specification of their own: `SessionExact`, `RevokedIsRefused` and
`IssuedIsAccepted` already say, in history variables, all that one would.

## 3. The modules and the code

Each handler runs under `Server.mu`, so a handler is one action, with the
database transaction inside it. Where the code gives up the lock or waits
(`Notify`, `Load`, the agent, the page) each stretch between two such points is
an action. `PROJECT.json` has the lines of every definition. Operators called
"seeded fault" are deviations a later edit could introduce; nothing uses them,
they exist to see that a property would notice.

**`Alarms`** has no variables: `Effective`, `Derive` and `Evaluate` as
operators on a node record, for one node at one instant. Percentages are
levels, network rates are left out because no rule reads them, and an
unavailable CPU figure is `NoCPU`. `trail` in the record is history: the samples
that made up the current pending period.

**`Monitor`** is the server over its store. `nodes` and `rules` are the memory,
`db`, `dbRules`, `alerts` the tables. `Ingest` is `POST /api/ingest`, `Tick` and
`TickFails` are one pass of the ticker, complete or cut short at the first
write that fails, with the nodes in any order; `UpdateNode`, `PutSettings`,
`Prune`, `Crash` and `Start` are named like the code. A write has one of
`Outcomes`: it commits, fails, or (in the runs that allow it) commits while its
answer is lost.

**`AlertLog`** is the abstract specification: per alarm a flag, and a log of
entries that records each change of the flag and drops the oldest. `Monitor`
implements it with `raised` read from `db` and the log from `alerts`.

**`Registry`** keeps the three places that know a token (`nodes`, `tokenNodes`,
`db`) and the node ids of `samples`. Its actions are the administrative
handlers and the two ingest routes (`IngestFor` with an id, `IngestAlone` with
a token only). `issued` and `revoked` are history: what an administrator was
shown.

**`Outbox`** splits `Notify` where another goroutine may come in: reading the
settings (`ReadConfig`), the query (`QueryDue`), each send with its result
(`Send`, `Answer`), and the write-back (`Confirm`, `ConfirmFails`). The deadline
of the task cuts off any of them. Time is in units of five seconds, so that
timeout, deadline and backoff keep their proportions, and it never ends: an
instant is kept by its distance from the present, the constant `Now`, and
`Advance` moves every recorded instant back. `next_at` decides the order of the
rows, so `Older` lets long past instants run together without changing it. `history`
counts up to `MaxCount` and no further.

**`Mailbox`** is the abstract specification: messages without clocks, settings,
passes, failing databases and crashes. `Outbox` implements it with the record of a
message read from its row (`Statuses`), what is under way from the task, and the
rest from `history`. `Send` is a `Try`; the end of a request, by an answer, the
timeout or a crash, is an `Arrive` or a `Miss`; a write-back that ends a row is a
`Settle`, pruning a `Remove`.
`excused` also covers a row that was queued after its channel was enabled again
and is skipped by a pass that had read the settings before.

**`Migration`** has one action per durable step of `Load`: the commit of the
copy (`CopySucceeds`, `CopyFails`, `CopyAnswerLost`) and the switch of
`database.json` (`Switch`, `SwitchFails`); `Stop` may come between any two.
`persist` syncs the new file but not its directory, so `PowerFails` may bring
back the file as it was before the last replacement (`earlier`).
`LoadUnreadable` starts without a usable file. `truth` is history: what was
written to each database and, when it was switched to, to its predecessor;
`direct` remembers what reached a database in any way but by migration.

**`DataStore`** is the abstract specification: one set of rows (`data`), which a
running server changes and sees exactly (`view`) and nothing else touches.
`Migration` implements it with the content of the database that `database.json`
names. Copying is no step of it; a change of the file is a `Persist`, which
leaves `data` alone: that is where the copy has to be complete.
A server that follows `DATABASE_URL` works on rows of its own and may or may not
hit these. A power failure that undoes the last replacement of the file is `Revert`.

**`AgentLink`** joins `collector.Run`, `Upload` and the end of `ingest`. Time is
relative: `agent.left` is what remains of the current timer and `silence` the
age of the last accepted sample, so the model needs no clock that ends. A
request that its sender gave up stays `late` and may be accepted until a later
one was. While an agent's clock is behind, its samples are refused, which is one
of the ways to fail. `since` is history: what happened since the last acceptance.

**`Dashboard`** is a page. `flows` holds the request that `poll` and the one
action behind `busy` wait for. A request is handled (`Handle`) and its answer
arrives (`Stale`, `Denied`, `Failed`, `SessionRead`, ...) in steps of their own;
each continuation up to the next `await` is one action. The three version
counters become flags of the requests (`auth`, `latest`, `wanted`), which is
what comparing them yields and keeps the model finite. `before` is history. The
server's side is what `server.go` answers, with another administrator
(`Elsewhere`) in the background.

**`Login`** splits `login` where it leaves the lock: `Begin` or `Refuse` (slot,
sweep, limits, count), then `Fail` or `Succeed` after the comparison. Time is
relative: an entry holds what is left of it, and one with nothing left stays in
its table until the next login sweeps it, as in the code. `granted` and `tries`
are history: the tokens that should be valid, and for each address and age how
many comparisons since its last success are at most that old. A restart begins
`tries` anew, as it empties the table it is held against.

**`Queries`** are operators, since queries change nothing: `Points` is the SQL of
`History` with its buckets, `Listings` and `ActiveAlerts` are `Alerts` and what
`App.vue` makes of its answer. It extends `Monitor`, so that the alert list is
checked in the states of a run.

**`Installer`** is `install.sh` from its first write on. `disk` has the release
of each piece, `run` what the current run still has to do and the backups it
made (`found`). Commands that write or restart may fail, what is written in
place may be cut off, and `Interrupt` ends a run anywhere. A piece that
a run leaves alone, the configuration unless it is updated, is a step that
changes nothing and cannot fail, like the `if` in the script. `service` is
systemd: the pieces the service was last started from, and whether it stays up.

Each `MC*` module supplies the values a configuration file cannot write.

## 4. The runs

| Run | Question | Bounds, and why they suffice |
| --- | --- | --- |
| `alarm_hold` | Are alarms raised and cleared for a reason, and acknowledged samples kept? | one node (alarms of nodes are independent), two rule sets, two boot times, clock steps of 2 and 7 seconds across holds and limits, four samples: enough for a hold to start, be interrupted and start again; two edits, of threshold and hold together, are an edit and its reversal; a crash and a lost commit |
| `alarm_fleet` | Do memory and tables agree, is the alert table a faithful log, is the list of active alarms exact, and is silence reported in the end? | two nodes, so that a pass can fail between them; failing writes, two edits (of a hold, a threshold and the offline limit), a crash, retention shorter than the run; writes must commit at times for one node only, those of the other may fail for ever; a list of two alerts, so that it is cut off; one sample per node and fairness, since only the last sample counts for silence |
| `outbox` | Is nothing dropped or repeated without cause, does every row live the life of a message in `Mailbox`, and is it settled in the end? | two alerts, one channel that is enabled and disabled, a fault, a crash; `MaxAttempts` 2 has a first and a last attempt; a task of two send timeouts, so that a deadline cuts off the second of two sends, in any pass and for ever; two alerts put a new row before a retry; `Now` 4 is far enough from the origin to keep every delay, limit and order of rows; `MaxCount` 2 counts the attempts that settle a row, so in this run `DuplicatesExplained` notices a second copy without a reason, and the theorem all of them; under fairness |
| `outbox_attempts` | Are there at most `MaxAttempts` attempts? | violated: see section 7 |
| `registry` | Do the three places stay in step? | two nodes, four tokens (a creation and a rotation each), two crashes, two lost commits; the run ends when ids and tokens are used up, so deadlock is not checked |
| `migration` | Does a migration lose, revive or remove rows, and does the server keep one set of rows through it? | three databases (home, a target, a bystander that can become either), two rows, two schedules (there and back, or cancelled and again), `DATABASE_URL` naming each database or none, any number of stops and power failures |
| `migration_return` | Is an occupied database always kept? | violated: see section 7 |
| `agent` | Is a node offline for a reason only, and does the agent learn its interval? | intervals 1 and 3, limits at and above the floor; real timeouts of 10 s and the default interval 3; silence counts to 13, beyond every limit; two late requests; no bound on the number of steps |
| `dashboard` | Is nothing outdated shown, and does the page converge? | two hosts, three things the user does (each may take several requests), one change elsewhere, any number of polls, failures and reorderings |
| `dashboard_form` | Does the form of a host start with the saved rules? | violated: see section 7 |
| `login` | Do limits and sessions hold, and does every lockout end? | three addresses and four tokens against tables of two: both can be full with somebody outside; three tries in a window of three units; sessions of four units, so that one can expire during a comparison that takes one; no bound on the number of steps |
| `installer` | Does a run end in one whole release, or in what it found? | three runs (an installation, an update, a repair), of which any release may not start; two failing commands (one in the run, one in its rollback), an interruption; the run ends when no release is left, so deadlock is not checked |

Both runs of `Monitor` also evaluate `HistoryFaithful`: every table of up to four
samples, every window in it and every limit.

`HoldUnbroken`, `ClearedByEvidence`, `DisabledSoonSilent` and `NothingFromBefore` are action properties: they speak
about the step that commits an alert, sends a message or shows a list.
`AlertLogImplemented`, `MailboxImplemented` and `DataStoreImplemented` are refinements:
each step of the detailed specification is a step of the abstract one or a stutter.

## 5. Fairness

- `Monitor`: weak fairness of `Start` and, for each node in `Healthy`, of the
  passes that get to that node and commit what they write there (`Reaches`).
  `main.go` runs `Tick` every second over a map whose order is random, so a pass
  goes to a node first now and then, whatever the others' writes do. Nothing is
  assumed of the other nodes: their writes may fail and end the pass every time.
  `SilenceIsRaised` speaks of the nodes in `Healthy`; samples need not arrive.
- `Outbox`: weak fairness of the task and of `Start`, strong fairness of time,
  because `Advance` is disabled while a database call is under way. Receivers
  may never answer, and passes may be cut off by their deadline for ever.
  `EventuallySettled` takes an end of the alerts, which the bound `MaxAlerts`
  gives: rows of new alerts come before every retry.
- `AgentLink`: weak fairness of time and of what `Run` does when a timer is
  over. Strong fairness of `Collected`, `Handle` and `Receive` is a demand on
  the host and the network: whenever a report can be made again and again, one
  succeeds. It is used for `IntervalLearned` only, which is false without it:
  an agent that gets no answer learns nothing.
- `Dashboard`: weak fairness of the poll timer, of the server and of answers
  arriving. `Converges` speaks about behaviours in which, after some moment
  (`CalmDown`), nobody acts and no request times out; before it anything may
  fail.
- `Login`: weak fairness of the end of a comparison, since bcrypt terminates,
  and of time. Nobody has to log in or out for `LockoutEnds`.

## 6. What is proved

TLAPS checks the theorems below for every value of the constants, from the
assumptions named in the modules (`SecAssumption`, `MonitorAssumption`, ...:
what the parameters are, nothing about their size) and nothing else.

| Theorem | Argument |
| --- | --- |
| `MonitorProofs!TypeCorrect`, `AcksAreDurable` | `IInv`: types, alert ids and times are ordered, an acknowledged sample is in memory and in the table. The table half needs that a write whose answer is lost writes a record no older than memory |
| `MonitorProofs!MemoryIsDurable` | while no commit is lost, a tick that raises nothing is the only thing that leaves memory and table apart. `DriftInv` says how far: the same alarms are raised, since the same instant; the threshold and hold an alarm was last judged by may differ, and a pending one may be younger in memory, but between two ingests a pending alarm is short of the hold it was judged by in both (`Unripe`), because only an ingest can ripen one, so that the next pass of the ticker comes to the same verdict on both (`SameVerdict`) |
| `MonitorProofs!ImplementsAlertLog` | each step maps to a step of `AlertLog` or a stutter, unless a commit is lost: with one, memory can raise an alarm a second time |
| `MonitorProofs!NewestAgrees`, `Alternation` | from the steps of `AlertLog` alone: an entry that no longer says what its alarm is was followed by one that says the opposite (`Superseded`, which `NewestEntryAgrees` needs to be inductive); ids are in order, so dropping from the old end keeps it |
| `MonitorProofs!NewestAlertIsRight`, `AlertsAlternate` | the two promises, inherited through the implementation |
| `MonitorProofs!HoldIsUnbroken` | `HoldInv`: the samples since a pending alarm's `since` are at the end of `trail`, all over the threshold the state was judged by and unbroken (`Lasting`), in memory and in the table. `Evaluate` and the folding of a sample keep it or start over; holds of any length, edits, lost commits |
| `MonitorProofs!ClearsRestOnEvidence` | from `HoldInv`: the only way from active to not active is a judged condition that is not over |
| `MonitorProofs!RepeatedPassIsSilent` | `Evaluate` is idempotent at one instant (`EvaluateTwice`), so a pass repeated after a failure reports nothing a second time |
| `MonitorProofs!ActiveListIsExact` | the table of alerts stays finite, so each alarm has a newest entry, which is on every list it is not crowded out of; the rest is `NewestAlertIsRight`, with its assumption that no commit is lost |
| `MonitorProofs!HistoryKeepsLimit`, `HistoryCoversSamples` | about `Queries`: the width is rounded up, so the last instant of the window falls into a bucket below the limit; each bucket is one point |
| `OutboxProofs!TypeCorrect`, `NothingIsDropped`, `DuplicatesAreExplained` | `IInv` relates what one pass holds to the table: the rows of its batch from the current one on are distinct and pending with the attempts the pass remembers, an answer being written back is the one the row received, a row that is not issued has no history. Without it a pass could settle a row it no longer owns |
| `OutboxProofs!SettledStaysFinal`, `SilentSoonAfterDisabling` | action properties from the same invariant: what a pass sends is pending, and its channel was enabled when the pass read the settings, less than the task limit ago |
| `OutboxProofs!ImplementsMailbox` | each action maps to a step of `Mailbox` or a stutter, for any receivers, faults, crashes and edits. It rests on `IInv`: what a pass handles is pending and has an attempt left, and a request that is out is that of the row the pass is at |
| `OutboxProofs!MailboxForgetsNothing`, `MailboxEndsOnce` | from the steps of `Mailbox` alone: what is settled is settled for a reason, only what was never queued becomes pending, and only what is pending is under way |
| `OutboxProofs!RowsEndOnce` | the promise about the rows of `Outbox`, inherited through the implementation |
| `OutboxProofs!DueIsFirst` | the rows before a row are finitely many, and `(next_at, id)` orders all of them, so counting them numbers the due rows; `TypeCorrect` and `NothingIsDropped` use that no row is in a batch twice |
| `DashboardProofs!TypeCorrect`, `AdministratorsOnly`, `ChartIsOfSelected`, `SelectedStaysListed`, `NothingOldIsShown` | `Sane`: a request for what only administrators may see that still is of the current `authVersion` was sent by a page that had the access and still has it; a request from before a login, a logout or an own change has lost one of the versions that are compared when its answer arrives |
| `LoginProofs!TypeCorrect`, `TablesKeepLimits`, `SessionsAreExact` | `IInv`: the slot holds one login and, while it is taken, the table of sessions has a place left; a token given out has its full time in the table and every other entry is spent |
| `LoginProofs!GuessesAreLimited` | `GuessSound`: while a window runs, the table counts at least the comparisons made in it, and those before it that are at most a window old are fewer than `MaxTries`; between two windows all of them are |
| `RegistryProofs!TypeCorrect`, `IndexIsExact`, `RevocationIsFinal`, `SamplesHaveNodes`, `IssuedWorks` | `IInv` adds to the properties that every token is owned by the node it was generated for, that deleted ids are gone from all places, and that ids not yet generated are in none. Without ownership a rotation could not be shown to leave the other nodes' tokens alone. Lost commits are allowed; `IssuedWorks` speaks of runs without one |
| `MigrationProofs!TypeCorrect`, `NothingLostNothingRevived`, `ConfigurationIsDurable` | `IInv`: `database.json` names two different databases and has an id exactly while a migration is pending, and so does the file before its last replacement, whose active database is never the target; between the commit of the copy and the switch the two databases agree |
| `MigrationProofs!ImplementsDataStore` | each action maps to a step of `DataStore` or a stutter, for any databases, rows and uses of `DATABASE_URL`. From `IInv`: the switch changes the file to a database that agrees with the one before, and a running server that follows the file works on the one it names (`RuntimeIsFile`) |
| `MigrationProofs!OccupiedIsKept` | adds that a target marked with the pending id holds copied rows only, unless the server worked on it |
| `AgentLinkProofs!TypeCorrect`, `OfflineHasReason` | `IInv`: n missed reports cost no more than n intervals and the time the agent was awake; while it sleeps, the rest of the sleep is counted too. Three intervals and three seconds, which `Effective` enforces, therefore cover two missed reports |
| `InstallerProofs!SuccessIsWhole`, `FailureIsUndone` | `IInv` follows a run: the pieces no longer ahead of it are of its release (`Replacing`) or, in a rollback in which nothing failed, what it found, and nothing runs (`RollingBack`); only an update touches the configuration; before the very first configuration there is nothing and nothing runs (`BeforeFirst`), without which a first write that fails could leave a service behind |

The proofs are in modules of their own, those about `AlertLog` and `Queries` with
`Monitor`'s. A step lemma has one case per action; facts about operators
(`IngestedRecord`, `BeforeOrders`, `StartedService`, ...) are lemmas.

The assumptions on constants are types, and what the code makes true of them:
`IsFiniteSet(Node)`, because the nodes are the rows of a table; `NoSample` is not
a sample; the pieces of the installer are finite sequences of names that hold
the program, the configuration and the unit, of which the first two are renamed
into place.

Only model-checked: all liveness (`SilenceIsRaised`, `EventuallySettled`,
`IntervalLearned`, `Converges`, `LockoutEnds`), because liveness under
fairness and `ENABLED` are out of the prover's reach; and `HistoryFaithful` where
it speaks of averages. Induction over data is out of reach too: what a
recursive definition computes for every input cannot be proved with the
installed backends, which is why the modules use none. The properties of the
violated runs are false.

## 7. Where the program differs from what it says

- `outbox_attempts`: `README.md:183` promises at most five attempts. When the
  deadline of the task expires during a send, the write-back fails with it and
  the attempt is not counted; receivers that never answer are tried more often.
- `migration_return`: `README.md:168` says that the target of a migration must
  hold no SPM data. If `DATABASE_URL` makes the server work on the target of an
  unfinished migration for a while, the marker of the first copy makes the next
  one delete what was written there.
- `dashboard_form`: `App.test.ts:92` says that the form of a host starts
  overrides with the saved global rules. `openNode` shows the form before it has
  read them. When the read fails, or when a visitor opened the host and logs in
  afterwards, the form stays usable with the built-in defaults or with the rules
  of the host opened before, also for a host that has rules of its own.
- Without a run: a power failure soon after a migration can undo the switch of
  `database.json` (`runtime.go:111`); the next start repeats the copy and deletes
  what the server had written to the target. `ActiveIsTruth` shows that nothing
  else is lost.
- Without a run: `agent/audit-2026-09-16.md:60` lists SIGKILL and power loss
  among what may prevent the rollback of an update. Any signal does: bash runs the
  EXIT trap with status 0, and `cleanup` (`install.sh:193`) then skips it.
  `SucceededIsNew` shows that the next complete run repairs the mixture.
- Without a run: the first retry of a notification is due five seconds after the
  start of the pass, not after the failure, and may follow it at once
  (`notify.go:68`).

## 8. What is not modelled, and why

- Reading the host (`collector.Collect`): calls to gopsutil, no state.
- HTTP routing, header checks, JSON, static files: no state across requests.
  Validation appears as the sets the inputs are drawn from.
- Queries: `listNodes` and `getSettings` return what memory holds. In `Queries`,
  network rates and the memory figure of a point are left out (they are averaged
  like the CPU), and hosts do not disappear: a deleted host keeps its alerts, also
  an active one, until retention drops them (`maintenance.go:16`).
- An endless stream of alerts: rows of new alerts come first (`next_at` 0), so it
  could delay a retry for ever. Nothing in the code prevents that, and
  `EventuallySettled` does not speak of it.
- A server clock that is set back: alerts are ordered by it, so the newest would
  not be the latest.
- In `Dashboard`: alerts (read with the nodes, under the same versions), banners,
  tabs, the hours of the chart, unmounting. A request that the page gave up and
  that reaches the server later is covered by `Elsewhere`.
- In `Installer`: options and downloads, which change nothing; two runs at once,
  against which `install.sh` has no lock; `install-user.sh`, which does the same
  with a supervisor of its own, through a script that is itself replaced; the link
  that enables the service at boot, which no rollback removes. A
  configuration that was cut off is taken for one the program does not start with
  (`StartedFrom`), on which `SucceededIsNew` relies: one that lost only settings with
  defaults would start.
- In `Login`: the time of the comparison is bounded (`MaxVerify`); user name and
  password are right or wrong together (`good`).
- Build, test and release scripts are not part of the running system.
