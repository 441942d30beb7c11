-------------------------- MODULE InstallerProofs --------------------------
(***************************************************************************)
(* Theorems about Installer, for any pieces in any order, any number of     *)
(* runs, failing commands and interruptions, and any releases that do not   *)
(* start.                                                                   *)
(*                                                                         *)
(* Both properties speak of the moments between two runs. Their invariant   *)
(* follows a run from phase to phase: what is no longer ahead of it is      *)
(* replaced, or restored. It also needs what was there before the very      *)
(* first configuration: nothing, and nothing that runs.                     *)
(***************************************************************************)
EXTENDS Installer, TLAPS

Content == 0..(MaxRuns + 1)

Installed == [Piece -> Content]

Service == [state : {"stopped", "running", "waiting"}, from : Installed]

Run(stages) ==
    [at : stages, n : 0..MaxRuns, update : BOOLEAN, todo : Seq(Piece),
     found : Installed, clean : BOOLEAN]

Stage == {"idle", "first", "replace", "check", "stop", "restore"}
Result == {"none", "succeeded", "failed", "interrupted"}

TypeOK ==
    /\ disk \in Installed
    /\ service \in Service
    /\ broken \in SUBSET Release
    /\ run \in Run(Stage)
    /\ last \in Run(Result)
    /\ run.at # "idle" => run.n \in Release

\* What runs was started from pieces that are all whole.
RunsWhole ==
    service.state = "running" => \A p \in Piece : service.from[p] \in Release

\* The configuration is the first piece ever written.
BeforeFirst ==
    disk["config"] = Absent =>
        /\ disk["binary"] = Absent /\ disk["unit"] = Absent
        /\ service.state = "stopped"

WritingFirst ==
    run.at = "first" =>
        /\ disk["config"] = Absent /\ run.found = disk /\ ~run.update
        /\ run.todo = Pieces

\* From the trap on there is a configuration, and only an update touches it.
Configured ==
    run.at \in {"replace", "check", "stop", "restore"} =>
        /\ disk["config"] # Absent /\ run.found["config"] # Absent
        /\ ~run.update => disk["config"] = run.found["config"]

\* The pieces the run has yet to come to.
Ahead == {run.todo[i] : i \in DOMAIN run.todo}

Replacing ==
    run.at \in {"replace", "check"} =>
        \A p \in Piece \ Ahead : Touches(p) => disk[p] = run.n

Checking == run.at = "check" => run.todo = <<>> /\ service.from = disk

RollingBack ==
    run.at = "restore" /\ run.clean =>
        /\ service.state = "stopped"
        /\ \A p \in Piece \ Ahead : Touches(p) => disk[p] = run.found[p]

IInv ==
    /\ TypeOK /\ RunsWhole /\ BeforeFirst /\ WritingFirst /\ Configured
    /\ Replacing /\ Checking /\ RollingBack
    /\ SucceededIsNew /\ FailedIsRestored

-----------------------------------------------------------------------------
(* The operators *)

LEMMA PieceFacts ==
    /\ "binary" \in Piece /\ "config" \in Piece /\ "unit" \in Piece
    /\ Pieces \in Seq(Piece)
    /\ RollbackOrder \in Seq(Piece)
    /\ Piece = {Pieces[i] : i \in DOMAIN Pieces}
    /\ Piece = {RollbackOrder[i] : i \in DOMAIN RollbackOrder}
    /\ InPlace \subseteq Piece \ {"binary", "config"}
<1>1. /\ "binary" \in Piece /\ "config" \in Piece /\ "unit" \in Piece
      /\ Piece = {RollbackOrder[i] : i \in DOMAIN RollbackOrder}
      /\ InPlace \subseteq Piece \ {"binary", "config"}
      /\ Pieces \in Seq(STRING) /\ RollbackOrder \in Seq(STRING)
  BY InstallerAssumption
<1>2. Piece = {Pieces[i] : i \in DOMAIN Pieces}
  BY DEF Piece
<1>3. Pieces \in Seq(Piece)
  <2>1. /\ Len(Pieces) \in Nat /\ DOMAIN Pieces = 1..Len(Pieces)
        /\ Pieces = [i \in 1..Len(Pieces) |-> Pieces[i]]
    BY <1>1
  <2>2. \A i \in 1..Len(Pieces) : Pieces[i] \in Piece
    BY <1>2, <2>1
  <2> QED  BY <2>1, <2>2
<1>4. RollbackOrder \in Seq(Piece)
  BY <1>1
<1> QED  BY <1>1, <1>2, <1>3, <1>4

LEMMA ContentFacts ==
    /\ Absent \in Content /\ Partial \in Content /\ Release \subseteq Content
    /\ Absent \notin Release /\ Partial # Absent
    /\ Nothing \in Installed
  BY InstallerAssumption DEF Absent, Partial, Content, Release, Nothing,
     Installed

LEMMA NoneRun ==
    /\ 0 \in 0..MaxRuns /\ <<>> \in Seq(Piece) /\ Nothing \in Installed
    /\ NoRun \in Run(Stage) /\ NoRun.at = "idle"
<1>1. 0 \in 0..MaxRuns
  BY InstallerAssumption
<1>2. <<>> \in Seq(Piece)
  OBVIOUS
<1> QED  BY <1>1, <1>2, ContentFacts DEF NoRun, Run, Stage

\* Taking the first piece leaves the others ahead.
LEMMA FirstOf ==
    ASSUME NEW s \in Seq(Piece), s # <<>>
    PROVE  /\ Head(s) \in Piece /\ Tail(s) \in Seq(Piece)
           /\ \A p \in Piece \ {Tail(s)[i] : i \in DOMAIN Tail(s)} :
                p = Head(s) \/ p \in Piece \ {s[i] : i \in DOMAIN s}
<1>1. /\ Head(s) \in Piece /\ Tail(s) \in Seq(Piece)
      /\ Len(s) \in Nat \ {0} /\ DOMAIN s = 1..Len(s)
      /\ DOMAIN Tail(s) = 1..(Len(s) - 1)
      /\ \A i \in 1..(Len(s) - 1) : Tail(s)[i] = s[i + 1]
      /\ Head(s) = s[1]
  OBVIOUS
<1>2. ASSUME NEW i \in DOMAIN s, s[i] # Head(s)
      PROVE  s[i] \in {Tail(s)[j] : j \in DOMAIN Tail(s)}
  <2>1. i \in 2..Len(s)
    BY <1>1, <1>2
  <2>2. i - 1 \in DOMAIN Tail(s) /\ Tail(s)[i - 1] = s[i]
    BY <1>1, <2>1
  <2> QED  BY <2>2
<1> QED  BY <1>1, <1>2

\* What systemd starts.
LEMMA StartedService ==
    ASSUME NEW pieces \in Installed
    PROVE  /\ StartedFrom(pieces) \in Service
           /\ StartedFrom(pieces).from = pieces
           /\ StartedFrom(pieces).state = "running" =>
                \A p \in Piece : pieces[p] \in Release
           /\ pieces["unit"] = Absent =>
                StartedFrom(pieces).state = "stopped"
  BY ContentFacts DEF StartedFrom, Service

\* A step that leaves the installer, the disk and the history alone keeps the
\* invariant if the service it leaves could be started from what is there.
LEMMA ServiceMoves ==
    ASSUME IInv, service' \in Service, RunsWhole',
           UNCHANGED <<disk, broken, run, last>>,
           service.state = "stopped" => service'.state = "stopped",
           service.from = disk => service'.from = disk
    PROVE  IInv'
<1>1. TypeOK'
  BY DEF IInv, TypeOK
<1>2. BeforeFirst'
  BY DEF IInv, BeforeFirst
<1>3. WritingFirst' /\ Configured' /\ Replacing'
  BY DEF IInv, WritingFirst, Configured, Replacing, Ahead, Touches
<1>4. Checking' /\ RollingBack'
  BY DEF IInv, Checking, RollingBack, Ahead, Touches
<1>5. SucceededIsNew' /\ FailedIsRestored'
  BY DEF IInv, SucceededIsNew, FailedIsRestored
<1> QED  BY <1>1, <1>2, <1>3, <1>4, <1>5 DEF IInv

\* A run that ends leaves a state between two runs.
LEMMA RunEnds ==
    ASSUME run' = NoRun,
           disk' \in Installed, service' \in Service, broken' = broken,
           broken \in SUBSET Release, last' \in Run(Result),
           RunsWhole', BeforeFirst', SucceededIsNew', FailedIsRestored'
    PROVE  IInv'
<1>1. /\ run' \in Run(Stage) /\ run'.at = "idle"
  BY NoneRun
<1>2. TypeOK'
  BY <1>1 DEF TypeOK
<1>3. WritingFirst' /\ Configured' /\ Replacing' /\ Checking' /\ RollingBack'
  BY <1>1 DEF WritingFirst, Configured, Replacing, Checking, RollingBack
<1> QED  BY <1>2, <1>3 DEF IInv

-----------------------------------------------------------------------------
(* The steps of a run *)

LEMMA InitIInv == Init => IInv
<1> SUFFICES ASSUME Init PROVE IInv
  OBVIOUS
<1>1. /\ disk = Nothing /\ service = [state |-> "stopped", from |-> Nothing]
      /\ broken \in SUBSET Release /\ run = NoRun
      /\ last = [NoRun EXCEPT !.at = "none"]
  BY DEF Init
<1>2. NoRun \in Run(Stage) /\ last \in Run(Result)
  <2>1. last = [at |-> "none", n |-> 0, update |-> FALSE, todo |-> <<>>,
                found |-> Nothing, clean |-> TRUE]
    BY <1>1 DEF NoRun
  <2> QED  BY <2>1, NoneRun DEF Run, Result
<1>3. run.at = "idle" /\ last.at = "none"
  BY <1>1 DEF NoRun
<1>4. TypeOK
  BY <1>1, <1>2, <1>3, ContentFacts DEF TypeOK, Service
<1>5. RunsWhole /\ BeforeFirst
  BY <1>1, PieceFacts DEF RunsWhole, BeforeFirst, Nothing
<1>6. /\ WritingFirst /\ Configured /\ Replacing /\ Checking /\ RollingBack
      /\ SucceededIsNew /\ FailedIsRestored
  BY <1>3 DEF WritingFirst, Configured, Replacing, Checking, RollingBack,
     SucceededIsNew, FailedIsRestored
<1> QED  BY <1>4, <1>5, <1>6 DEF IInv

LEMMA BeginIInv ==
    ASSUME IInv, NEW update \in BOOLEAN, Begin(update)
    PROVE  IInv'
<1> DEFINE at == IF disk["config"] = Absent THEN "first" ELSE "replace"
<1>1. /\ run' = [at |-> at, n |-> last.n + 1, update |-> update,
                 todo |-> Pieces, found |-> disk, clean |-> TRUE]
      /\ last.n < MaxRuns /\ (update => disk["config"] # Absent)
      /\ UNCHANGED <<disk, service, broken, last>>
  BY DEF Begin
<1>2. /\ disk \in Installed /\ service \in Service
      /\ broken \in SUBSET Release /\ last \in Run(Result)
  BY DEF IInv, TypeOK
<1>3. last.n + 1 \in Release /\ last.n + 1 \in 0..MaxRuns
  BY <1>1, <1>2, InstallerAssumption DEF Run, Release
<1>4. /\ run'.at = at /\ run'.n = last.n + 1 /\ run'.update = update
      /\ run'.todo = Pieces /\ run'.found = disk
  BY <1>1
<1>5. at \in {"first", "replace"} /\ (at = "first" <=> disk["config"] = Absent)
  OBVIOUS
<1>6. run' \in Run(Stage)
  BY <1>1, <1>2, <1>3, <1>5, PieceFacts DEF Run, Stage
<1> HIDE DEF at
<1>7. TypeOK'
  BY <1>1, <1>2, <1>3, <1>4, <1>6 DEF TypeOK
<1>8. RunsWhole' /\ BeforeFirst'
  BY <1>1 DEF IInv, RunsWhole, BeforeFirst
<1>9. WritingFirst' /\ Configured'
  BY <1>1, <1>4, <1>5 DEF WritingFirst, Configured
<1>10. Replacing'
  <2>1. Ahead' = Piece
    BY <1>4, PieceFacts DEF Ahead
  <2> QED  BY <2>1 DEF Replacing
<1>11. Checking' /\ RollingBack' /\ SucceededIsNew' /\ FailedIsRestored'
  BY <1>4, <1>5 DEF Checking, RollingBack, SucceededIsNew, FailedIsRestored
<1> QED  BY <1>7, <1>8, <1>9, <1>10, <1>11 DEF IInv

LEMMA WriteConfigIInv ==
    ASSUME IInv, WriteConfig
    PROVE  IInv'
<1>1. /\ run.at = "first" /\ disk' = [disk EXCEPT !["config"] = run.n]
      /\ run' = [run EXCEPT !.at = "replace", !.found = disk']
      /\ UNCHANGED <<service, broken, last>>
  BY DEF WriteConfig
<1>2. /\ disk \in Installed /\ service \in Service /\ run \in Run(Stage)
      /\ broken \in SUBSET Release /\ last \in Run(Result)
      /\ run.n \in Release /\ ~run.update /\ run.todo = Pieces
  BY <1>1 DEF IInv, TypeOK, WritingFirst
<1>3. disk' \in Installed /\ disk'["config"] = run.n
  BY <1>1, <1>2, PieceFacts, ContentFacts DEF Installed
<1>4. run' \in Run(Stage)
  BY <1>1, <1>2, <1>3 DEF Run, Stage
<1>5. /\ run'.at = "replace" /\ run'.n = run.n /\ run'.update = run.update
      /\ run'.todo = run.todo /\ run'.found = disk'
  BY <1>1, <1>2 DEF Run
<1>6. TypeOK'
  BY <1>1, <1>2, <1>3, <1>4, <1>5 DEF TypeOK
<1>7. RunsWhole' /\ BeforeFirst'
  BY <1>1, <1>2, <1>3, ContentFacts DEF IInv, RunsWhole, BeforeFirst
<1>8. WritingFirst' /\ Configured'
  BY <1>2, <1>3, <1>5, ContentFacts DEF WritingFirst, Configured
<1>9. Replacing'
  <2>1. Ahead' = Piece
    BY <1>2, <1>5, PieceFacts DEF Ahead
  <2> QED  BY <2>1 DEF Replacing
<1>10. Checking' /\ RollingBack' /\ SucceededIsNew' /\ FailedIsRestored'
  BY <1>5 DEF Checking, RollingBack, SucceededIsNew, FailedIsRestored
<1> QED  BY <1>6, <1>7, <1>8, <1>9, <1>10 DEF IInv

\* The record of a run that ends.
LEMMA EndRecord ==
    ASSUME TypeOK, NEW result \in Result, Ends(result)
    PROVE  /\ run' = NoRun /\ last' \in Run(Result)
           /\ last'.at = result /\ last'.n = run.n
           /\ last'.update = run.update /\ last'.found = run.found
           /\ last'.clean = run.clean
<1>1. /\ run' = NoRun
      /\ last' = [run EXCEPT !.at = result, !.todo = <<>>]
      /\ run \in Run(Stage)
  BY DEF Ends, TypeOK
<1>2. last' = [at |-> result, n |-> run.n, update |-> run.update,
               todo |-> <<>>, found |-> run.found, clean |-> run.clean]
  BY <1>1 DEF Run
<1> QED  BY <1>1, <1>2, NoneRun DEF Run

LEMMA WriteConfigFailsIInv ==
    ASSUME IInv, WriteConfigFails
    PROVE  IInv'
<1>1. PICK left \in {Absent, Partial} :
          disk' = [disk EXCEPT !["config"] = left]
  BY DEF WriteConfigFails
<1>2. /\ run.at = "first" /\ Ends("failed") /\ UNCHANGED <<service, broken>>
  BY DEF WriteConfigFails
<1>3. /\ disk \in Installed /\ service \in Service
      /\ broken \in SUBSET Release
  BY DEF IInv, TypeOK
<1>4. /\ run' = NoRun /\ last' \in Run(Result) /\ last'.at = "failed"
      /\ last'.found = run.found
  BY <1>2, EndRecord DEF IInv, Result
<1>5. /\ disk["config"] = Absent /\ run.found = disk
      /\ disk["binary"] = Absent /\ disk["unit"] = Absent
      /\ service.state = "stopped"
  BY <1>2 DEF IInv, WritingFirst, BeforeFirst
<1>6. /\ disk' \in Installed
      /\ \A p \in Piece : p # "config" => disk'[p] = disk[p]
  BY <1>1, <1>3, ContentFacts DEF Installed
<1>7. RunsWhole' /\ BeforeFirst'
  BY <1>2, <1>5, <1>6, PieceFacts DEF RunsWhole, BeforeFirst
<1>8. SucceededIsNew'
  BY <1>4 DEF SucceededIsNew
<1>9. FailedIsRestored'
  BY <1>2, <1>4, <1>5, <1>6 DEF FailedIsRestored
<1> QED  BY <1>2, <1>3, <1>4, <1>6, <1>7, <1>8, <1>9, RunEnds

LEMMA ReplaceIInv ==
    ASSUME IInv, Replace
    PROVE  IInv'
<1> DEFINE p0 == Head(run.todo)
<1>1. /\ run.at = "replace" /\ run.todo # <<>>
      /\ disk' = IF Touches(p0) THEN [disk EXCEPT ![p0] = run.n] ELSE disk
      /\ run' = [run EXCEPT !.todo = Tail(@)]
      /\ UNCHANGED <<service, broken, last>>
  BY DEF Replace
<1>2. /\ disk \in Installed /\ service \in Service /\ run \in Run(Stage)
      /\ broken \in SUBSET Release /\ last \in Run(Result)
      /\ run.n \in Release
  BY <1>1 DEF IInv, TypeOK
<1>3. /\ p0 \in Piece /\ Tail(run.todo) \in Seq(Piece)
      /\ \A p \in Piece \ {Tail(run.todo)[i] : i \in DOMAIN Tail(run.todo)} :
            p = p0 \/ p \in Piece \ Ahead
  <2>1. run.todo \in Seq(Piece)
    BY <1>2 DEF Run
  <2> QED  BY <1>1, <2>1, FirstOf DEF Ahead
<1>4. /\ run' \in Run(Stage) /\ run'.at = "replace" /\ run'.n = run.n
      /\ run'.update = run.update /\ run'.todo = Tail(run.todo)
      /\ run'.found = run.found
  BY <1>1, <1>2, <1>3 DEF Run
<1> HIDE DEF p0
<1>5. /\ disk' \in Installed
      /\ \A p \in Piece : disk'[p] = IF p = p0 /\ Touches(p) THEN run.n
                                     ELSE disk[p]
  <2>1. CASE Touches(p0)
    BY <1>1, <1>2, <1>3, <2>1, ContentFacts DEF Installed
  <2>2. CASE ~Touches(p0)
    BY <1>1, <1>2, <2>2
  <2> QED  BY <2>1, <2>2
<1>6. TypeOK'
  BY <1>1, <1>2, <1>4, <1>5 DEF TypeOK
<1>7. /\ disk["config"] # Absent /\ run.found["config"] # Absent
      /\ ~run.update => disk["config"] = run.found["config"]
  BY <1>1 DEF IInv, Configured
<1>8. /\ disk'["config"] # Absent
      /\ ~run.update => disk'["config"] = disk["config"]
  BY <1>2, <1>5, <1>7, PieceFacts, ContentFacts DEF Touches
<1>9. RunsWhole' /\ BeforeFirst'
  BY <1>1, <1>8 DEF IInv, RunsWhole, BeforeFirst
<1>10. WritingFirst' /\ Configured'
  BY <1>4, <1>7, <1>8 DEF WritingFirst, Configured
<1>11. Replacing'
  <2> SUFFICES ASSUME NEW p \in Piece \ Ahead', Touches(p)'
               PROVE  disk'[p] = run'.n
    BY DEF Replacing
  <2>1. Touches(p)
    BY <1>4 DEF Touches
  <2>2. p = p0 \/ p \in Piece \ Ahead
    BY <1>3, <1>4 DEF Ahead
  <2>3. p \in Piece \ Ahead => disk[p] = run.n
    BY <1>1, <2>1 DEF IInv, Replacing
  <2> QED  BY <1>4, <1>5, <2>1, <2>2, <2>3
<1>12. Checking' /\ RollingBack' /\ SucceededIsNew' /\ FailedIsRestored'
  BY <1>4 DEF Checking, RollingBack, SucceededIsNew, FailedIsRestored
<1> QED  BY <1>6, <1>9, <1>10, <1>11, <1>12 DEF IInv

\* What is left of a piece that was being written, or not yet.
LEMMA Leftover ==
    ASSUME IInv, run.at = "replace", run.todo # <<>>,
           NEW left \in Left(Head(run.todo)),
           disk' = [disk EXCEPT ![Head(run.todo)] = left]
    PROVE  disk' \in Installed /\ disk'["config"] = disk["config"]
<1> DEFINE p0 == Head(run.todo)
<1>1. run.todo \in Seq(Piece) /\ disk \in Installed
  BY DEF IInv, TypeOK, Run
<1>2. p0 \in Piece
  BY <1>1, FirstOf
<1>3. left \in Content
  BY <1>1, <1>2, ContentFacts DEF Left, Installed
<1>4. p0 = "config" => left = disk[p0]
  BY PieceFacts DEF Left
<1> HIDE DEF p0
<1>5. disk' = [disk EXCEPT ![p0] = left]
  BY DEF p0
<1>6. "config" \in Piece
  BY PieceFacts
<1>7. disk' \in Installed
  BY <1>1, <1>2, <1>3, <1>5 DEF Installed
<1>8. disk'["config"] = IF p0 = "config" THEN left ELSE disk["config"]
  BY <1>1, <1>5, <1>6 DEF Installed
<1> QED  BY <1>4, <1>7, <1>8

\* A run that gives up leaves the configuration and begins its rollback.
LEMMA GivesUp ==
    ASSUME IInv, run.at \in {"replace", "check"},
           run' = [run EXCEPT !.at = "stop"],
           disk' \in Installed, disk'["config"] = disk["config"],
           service' \in Service, RunsWhole', UNCHANGED <<broken, last>>
    PROVE  IInv'
<1>1. /\ run \in Run(Stage) /\ run.n \in Release
      /\ broken \in SUBSET Release /\ last \in Run(Result)
  BY DEF IInv, TypeOK
<1>2. /\ run' \in Run(Stage) /\ run'.at = "stop" /\ run'.n = run.n
      /\ run'.update = run.update /\ run'.found = run.found
  BY <1>1 DEF Run, Stage
<1>3. TypeOK'
  BY <1>1, <1>2 DEF TypeOK
<1>4. /\ disk["config"] # Absent /\ run.found["config"] # Absent
      /\ ~run.update => disk["config"] = run.found["config"]
  BY DEF IInv, Configured
<1>5. BeforeFirst' /\ WritingFirst' /\ Configured'
  BY <1>2, <1>4 DEF BeforeFirst, WritingFirst, Configured
<1>6. /\ Replacing' /\ Checking' /\ RollingBack'
      /\ SucceededIsNew' /\ FailedIsRestored'
  BY <1>2 DEF Replacing, Checking, RollingBack, SucceededIsNew,
     FailedIsRestored
<1> QED  BY <1>3, <1>5, <1>6 DEF IInv

LEMMA ReplaceFailsIInv ==
    ASSUME IInv, ReplaceFails
    PROVE  IInv'
<1>1. PICK left \in Left(Head(run.todo)) :
          disk' = [disk EXCEPT ![Head(run.todo)] = left]
  BY DEF ReplaceFails
<1>2. /\ run.at = "replace" /\ run.todo # <<>>
      /\ run' = [run EXCEPT !.at = "stop"]
      /\ UNCHANGED <<service, broken, last>>
  BY DEF ReplaceFails
<1>3. disk' \in Installed /\ disk'["config"] = disk["config"]
  BY <1>1, <1>2, Leftover
<1>4. service' \in Service /\ RunsWhole'
  BY <1>2 DEF IInv, TypeOK, RunsWhole
<1> QED  BY <1>2, <1>3, <1>4, GivesUp

LEMMA RestartIInv ==
    ASSUME IInv, Restart
    PROVE  IInv'
<1>1. /\ run.at = "replace" /\ run.todo = <<>> /\ service' = Started
      /\ run' = [run EXCEPT !.at = "check"]
      /\ UNCHANGED <<disk, broken, last>>
  BY DEF Restart
<1>2. /\ disk \in Installed /\ run \in Run(Stage) /\ run.n \in Release
      /\ broken \in SUBSET Release /\ last \in Run(Result)
  BY <1>1 DEF IInv, TypeOK
<1>3. /\ run' \in Run(Stage) /\ run'.at = "check" /\ run'.n = run.n
      /\ run'.update = run.update /\ run'.found = run.found
      /\ run'.todo = run.todo
  BY <1>1, <1>2 DEF Run, Stage
<1>4. /\ service' \in Service /\ service'.from = disk
      /\ service'.state = "running" => \A p \in Piece : disk[p] \in Release
  BY <1>1, <1>2, StartedService DEF Started
<1>5. TypeOK'
  BY <1>1, <1>2, <1>3, <1>4 DEF TypeOK
<1>6. RunsWhole'
  BY <1>4 DEF RunsWhole
<1>7. BeforeFirst' /\ WritingFirst' /\ Configured'
  BY <1>1, <1>3 DEF IInv, BeforeFirst, WritingFirst, Configured
<1>8. Replacing'
  BY <1>1, <1>3 DEF IInv, Replacing, Ahead, Touches
<1>9. Checking' /\ RollingBack' /\ SucceededIsNew' /\ FailedIsRestored'
  BY <1>1, <1>3, <1>4 DEF Checking, RollingBack, SucceededIsNew,
     FailedIsRestored
<1> QED  BY <1>5, <1>6, <1>7, <1>8, <1>9 DEF IInv

LEMMA RestartFailsIInv ==
    ASSUME IInv, RestartFails
    PROVE  IInv'
<1>1. /\ run.at = "replace"
      /\ service' \in {service, Started, [service EXCEPT !.state = "stopped"]}
      /\ run' = [run EXCEPT !.at = "stop"]
      /\ UNCHANGED <<disk, broken, last>>
  BY DEF RestartFails
<1>2. disk \in Installed /\ service \in Service
  BY DEF IInv, TypeOK
<1>3. service' \in Service /\ RunsWhole'
  <2>1. CASE service' = service
    BY <1>2, <2>1 DEF IInv, RunsWhole
  <2>2. CASE service' = Started
    BY <1>2, <2>2, StartedService DEF Started, RunsWhole
  <2>3. CASE service' = [service EXCEPT !.state = "stopped"]
    BY <1>2, <2>3 DEF Service, RunsWhole
  <2> QED  BY <1>1, <2>1, <2>2, <2>3
<1> QED  BY <1>1, <1>2, <1>3, GivesUp

LEMMA CheckIInv ==
    ASSUME IInv, Check
    PROVE  IInv'
<1>1. /\ run.at = "check" /\ UNCHANGED <<disk, service, broken>>
      /\ disk \in Installed /\ service \in Service
      /\ broken \in SUBSET Release /\ RunsWhole'
  BY DEF Check, IInv, TypeOK, RunsWhole
<1>2. CASE service.state = "running"
  <2>1. /\ run' = NoRun /\ last' \in Run(Result) /\ last'.at = "succeeded"
        /\ last'.n = run.n /\ last'.update = run.update
        /\ last'.found = run.found
    BY <1>2, EndRecord DEF Check, IInv, Result
  <2>2. BeforeFirst'
    BY <1>1 DEF IInv, BeforeFirst
  <2>3. run.todo = <<>> /\ service.from = disk
    BY <1>1 DEF IInv, Checking
  <2>4. \A p \in Piece : Touches(p) => disk[p] = run.n
    <3>1. Ahead = {}
      BY <2>3 DEF Ahead
    <3> QED  BY <1>1, <3>1 DEF IInv, Replacing
  <2>5. \A p \in Piece : disk[p] \in Release
    BY <1>2, <2>3 DEF IInv, RunsWhole
  <2>6. ~run.update => disk["config"] = run.found["config"]
    BY <1>1 DEF IInv, Configured
  <2>7. SucceededIsNew'
    BY <1>1, <2>1, <2>3, <2>4, <2>5, <2>6, PieceFacts
    DEF SucceededIsNew, Touches
  <2>8. FailedIsRestored'
    BY <2>1 DEF FailedIsRestored
  <2> QED  BY <1>1, <2>1, <2>2, <2>7, <2>8, RunEnds
<1>3. CASE service.state # "running"
  BY <1>1, <1>3, GivesUp DEF Check
<1> QED  BY <1>2, <1>3

LEMMA StopIInv ==
    ASSUME IInv, Stop
    PROVE  IInv'
<1>1. PICK ok \in BOOLEAN :
          /\ service' = IF ok THEN [service EXCEPT !.state = "stopped"]
                        ELSE service
          /\ run' = [run EXCEPT !.at = "restore", !.clean = @ /\ ok,
                       !.todo = RollbackOrder]
  BY DEF Stop
<1>2. run.at = "stop" /\ UNCHANGED <<disk, broken, last>>
  BY DEF Stop
<1>3. /\ disk \in Installed /\ service \in Service /\ run \in Run(Stage)
      /\ run.n \in Release /\ broken \in SUBSET Release /\ last \in Run(Result)
  BY <1>2 DEF IInv, TypeOK
<1>4. run' = [at |-> "restore", n |-> run.n, update |-> run.update,
              todo |-> RollbackOrder, found |-> run.found,
              clean |-> run.clean /\ ok]
  BY <1>1, <1>3 DEF Run
<1>5. /\ run' \in Run(Stage) /\ run'.at = "restore" /\ run'.n = run.n
      /\ run'.update = run.update /\ run'.found = run.found
      /\ run'.todo = RollbackOrder /\ (run'.clean => ok)
  BY <1>3, <1>4, PieceFacts DEF Run, Stage
<1>6. /\ service' \in Service /\ (ok => service'.state = "stopped")
      /\ (service'.state = service.state \/ service'.state = "stopped")
      /\ service'.from = service.from
  <2>1. CASE ok
    BY <1>1, <1>3, <2>1 DEF Service
  <2>2. CASE ~ok
    BY <1>1, <1>3, <2>2
  <2> QED  BY <2>1, <2>2
<1>7. TypeOK'
  BY <1>2, <1>3, <1>5, <1>6 DEF TypeOK
<1>8. RunsWhole' /\ BeforeFirst'
  BY <1>2, <1>6 DEF IInv, RunsWhole, BeforeFirst
<1>9. WritingFirst' /\ Configured'
  BY <1>2, <1>5 DEF IInv, WritingFirst, Configured
<1>10. RollingBack'
  <2>1. run'.todo = RollbackOrder
    BY <1>5
  <2>2. Ahead' = {RollbackOrder[i] : i \in DOMAIN RollbackOrder}
    BY <2>1 DEF Ahead
  <2>3. Piece = {RollbackOrder[i] : i \in DOMAIN RollbackOrder}
    BY PieceFacts
  <2>4. Piece \ Ahead' = {}
    BY <2>2, <2>3
  <2> QED  BY <1>5, <1>6, <2>4 DEF RollingBack
<1>11. Replacing' /\ Checking' /\ SucceededIsNew' /\ FailedIsRestored'
  BY <1>5 DEF Replacing, Checking, SucceededIsNew, FailedIsRestored
<1> QED  BY <1>7, <1>8, <1>9, <1>10, <1>11 DEF IInv

LEMMA RestoreIInv ==
    ASSUME IInv, Restore
    PROVE  IInv'
<1> DEFINE p0 == Head(run.todo)
<1>1. PICK ok \in BOOLEAN :
          /\ ok \/ Touches(p0)
          /\ disk' = IF ok /\ Touches(p0)
                     THEN [disk EXCEPT ![p0] = run.found[p0]] ELSE disk
          /\ run' = [run EXCEPT !.todo = Tail(@), !.clean = @ /\ ok]
  BY DEF Restore, Restored
<1>2. /\ run.at = "restore" /\ run.todo # <<>>
      /\ UNCHANGED <<service, broken, last>>
  BY DEF Restore
<1>3. /\ disk \in Installed /\ service \in Service /\ run \in Run(Stage)
      /\ run.n \in Release /\ broken \in SUBSET Release /\ last \in Run(Result)
  BY <1>2 DEF IInv, TypeOK
<1>4. /\ p0 \in Piece /\ Tail(run.todo) \in Seq(Piece)
      /\ \A p \in Piece \ {Tail(run.todo)[i] : i \in DOMAIN Tail(run.todo)} :
            p = p0 \/ p \in Piece \ Ahead
  <2>1. run.todo \in Seq(Piece)
    BY <1>3 DEF Run
  <2> QED  BY <1>2, <2>1, FirstOf DEF Ahead
<1>5. run' = [at |-> run.at, n |-> run.n, update |-> run.update,
              todo |-> Tail(run.todo), found |-> run.found,
              clean |-> run.clean /\ ok]
  BY <1>1, <1>3 DEF Run
<1>6. /\ run' \in Run(Stage) /\ run'.at = "restore" /\ run'.n = run.n
      /\ run'.update = run.update /\ run'.found = run.found
      /\ run'.todo = Tail(run.todo) /\ (run'.clean => run.clean /\ ok)
  BY <1>2, <1>3, <1>4, <1>5 DEF Run, Stage
<1> HIDE DEF p0
<1>7. /\ disk' \in Installed
      /\ \A p \in Piece : disk'[p] = IF p = p0 /\ ok /\ Touches(p)
                                     THEN run.found[p] ELSE disk[p]
  <2>1. run.found \in Installed
    BY <1>3 DEF Run
  <2>2. CASE ok /\ Touches(p0)
    BY <1>1, <1>3, <1>4, <2>1, <2>2 DEF Installed
  <2>3. CASE ~(ok /\ Touches(p0))
    BY <1>1, <1>3, <2>3
  <2> QED  BY <2>2, <2>3
<1>8. TypeOK'
  BY <1>2, <1>3, <1>6, <1>7 DEF TypeOK
<1>9. /\ disk["config"] # Absent /\ run.found["config"] # Absent
      /\ ~run.update => disk["config"] = run.found["config"]
  BY <1>2 DEF IInv, Configured
<1>10. /\ disk'["config"] # Absent
       /\ ~run.update => disk'["config"] = disk["config"]
  BY <1>7, <1>9, PieceFacts DEF Touches
<1>11. RunsWhole' /\ BeforeFirst' /\ WritingFirst' /\ Configured'
  BY <1>2, <1>6, <1>9, <1>10
  DEF IInv, RunsWhole, BeforeFirst, WritingFirst, Configured
<1>12. RollingBack'
  <2> SUFFICES ASSUME run'.clean
               PROVE  /\ service'.state = "stopped"
                      /\ \A p \in Piece \ Ahead' :
                            Touches(p)' => disk'[p] = run'.found[p]
    BY DEF RollingBack
  <2>1. run.clean /\ ok
    BY <1>6
  <2>2. /\ service.state = "stopped"
        /\ \A p \in Piece \ Ahead : Touches(p) => disk[p] = run.found[p]
    BY <1>2, <2>1 DEF IInv, RollingBack
  <2>3. ASSUME NEW p \in Piece \ Ahead', Touches(p)'
        PROVE  disk'[p] = run'.found[p]
    <3>1. Touches(p)
      BY <1>6, <2>3 DEF Touches
    <3>2. p = p0 \/ p \in Piece \ Ahead
      BY <1>4, <1>6, <2>3 DEF Ahead
    <3> QED  BY <1>6, <1>7, <2>1, <2>2, <3>1, <3>2
  <2> QED  BY <1>2, <2>2, <2>3
<1>13. Replacing' /\ Checking' /\ SucceededIsNew' /\ FailedIsRestored'
  BY <1>6 DEF Replacing, Checking, SucceededIsNew, FailedIsRestored
<1> QED  BY <1>8, <1>11, <1>12, <1>13 DEF IInv

LEMMA ReviveIInv ==
    ASSUME IInv, Revive
    PROVE  IInv'
<1>1. PICK ok \in BOOLEAN :
          /\ service' = IF ok /\ run.found["binary"] # Absent THEN Started
                        ELSE service
          /\ last' = [run EXCEPT !.at = "failed", !.clean = @ /\ ok]
  BY DEF Revive
<1>2. /\ run.at = "restore" /\ run.todo = <<>> /\ run' = NoRun
      /\ UNCHANGED <<disk, broken>>
  BY DEF Revive
<1>3. /\ disk \in Installed /\ service \in Service /\ run \in Run(Stage)
      /\ broken \in SUBSET Release
  BY DEF IInv, TypeOK
<1>4. last' = [at |-> "failed", n |-> run.n, update |-> run.update,
               todo |-> <<>>, found |-> run.found, clean |-> run.clean /\ ok]
  BY <1>1, <1>2, <1>3 DEF Run
<1>5. /\ last' \in Run(Result) /\ last'.at = "failed"
      /\ last'.found = run.found /\ (last'.clean => run.clean /\ ok)
  BY <1>3, <1>4, NoneRun DEF Run, Result
<1>6. /\ Started \in Service /\ Started.from = disk
      /\ Started.state = "running" => \A p \in Piece : disk[p] \in Release
  BY <1>3, StartedService DEF Started
<1>7. service' \in Service /\ RunsWhole'
  BY <1>1, <1>3, <1>6 DEF IInv, RunsWhole
<1>8. BeforeFirst'
  BY <1>2 DEF IInv, Configured, BeforeFirst
<1>9. SucceededIsNew'
  BY <1>5 DEF SucceededIsNew
<1>10. FailedIsRestored'
  <2> SUFFICES ASSUME last'.clean
               PROVE  /\ \A p \in Piece : disk'[p] = last'.found[p]
                      /\ IF last'.found["binary"] = Absent
                         THEN service'.state = "stopped"
                         ELSE service'.from = disk'
    BY DEF FailedIsRestored
  <2>1. run.clean /\ ok
    BY <1>5
  <2>2. /\ service.state = "stopped"
        /\ \A p \in Piece \ Ahead : Touches(p) => disk[p] = run.found[p]
    BY <1>2, <2>1 DEF IInv, RollingBack
  <2>3. Ahead = {}
    BY <1>2 DEF Ahead
  <2>4. \A p \in Piece : disk[p] = run.found[p]
    BY <1>2, <2>2, <2>3 DEF IInv, Configured, Touches
  <2> QED  BY <1>1, <1>2, <1>5, <1>6, <2>1, <2>2, <2>4
<1> QED  BY <1>2, <1>3, <1>5, <1>7, <1>8, <1>9, <1>10, RunEnds

LEMMA InterruptIInv ==
    ASSUME IInv, Interrupt
    PROVE  IInv'
<1>1. /\ run.at # "idle" /\ Ends("interrupted") /\ broken' = broken
      /\ service' \in {service, IF service.from = Nothing THEN service
                                ELSE StartedFrom(disk')}
  BY DEF Interrupt
<1>2. /\ disk \in Installed /\ service \in Service
      /\ broken \in SUBSET Release
  BY DEF IInv, TypeOK
<1>3. /\ disk' \in Installed
      /\ disk' = disk \/ disk'["config"] # Absent
  <2>1. CASE UNCHANGED disk
    BY <1>2, <2>1
  <2>2. CASE disk' = [disk EXCEPT !["config"] = Partial]
    BY <1>2, <2>2, PieceFacts, ContentFacts DEF Installed, Absent
  <2>3. CASE /\ run.at = "replace" /\ run.todo # <<>>
             /\ \E left \in Left(Head(run.todo)) :
                   disk' = [disk EXCEPT ![Head(run.todo)] = left]
    <3>1. disk' \in Installed /\ disk'["config"] = disk["config"]
      BY <2>3, Leftover
    <3>2. disk["config"] # Absent
      BY <2>3 DEF IInv, Configured
    <3> QED  BY <3>1, <3>2
  <2> QED  BY <2>1, <2>2, <2>3 DEF Interrupt
<1>4. /\ run' = NoRun /\ last' \in Run(Result) /\ last'.at = "interrupted"
  BY <1>1, EndRecord DEF IInv, Result
<1>5. /\ StartedFrom(disk') \in Service /\ StartedFrom(disk').from = disk'
      /\ StartedFrom(disk').state = "running" =>
            \A p \in Piece : disk'[p] \in Release
      /\ disk'["unit"] = Absent => StartedFrom(disk').state = "stopped"
  BY <1>3, StartedService
<1>6. service' \in Service /\ RunsWhole'
  BY <1>1, <1>2, <1>5 DEF IInv, RunsWhole
<1>7. BeforeFirst'
  BY <1>1, <1>3, <1>5 DEF IInv, BeforeFirst
<1>8. SucceededIsNew' /\ FailedIsRestored'
  BY <1>4 DEF SucceededIsNew, FailedIsRestored
<1> QED  BY <1>1, <1>2, <1>3, <1>4, <1>6, <1>7, <1>8, RunEnds

LEMMA ServiceIInv ==
    ASSUME IInv, Exit \/ Respawn
    PROVE  IInv'
<1>1. /\ UNCHANGED <<disk, broken, run, last>>
      /\ service.state # "stopped"
      /\ disk \in Installed /\ service \in Service
  BY DEF Exit, Respawn, IInv, TypeOK
<1>2. CASE Exit
  <2>1. service' \in Service /\ service'.state = "waiting"
        /\ service'.from = service.from
    BY <1>1, <1>2 DEF Exit, Service
  <2>2. RunsWhole'
    BY <2>1 DEF RunsWhole
  <2> QED  BY <1>1, <2>1, <2>2, ServiceMoves
<1>3. CASE Respawn
  <2> DEFINE pieces == [disk EXCEPT !["unit"] = service.from["unit"]]
  <2>1. pieces \in Installed /\ (service.from = disk => pieces = disk)
    BY <1>1, PieceFacts DEF Service, Installed
  <2>2. service' = StartedFrom(pieces)
    BY <1>3 DEF Respawn, Respawned
  <2> HIDE DEF pieces
  <2>3. /\ service' \in Service /\ service'.from = pieces
        /\ service'.state = "running" => \A p \in Piece : pieces[p] \in Release
    BY <2>1, <2>2, StartedService
  <2>4. RunsWhole'
    BY <2>3 DEF RunsWhole
  <2> QED  BY <1>1, <2>1, <2>3, <2>4, ServiceMoves
<1> QED  BY <1>2, <1>3

-----------------------------------------------------------------------------
(* The theorems *)

LEMMA StutterIInv == IInv /\ UNCHANGED vars => IInv'
  BY DEF vars, IInv, TypeOK, RunsWhole, BeforeFirst, WritingFirst, Configured,
     Replacing, Checking, RollingBack, Ahead, Touches, SucceededIsNew,
     FailedIsRestored

LEMMA Invariance == Spec => []IInv
<1>1. IInv /\ [Next]_vars => IInv'
  BY BeginIInv, WriteConfigIInv, WriteConfigFailsIInv, ReplaceIInv,
     ReplaceFailsIInv, RestartIInv, RestartFailsIInv, CheckIInv, StopIInv,
     RestoreIInv, ReviveIInv, InterruptIInv, ServiceIInv, StutterIInv DEF Next
<1> QED  BY InitIInv, <1>1, PTL DEF Spec

\* A run that says it succeeded leaves one whole release and a service started
\* from it, after any number of failed and interrupted runs (install.sh:217).
THEOREM SuccessIsWhole == Spec => []SucceededIsNew
<1>1. IInv => SucceededIsNew
  BY DEF IInv
<1> QED  BY <1>1, Invariance, PTL

\* A run that fails and whose rollback works leaves what it found, also when
\* what it found was a mixture (install.sh rollback).
THEOREM FailureIsUndone == Spec => []FailedIsRestored
<1>1. IInv => FailedIsRestored
  BY DEF IInv
<1> QED  BY <1>1, Invariance, PTL
=============================================================================
