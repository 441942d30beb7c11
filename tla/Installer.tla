----------------------------- MODULE Installer -----------------------------
(***************************************************************************)
(* Replacing an installation (install.sh from line 157): a run backs up     *)
(* what it finds, replaces piece after piece, restarts the service, looks   *)
(* at it two seconds later, and rolls back when anything failed. The runs   *)
(* for one role follow each other. Downloads and checks come before and     *)
(* change nothing.                                                          *)
(***************************************************************************)
EXTENDS Naturals, Sequences

CONSTANTS
    Pieces,         \* what a run replaces, in this order
    RollbackOrder,  \* and the order in which it restores them
    InPlace,        \* the pieces written in place, not beside and renamed
    MaxRuns,        \* bound: runs; run n installs release n
    MaxFaults,      \* bound: commands that fail
    MaxInterrupts   \* bound: runs that are interrupted

Piece == {Pieces[i] : i \in DOMAIN Pieces}

ASSUME InstallerAssumption ==
    /\ Pieces \in Seq(STRING) /\ RollbackOrder \in Seq(STRING)
    /\ {"binary", "config", "unit"} \subseteq Piece
    /\ Piece = {RollbackOrder[i] : i \in DOMAIN RollbackOrder}
    /\ InPlace \subseteq Piece \ {"binary", "config"}
    /\ MaxRuns \in Nat /\ MaxFaults \in Nat /\ MaxInterrupts \in Nat

Absent == 0
Release == 1..MaxRuns
Partial == MaxRuns + 1      \* a piece that was cut off while it was written

VARIABLES
    disk,       \* the release of each piece
    service,    \* "stopped", "running" or "waiting" for systemd to restart it,
                \* and the pieces it was last started from
    broken,     \* the releases whose program exits at once
    run,        \* the installer: where it is, what it still has to do
    last,       \* history: how the last run ended
    faults, interrupts      \* bound counters

vars == <<disk, service, broken, run, last, faults, interrupts>>

Nothing == [p \in Piece |-> Absent]

NoRun == [at |-> "idle", n |-> 0, update |-> FALSE, todo |-> <<>>,
          found |-> Nothing, clean |-> TRUE]

Init ==
    /\ disk = Nothing
    /\ service = [state |-> "stopped", from |-> Nothing]
    /\ broken \in SUBSET Release
    /\ run = NoRun
    /\ last = [NoRun EXCEPT !.at = "none"]
    /\ faults = 0 /\ interrupts = 0

Fault == faults < MaxFaults /\ faults' = faults + 1

\* systemd starts the service from these pieces, again and again if it exits.
StartedFrom(pieces) ==
    [from  |-> pieces,
     state |-> IF pieces["unit"] \notin Release THEN "stopped"
               ELSE IF /\ \A p \in Piece : pieces[p] \in Release
                       /\ pieces["binary"] \notin broken
                    THEN "running" ELSE "waiting"]

\* After a daemon-reload all pieces are those on the disk, otherwise the unit
\* is the one loaded before.
Started == StartedFrom(disk)
Respawned == StartedFrom([disk EXCEPT !["unit"] = service.from["unit"]])

Ends(result) ==
    /\ run' = NoRun
    /\ last' = [run EXCEPT !.at = result, !.todo = <<>>]

-----------------------------------------------------------------------------
(* Up to the trap *)

\* The configuration is only touched by a run that updates it.
Touches(p) == p # "config" \/ run.update

\* A configuration is updated on demand, and written once if there is none.
Begin(update) ==
    /\ run.at = "idle" /\ last.n < MaxRuns
    /\ update => disk["config"] # Absent
    /\ run' = [at     |-> IF disk["config"] = Absent THEN "first" ELSE "replace",
               n      |-> last.n + 1,
               update |-> update,
               todo   |-> Pieces,
               found  |-> disk,
               clean  |-> TRUE]
    /\ UNCHANGED <<disk, service, broken, last, faults, interrupts>>

\* The first configuration stays whatever happens next.
WriteConfig ==
    /\ run.at = "first"
    /\ disk' = [disk EXCEPT !["config"] = run.n]
    /\ run' = [run EXCEPT !.at = "replace", !.found = disk']
    /\ UNCHANGED <<service, broken, last, faults, interrupts>>

\* It is written in place, so a full disk leaves a piece of it.
WriteConfigFails ==
    /\ run.at = "first"
    /\ Fault
    /\ \E left \in {Absent, Partial} : disk' = [disk EXCEPT !["config"] = left]
    /\ Ends("failed")
    /\ UNCHANGED <<service, broken, interrupts>>

-----------------------------------------------------------------------------
(* Replacement *)

\* What a write of piece p that did not end may leave.
Left(p) == {disk[p]} \cup IF p \in InPlace THEN {Absent, Partial} ELSE {}

Replace ==
    /\ run.at = "replace" /\ run.todo # <<>>
    /\ disk' = IF Touches(Head(run.todo))
               THEN [disk EXCEPT ![Head(run.todo)] = run.n] ELSE disk
    /\ run' = [run EXCEPT !.todo = Tail(@)]
    /\ UNCHANGED <<service, broken, last, faults, interrupts>>

\* set -e, the EXIT trap.
ReplaceFails ==
    /\ run.at = "replace" /\ run.todo # <<>> /\ Touches(Head(run.todo))
    /\ Fault
    /\ \E left \in Left(Head(run.todo)) :
          disk' = [disk EXCEPT ![Head(run.todo)] = left]
    /\ run' = [run EXCEPT !.at = "stop"]
    /\ UNCHANGED <<service, broken, last, interrupts>>

\* Seeded fault: a service that runs is not restarted.
RestartIdle ==
    /\ run.at = "replace" /\ run.todo = <<>>
    /\ service' = IF service.state = "running" THEN service ELSE Started
    /\ run' = [run EXCEPT !.at = "check"]
    /\ UNCHANGED <<disk, broken, last, faults, interrupts>>

\* daemon-reload, enable, restart.
Restart ==
    /\ run.at = "replace" /\ run.todo = <<>>
    /\ service' = Started
    /\ run' = [run EXCEPT !.at = "check"]
    /\ UNCHANGED <<disk, broken, last, faults, interrupts>>

RestartFails ==
    /\ run.at = "replace" /\ run.todo = <<>>
    /\ Fault
    /\ service' \in {service, Started, [service EXCEPT !.state = "stopped"]}
    /\ run' = [run EXCEPT !.at = "stop"]
    /\ UNCHANGED <<disk, broken, last, interrupts>>

\* is-active: a service that waits to be restarted is not active.
Check ==
    /\ run.at = "check"
    /\ IF service.state = "running" THEN Ends("succeeded")
       ELSE run' = [run EXCEPT !.at = "stop"] /\ UNCHANGED last
    /\ UNCHANGED <<disk, service, broken, faults, interrupts>>

-----------------------------------------------------------------------------
(* Rollback: its commands may fail, the next one is tried all the same *)

Stop ==
    /\ run.at = "stop"
    /\ \E ok \in BOOLEAN :
          /\ IF ok THEN UNCHANGED faults ELSE Fault
          /\ service' = IF ok THEN [service EXCEPT !.state = "stopped"]
                        ELSE service
          /\ run' = [run EXCEPT !.at = "restore", !.clean = @ /\ ok,
                       !.todo = RollbackOrder]
    /\ UNCHANGED <<disk, broken, last, interrupts>>

\* Seeded fault: what was not there before is left behind.
RestoredIfBackedUp(p) == IF run.found[p] = Absent THEN disk[p] ELSE run.found[p]

\* The backup, or nothing if there was nothing.
Restored(p) == run.found[p]

\* A configuration that was not backed up is not restored.

Restore ==
    /\ run.at = "restore" /\ run.todo # <<>>
    /\ \E ok \in BOOLEAN :
          /\ IF ok THEN UNCHANGED faults ELSE Touches(Head(run.todo)) /\ Fault
          /\ disk' = IF ok /\ Touches(Head(run.todo))
                     THEN [disk EXCEPT ![Head(run.todo)] =
                             Restored(Head(run.todo))]
                     ELSE disk
          /\ run' = [run EXCEPT !.todo = Tail(@), !.clean = @ /\ ok]
    /\ UNCHANGED <<service, broken, last, interrupts>>

\* daemon-reload; the old service is started again if there was one.
Revive ==
    /\ run.at = "restore" /\ run.todo = <<>>
    /\ run' = NoRun
    /\ \E ok \in BOOLEAN :
          /\ IF ok THEN UNCHANGED faults ELSE Fault
          /\ service' = IF ok /\ run.found["binary"] # Absent THEN Started
                        ELSE service
          /\ last' = [run EXCEPT !.at = "failed", !.clean = @ /\ ok]
    /\ UNCHANGED <<disk, broken, interrupts>>

-----------------------------------------------------------------------------
(* Interruptions and the service *)

\* A signal, at which bash runs the trap with status 0 and so without the
\* rollback, SIGKILL, or the machine goes down and starts what was enabled:
\* the pieces stay as they are.
Interrupt ==
    /\ run.at # "idle"
    /\ interrupts < MaxInterrupts
    /\ interrupts' = interrupts + 1
    /\ \/ UNCHANGED disk
       \/ /\ run.at = "first"
          /\ disk' = [disk EXCEPT !["config"] = Partial]
       \/ /\ run.at = "replace" /\ run.todo # <<>>
          /\ \E left \in Left(Head(run.todo)) :
                disk' = [disk EXCEPT ![Head(run.todo)] = left]
    /\ service' \in {service, IF service.from = Nothing THEN service
                              ELSE StartedFrom(disk')}
    /\ Ends("interrupted")
    /\ UNCHANGED <<broken, faults>>

\* The process ends on its own.
Exit ==
    /\ service.state = "running"
    /\ service' = [service EXCEPT !.state = "waiting"]
    /\ UNCHANGED <<disk, broken, run, last, faults, interrupts>>

\* Restart=always.
Respawn ==
    /\ service.state = "waiting"
    /\ service' = Respawned
    /\ UNCHANGED <<disk, broken, run, last, faults, interrupts>>

Next ==
    \/ \E update \in BOOLEAN : Begin(update)
    \/ WriteConfig \/ WriteConfigFails
    \/ Replace \/ ReplaceFails \/ Restart \/ RestartFails \/ Check
    \/ Stop \/ Restore \/ Revive
    \/ Interrupt \/ Exit \/ Respawn

Spec == Init /\ [][Next]_vars

-----------------------------------------------------------------------------
(* Properties *)

\* After a run that says it succeeded, all pieces are of its release, the
\* configuration is whole and as it was or as the run was told, and the
\* service was started from exactly these: never from a mixture, whatever was
\* left by the runs before (install.sh:217). That the configuration is whole
\* relies on StartedFrom: a program does not stay up with one that was cut off.
SucceededIsNew ==
    last.at = "succeeded" /\ run.at = "idle" =>
        /\ \A p \in Piece \ {"config"} : disk[p] = last.n
        /\ disk["config"] \in Release
        /\ disk["config"] = IF last.update THEN last.n ELSE last.found["config"]
        /\ service.from = disk

\* After a run that failed, with a rollback in which nothing failed, every
\* piece is what the run found (only a first configuration stays), and so is
\* what the service runs from; nothing runs if nothing was installed
\* (agent/agent-arguments-validation.md:10).
FailedIsRestored ==
    last.at = "failed" /\ last.clean /\ run.at = "idle" =>
        /\ \A p \in Piece : \/ disk[p] = last.found[p]
                            \/ p = "config" /\ last.found[p] = Absent
        /\ IF last.found["binary"] = Absent THEN service.state = "stopped"
           ELSE service.from = disk \/ disk["unit"] \notin Release
=============================================================================
