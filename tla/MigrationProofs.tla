--------------------------- MODULE MigrationProofs ---------------------------
(***************************************************************************)
(* Proofs about Migration for every set of databases, rows and ids.        *)
(***************************************************************************)
EXTENDS Migration, TLAPS

\* database.json never names one database twice, and has an id exactly while
\* a migration is pending.
Sound(f) ==
    /\ f.pending # f.active
    /\ f.id = None <=> f.pending = None
    /\ f.id \in used \cup {None}

\* A power failure may bring back the file before its last replacement: no copy
\* is made into the database that one calls active.
FileSound ==
    /\ Sound(file) /\ Sound(earlier)
    /\ file.pending # earlier.active

\* Load migrates only when DATABASE_URL is not set and a target is pending.
LoadSound ==
    phase \in {"loading", "copied"} => ~overridden /\ file.pending # None

\* Between the commit of the copy and the switch the two databases agree.
CopyExact ==
    phase = "copied" => content[file.pending] = content[file.active]

IInv ==
    /\ TypeOK
    /\ ActiveIsTruth
    /\ RuntimeIsFile
    /\ FileSound
    /\ LoadSound
    /\ CopyExact

USE MigrationAssumption

\* The first start of a server that was never configured.
LEMMA InitIInv == Init => IInv
<1> SUFFICES ASSUME Init PROVE IInv
    OBVIOUS
<1> USE DEF Init, Unscheduled
<1>1. content \in [Database -> SUBSET Row]
  <2>1. SUBSET Foreign \subseteq SUBSET Row
    OBVIOUS
  <2> QED
    BY <2>1
<1>2. TypeOK
  BY <1>1 DEF TypeOK, Config
<1>3. ActiveIsTruth /\ RuntimeIsFile
  BY DEF ActiveIsTruth, RuntimeIsFile
<1>4. FileSound /\ LoadSound /\ CopyExact
  BY DEF FileSound, Sound, LoadSound, CopyExact
<1> QED
  BY <1>2, <1>3, <1>4 DEF IInv

\* Every step keeps the invariant.
LEMMA NextIInv == IInv /\ [Next]_vars => IInv'
<1> SUFFICES ASSUME IInv, [Next]_vars PROVE IInv'
    OBVIOUS
<1> USE DEF IInv, TypeOK, ActiveIsTruth, RuntimeIsFile, FileSound, LoadSound,
            CopyExact, Config, Sound
<1>1. ASSUME NEW r \in Row, Write(r) PROVE IInv'
  <2>1. UNCHANGED <<file, earlier, runtime, phase, overridden, url, used,
                    marker, visited>>
    BY <1>1 DEF Write, process, files
  <2>2. /\ content' \in [Database -> SUBSET Row]
        /\ truth' \in [Database -> SUBSET Row]
        /\ direct' \in [Database -> SUBSET Row]
    BY <1>1 DEF Write
  <2>3. ActiveIsTruth'
    BY <1>1, <2>1 DEF Write
  <2>4. TypeOK' /\ RuntimeIsFile' /\ FileSound' /\ LoadSound' /\ CopyExact'
    BY <1>1, <2>1, <2>2 DEF Write
  <2> QED
    BY <2>3, <2>4
<1>2. ASSUME NEW r \in Row, Erase(r) PROVE IInv'
  <2>1. UNCHANGED <<file, earlier, runtime, phase, overridden, url, used,
                    marker, visited>>
    BY <1>2 DEF Erase, process, files
  <2>2. /\ content' \in [Database -> SUBSET Row]
        /\ truth' \in [Database -> SUBSET Row]
        /\ direct' \in [Database -> SUBSET Row]
    BY <1>2 DEF Erase
  <2>3. ActiveIsTruth'
    BY <1>2, <2>1 DEF Erase
  <2>4. TypeOK' /\ RuntimeIsFile' /\ FileSound' /\ LoadSound' /\ CopyExact'
    BY <1>2, <2>1, <2>2 DEF Erase
  <2> QED
    BY <2>3, <2>4
<1>3. ASSUME NEW d \in Database, NEW id \in Id, Schedule(d, id) PROVE IInv'
  <2>1. /\ runtime = file /\ earlier' = file
        /\ file' = [file EXCEPT !.pending = d, !.id = id] /\ runtime' = file'
    BY <1>3 DEF Schedule, Persisted
  <2>2. file' = [active |-> file.active, pending |-> d, id |-> id]
    BY <2>1
  <2>3. Sound(file)' /\ Sound(earlier)' /\ file'.pending # earlier'.active
    BY <1>3, <2>1, <2>2 DEF Schedule
  <2>4. TypeOK' /\ ActiveIsTruth' /\ RuntimeIsFile'
    BY <1>3, <2>1, <2>2 DEF Schedule, databases
  <2>5. LoadSound' /\ CopyExact'
    BY <1>3 DEF Schedule
  <2> QED
    BY <2>3, <2>4, <2>5
<1>4. CASE Cancel
  BY <1>4 DEF Cancel, Persisted, Unscheduled, databases, history
<1>5. CASE Stop
  BY <1>5 DEF Stop, Ended, Unscheduled, files, databases, history
<1>6. ASSUME NEW u \in DatabaseURL, SetURL(u) PROVE IInv'
  BY <1>6 DEF SetURL, process, files, databases, history
<1>7. CASE Load
  BY <1>7 DEF Load, files, databases, history
<1>8. ASSUME Copied, phase = "loading", UNCHANGED <<runtime, overridden>>,
             phase' \in {"copied", "up"}
      PROVE IInv'
  BY <1>8 DEF Copied, Replicated, files, history
<1>9. CASE CopySucceeds
  BY <1>8, <1>9 DEF CopySucceeds
<1>10. CASE CopyFails
  BY <1>10 DEF CopyFails, files, databases, history
<1>11. CASE CopyAnswerLost
  BY <1>8, <1>11 DEF CopyAnswerLost
<1>12. CASE Switch
  BY <1>12 DEF Switch, Persisted, Unscheduled, databases, history
<1>13. CASE SwitchFails
  BY <1>13 DEF SwitchFails, files, databases, history
<1>14. CASE PowerFails
  BY <1>14 DEF PowerFails, Ended, Unscheduled, databases
<1>15. CASE LoadUnreadable
  BY <1>15 DEF LoadUnreadable, Unscheduled, files, databases
<1>16. CASE UNCHANGED vars
  BY <1>16 DEF vars, process, files, databases, history
<1> QED
  BY <1>1, <1>2, <1>3, <1>4, <1>5, <1>6, <1>7, <1>9, <1>10, <1>11, <1>12,
     <1>13, <1>14, <1>15, <1>16 DEF Next

\* Every variable keeps its type.
THEOREM TypeCorrect == Spec => []TypeOK
<1>1. IInv => TypeOK
  BY DEF IInv
<1> QED
  BY InitIInv, NextIInv, <1>1, PTL DEF Spec

\* The active database holds exactly the data written so far, whatever was
\* cut short, repeated, cancelled or overridden by DATABASE_URL.
THEOREM NothingLostNothingRevived == Spec => []ActiveIsTruth
<1>1. IInv => ActiveIsTruth
  BY DEF IInv
<1> QED
  BY InitIInv, NextIInv, <1>1, PTL DEF Spec

\* A process that follows the file has the configuration of the file.
THEOREM ConfigurationIsDurable == Spec => []RuntimeIsFile
<1>1. IInv => RuntimeIsFile
  BY DEF IInv
<1> QED
  BY InitIInv, NextIInv, <1>1, PTL DEF Spec

-----------------------------------------------------------------------------
(* Nothing but own copies is replaced. *)

\* A target the pending migration would empty holds nothing but its copy,
\* unless the server has worked on it.
TargetSound ==
    /\ \A d \in Database : marker[d] \in used \cup {None}
    /\ phase # "down" /\ runtime.active = file.pending
            => file.pending \in visited
    /\ file.pending # None /\ marker[file.pending] = file.id =>
            direct[file.pending] = {} \/ file.pending \in visited

\* TargetSound and OccupiedKept are inductive together.
THEOREM OccupiedIsKept == Spec => []OccupiedKept
<1> DEFINE Inv == IInv /\ TargetSound /\ OccupiedKept
<1>1. Init => Inv
  BY InitIInv DEF Init, TargetSound, OccupiedKept, Unscheduled
<1>2. Inv /\ [Next]_vars => Inv'
  <2> SUFFICES ASSUME Inv, [Next]_vars
               PROVE  TargetSound' /\ OccupiedKept'
    BY NextIInv
  <2> USE DEF IInv, TypeOK, RuntimeIsFile, FileSound, LoadSound, Sound, Config,
              TargetSound, OccupiedKept
  <2>1. ASSUME NEW r \in Row, Write(r)
        PROVE  TargetSound' /\ OccupiedKept'
    BY <2>1 DEF Write, process, files
  <2>2. ASSUME NEW r \in Row, Erase(r)
        PROVE  TargetSound' /\ OccupiedKept'
    BY <2>2 DEF Erase, process, files
  <2>3. ASSUME NEW d \in Database, NEW id \in Id, Schedule(d, id)
        PROVE  TargetSound' /\ OccupiedKept'
    BY <2>3 DEF Schedule, Persisted, databases
  <2>4. CASE Cancel
    BY <2>4 DEF Cancel, Persisted, Unscheduled, databases, history
  <2>5. CASE Stop
    BY <2>5 DEF Stop, Ended, Unscheduled, files, databases, history
  <2>6. ASSUME NEW u \in DatabaseURL, SetURL(u)
        PROVE  TargetSound' /\ OccupiedKept'
    BY <2>6 DEF SetURL, process, files, databases, history
  <2>7. CASE Load
    BY <2>7 DEF Load, files, databases, history
  <2>8. ASSUME Copied, phase = "loading", UNCHANGED <<runtime, overridden>>
        PROVE  TargetSound' /\ OccupiedKept'
    <3>1. direct[file.pending] = {} \/ file.pending \in visited
      BY <2>8 DEF Copied, Owned, RuntimeIsFile
    <3> QED
      BY <2>8, <3>1 DEF Copied, Replicated, files, history
  <2>9. CASE CopySucceeds
    BY <2>8, <2>9 DEF CopySucceeds
  <2>10. CASE CopyFails
    BY <2>10 DEF CopyFails, files, databases, history
  <2>11. CASE CopyAnswerLost
    BY <2>8, <2>11 DEF CopyAnswerLost
  <2>12. CASE Switch
    BY <2>12 DEF Switch, Persisted, Unscheduled, databases, history
  <2>13. CASE SwitchFails
    BY <2>13 DEF SwitchFails, files, databases, history
  <2>14. CASE PowerFails
    BY <2>14 DEF PowerFails, Ended, Unscheduled, databases
  <2>15. CASE LoadUnreadable
    BY <2>15 DEF LoadUnreadable, Unscheduled, files, databases
  <2>16. CASE UNCHANGED vars
    BY <2>16 DEF vars, process, files, databases, history
  <2> QED
    BY <2>1, <2>2, <2>3, <2>4, <2>5, <2>6, <2>7, <2>9, <2>10, <2>11, <2>12,
       <2>13, <2>14, <2>15, <2>16 DEF Next
<1>3. Inv => OccupiedKept
  OBVIOUS
<1> QED
  BY <1>1, <1>2, <1>3, PTL DEF Spec

-----------------------------------------------------------------------------
(* Migration implements DataStore: a migration is nothing the data notice.  *)

\* A step of the store that keeps data and kept, as far as the view goes.
LEMMA StoreTurns ==
    ASSUME IInv, IInv', Data' = Data, Kept' = Kept
    PROVE  Store!Next
<1>1. Own' \in BOOLEAN
  BY DEF Own
<1>2. View' = IF Own' THEN Data' ELSE {}
  BY DEF View, Own, Data, IInv, RuntimeIsFile
<1> QED  BY <1>1, <1>2 DEF Store!Next, Store!Turn

LEMMA StoreInit == Init => Store!Init
  BY DEF Init, Unscheduled, Store!Init, Data, Kept, Own, View

LEMMA StoreStep == IInv /\ [Next]_vars => [Store!Next]_Store!vars
<1> SUFFICES ASSUME IInv, [Next]_vars PROVE [Store!Next]_Store!vars
  OBVIOUS
<1>1. IInv'
  BY NextIInv
<1>2. View' = IF Own' THEN Data' ELSE {}
  BY <1>1 DEF View, Own, Data, IInv, RuntimeIsFile
<1>3. Own' \in BOOLEAN
  BY DEF Own
<1>4. /\ content \in [Database -> SUBSET Row]
      /\ file.active \in Database /\ earlier.active \in Database
      /\ runtime.active \in Database
  BY DEF IInv, TypeOK, Config
<1>5. ASSUME NEW r \in Row, Write(r) PROVE Store!Next
  <2>1. /\ UNCHANGED <<phase, overridden, file, earlier, runtime>>
        /\ content' = [content EXCEPT ![runtime.active] = @ \cup {r}]
        /\ phase = "up"
    BY <1>5 DEF Write, process, files
  <2>2. Own => runtime.active = file.active
    BY <2>1 DEF Own, IInv, RuntimeIsFile
  <2>3. /\ Data' \in {Data, Data \cup {r}} /\ (Own => Data' = Data \cup {r})
        /\ Kept' \in {Kept, Kept \cup {r}}
    BY <1>4, <2>1, <2>2 DEF Data, Kept
  <2>4. Own' = Own
    BY <2>1 DEF Own
  <2>5. Store!Write(r)
    BY <2>3, <2>4 DEF Store!Write
  <2> QED  BY <1>2, <2>5 DEF Store!Next
<1>6. ASSUME NEW r \in Row, Erase(r) PROVE Store!Next
  <2>1. /\ UNCHANGED <<phase, overridden, file, earlier, runtime>>
        /\ content' = [content EXCEPT ![runtime.active] = @ \ {r}]
        /\ phase = "up"
    BY <1>6 DEF Erase, process, files
  <2>2. Own => runtime.active = file.active
    BY <2>1 DEF Own, IInv, RuntimeIsFile
  <2>3. /\ Data' \in {Data, Data \ {r}} /\ (Own => Data' = Data \ {r})
        /\ Kept' \in {Kept, Kept \ {r}}
    BY <1>4, <2>1, <2>2 DEF Data, Kept
  <2>4. Own' = Own
    BY <2>1 DEF Own
  <2>5. Store!Erase(r)
    BY <2>3, <2>4 DEF Store!Erase
  <2> QED  BY <1>2, <2>5 DEF Store!Next
<1>7. ASSUME earlier' = file, content' = content,
             content[file'.active] = content[file.active]
      PROVE  Store!Next
  <2>1. Data' = Data /\ Kept' = Data
    BY <1>7 DEF Data, Kept
  <2>2. Store!Persist
    BY <1>3, <2>1 DEF Store!Persist
  <2> QED  BY <1>2, <2>2 DEF Store!Next
<1>8. ASSUME NEW d \in Database, NEW id \in Id, Schedule(d, id)
      PROVE  Store!Next
  <2>1. runtime = file
    BY <1>8 DEF Schedule, IInv, RuntimeIsFile
  <2>2. /\ earlier' = file /\ content' = content
        /\ file' = [runtime EXCEPT !.pending = d, !.id = id]
    BY <1>8 DEF Schedule, Persisted, databases
  <2>3. file'.active = file.active
    BY <2>1, <2>2 DEF IInv, TypeOK, Config
  <2> QED  BY <1>7, <2>2, <2>3
<1>9. CASE Cancel
  <2>1. runtime = file
    BY <1>9 DEF Cancel, IInv, RuntimeIsFile
  <2>2. /\ earlier' = file /\ content' = content
        /\ file'.active = runtime.active
    BY <1>9 DEF Cancel, Persisted, Unscheduled, databases
  <2> QED  BY <1>7, <2>1, <2>2
<1>10. CASE Switch
  <2>1. runtime = file
    BY <1>10 DEF Switch, IInv, RuntimeIsFile, LoadSound
  <2>2. /\ earlier' = file /\ content' = content
        /\ file'.active = runtime.pending
    BY <1>10 DEF Switch, Persisted, Unscheduled, databases
  <2>3. content[file.pending] = content[file.active]
    BY <1>10 DEF Switch, IInv, CopyExact
  <2> QED  BY <1>7, <2>1, <2>2, <2>3
<1>11. CASE PowerFails
  <2>1. Data' = Kept /\ Kept' = Kept /\ RenameMayRevert
    BY <1>11 DEF PowerFails, Data, Kept, databases
  <2>2. Own' = FALSE
    BY <1>11 DEF PowerFails, Ended, Own
  <2>3. Store!Revert
    BY <2>1, <2>2 DEF Store!Revert
  <2> QED  BY <1>2, <2>3 DEF Store!Next
<1>12. ASSUME Copied, phase = "loading" PROVE Store!Next
  <2>1. runtime = file /\ file.pending # file.active
        /\ file.pending # earlier.active /\ file.pending \in Database
    BY <1>12 DEF IInv, TypeOK, Config, RuntimeIsFile, LoadSound, FileSound,
       Sound
  <2>2. /\ UNCHANGED <<file, earlier>>
        /\ content' = [content EXCEPT
                         ![runtime.pending] = content[runtime.active]]
    BY <1>12 DEF Copied, Replicated, files
  <2>3. Data' = Data /\ Kept' = Kept
    BY <1>4, <2>1, <2>2 DEF Data, Kept
  <2> QED  BY <1>1, <2>3, StoreTurns
<1>13. ASSUME UNCHANGED <<file, earlier, content>> PROVE Store!Next
  <2>1. Data' = Data /\ Kept' = Kept
    BY <1>13 DEF Data, Kept
  <2> QED  BY <1>1, <2>1, StoreTurns
<1>14. CASE \/ Stop \/ Load \/ LoadUnreadable \/ CopyFails \/ SwitchFails
            \/ \E u \in DatabaseURL : SetURL(u)
            \/ UNCHANGED vars
  <2>1. UNCHANGED <<file, earlier, content>>
    BY <1>14 DEF Stop, Load, LoadUnreadable, CopyFails, SwitchFails, SetURL,
       vars, files, databases
  <2> QED  BY <1>13, <2>1
<1>15. CASE CopySucceeds \/ CopyAnswerLost
  BY <1>12, <1>15 DEF CopySucceeds, CopyAnswerLost
<1> QED
  BY <1>5, <1>6, <1>8, <1>9, <1>10, <1>11, <1>14, <1>15 DEF Next

\* For any databases, ids, failures, ends of the process and uses of
\* DATABASE_URL the server has one set of data: it sees exactly that set, only
\* its own writes change it, and Schedule, Cancel, Load, Copy and Switch do
\* not, nor does dying at any point between them. A power failure may bring
\* back the set as the previous configuration file had it.
THEOREM ImplementsDataStore == Spec => DataStoreImplemented
  BY StoreInit, StoreStep, InitIInv, NextIInv, PTL
  DEF Spec, Store!Spec, DataStoreImplemented
=============================================================================
