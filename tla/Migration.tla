------------------------------ MODULE Migration ------------------------------
(***************************************************************************)
(* Moving the data to another database (internal/store/runtime.go, Copy in *)
(* internal/store/store.go): the administrator schedules a target, the      *)
(* next start copies everything into it and switches database.json, and     *)
(* any step may fail or be cut short by the end of the process, or of the   *)
(* machine.                                                                *)
(*                                                                         *)
(* Load runs before the server serves anything, so nothing is written       *)
(* between its steps; the steps are separate actions because the process    *)
(* can die between them. DATABASE_URL, when set, overrides the file.        *)
(* The rows of the five copied tables are abstracted to a set, and the      *)
(* migration id in table metadata (which is not copied) to marker.          *)
(***************************************************************************)
CONSTANTS
    Database,   \* the databases a URL can name
    Default,    \* the SQLite file that is used when nothing was configured
    Row,        \* rows that can be stored
    Foreign,    \* rows a database may hold before SPM is pointed at it
    Id,         \* migration ids that can be generated
    None,       \* no URL, no id
    DatabaseURL, \* the values of the environment variable, None when not set
    RenameMayRevert \* the file system may lose a rename in a power failure

ASSUME MigrationAssumption ==
    /\ Default \in Database
    /\ None \notin Database /\ None \notin Id
    /\ Foreign \subseteq Row
    /\ None \in DatabaseURL /\ DatabaseURL \subseteq Database \cup {None}
    /\ RenameMayRevert \in BOOLEAN

VARIABLES
    phase,      \* "down", "loading" (Load migrates), "copied", "up"
    url,        \* DATABASE_URL of the next start
    file,       \* database.json
    earlier,    \* database.json before it was last replaced
    runtime,    \* Runtime: what the process read or last persisted
    overridden, \* Runtime.Environment: the process follows DATABASE_URL
    content,    \* the rows of each database
    marker,     \* the migration id in each database
    used,       \* history: ids generated so far
    truth,      \* history: the data of each database as long as the server
                \* works on it, and of its predecessors
    direct,     \* history: rows each database did not get by a migration
    visited     \* history: databases DATABASE_URL has named while they were
                \* the target of a pending migration, or that a power failure
                \* has made the target again

process == <<phase, runtime, overridden>>
databases == <<content, marker>>
files == <<file, earlier>>
history == <<used, truth, direct, visited>>
vars == <<process, url, files, databases, history>>

Unscheduled(d) == [active |-> d, pending |-> None, id |-> None]

Init ==
    /\ phase = "down" /\ url = None /\ overridden = FALSE
    /\ file = Unscheduled(Default) /\ runtime = file /\ earlier = file
    /\ content \in [Database -> SUBSET Foreign] /\ content[Default] = {}
    /\ marker = [d \in Database |-> None]
    /\ used = {} /\ truth = content /\ direct = content /\ visited = {}

-----------------------------------------------------------------------------
(* The running server *)

\* Whatever the handlers and tasks do with the database that is open.
Write(r) ==
    /\ phase = "up"
    /\ content' = [content EXCEPT ![runtime.active] = @ \cup {r}]
    /\ direct' = [direct EXCEPT ![runtime.active] = @ \cup {r}]
    /\ truth' = [truth EXCEPT ![runtime.active] = @ \cup {r}]
    /\ UNCHANGED <<process, url, files, marker, used, visited>>

Erase(r) ==
    /\ phase = "up"
    /\ content' = [content EXCEPT ![runtime.active] = @ \ {r}]
    /\ direct' = [direct EXCEPT ![runtime.active] = @ \ {r}]
    /\ truth' = [truth EXCEPT ![runtime.active] = @ \ {r}]
    /\ UNCHANGED <<process, url, files, marker, used, visited>>

\* Runtime.persist replaces the file as a whole or leaves it alone, and the
\* process adopts what it has persisted. A failure changes nothing.
Persisted(next) == file' = next /\ earlier' = file /\ runtime' = next

\* PUT /api/database with a URL.
Schedule(d, id) ==
    /\ phase = "up" /\ ~overridden
    /\ d # runtime.active
    /\ id \notin used /\ used' = used \cup {id}
    /\ Persisted([runtime EXCEPT !.pending = d, !.id = id])
    /\ UNCHANGED <<phase, url, overridden, databases, truth, direct, visited>>

\* PUT /api/database with an empty URL.
Cancel ==
    /\ phase = "up" /\ ~overridden
    /\ Persisted(Unscheduled(runtime.active))
    /\ UNCHANGED <<phase, url, overridden, databases, history>>

-----------------------------------------------------------------------------
(* The operator, and the end of the process at any point *)

\* Memory goes with the process.
Ended == phase' = "down" /\ runtime' = Unscheduled(Default) /\ overridden' = FALSE

Stop ==
    /\ phase # "down"
    /\ Ended
    /\ UNCHANGED <<url, files, databases, history>>

\* A power failure. The contents of the file are synced before it is renamed,
\* its directory is not, so the last replacement may come undone (an earlier
\* one not: a later Sync has committed it). Committed transactions survive.
PowerFails ==
    /\ RenameMayRevert
    /\ Ended
    /\ file' = earlier
    /\ visited' = visited \cup ({earlier.pending} \cap Database)
    /\ UNCHANGED <<url, earlier, databases, used, truth, direct>>

SetURL(u) ==
    /\ phase = "down"
    /\ url' = u
    /\ UNCHANGED <<process, files, databases, history>>

-----------------------------------------------------------------------------
(* Load *)

\* Seeded fault: a DATABASE_URL that is not set is followed as well.
LoadUnset ==
    /\ phase = "down"
    /\ overridden' = (url # None)
    /\ runtime' = [file EXCEPT !.active = url]
    /\ phase' = IF url = None /\ file.pending # None THEN "loading" ELSE "up"
    /\ visited' = visited \cup ({url} \cap {file.pending} \cap Database)
    /\ UNCHANGED <<url, files, databases, used, truth, direct>>

\* The file is read and the active database opened; when DATABASE_URL is set
\* it is opened instead and the migration stays pending.
Load ==
    /\ phase = "down"
    /\ overridden' = (url # None)
    /\ runtime' = IF url = None THEN file ELSE [file EXCEPT !.active = url]
    /\ phase' = IF url = None /\ file.pending # None THEN "loading" ELSE "up"
    /\ visited' = visited \cup ({url} \cap {file.pending} \cap Database)
    /\ UNCHANGED <<url, files, databases, used, truth, direct>>

\* The file cannot be read or parsed: the server starts only if DATABASE_URL is
\* set, as if nothing had been configured, and leaves the file alone.
LoadUnreadable ==
    /\ phase = "down" /\ url # None
    /\ overridden' = TRUE
    /\ runtime' = Unscheduled(url)
    /\ phase' = "up"
    /\ visited' = visited \cup ({url} \cap {file.pending})
    /\ UNCHANGED <<url, files, databases, used, truth, direct>>

\* Seeded fault: any earlier migration makes the target ours.
OwnedByAny(d) == marker[d] # None

\* An earlier attempt of this very migration has committed.
Owned(d) == marker[d] = runtime.id

\* Seeded fault: rows of the earlier attempt are kept.
ReplicatedOnTop(source, target) ==
    [content EXCEPT ![target] = @ \cup content[source]]

\* The tables of the target after the copy: an earlier attempt is emptied.
Replicated(source, target) == [content EXCEPT ![target] = content[source]]

\* Copy commits: one transaction on the target.
Copied ==
    LET d == runtime.pending
    IN  /\ Owned(d) \/ content[d] = {}
        /\ content' = Replicated(runtime.active, d)
        /\ marker' = [marker EXCEPT ![d] = runtime.id]
        /\ UNCHANGED <<url, files, history>>

CopySucceeds ==
    /\ phase = "loading"
    /\ Copied
    /\ phase' = "copied"
    /\ UNCHANGED <<runtime, overridden>>

\* The target cannot be opened, is occupied, or the transaction fails: the
\* server starts with the original and the migration stays pending.
CopyFails ==
    /\ phase = "loading"
    /\ phase' = "up"
    /\ UNCHANGED <<runtime, overridden, url, files, databases, history>>

\* The transaction commits but Load sees an error.
CopyAnswerLost ==
    /\ phase = "loading"
    /\ Copied
    /\ phase' = "up"
    /\ UNCHANGED <<runtime, overridden>>

\* Seeded fault: only the process switches, the file keeps the old database.
SwitchUnsaved ==
    /\ phase = "copied"
    /\ runtime' = Unscheduled(runtime.pending)
    /\ phase' = "up"
    /\ truth' = [truth EXCEPT ![runtime.pending] = truth[runtime.active]]
    /\ UNCHANGED <<overridden, url, files, databases, used, direct, visited>>

\* The file is switched, then the server starts on the target.
Switch ==
    /\ phase = "copied"
    /\ Persisted(Unscheduled(runtime.pending))
    /\ phase' = "up"
    /\ truth' = [truth EXCEPT ![runtime.pending] = truth[runtime.active]]
    /\ UNCHANGED <<overridden, url, databases, used, direct, visited>>

\* The file cannot be written: the server starts with the original, and the
\* next start copies again.
SwitchFails ==
    /\ phase = "copied"
    /\ phase' = "up"
    /\ UNCHANGED <<runtime, overridden, url, files, databases, history>>

Next ==
    \/ \E r \in Row : Write(r) \/ Erase(r)
    \/ \E d \in Database, id \in Id : Schedule(d, id)
    \/ Cancel
    \/ Stop \/ PowerFails
    \/ \E u \in DatabaseURL : SetURL(u)
    \/ Load \/ LoadUnreadable
    \/ CopySucceeds \/ CopyFails \/ CopyAnswerLost
    \/ Switch \/ SwitchFails

Spec == Init /\ [][Next]_vars

-----------------------------------------------------------------------------
(* Properties *)

Config == [active : Database, pending : Database \cup {None},
           id : Id \cup {None}]

\* Every variable stays in its domain.
TypeOK ==
    /\ phase \in {"down", "loading", "copied", "up"}
    /\ url \in DatabaseURL /\ overridden \in BOOLEAN
    /\ file \in Config /\ earlier \in Config /\ runtime \in Config
    /\ content \in [Database -> SUBSET Row]
    /\ marker \in [Database -> Id \cup {None}]
    /\ used \in SUBSET Id
    /\ truth \in [Database -> SUBSET Row]
    /\ direct \in [Database -> SUBSET Row]
    /\ visited \in SUBSET Database

\* The database the file calls active holds exactly the data that was written
\* to it and to its predecessors: a migration loses nothing and brings back
\* nothing that was deleted, however often it was cut short, repeated,
\* cancelled or scheduled anew, and whatever DATABASE_URL was meanwhile
\* (README.md:167-171). The same holds of the file that a power failure would
\* bring back, so that one costs no more than was written since the switch.
ActiveIsTruth ==
    \A f \in {file, earlier} : content[f.active] = truth[f.active]

\* A process that does not follow DATABASE_URL works on the database the file
\* names, so a restart sees what it wrote and the settings page shows the
\* migration that is really pending.
RuntimeIsFile == phase # "down" /\ ~overridden => runtime = file

\* Whatever is scheduled, copied, cut short, repeated or overridden, the server
\* has one set of data (DataStore): a migration changes no row of it, and a
\* server that follows the file sees and changes exactly that set.
Data == content[file.active]
Kept == content[earlier.active]
Own == phase = "up" /\ ~overridden
View == IF Own THEN content[runtime.active] ELSE {}

Store == INSTANCE DataStore
    WITH MayRevert <- RenameMayRevert, data <- Data, kept <- Kept,
         own <- Own, view <- View

DataStoreImplemented == Store!Spec

\* A migration never removes a row that reached a database in another way: an
\* occupied target is refused, and what is copied again is only what this
\* migration copied before. A database that DATABASE_URL made the server work on
\* while it was the target is excepted (see OnlyOwnCopiesReplaced), and one that
\* a power failure has made the target again.
OccupiedKept ==
    \A d \in Database \ visited : direct[d] \subseteq content[d]

\* README.md:168 makes no exception: the target must not hold SPM data.
OnlyOwnCopiesReplaced == \A d \in Database : direct[d] \subseteq content[d]
=============================================================================
