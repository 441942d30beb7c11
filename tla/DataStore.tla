----------------------------- MODULE DataStore -----------------------------
(***************************************************************************)
(* What the server promises of its data, without databases, configuration   *)
(* files and copies: one set of rows, which only the running server changes, *)
(* a row at a time, and which it sees exactly. Stopping, starting, failing   *)
(* and moving to another database leave it alone; only a power failure may   *)
(* bring back an older set. Migration implements this specification.         *)
(***************************************************************************)
CONSTANTS Row, MayRevert

VARIABLES
    data,       \* the rows a start serves, unless it is told to use others
    kept,       \* the rows a power failure may bring back
    own,        \* a server runs and works with its own data
    view        \* what that server sees

vars == <<data, kept, own, view>>

Init == data = {} /\ kept = {} /\ own = FALSE /\ view = {}

\* A server that was told to use other rows may or may not hit these.
Write(r) ==
    /\ data' \in {data, data \cup {r}} /\ (own => data' = data \cup {r})
    /\ kept' \in {kept, kept \cup {r}}
    /\ own' = own

Erase(r) ==
    /\ data' \in {data, data \ {r}} /\ (own => data' = data \ {r})
    /\ kept' \in {kept, kept \ {r}}
    /\ own' = own

\* The server starts, or stops.
Turn == own' \in BOOLEAN /\ UNCHANGED <<data, kept>>

\* A change of the configuration: what was before it is what may come back.
Persist == own' \in BOOLEAN /\ data' = data /\ kept' = data

Revert == MayRevert /\ own' = FALSE /\ data' = kept /\ kept' = kept

Next ==
    /\ (\E r \in Row : Write(r) \/ Erase(r)) \/ Turn \/ Persist \/ Revert
    /\ view' = IF own' THEN data' ELSE {}

Spec == Init /\ [][Next]_vars
=============================================================================
