------------------------------ MODULE Registry ------------------------------
(***************************************************************************)
(* The registered nodes and their agent tokens: the handlers that create,  *)
(* rename, delete a node or rotate its token, the authentication of        *)
(* POST /api/ingest, and what a restart rebuilds from the tables           *)
(* (internal/server/server.go, internal/store/store.go, maintenance.go).   *)
(*                                                                         *)
(* Three places know a token: the in-memory record, the index tokenNodes   *)
(* that finds a node by token alone, and the node table. Every handler     *)
(* runs under Server.mu and changes the first two only after its           *)
(* transaction succeeded; Outcomes is as in Monitor. A token is identified *)
(* with its hash, and fresh tokens and ids are assumed never to repeat     *)
(* (rand.Text).                                                            *)
(***************************************************************************)
EXTENDS Integers, FiniteSets

CONSTANTS
    Node,       \* ids that can be generated
    Token,      \* tokens that can be generated
    None,       \* no entry, no node, no token
    Outcomes,   \* what a write to the database may do
    MaxCrashes, \* bound: crashes
    MaxLost     \* bound: commits whose answer is lost

ASSUME RegistryAssumption ==
    /\ None \notin Node /\ None \notin Token
    /\ Outcomes \subseteq {"ok", "error", "lost"}
    /\ MaxCrashes \in Nat /\ MaxLost \in Nat

VARIABLES
    up,         \* the server process is running
    nodes,      \* Server.nodes: the token of each node, None if absent
    tokenNodes, \* Server.tokenNodes: the node of each token
    db,         \* table nodes: the token of each node
    samples,    \* table samples: the nodes that have rows
    owner,      \* history: the node each token was generated for
    born,       \* history: the ids generated so far
    issued,     \* history: the token an administrator was last given
    revoked,    \* history: tokens an administrator was told are replaced
    crashes, losses     \* bound counters

vars == <<up, nodes, tokenNodes, db, samples, owner, born, issued, revoked,
          crashes, losses>>

Init ==
    /\ up = TRUE
    /\ nodes = [n \in Node |-> None] /\ db = nodes
    /\ tokenNodes = [t \in Token |-> None]
    /\ samples = {}
    /\ owner = [t \in Token |-> None] /\ born = {}
    /\ issued = [n \in Node |-> None] /\ revoked = {}
    /\ crashes = 0 /\ losses = 0

Known(n) == nodes[n] # None

FreshToken(t) == owner[t] = None

Counted(outcome) ==
    IF outcome = "lost"
    THEN losses < MaxLost /\ losses' = losses + 1
    ELSE UNCHANGED losses

\* Seeded fault: the id is stored where the token hash belongs.
SavedSwapped(outcome, n, t) ==
    /\ db' = IF outcome = "error" THEN db ELSE [db EXCEPT ![n] = n]
    /\ Counted(outcome)

\* SaveNode, or Record without a sample: the row of node n becomes token t.
Saved(outcome, n, t) ==
    /\ db' = IF outcome = "error" THEN db ELSE [db EXCEPT ![n] = t]
    /\ Counted(outcome)

-----------------------------------------------------------------------------
\* POST /api/nodes: the token is shown once, in the 201 answer.
CreateNode(n, t, outcome) ==
    /\ up
    /\ n \notin born /\ FreshToken(t)
    /\ Saved(outcome, n, t)
    /\ born' = born \cup {n}
    /\ owner' = [owner EXCEPT ![t] = n]
    /\ IF outcome = "ok"
       THEN /\ nodes' = [nodes EXCEPT ![n] = t]
            /\ tokenNodes' = [tokenNodes EXCEPT ![t] = n]
            /\ issued' = [issued EXCEPT ![n] = t]
       ELSE UNCHANGED <<nodes, tokenNodes, issued>>
    /\ UNCHANGED <<up, samples, revoked, crashes>>

\* Writes that save the whole in-memory record as it is: PUT /api/nodes/{id}
\* and a tick with events.
SaveNode(n, outcome) ==
    /\ up
    /\ Known(n)
    /\ Saved(outcome, n, nodes[n])
    /\ UNCHANGED <<up, nodes, tokenNodes, samples, owner, born, issued,
                   revoked, crashes>>

\* Seeded fault: the replaced token stays in the index.
IndexKeepingOld(n, t) == [tokenNodes EXCEPT ![t] = n]

\* The index after the token of node n became t.
Reindexed(n, t) == [tokenNodes EXCEPT ![nodes[n]] = None, ![t] = n]

\* Seeded fault: the memory changes although the write failed.
RotateTokenEagerly(n, t, outcome) ==
    /\ up
    /\ Known(n) /\ FreshToken(t)
    /\ Saved(outcome, n, t)
    /\ owner' = [owner EXCEPT ![t] = n]
    /\ nodes' = [nodes EXCEPT ![n] = t]
    /\ tokenNodes' = Reindexed(n, t)
    /\ IF outcome = "ok"
       THEN /\ issued' = [issued EXCEPT ![n] = t]
            /\ revoked' = revoked \cup {nodes[n]}
       ELSE UNCHANGED <<issued, revoked>>
    /\ UNCHANGED <<up, samples, born, crashes>>

\* Seeded fault: the record is saved before it gets the new token.
RotateTokenUnsaved(n, t, outcome) ==
    /\ up
    /\ Known(n) /\ FreshToken(t)
    /\ Saved(outcome, n, nodes[n])
    /\ owner' = [owner EXCEPT ![t] = n]
    /\ IF outcome = "ok"
       THEN /\ nodes' = [nodes EXCEPT ![n] = t]
            /\ tokenNodes' = Reindexed(n, t)
            /\ issued' = [issued EXCEPT ![n] = t]
            /\ revoked' = revoked \cup {nodes[n]}
       ELSE UNCHANGED <<nodes, tokenNodes, issued, revoked>>
    /\ UNCHANGED <<up, samples, born, crashes>>

\* POST /api/nodes/{id}/token.
RotateToken(n, t, outcome) ==
    /\ up
    /\ Known(n) /\ FreshToken(t)
    /\ Saved(outcome, n, t)
    /\ owner' = [owner EXCEPT ![t] = n]
    /\ IF outcome = "ok"
       THEN /\ nodes' = [nodes EXCEPT ![n] = t]
            /\ tokenNodes' = Reindexed(n, t)
            /\ issued' = [issued EXCEPT ![n] = t]
            /\ revoked' = revoked \cup {nodes[n]}
       ELSE UNCHANGED <<nodes, tokenNodes, issued, revoked>>
    /\ UNCHANGED <<up, samples, born, crashes>>

\* Seeded fault: the samples of a deleted node stay.
DeletedButSamples(outcome, n) ==
    /\ IF outcome = "error"
       THEN UNCHANGED <<db, samples>>
       ELSE db' = [db EXCEPT ![n] = None] /\ UNCHANGED samples
    /\ Counted(outcome)

\* Store.DeleteNode: samples and row in one transaction.
Deleted(outcome, n) ==
    /\ IF outcome = "error"
       THEN UNCHANGED <<db, samples>>
       ELSE db' = [db EXCEPT ![n] = None] /\ samples' = samples \ {n}
    /\ Counted(outcome)

\* DELETE /api/nodes/{id}.
DeleteNode(n, outcome) ==
    /\ up
    /\ Known(n)
    /\ Deleted(outcome, n)
    /\ IF outcome = "ok"
       THEN /\ tokenNodes' = [tokenNodes EXCEPT ![nodes[n]] = None]
            /\ nodes' = [nodes EXCEPT ![n] = None]
            /\ issued' = [issued EXCEPT ![n] = None]
            /\ revoked' = revoked \cup {nodes[n]}
       ELSE UNCHANGED <<nodes, tokenNodes, issued, revoked>>
    /\ UNCHANGED <<up, owner, born, crashes>>

-----------------------------------------------------------------------------
(* POST /api/ingest/{id} names the node, POST /api/ingest finds it by token; *)
(* both then compare the token with the one in the node's record.            *)

AcceptsFor(n, t) == Known(n) /\ nodes[n] = t

AcceptsAlone(t) == tokenNodes[t] # None /\ AcceptsFor(tokenNodes[t], t)

\* A sample of node n is accepted: row and sample in one transaction.
Ingested(n, outcome) ==
    /\ Saved(outcome, n, nodes[n])
    /\ samples' = IF outcome = "error" THEN samples ELSE samples \cup {n}
    /\ UNCHANGED <<up, nodes, tokenNodes, owner, born, issued, revoked,
                   crashes>>

IngestFor(n, t, outcome) == up /\ AcceptsFor(n, t) /\ Ingested(n, outcome)

IngestAlone(t, outcome) ==
    up /\ AcceptsAlone(t) /\ Ingested(tokenNodes[t], outcome)

-----------------------------------------------------------------------------
Crash ==
    /\ up
    /\ crashes < MaxCrashes
    /\ up' = FALSE
    /\ crashes' = crashes + 1
    /\ UNCHANGED <<nodes, tokenNodes, db, samples, owner, born, issued,
                   revoked, losses>>

\* The index server.New builds from the rows.
IndexOf(rows) ==
    [t \in Token |-> IF \E n \in Node : rows[n] = t
                     THEN CHOOSE n \in Node : rows[n] = t ELSE None]

Start ==
    /\ ~up
    /\ up' = TRUE
    /\ nodes' = db
    /\ tokenNodes' = IndexOf(db)
    /\ UNCHANGED <<db, samples, owner, born, issued, revoked, crashes, losses>>

Next ==
    \/ \E n \in Node, t \in Token, o \in Outcomes :
          \/ CreateNode(n, t, o)
          \/ RotateToken(n, t, o)
          \/ IngestFor(n, t, o)
    \/ \E n \in Node, o \in Outcomes : SaveNode(n, o) \/ DeleteNode(n, o)
    \/ \E t \in Token, o \in Outcomes : IngestAlone(t, o)
    \/ Crash
    \/ Start

Spec == Init /\ [][Next]_vars

-----------------------------------------------------------------------------
(* Properties *)

\* Every variable stays in its domain.
TypeOK ==
    /\ up \in BOOLEAN
    /\ nodes \in [Node -> Token \cup {None}]
    /\ db \in [Node -> Token \cup {None}]
    /\ tokenNodes \in [Token -> Node \cup {None}]
    /\ samples \in SUBSET Node /\ born \in SUBSET Node
    /\ owner \in [Token -> Node \cup {None}]
    /\ issued \in [Node -> Token \cup {None}]
    /\ revoked \in SUBSET Token
    /\ crashes \in Nat /\ losses \in Nat

\* The index of a running server is exactly the inverse of its records, so an
\* agent is accepted on either route or on none, and always for one node.
IndexExact ==
    up => \A n \in Node, t \in Token : tokenNodes[t] = n <=> nodes[n] = t

\* A token an administrator was told is replaced, or whose node is deleted, is
\* never accepted again: not by the index, nor after a restart, nor because a
\* later write saved an older record.
RevokedIsRefused ==
    \A t \in revoked, n \in Node :
        /\ db[n] # t
        /\ up => ~AcceptsFor(n, t) /\ ~AcceptsAlone(t)

\* Samples belong to a node in the table; a deletion leaves none behind, even
\* when a deleted node is written again by a server that missed the commit.
NoOrphanSamples == \A n \in samples : db[n] # None

\* The token an administrator was last given for a node is accepted, now and
\* after any restart, until it is rotated or the node deleted. (A rotation
\* whose commit is lost leaves the given token in memory only, hence the
\* condition.)
IssuedIsAccepted ==
    losses = 0 => \A n \in Node : issued[n] # None =>
        /\ db[n] = issued[n]
        /\ up => AcceptsFor(n, issued[n]) /\ AcceptsAlone(issued[n])
=============================================================================
