--------------------------- MODULE RegistryProofs ---------------------------
(***************************************************************************)
(* Theorems about Registry, for any ids, tokens and bounds.                *)
(*                                                                         *)
(* That no two nodes share a token is what the index needs to be exact. It *)
(* is not inductive over nodes and db alone, because a lost answer leaves  *)
(* different tokens in them; Owned ties both to the one node each token    *)
(* was generated for.                                                      *)
(***************************************************************************)
EXTENDS Registry, TLAPS

\* Memory and table hold only tokens generated for the node that has them.
Owned ==
    \A n \in Node :
        /\ nodes[n] # None => owner[nodes[n]] = n
        /\ db[n] # None => owner[db[n]] = n

\* Revoked tokens were generated, and are neither in the table nor in the
\* memory of a running server.
Gone ==
    \A t \in revoked : /\ owner[t] # None
                       /\ \A n \in Node : db[n] # t /\ (up => nodes[n] # t)

\* An id that was never generated is nowhere.
Unborn == \A n \in Node \ born : nodes[n] = None /\ db[n] = None

IInv == TypeOK /\ Owned /\ IndexExact /\ Gone /\ Unborn /\ NoOrphanSamples

LEMMA InitIInv == Init => IInv
  BY RegistryAssumption
  DEF Init, IInv, TypeOK, Owned, IndexExact, Gone, Unborn, NoOrphanSamples

LEMMA CountedNat ==
    ASSUME TypeOK, NEW o \in Outcomes, Counted(o)
    PROVE  losses' \in Nat
  BY DEF TypeOK, Counted

LEMMA CreateIInv ==
    ASSUME IInv, NEW n \in Node, NEW t \in Token, NEW o \in Outcomes,
           CreateNode(n, t, o)
    PROVE  IInv'
<1>1. TypeOK /\ up /\ n \notin born /\ owner[t] = None
  BY DEF IInv, CreateNode, FreshToken
<1>2. losses' \in Nat
  BY <1>1, CountedNat DEF CreateNode, Saved
<1>3. /\ db' = db \/ db' = [db EXCEPT ![n] = t]
      /\ up' = up /\ samples' = samples /\ revoked' = revoked
      /\ crashes' = crashes
      /\ born' = born \cup {n} /\ owner' = [owner EXCEPT ![t] = n]
      /\ \/ /\ nodes' = [nodes EXCEPT ![n] = t]
            /\ tokenNodes' = [tokenNodes EXCEPT ![t] = n]
            /\ issued' = [issued EXCEPT ![n] = t]
         \/ UNCHANGED <<nodes, tokenNodes, issued>>
  BY DEF CreateNode, Saved
<1>4. nodes[n] = None /\ db[n] = None
  BY <1>1 DEF IInv, Unborn
<1>5. TypeOK'
  BY <1>1, <1>2, <1>3 DEF TypeOK
<1>6. Owned'
  BY <1>1, <1>3, RegistryAssumption DEF IInv, TypeOK, Owned
<1>7. IndexExact'
  <2>1. \A m \in Node : nodes[m] # t
    BY <1>1, RegistryAssumption DEF IInv, Owned, TypeOK
  <2>2. \A s \in Token : tokenNodes[s] # n
    BY <1>1, <1>4, RegistryAssumption DEF IInv, IndexExact, TypeOK
  <2> QED  BY <1>1, <1>3, <1>4, <2>1, <2>2 DEF IInv, IndexExact, TypeOK
<1>8. Gone'
  BY <1>1, <1>3, RegistryAssumption DEF IInv, TypeOK, Gone
<1>9. Unborn'
  BY <1>1, <1>3 DEF IInv, TypeOK, Unborn
<1>10. NoOrphanSamples'
  BY <1>1, <1>3, RegistryAssumption DEF IInv, TypeOK, NoOrphanSamples
<1> QED  BY <1>5, <1>6, <1>7, <1>8, <1>9, <1>10 DEF IInv

\* Writing the in-memory record of a known node as it is, with or without a
\* sample of it.
LEMMA SaveIInv ==
    ASSUME IInv, up, NEW n \in Node, nodes[n] # None,
           db' = db \/ db' = [db EXCEPT ![n] = nodes[n]],
           samples' = samples
             \/ (samples' = samples \cup {n} /\ db' # db)
             \/ (samples' = samples \cup {n} /\ db[n] = nodes[n]),
           losses' \in Nat,
           UNCHANGED <<up, nodes, tokenNodes, owner, born, issued, revoked,
                       crashes>>
    PROVE  IInv'
<1>1. TypeOK'
  BY DEF IInv, TypeOK
<1>2. Owned'
  BY DEF IInv, TypeOK, Owned
<1>3. IndexExact'
  BY DEF IInv, IndexExact
<1>4. Gone'
  BY DEF IInv, TypeOK, Gone
<1>5. Unborn'
  BY DEF IInv, TypeOK, Unborn
<1>6. NoOrphanSamples'
  BY DEF IInv, TypeOK, NoOrphanSamples
<1> QED  BY <1>1, <1>2, <1>3, <1>4, <1>5, <1>6 DEF IInv

LEMMA RotateIInv ==
    ASSUME IInv, NEW n \in Node, NEW t \in Token, NEW o \in Outcomes,
           RotateToken(n, t, o)
    PROVE  IInv'
<1>1. /\ TypeOK /\ up /\ nodes[n] # None /\ owner[t] = None
      /\ nodes[n] \in Token
  BY DEF IInv, TypeOK, RotateToken, Known, FreshToken
<1>2. losses' \in Nat
  BY <1>1, CountedNat DEF RotateToken, Saved
<1>3. /\ up' = up /\ samples' = samples /\ born' = born /\ crashes' = crashes
      /\ owner' = [owner EXCEPT ![t] = n]
      /\ \/ /\ db' = [db EXCEPT ![n] = t]
            /\ nodes' = [nodes EXCEPT ![n] = t]
            /\ tokenNodes' = [tokenNodes EXCEPT ![nodes[n]] = None, ![t] = n]
            /\ issued' = [issued EXCEPT ![n] = t]
            /\ revoked' = revoked \cup {nodes[n]}
         \/ /\ db' = db \/ db' = [db EXCEPT ![n] = t]
            /\ UNCHANGED <<nodes, tokenNodes, issued, revoked>>
  BY DEF RotateToken, Saved, Reindexed
<1>4. /\ n \in born
      /\ \A m \in Node : nodes[m] # t /\ db[m] # t
      /\ \A m \in Node : nodes[m] = nodes[n] => m = n
      /\ \A m \in Node : db[m] = nodes[n] => m = n
  BY <1>1, RegistryAssumption DEF IInv, TypeOK, Owned, Unborn
<1>5. TypeOK'
  BY <1>1, <1>2, <1>3 DEF TypeOK
<1>6. Owned'
  BY <1>1, <1>3, <1>4, RegistryAssumption DEF IInv, TypeOK, Owned
<1>7. IndexExact'
  BY <1>1, <1>3, <1>4, RegistryAssumption DEF IInv, TypeOK, IndexExact
<1>8. Gone'
  <2>1. owner[nodes[n]] = n /\ n # None
    BY <1>1, RegistryAssumption DEF IInv, Owned
  <2>2. \A s \in revoked \cup {nodes[n]} : owner'[s] # None
    BY <1>1, <1>3, <2>1, RegistryAssumption DEF IInv, Gone, TypeOK
  <2>3. \A s \in revoked : s # t
    BY <1>1 DEF IInv, Gone
  <2>4. \A s \in revoked', m \in Node : db'[m] # s /\ nodes'[m] # s
    BY <1>1, <1>3, <1>4, <2>3 DEF IInv, Gone, TypeOK
  <2> QED  BY <1>3, <2>2, <2>4 DEF Gone
<1>9. Unborn'
  BY <1>1, <1>3, <1>4 DEF IInv, TypeOK, Unborn
<1>10. NoOrphanSamples'
  BY <1>1, <1>3, RegistryAssumption DEF IInv, TypeOK, NoOrphanSamples
<1> QED  BY <1>5, <1>6, <1>7, <1>8, <1>9, <1>10 DEF IInv

LEMMA DeleteIInv ==
    ASSUME IInv, NEW n \in Node, NEW o \in Outcomes, DeleteNode(n, o)
    PROVE  IInv'
<1>1. TypeOK /\ up /\ nodes[n] # None /\ nodes[n] \in Token
  BY DEF IInv, TypeOK, DeleteNode, Known
<1>2. losses' \in Nat
  BY <1>1, CountedNat DEF DeleteNode, Deleted
<1>3. /\ up' = up /\ owner' = owner /\ born' = born /\ crashes' = crashes
      /\ \/ /\ db' = [db EXCEPT ![n] = None] /\ samples' = samples \ {n}
            /\ nodes' = [nodes EXCEPT ![n] = None]
            /\ tokenNodes' = [tokenNodes EXCEPT ![nodes[n]] = None]
            /\ issued' = [issued EXCEPT ![n] = None]
            /\ revoked' = revoked \cup {nodes[n]}
         \/ /\ \/ db' = db /\ samples' = samples
               \/ db' = [db EXCEPT ![n] = None] /\ samples' = samples \ {n}
            /\ UNCHANGED <<nodes, tokenNodes, issued, revoked>>
  BY DEF DeleteNode, Deleted
<1>4. /\ \A m \in Node : nodes[m] = nodes[n] => m = n
      /\ \A m \in Node : db[m] = nodes[n] => m = n
  BY <1>1, RegistryAssumption DEF IInv, TypeOK, Owned
<1>5. TypeOK'
  BY <1>1, <1>2, <1>3 DEF TypeOK
<1>6. Owned'
  BY <1>1, <1>3 DEF IInv, TypeOK, Owned
<1>7. IndexExact'
  BY <1>1, <1>3, <1>4, RegistryAssumption DEF IInv, TypeOK, IndexExact
<1>8. Gone'
  <2>1. owner[nodes[n]] # None
    BY <1>1, RegistryAssumption DEF IInv, Owned
  <2>2. \A s \in revoked', m \in Node : db'[m] # s /\ nodes'[m] # s
    BY <1>1, <1>3, <1>4, RegistryAssumption DEF IInv, Gone, TypeOK
  <2> QED  BY <1>3, <2>1, <2>2 DEF IInv, Gone
<1>9. Unborn'
  BY <1>1, <1>3 DEF IInv, TypeOK, Unborn
<1>10. NoOrphanSamples'
  BY <1>1, <1>3 DEF IInv, TypeOK, NoOrphanSamples
<1> QED  BY <1>5, <1>6, <1>7, <1>8, <1>9, <1>10 DEF IInv

LEMMA StartIInv == IInv /\ Start => IInv'
<1> SUFFICES ASSUME IInv, Start PROVE IInv'
  OBVIOUS
<1>1. /\ TypeOK /\ up' = TRUE /\ nodes' = db /\ tokenNodes' = IndexOf(db)
      /\ UNCHANGED <<db, samples, owner, born, issued, revoked, crashes,
                     losses>>
  BY DEF IInv, Start
<1>2. ASSUME NEW t \in Token
      PROVE  /\ IndexOf(db)[t] \in Node \cup {None}
             /\ \A n \in Node : IndexOf(db)[t] = n <=> db[n] = t
  <2>1. CASE \E n \in Node : db[n] = t
    <3>1. PICK n \in Node : db[n] = t
      BY <2>1
    <3>2. IndexOf(db)[t] \in Node /\ db[IndexOf(db)[t]] = t
      BY <2>1 DEF IndexOf
    <3>3. \A m \in Node : db[m] = t => owner[t] = m
      BY RegistryAssumption DEF IInv, Owned
    <3> QED  BY <3>1, <3>2, <3>3
  <2>2. CASE ~\E n \in Node : db[n] = t
    <3>1. IndexOf(db)[t] = None
      BY <2>2 DEF IndexOf
    <3> QED  BY <2>2, <3>1, RegistryAssumption
  <2> QED  BY <2>1, <2>2
<1>3. IndexOf(db) \in [Token -> Node \cup {None}]
  BY <1>2 DEF IndexOf
<1>4. TypeOK'
  BY <1>1, <1>3 DEF TypeOK
<1>5. IndexExact'
  BY <1>1, <1>2 DEF IndexExact
<1>6. Owned' /\ Gone' /\ Unborn' /\ NoOrphanSamples'
  BY <1>1 DEF IInv, Owned, Gone, Unborn, NoOrphanSamples
<1> QED  BY <1>4, <1>5, <1>6 DEF IInv

LEMMA IngestedIInv ==
    ASSUME IInv, up, NEW n \in Node, nodes[n] # None, NEW o \in Outcomes,
           Ingested(n, o)
    PROVE  IInv'
<1>1. losses' \in Nat
  BY CountedNat DEF Ingested, Saved, IInv
<1>2. UNCHANGED <<up, nodes, tokenNodes, owner, born, issued, revoked, crashes>>
  BY DEF Ingested
<1>3. CASE o = "error"
  BY <1>1, <1>2, <1>3, SaveIInv DEF Ingested, Saved
<1>4. CASE o # "error"
  <2>1. /\ db' = [db EXCEPT ![n] = nodes[n]]
        /\ samples' = samples \cup {n}
    BY <1>4 DEF Ingested, Saved
  <2>2. db' # db \/ db[n] = nodes[n]
    BY <2>1 DEF IInv, TypeOK
  <2> QED  BY <1>1, <1>2, <2>1, <2>2, SaveIInv
<1> QED  BY <1>3, <1>4

LEMMA SaveNodeIInv ==
    ASSUME IInv, NEW n \in Node, NEW o \in Outcomes, SaveNode(n, o)
    PROVE  IInv'
<1>1. losses' \in Nat
  BY CountedNat DEF SaveNode, Saved, IInv
<1> QED  BY <1>1, SaveIInv DEF SaveNode, Saved, Known

LEMMA StepIInv == IInv /\ [Next]_vars => IInv'
<1> SUFFICES ASSUME IInv, [Next]_vars PROVE IInv'
  OBVIOUS
<1>1. ASSUME NEW n \in Node, NEW t \in Token, NEW o \in Outcomes,
             \/ CreateNode(n, t, o) \/ RotateToken(n, t, o)
             \/ IngestFor(n, t, o)
      PROVE  IInv'
  <2>1. CASE IngestFor(n, t, o)
    BY <2>1, IngestedIInv DEF IngestFor, AcceptsFor, Known
  <2> QED  BY <1>1, <2>1, CreateIInv, RotateIInv
<1>2. ASSUME NEW n \in Node, NEW o \in Outcomes,
             SaveNode(n, o) \/ DeleteNode(n, o)
      PROVE  IInv'
  BY <1>2, SaveNodeIInv, DeleteIInv
<1>3. ASSUME NEW t \in Token, NEW o \in Outcomes, IngestAlone(t, o)
      PROVE  IInv'
  <2>1. up /\ tokenNodes[t] \in Node /\ nodes[tokenNodes[t]] # None
    BY <1>3 DEF IngestAlone, AcceptsAlone, AcceptsFor, Known, IInv, TypeOK
  <2> QED  BY <1>3, <2>1, IngestedIInv DEF IngestAlone
<1>4. CASE Crash
  <2>1. crashes' \in Nat /\ up' = FALSE
    BY <1>4 DEF Crash, IInv, TypeOK
  <2>2. UNCHANGED <<nodes, tokenNodes, db, samples, owner, born, issued,
                    revoked, losses>>
    BY <1>4 DEF Crash
  <2>3. TypeOK'
    BY <2>1, <2>2 DEF IInv, TypeOK
  <2> QED
    BY <2>1, <2>2, <2>3
    DEF IInv, Owned, IndexExact, Gone, Unborn, NoOrphanSamples
<1>5. CASE Start
  BY <1>5, StartIInv
<1>6. CASE UNCHANGED vars
  BY <1>6
  DEF vars, IInv, TypeOK, Owned, IndexExact, Gone, Unborn, NoOrphanSamples
<1> QED  BY <1>1, <1>2, <1>3, <1>4, <1>5, <1>6 DEF Next

LEMMA Invariance == Spec => []IInv
<1> QED  BY InitIInv, StepIInv, PTL DEF Spec

\* Every variable stays in its domain.
THEOREM TypeCorrect == Spec => []TypeOK
<1>1. IInv => TypeOK
  BY DEF IInv
<1> QED  BY <1>1, Invariance, PTL

\* The token index of a running server is the inverse of its records.
THEOREM IndexIsExact == Spec => []IndexExact
<1>1. IInv => IndexExact
  BY DEF IInv
<1> QED  BY <1>1, Invariance, PTL

\* A token that was replaced, or whose node was deleted, is refused for ever,
\* whatever writes fail or lose their answers and however often the server
\* restarts.
THEOREM RevocationIsFinal == Spec => []RevokedIsRefused
<1>1. IInv => RevokedIsRefused
  BY DEF IInv, TypeOK, Gone, RevokedIsRefused, AcceptsFor, AcceptsAlone
<1> QED  BY <1>1, Invariance, PTL

\* A deleted node leaves no samples behind.
THEOREM SamplesHaveNodes == Spec => []NoOrphanSamples
<1>1. IInv => NoOrphanSamples
  BY DEF IInv
<1> QED  BY <1>1, Invariance, PTL

-----------------------------------------------------------------------------
(* As long as no answer of the database was lost. *)

\* The token last given out is the one in the table and in memory.
IssuedKept ==
    losses = 0 => \A n \in Node : issued[n] # None =>
        db[n] = issued[n] /\ (up => nodes[n] = issued[n])

\* A write that is counted and loses nothing is seen as it was.
LEMMA NoneLost ==
    ASSUME TypeOK, NEW o \in Outcomes, Counted(o), losses' = 0
    PROVE  losses = 0 /\ (o = "ok" \/ o = "error")
  BY RegistryAssumption DEF TypeOK, Counted

LEMMA StepIssued == IInv /\ IssuedKept /\ [Next]_vars => IssuedKept'
<1> SUFFICES ASSUME IInv, IssuedKept, [Next]_vars, losses' = 0
             PROVE  IssuedKept'
  BY DEF IssuedKept
<1>1. TypeOK
  BY DEF IInv
<1>2. ASSUME NEW n \in Node, NEW t \in Token, NEW o \in Outcomes,
             CreateNode(n, t, o) \/ RotateToken(n, t, o)
      PROVE  IssuedKept'
  <2>1. losses = 0 /\ (o = "ok" \/ o = "error")
    BY <1>1, <1>2, NoneLost DEF CreateNode, RotateToken, Saved
  <2>2. \/ /\ db' = [db EXCEPT ![n] = t]
           /\ nodes' = [nodes EXCEPT ![n] = t]
           /\ issued' = [issued EXCEPT ![n] = t]
           /\ up' = up
        \/ UNCHANGED <<db, nodes, issued, up>>
    BY <1>2, <2>1 DEF CreateNode, RotateToken, Saved
  <2> QED  BY <1>1, <2>1, <2>2 DEF TypeOK, IssuedKept
<1>3. ASSUME NEW n \in Node, NEW o \in Outcomes, Counted(o), up,
             \/ db' = db \/ db' = [db EXCEPT ![n] = nodes[n]],
             UNCHANGED <<nodes, issued, up>>
      PROVE  IssuedKept'
  BY <1>1, <1>3, NoneLost DEF TypeOK, IssuedKept
<1>4. ASSUME NEW n \in Node, NEW o \in Outcomes, SaveNode(n, o)
      PROVE  IssuedKept'
  BY <1>3, <1>4 DEF SaveNode, Saved
<1>5. ASSUME NEW n \in Node, NEW t \in Token, NEW o \in Outcomes,
             IngestFor(n, t, o)
      PROVE  IssuedKept'
  BY <1>3, <1>5 DEF IngestFor, Ingested, Saved
<1>6. ASSUME NEW t \in Token, NEW o \in Outcomes, IngestAlone(t, o)
      PROVE  IssuedKept'
  <2>1. tokenNodes[t] \in Node
    BY <1>1, <1>6 DEF IngestAlone, AcceptsAlone, TypeOK
  <2> QED  BY <1>3, <1>6, <2>1 DEF IngestAlone, Ingested, Saved
<1>7. ASSUME NEW n \in Node, NEW o \in Outcomes, DeleteNode(n, o)
      PROVE  IssuedKept'
  <2>1. losses = 0 /\ (o = "ok" \/ o = "error")
    BY <1>1, <1>7, NoneLost DEF DeleteNode, Deleted
  <2>2. \/ /\ db' = [db EXCEPT ![n] = None]
           /\ nodes' = [nodes EXCEPT ![n] = None]
           /\ issued' = [issued EXCEPT ![n] = None]
           /\ up' = up
        \/ UNCHANGED <<db, nodes, issued, up>>
    BY <1>7, <2>1 DEF DeleteNode, Deleted
  <2> QED  BY <1>1, <2>1, <2>2 DEF TypeOK, IssuedKept
<1>8. CASE Crash
  BY <1>8 DEF Crash, IssuedKept
<1>9. CASE Start
  BY <1>9 DEF Start, IssuedKept
<1>10. CASE UNCHANGED vars
  BY <1>10 DEF vars, IssuedKept
<1> QED
  BY <1>2, <1>4, <1>5, <1>6, <1>7, <1>8, <1>9, <1>10 DEF Next

\* The token an administrator was last given works, on both routes and after
\* any restart, unless the answer of a commit was lost.
THEOREM IssuedWorks == Spec => []IssuedIsAccepted
<1>1. Init => IssuedKept
  BY DEF Init, IssuedKept
<1>2. IInv /\ IssuedKept /\ [Next]_vars => IssuedKept'
  BY StepIssued
<1>3. IInv /\ IssuedKept => IssuedIsAccepted
  <2> SUFFICES ASSUME IInv, IssuedKept, losses = 0, NEW n \in Node,
                      issued[n] # None
               PROVE  /\ db[n] = issued[n]
                      /\ up => /\ AcceptsFor(n, issued[n])
                               /\ AcceptsAlone(issued[n])
    BY DEF IssuedIsAccepted
  <2>1. issued[n] \in Token
    BY DEF IInv, TypeOK
  <2>2. up => AcceptsFor(n, issued[n])
    BY DEF IssuedKept, AcceptsFor, Known
  <2>3. up => tokenNodes[issued[n]] = n
    BY <2>1 DEF IssuedKept, IInv, IndexExact
  <2>4. n # None
    BY RegistryAssumption
  <2> QED  BY <2>2, <2>3, <2>4 DEF IssuedKept, AcceptsAlone
<1> QED  BY <1>1, <1>2, <1>3, Invariance, PTL DEF Spec
=============================================================================
