----------------------------- MODULE MCMigration -----------------------------
(* Small instances of Migration for TLC. *)
EXTENDS Migration, TLC

\* Not Default: Init tells it apart. Rows and ids are interchangeable.
Symmetry == Permutations(Database \ {Default}) \cup Permutations(Id)
=============================================================================
