------------------------------ MODULE Elements ------------------------------
(***************************************************************************)
(* What the data structures of ppdb/src/internal/infra/infra_ds.c are made *)
(* of: nodes in memory, and the values that callers store.                 *)
(***************************************************************************)
CONSTANTS
  Nodes,   \* the pieces of memory that can hold a node
  Null,    \* NULL for a node
  Values,  \* what a caller may store
  None     \* NULL for a value

\* That NULL is not stored is the caller's part, as get and find could not tell
\* it from nothing.
ASSUME ElementAssumption == Null \notin Nodes /\ None \notin Values

Pointer == Nodes \cup {Null}
=============================================================================
