----------------------------- MODULE KeyValueMap -----------------------------
(***************************************************************************)
(* What infra_hash and infra_rbtree (ppdb/src/internal/infra/infra_ds.c)   *)
(* promise their callers: a map from keys to values, with its size.        *)
(***************************************************************************)
EXTENDS Naturals, FiniteSets

CONSTANTS
  Keys,    \* strings for infra_hash, ints for infra_rbtree
  Values,  \* what a caller may store
  None     \* NULL

VARIABLES
  map,   \* the value of each key, None for a key that is absent
  size,  \* the member `size`, which callers read
  reply  \* the value that the last call returned, if it does return one

Present == {k \in Keys : map[k] # None}

Init == map = [k \in Keys |-> None] /\ size = 0 /\ reply = None

Put(k, v) ==
  /\ reply' = None
  /\ size' = Cardinality(Present \cup {k})
  /\ map' = [map EXCEPT ![k] = v]

Remove(k) ==
  /\ reply' = map[k]
  /\ size' = Cardinality(Present \ {k})
  /\ map' = [map EXCEPT ![k] = None]

Get(k) == reply' = map[k] /\ UNCHANGED <<map, size>>

Clear ==
  /\ reply' = None
  /\ size' = 0
  /\ map' = [k \in Keys |-> None]

Next ==
  \/ \E k \in Keys, v \in Values : Put(k, v)
  \/ \E k \in Keys : Remove(k) \/ Get(k)
  \/ Clear

Spec == Init /\ [][Next]_<<map, size, reply>>
=============================================================================
