-------------------------- MODULE MCDataStructures --------------------------
(* The three data structures of infra_ds.c.  They share nothing, so each is *)
(* explored by itself: a behaviour uses one of them.                        *)
EXTENDS HashTable, LinkedList, RbTree

VARIABLE in_use

\* Neighbouring keys come with different values, and one key with both.
ParityPuts == {<<k, v>> \in Keys \X Values : v = k % 2 \/ k = 3}

Init == TreeInit /\ HashInit /\ ListInit /\ in_use \in {"tree", "hash", "list"}

Next ==
  \/ /\ in_use = "tree" /\ TreeNext
     /\ UNCHANGED <<in_use, hash_vars, list_vars>>
  \/ /\ in_use = "hash" /\ HashNext
     /\ UNCHANGED <<in_use, tree_vars, list_vars>>
  \/ /\ in_use = "list" /\ ListNext
     /\ UNCHANGED <<in_use, tree_vars, hash_vars>>

Spec == Init /\ [][Next]_<<in_use, tree_vars, hash_vars, list_vars>>

\* A tree is told apart from another by its shape, not by where its nodes are,
\* and a call by the node of the shape that it has come to.  Nothing that a step
\* does depends on what the last call has returned.
RECURSIVE Shape(_, _)
Shape(n, steps) ==
  IF n = Null \/ steps = 0 THEN Null
  ELSE <<key[n], value[n], color[n], call # Idle /\ call.node = n, call # Idle /\ call.other = n,
         Shape(Child(n, "left"), steps - 1), Shape(Child(n, "right"), steps - 1)>>
CallSeen == IF call = Idle THEN call ELSE <<call.at, call.key, call.value, call.node = Null>>

\* Nor does it matter where in memory the entries of the table are.
RECURSIVE Spelt(_, _)
Spelt(e, steps) ==
  IF e = Null \/ steps = 0 THEN Null
  ELSE IF e \notin DOMAIN entry THEN "freed"
  ELSE <<entry[e].key, entry[e].value, walk # NoWalk /\ walk.entry = e, walk # NoWalk /\ walk.prev = e,
         Spelt(entry[e].next, steps - 1)>>
WalkSeen == IF walk = NoWalk THEN walk ELSE <<walk.op, walk.key, walk.value, walk.entry = Null, walk.prev = Null>>
TableSeen ==
  <<bucket_of, [b \in Buckets |-> Spelt(bucket[b], 7)], {[entry[e] EXCEPT !.next = Null] : e \in DOMAIN entry},
    Cardinality(DOMAIN entry), size, WalkSeen>>

Observed ==
  CASE in_use = "tree" ->
         <<Shape(links.root, 7), CallSeen, tree_size, unfixed, crashed>>
    [] in_use = "hash" -> TableSeen
    [] in_use = "list" -> list_vars

TypeOK == TreeTypeOK /\ HashTypeOK /\ ListTypeOK
=============================================================================
