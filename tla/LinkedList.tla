----------------------------- MODULE LinkedList -----------------------------
(***************************************************************************)
(* infra_list of ppdb/src/internal/infra/infra_ds.c, a doubly linked list. *)
(* A node may be removed by whoever has found it; that it is a node of     *)
(* this list is the caller's promise.  The values are left out.            *)
(***************************************************************************)
EXTENDS Elements, Naturals, Sequences, SequencesExt

VARIABLES
  node,  \* next and prev of each node that is allocated
  head, tail, length,
  order  \* the nodes appended and not removed, as the callers know them

list_vars == <<node, head, tail, length, order>>

ListTypeOK ==
  /\ DOMAIN node \subseteq Nodes
  /\ node \in [DOMAIN node -> [next : Pointer, prev : Pointer]]
  /\ {head, tail} \subseteq Pointer
  /\ length \in Nat
  /\ order \in Seq(Nodes)

ListInit == node = <<>> /\ head = Null /\ tail = Null /\ length = 0 /\ order = <<>>

\* infra_list_append with the memory n.
AppendNode(n) ==
  LET new == [next |-> Null, prev |-> tail]
  IN  /\ n \notin DOMAIN node
      /\ node' = [m \in DOMAIN node \cup {n} |->
                    IF m = n THEN new
                    ELSE IF m = tail THEN [node[m] EXCEPT !.next = n] ELSE node[m]]
      /\ tail' = n
      /\ head' = IF head = Null THEN n ELSE head
      /\ length' = length + 1
      /\ order' = Append(order, n)

\* What the node's neighbours say of each other once it is bypassed.
\* Faulty: the one behind still points back to it.
BypassForward(n) ==
  [m \in DOMAIN node \ {n} |->
     [next |-> IF m = node[n].prev THEN node[n].next ELSE node[m].next,
      prev |-> node[m].prev]]

Bypass(n) ==
  [m \in DOMAIN node \ {n} |->
     [next |-> IF m = node[n].prev THEN node[n].next ELSE node[m].next,
      prev |-> IF m = node[n].next THEN node[n].prev ELSE node[m].prev]]

\* infra_list_remove, which frees the node.
RemoveNode(n) ==
  /\ n \in DOMAIN node
  /\ node' = Bypass(n)
  /\ head' = IF node[n].prev = Null THEN node[n].next ELSE head
  /\ tail' = IF node[n].next = Null THEN node[n].prev ELSE tail
  /\ length' = length - 1
  /\ order' = RemoveFirst(order, n)

ListNext == \E n \in Nodes : AppendNode(n) \/ RemoveNode(n)

ListSpec == ListInit /\ [][ListNext]_list_vars

-----------------------------------------------------------------------------
\* The node at a place of the order; beyond either end there is none.
NodeAt(i) == IF i \in DOMAIN order THEN order[i] ELSE Null

\* Whatever node is removed, the links spell the order of the callers either
\* way: every allocated node is met once, in the order of the appends, and
\* length counts them, so no node is lost, or freed while the list still points
\* to it (infra_list_append, infra_list_remove).
ListLinksAgree ==
  /\ ToSet(order) = DOMAIN node
  /\ \A i, j \in DOMAIN order : order[i] = order[j] => i = j
  /\ \A i \in DOMAIN order : node[order[i]] = [next |-> NodeAt(i + 1), prev |-> NodeAt(i - 1)]
  /\ head = NodeAt(1) /\ tail = NodeAt(Len(order)) /\ length = Len(order)
=============================================================================
