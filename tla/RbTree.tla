------------------------------- MODULE RbTree -------------------------------
(***************************************************************************)
(* infra_rbtree of ppdb/src/internal/infra/infra_ds.c, with its nodes,     *)
(* parent pointers, rotations and the two repairs.  A call is a sequence   *)
(* of steps: a turn of one of its loops each, or the part of a turn up to  *)
(* the next rotation.  The caller's promise is to be alone, so that no     *)
(* call begins before the last one has returned.  A call that finds no     *)
(* memory changes nothing and is left out.                                 *)
(*                                                                         *)
(* Left and right are sides, so that the two halves of each function,      *)
(* which mirror one another in the code, are one definition.               *)
(***************************************************************************)
EXTENDS Elements, Integers, FiniteSets

CONSTANTS
  Keys,  \* ints
  Puts   \* the pairs of a key and a value that are ever inserted

ASSUME TreeAssumption == Keys \subseteq Int /\ Puts \subseteq Keys \X Values

VARIABLES
  links,              \* the root, and parent, left and right of each node
  key, value, color,  \* the other fields
  allocated,
  tree_size,
  call,        \* where the call is, its arguments and its local variables
  tree_reply,  \* what the last call returned, if a find or remove
  unfixed,     \* a black leaf has been removed from this tree
  crashed      \* a null pointer has been followed

tree_vars ==
  <<links, key, value, color, allocated, tree_size, call, tree_reply, unfixed, crashed>>

Sides == {"left", "right"}
Other(side) == IF side = "left" THEN "right" ELSE "left"

Links == [root : Pointer, parent : [Nodes -> Pointer], child : [Nodes -> [Sides -> Pointer]]]

\* On their way down: infra_rbtree_insert, _find and _remove.
Descending == {"insert", "find", "remove"}
\* At the start of a turn of fix_insert, and before its last rotation.
Inserting == {"mend", "raise"}
\* The same for fix_delete: a red sibling has been dealt with, and a red near
\* nephew too.
Deleting == {"delete", "nephews", "turn"}

\* node is the node that the call has come to.  other is the one above it on
\* the way down, then the one whose key is removed, then the one to be freed.
\* value is the value to insert, or that will be returned.
Idle == [at |-> "idle"]
Calls == {Idle} \cup
  [at : Descending \cup {"successor"} \cup Inserting \cup Deleting, key : Keys,
   value : Values \cup {None}, node : Pointer, other : Pointer]

TreeTypeOK ==
  /\ links \in Links
  /\ key \in [Nodes -> Int] /\ value \in [Nodes -> Values \cup {None}]
  /\ color \in [Nodes -> {"red", "black"}]
  /\ allocated \in SUBSET Nodes
  /\ tree_size \in Nat /\ call \in Calls
  /\ tree_reply \in Values \cup {None}
  /\ unfixed \in BOOLEAN /\ crashed \in BOOLEAN

TreeInit ==
  /\ links = [root |-> Null, parent |-> [n \in Nodes |-> Null],
              child |-> [n \in Nodes |-> [side \in Sides |-> Null]]]
  /\ key = [n \in Nodes |-> 0] /\ value = [n \in Nodes |-> None]
  /\ color = [n \in Nodes |-> "red"]
  /\ allocated = {} /\ tree_size = 0
  /\ call = Idle /\ tree_reply = None
  /\ unfixed = FALSE /\ crashed = FALSE

-----------------------------------------------------------------------------
Parent(n) == links.parent[n]
Child(n, side) == links.child[n][side]
SideOf(n) == IF Child(Parent(n), "left") = n THEN "left" ELSE "right"
Sibling(n) == Child(Parent(n), Other(SideOf(n)))
IsRed(n) == n # Null /\ color[n] = "red"
Toward(k, n) == IF k < key[n] THEN "left" ELSE "right"

\* Faulty: the grandchild that changes sides keeps its old parent.
RotatedWithoutAdoption(n, side) ==
  LET up == Child(n, Other(side))
      inner == Child(up, side)
      top == Parent(n)
  IN  [root |-> IF top = Null THEN up ELSE links.root,
       parent |-> [m \in Nodes |-> CASE m = up -> top [] m = n -> up
                                     [] OTHER -> Parent(m)],
       child |-> [m \in Nodes |-> [s \in Sides |->
                    CASE m = up /\ s = side -> n [] m = n /\ s = Other(side) -> inner
                      [] m = top /\ s = SideOf(n) -> up [] OTHER -> Child(m, s)]]]

\* n goes down to its `side`, and the child on its other side comes up.
Rotated(n, side) ==
  LET up == Child(n, Other(side))
      inner == Child(up, side)
      top == Parent(n)
  IN  [root |-> IF top = Null THEN up ELSE links.root,
       parent |-> [m \in Nodes |-> CASE m = up -> top [] m = n -> up [] m = inner -> n
                                     [] OTHER -> Parent(m)],
       child |-> [m \in Nodes |-> [s \in Sides |->
                    CASE m = up /\ s = side -> n [] m = n /\ s = Other(side) -> inner
                      [] m = top /\ s = SideOf(n) -> up [] OTHER -> Child(m, s)]]]

Return(answer) == call' = Idle /\ tree_reply' = answer

\* The tree stays as it is.
Still == UNCHANGED <<links, key, value, color, allocated, tree_size, unfixed, crashed>>

-----------------------------------------------------------------------------
Start(op, k, v) ==
  /\ call = Idle
  /\ call' = [at |-> op, key |-> k, value |-> v, node |-> links.root, other |-> Null]
  /\ Still /\ UNCHANGED tree_reply

\* infra_rbtree_insert asks for memory first.
Insert(k, v) == allocated # Nodes /\ Start("insert", k, v)

Descend ==
  /\ call.at \in Descending /\ call.node # Null /\ key[call.node] # call.key
  /\ call' = [call EXCEPT !.node = Child(call.node, Toward(call.key, call.node)),
                          !.other = call.node]
  /\ Still /\ UNCHANGED tree_reply

Arrived(op) == call.at = op /\ call.node # Null /\ key[call.node] = call.key
Missed(op) == call.at = op /\ call.node = Null

\* The key is there already: the value is replaced and the new node freed.
Update ==
  /\ Arrived("insert")
  /\ value' = [value EXCEPT ![call.node] = call.value]
  /\ Return(None)
  /\ UNCHANGED <<links, key, color, allocated, tree_size, unfixed, crashed>>

\* The new node n is linked below the one at which the descent has ended.
Hang(n) ==
  /\ Missed("insert") /\ n \notin allocated
  /\ allocated' = allocated \cup {n}
  /\ key' = [key EXCEPT ![n] = call.key] /\ value' = [value EXCEPT ![n] = call.value]
  /\ color' = [color EXCEPT ![n] = "red"]
  /\ LET p == call.other
     IN  links' = [root |-> IF p = Null THEN n ELSE links.root,
                   parent |-> [links.parent EXCEPT ![n] = p],
                   child |-> [m \in Nodes |-> [s \in Sides |->
                     CASE m = n -> Null [] m = p /\ s = Toward(call.key, p) -> n
                       [] OTHER -> Child(m, s)]]]
  /\ call' = [call EXCEPT !.at = "mend", !.node = n]
  /\ UNCHANGED <<tree_size, tree_reply, unfixed, crashed>>

Find == Arrived("find") /\ Return(value[call.node]) /\ Still
Miss == (Missed("find") \/ Missed("remove")) /\ Return(None) /\ Still

-----------------------------------------------------------------------------
(* fix_insert.                                                             *)

Mending == call.at = "mend" /\ call.node # links.root /\ IsRed(Parent(call.node))
Uncle == Sibling(Parent(call.node))

\* Faulty: only one of the two children of the grandparent turns black.
PushDownHalf ==
  /\ Mending /\ IsRed(Uncle)
  /\ LET p == Parent(call.node)
         g == Parent(p)
     IN  /\ color' = [color EXCEPT ![p] = "black", ![g] = "red"]
         /\ call' = [call EXCEPT !.node = g]
  /\ UNCHANGED <<links, key, value, allocated, tree_size, tree_reply, unfixed, crashed>>

\* Both children of the grandparent turn black, and the grandparent red.
PushDown ==
  /\ Mending /\ IsRed(Uncle)
  /\ LET p == Parent(call.node)
         g == Parent(p)
     IN  /\ color' = [color EXCEPT ![p] = "black", ![Uncle] = "black", ![g] = "red"]
         /\ call' = [call EXCEPT !.node = g]
  /\ UNCHANGED <<links, key, value, allocated, tree_size, tree_reply, unfixed, crashed>>

IsInner(n) == SideOf(n) # SideOf(Parent(n))

TurnOutward ==
  /\ Mending /\ ~IsRed(Uncle) /\ IsInner(call.node)
  /\ LET p == Parent(call.node)
     IN  /\ links' = Rotated(p, SideOf(p))
         /\ call' = [call EXCEPT !.at = "raise", !.node = p]
  /\ UNCHANGED <<key, value, color, allocated, tree_size, tree_reply, unfixed, crashed>>

Raise ==
  /\ call.at = "raise" \/ (Mending /\ ~IsRed(Uncle) /\ ~IsInner(call.node))
  /\ LET p == Parent(call.node)
         g == Parent(p)
     IN  /\ color' = [color EXCEPT ![p] = "black", ![g] = "red"]
         /\ links' = Rotated(g, Other(SideOf(p)))
  /\ call' = [call EXCEPT !.at = "mend"]
  /\ UNCHANGED <<key, value, allocated, tree_size, tree_reply, unfixed, crashed>>

Mended ==
  /\ call.at = "mend" /\ ~Mending
  /\ color' = [color EXCEPT ![links.root] = "black"]
  /\ tree_size' = tree_size + 1
  /\ Return(None)
  /\ UNCHANGED <<links, key, value, allocated, unfixed, crashed>>

-----------------------------------------------------------------------------
(* infra_rbtree_remove, from the node with the key on.                     *)

\* Of a node with two children the key's successor leaves in its stead.
FindSuccessor ==
  /\ Arrived("remove") /\ \A s \in Sides : Child(call.node, s) # Null
  /\ call' = [call EXCEPT !.at = "successor", !.value = value[call.node],
                          !.node = Child(call.node, "right"), !.other = call.node]
  /\ Still /\ UNCHANGED tree_reply

NextLeft ==
  /\ call.at = "successor" /\ Child(call.node, "left") # Null
  /\ call' = [call EXCEPT !.node = Child(call.node, "left")]
  /\ Still /\ UNCHANGED tree_reply

\* y is freed, and what was n's value returned.
Leave(y, answer) ==
  /\ allocated' = allocated \ {y} /\ tree_size' = tree_size - 1
  /\ Return(answer)

OnlyChild(y) == IF Child(y, "left") # Null THEN Child(y, "left") ELSE Child(y, "right")

\* Faulty: n gets y's key but keeps its own value.
TakeOverKey(n, y) == key' = [key EXCEPT ![n] = key[y]] /\ value' = value

TakeOver(n, y) == key' = [key EXCEPT ![n] = key[y]] /\ value' = [value EXCEPT ![n] = value[y]]

\* y makes room for its child, and n gets its key and value.  There is no
\* repair when a black leaf leaves.
Splice(n, y, answer) ==
  LET x == OnlyChild(y)
      p == Parent(y)
  IN  /\ links' = [root |-> IF p = Null THEN x ELSE links.root,
                   parent |-> [m \in Nodes |-> IF m = x THEN p ELSE Parent(m)],
                   child |-> [m \in Nodes |-> [s \in Sides |->
                     IF m = p /\ s = SideOf(y) THEN x ELSE Child(m, s)]]]
      /\ TakeOver(n, y)
      /\ unfixed' = (links'.root # Null /\ (unfixed \/ (~IsRed(y) /\ x = Null)))
      /\ IF IsRed(y) \/ x = Null THEN Leave(y, answer)
         ELSE /\ call' = [call EXCEPT !.at = "delete", !.value = answer, !.node = x, !.other = y]
              /\ UNCHANGED <<allocated, tree_size, tree_reply>>
      /\ UNCHANGED <<color, crashed>>

RemoveSuccessor ==
  /\ call.at = "successor" /\ Child(call.node, "left") = Null
  /\ Splice(call.other, call.node, call.value)

RemoveFound ==
  /\ Arrived("remove") /\ \E s \in Sides : Child(call.node, s) = Null
  /\ Splice(call.node, call.node, value[call.node])

-----------------------------------------------------------------------------
(* fix_delete takes for granted that a black node other than the root has a *)
(* sibling with two children.                                               *)

Fixing == call.at = "delete" /\ call.node # links.root /\ ~IsRed(call.node)

RedSibling ==
  /\ Fixing /\ IsRed(Sibling(call.node))
  /\ LET p == Parent(call.node)
     IN  /\ color' = [color EXCEPT ![Sibling(call.node)] = "black", ![p] = "red"]
         /\ links' = Rotated(p, SideOf(call.node))
  /\ call' = [call EXCEPT !.at = "nephews"]
  /\ UNCHANGED <<key, value, allocated, tree_size, tree_reply, unfixed, crashed>>

AtNephews == call.at = "nephews" \/ (Fixing /\ ~IsRed(Sibling(call.node)))
Near == Child(Sibling(call.node), SideOf(call.node))
Far == Child(Sibling(call.node), Other(SideOf(call.node)))

NephewsThere == Sibling(call.node) # Null /\ Near # Null /\ Far # Null

\* A sibling or nephew is looked at that is not there.
Crash ==
  /\ AtNephews /\ ~NephewsThere
  /\ crashed' = TRUE
  /\ UNCHANGED <<links, key, value, color, allocated, tree_size, call, tree_reply, unfixed>>

BothBlack ==
  /\ AtNephews /\ NephewsThere /\ ~IsRed(Near) /\ ~IsRed(Far)
  /\ color' = [color EXCEPT ![Sibling(call.node)] = "red"]
  /\ call' = [call EXCEPT !.at = "delete", !.node = Parent(call.node)]
  /\ UNCHANGED <<links, key, value, allocated, tree_size, tree_reply, unfixed, crashed>>

NearRed ==
  /\ AtNephews /\ NephewsThere /\ IsRed(Near) /\ ~IsRed(Far)
  /\ color' = [color EXCEPT ![Near] = "black", ![Sibling(call.node)] = "red"]
  /\ links' = Rotated(Sibling(call.node), Other(SideOf(call.node)))
  /\ call' = [call EXCEPT !.at = "turn"]
  /\ UNCHANGED <<key, value, allocated, tree_size, tree_reply, unfixed, crashed>>

FarRed ==
  /\ call.at = "turn" \/ (AtNephews /\ NephewsThere /\ IsRed(Far))
  /\ LET p == Parent(call.node)
     IN  /\ color' = [color EXCEPT ![Sibling(call.node)] = color[p], ![p] = "black",
                                   ![Far] = "black"]
         /\ links' = Rotated(p, SideOf(call.node))
  /\ call' = [call EXCEPT !.at = "delete", !.node = links'.root]
  /\ UNCHANGED <<key, value, allocated, tree_size, tree_reply, unfixed, crashed>>

Fixed ==
  /\ call.at = "delete" /\ ~Fixing
  /\ color' = [color EXCEPT ![call.node] = "black"]
  /\ Leave(call.other, call.value)
  /\ UNCHANGED <<links, key, value, unfixed, crashed>>

-----------------------------------------------------------------------------
\* infra_rbtree_clear frees the nodes below the root: all that are allocated
\* (TreeIsWellLinked).
Clear ==
  /\ call = Idle
  /\ links' = [links EXCEPT !.root = Null] /\ allocated' = {}
  /\ tree_size' = 0 /\ unfixed' = FALSE /\ Return(None)
  /\ UNCHANGED <<key, value, color, crashed>>

TreeNext ==
  /\ ~crashed
  /\ \/ \E p \in Puts : Insert(p[1], p[2])
     \/ \E k \in Keys, op \in {"find", "remove"} : Start(op, k, None)
     \/ Descend \/ Update \/ Find \/ Miss
     \/ \E n \in Nodes : Hang(n)
     \/ PushDown \/ TurnOutward \/ Raise \/ Mended
     \/ FindSuccessor \/ NextLeft \/ RemoveSuccessor \/ RemoveFound
     \/ RedSibling \/ Crash \/ BothBlack \/ NearRed \/ FarRed \/ Fixed
     \/ Clear

TreeSpec == TreeInit /\ [][TreeNext]_tree_vars

-----------------------------------------------------------------------------
\* The nodes that the tree is made of: one that is only to be freed is not.
InTree == IF call.at \in Deleting THEN allocated \ {call.other} ELSE allocated

\* What callers have asked for so far; a call that repairs the tree has changed
\* the map, but neither the size nor what it will return.
Holders(k) == {n \in InTree : key[n] = k}
Contents == [k \in Keys |-> IF Holders(k) = {} THEN None ELSE value[CHOOSE n \in Holders(k) : TRUE]]
SizeToBe ==
  CASE call.at \in Inserting -> tree_size + 1
    [] call.at \in Deleting -> tree_size - 1
    [] OTHER -> tree_size
ReplyToBe ==
  CASE call.at \in Inserting -> None
    [] call.at \in Deleting -> call.value
    [] OTHER -> tree_reply

\* However the tree is rotated, and whether or not it is balanced, find sees a
\* map that changes as the calls say, as long as the calls return
\* (infra_rbtree_insert, _find, _remove, _clear).
Tree == INSTANCE KeyValueMap WITH map <- Contents, size <- SizeToBe, reply <- ReplyToBe
TreeIsAMap == Tree!Spec

\* n and the nodes above it: what any part of the tree that has n and, with a
\* node, its parent has too.
Above(n) ==
  LET parts == {S \in SUBSET InTree : n \in S /\ \A x \in S : Parent(x) \in S \cup {Null}}
  IN  {m \in InTree : \A S \in parts : m \in S}

\* Rotations and removals keep the pointers in step: a node is the parent of its
\* children, every node of the tree but the root is the child of another, below
\* the root, and so none is lost and none is freed that the tree still points to.
TreeIsWellLinked ==
  /\ links.root = Null <=> InTree = {}
  /\ \A n \in InTree : \A s \in Sides : Child(n, s) # Null =>
       Child(n, s) \in InTree /\ Parent(Child(n, s)) = n
  /\ \A n \in InTree :
       /\ links.root \in Above(n)
       /\ IF n = links.root THEN Parent(n) = Null
          ELSE Parent(n) \in InTree /\ \E s \in Sides : Child(Parent(n), s) = n
  /\ SizeToBe = Cardinality(InTree)

BlacksAbove(n) == Cardinality({m \in Above(n) : ~IsRed(m)})
Ends == {n \in InTree : \E s \in Sides : Child(n, s) = Null}

\* Between calls the root is black and no red node has a red parent.  Until a
\* black leaf is removed, for which fix_delete is not called, the tree is also
\* balanced, except where fix_delete is about to repair it, and no call crashes.
TreeIsRedBlack ==
  /\ call = Idle => \A n \in InTree : IsRed(n) => n # links.root /\ ~IsRed(Parent(n))
  /\ ~unfixed /\ call.at # "delete" =>
       ~crashed /\ \A m, n \in {BlacksAbove(e) : e \in Ends} : m = n

\* infra_rbtree_remove returns ("Test removing elements" in test_struct.c).
TreeRemoveReturns == ~crashed
=============================================================================
