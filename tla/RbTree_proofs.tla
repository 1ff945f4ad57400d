---------------------------- MODULE RbTree_proofs ----------------------------
(***************************************************************************)
(* Proofs about RbTree, for any number of nodes and any keys and values.   *)
(*                                                                         *)
(* What a tree is cannot be said by induction on its height here, so it is *)
(* said with a witness: sub gives for each node the set of nodes at or     *)
(* below it, and each node's set is made of its children's.  Rotating      *)
(* changes the sets of two nodes, an insertion puts the new node in those  *)
(* above it, and a removal takes one out of all.                           *)
(***************************************************************************)
EXTENDS RbTree, FiniteSetTheorems, WellFoundedInduction, TLAPS

Subs == [Nodes -> SUBSET Nodes]

\* The nodes below a pointer.
Sub(sub, n) == IF n = Null THEN {} ELSE sub[n]

Rooted(L, A, sub) ==
  /\ L.root \in A \cup {Null} /\ A = Sub(sub, L.root)
  /\ L.root # Null => L.parent[L.root] = Null

Linked(L, A) ==
  /\ \A n \in A, s \in Sides :
       L.child[n][s] # Null => L.child[n][s] \in A /\ L.parent[L.child[n][s]] = n
  /\ \A n \in A : n # L.root => L.parent[n] \in A /\ \E s \in Sides : L.child[L.parent[n]][s] = n

Split(L, A, sub) ==
  \A n \in A :
    /\ sub[n] = {n} \cup Sub(sub, L.child[n]["left"]) \cup Sub(sub, L.child[n]["right"])
    /\ Sub(sub, L.child[n]["left"]) \cap Sub(sub, L.child[n]["right"]) = {}
    /\ \A s \in Sides : n \notin Sub(sub, L.child[n][s])

Nested(L, A, sub) ==
  \A c \in A : \A x \in sub[c] : sub[x] \subseteq sub[c] /\ (x = c \/ L.parent[x] \in sub[c])

\* The pointers in L make a tree of the nodes in A.
IsTree(L, A, sub) == Rooted(L, A, sub) /\ Linked(L, A) /\ Split(L, A, sub) /\ Nested(L, A, sub)

-----------------------------------------------------------------------------
(* Trees.                                                                  *)

LEMMA NullIsNone == Null \notin Nodes
BY ElementAssumption

LEMMA SidesFacts ==
  ASSUME NEW s \in Sides
  PROVE  Other(s) \in Sides /\ Other(s) # s /\ Other(Other(s)) = s /\ Sides = {s, Other(s)}
BY DEF Sides, Other

\* What a subtree is made of, with either side first.
LEMMA SplitBySide ==
  ASSUME NEW A, NEW sub, IsTree(links, A, sub)
  PROVE  \A n \in A, s \in Sides :
           /\ sub[n] = {n} \cup Sub(sub, Child(n, s)) \cup Sub(sub, Child(n, Other(s)))
           /\ Sub(sub, Child(n, s)) \cap Sub(sub, Child(n, Other(s))) = {}
           /\ n \notin Sub(sub, Child(n, s)) /\ n \notin Sub(sub, Child(n, Other(s)))
<1>. TAKE n \in A, s \in Sides
<1>1. CASE s = "left"
  BY <1>1 DEF IsTree, Split, Sides, Other, Child
<1>2. CASE s = "right"
  BY <1>2 DEF IsTree, Split, Sides, Other, Child
<1>. QED
  BY <1>1, <1>2 DEF Sides

LEMMA SubtreeFacts ==
  ASSUME NEW A \in SUBSET Nodes, NEW sub, IsTree(links, A, sub)
  PROVE  \A n \in A :
           /\ n \in sub[n] /\ sub[n] \subseteq A
           /\ \A m \in sub[n] : sub[m] \subseteq sub[n] /\ (m = n \/ Parent(m) \in sub[n])
           /\ \A m \in sub[n] : n \in sub[m] => m = n
<1>. TAKE n \in A
<1>1. n \in sub[n]
  BY DEF IsTree, Split
<1>2. \A m \in sub[n] : sub[m] \subseteq sub[n] /\ (m = n \/ Parent(m) \in sub[n])
  BY DEF IsTree, Nested, Parent
<1>3. sub[n] \subseteq A
  <2>1. links.root \in A /\ A = sub[links.root]
    BY NullIsNone DEF IsTree, Rooted, Sub
  <2>. QED
    BY <2>1 DEF IsTree, Nested
<1>4. ASSUME NEW m \in sub[n], n \in sub[m], m # n
      PROVE  FALSE
  <2>1. PICK s \in Sides : m \in Sub(sub, Child(n, s))
    BY <1>4 DEF IsTree, Split, Sides, Child
  <2>2. Child(n, s) # Null /\ Child(n, s) \in A /\ m \in sub[Child(n, s)]
    BY <2>1 DEF Sub, IsTree, Linked, Child
  <2>3. n \in sub[Child(n, s)]
    BY <1>4, <2>2 DEF IsTree, Nested
  <2>. QED
    BY <2>2, <2>3, SplitBySide DEF Sub
<1>. QED
  BY <1>1, <1>2, <1>3, <1>4

LEMMA BelowFacts ==
  ASSUME NEW A \in SUBSET Nodes, NEW sub, IsTree(links, A, sub)
  PROVE  \A n \in A, s \in Sides : \A x \in Sub(sub, Child(n, s)) : x \in A /\ x \in sub[n] /\ x # n
<1>. TAKE n \in A, s \in Sides
<1>. TAKE x \in Sub(sub, Child(n, s))
<1>1. x \in sub[n] /\ x # n
  BY SplitBySide
<1>. QED
  BY <1>1, SubtreeFacts

LEMMA ChildFacts ==
  ASSUME NEW A \in SUBSET Nodes, NEW sub, IsTree(links, A, sub)
  PROVE  \A n \in A, s \in Sides :
           Child(n, s) # Null =>
             /\ Child(n, s) \in A /\ Parent(Child(n, s)) = n
             /\ Child(n, s) # n /\ Child(n, s) # links.root
             /\ SideOf(Child(n, s)) = s
             /\ sub[Child(n, s)] \subseteq sub[n] /\ n \notin sub[Child(n, s)]
             /\ Child(n, s) \in sub[Child(n, s)]
<1>. TAKE n \in A, s \in Sides
<1>. HAVE Child(n, s) # Null
<1>1. Child(n, s) \in A /\ Parent(Child(n, s)) = n
  BY DEF IsTree, Linked, Child, Parent
<1>2. Child(n, s) \in sub[Child(n, s)]
  BY <1>1, SubtreeFacts
<1>3. /\ sub[n] = {n} \cup Sub(sub, Child(n, s)) \cup Sub(sub, Child(n, Other(s)))
      /\ Sub(sub, Child(n, s)) \cap Sub(sub, Child(n, Other(s))) = {}
      /\ n \notin Sub(sub, Child(n, s))
  BY SplitBySide
<1>4. Child(n, s) # links.root
  BY <1>1, NullIsNone DEF IsTree, Rooted, Parent
<1>5. Child(n, s) # Child(n, Other(s))
  BY <1>2, <1>3 DEF Sub
<1>6. SideOf(Child(n, s)) = s
  BY <1>1, <1>5 DEF SideOf, Sides, Other
<1>. QED
  BY <1>1, <1>2, <1>3, <1>4, <1>6 DEF Sub

\* The parent of a node, and the side on which it is.
LEMMA ParentFacts ==
  ASSUME NEW A \in SUBSET Nodes, NEW sub, IsTree(links, A, sub)
  PROVE  \A n \in A :
           /\ n = links.root <=> Parent(n) = Null
           /\ n # links.root =>
                /\ Parent(n) \in A /\ Parent(n) # n /\ SideOf(n) \in Sides
                /\ Child(Parent(n), SideOf(n)) = n /\ Child(Parent(n), Other(SideOf(n))) # n
                /\ n \in sub[Parent(n)] /\ Parent(n) \notin sub[n]
<1>. TAKE n \in A
<1>1. n = links.root => Parent(n) = Null
  BY NullIsNone DEF IsTree, Rooted, Parent
<1>2. ASSUME n # links.root
      PROVE  /\ Parent(n) \in A /\ SideOf(n) \in Sides
             /\ Child(Parent(n), SideOf(n)) = n
  <2>1. Parent(n) \in A /\ \E s \in Sides : Child(Parent(n), s) = n
    BY <1>2 DEF IsTree, Linked, Parent, Child
  <2>. QED
    BY <2>1 DEF Sides, SideOf
<1>3. ASSUME n # links.root
      PROVE  /\ Parent(n) # n /\ Child(Parent(n), Other(SideOf(n))) # n
             /\ n \in sub[Parent(n)] /\ Parent(n) \notin sub[n]
  <2>1. PICK p \in A, s \in Sides : p = Parent(n) /\ s = SideOf(n) /\ Child(p, s) = n
    BY <1>2, <1>3
  <2>2. Child(p, s) # Null
    BY <2>1, NullIsNone
  <2>3. /\ Child(p, s) # p /\ SideOf(Child(p, s)) = s
        /\ sub[Child(p, s)] \subseteq sub[p] /\ p \notin sub[Child(p, s)]
        /\ Child(p, s) \in sub[Child(p, s)]
    BY <2>2, ChildFacts
  <2>4. Child(p, Other(s)) # n
    BY <2>1, <2>2, SidesFacts, ChildFacts
  <2>. QED
    BY <2>1, <2>3, <2>4
<1>. QED
  BY <1>1, <1>2, <1>3, NullIsNone

-----------------------------------------------------------------------------
(* Rotations.                                                              *)

\* What is at or below each node once n has gone down to its side.
RotatedSub(sub, n, side) ==
  LET up == Child(n, Other(side))
  IN  [sub EXCEPT ![up] = sub[n],
                  ![n] = {n} \cup Sub(sub, Child(n, side)) \cup Sub(sub, Child(up, side))]

LEMMA LinksFacts ==
  ASSUME links \in Links
  PROVE  /\ links.root \in Pointer
         /\ \A n \in Nodes : Parent(n) \in Pointer
         /\ \A n \in Nodes, s \in Sides : Child(n, s) \in Pointer
BY DEF Links, Parent, Child

LEMMA RotatedFacts ==
  ASSUME NEW n, NEW side, NEW L, L = Rotated(n, side),
         NEW up, up = Child(n, Other(side)), NEW inner, inner = Child(up, side),
         NEW top, top = Parent(n),
         up # n, inner # n, inner # up, top # n, top # up
  PROVE  /\ L.root = IF top = Null THEN up ELSE links.root
         /\ \A m \in Nodes :
              L.parent[m] = IF m = up THEN top ELSE IF m = n THEN up
                            ELSE IF m = inner THEN n ELSE Parent(m)
         /\ \A m \in Nodes, s \in Sides :
              L.child[m][s] = IF m = up /\ s = side THEN n
                              ELSE IF m = n /\ s = Other(side) THEN inner
                              ELSE IF m = top /\ s = SideOf(n) THEN up ELSE Child(m, s)
<1>1. L.root = IF top = Null THEN up ELSE links.root
  BY DEF Rotated
<1>2. L.parent = [m \in Nodes |-> CASE m = up -> top [] m = n -> up [] m = inner -> n
                                     [] OTHER -> Parent(m)]
  BY DEF Rotated
<1>3. L.child = [m \in Nodes |-> [s \in Sides |->
                   CASE m = up /\ s = side -> n [] m = n /\ s = Other(side) -> inner
                     [] m = top /\ s = SideOf(n) -> up [] OTHER -> Child(m, s)]]
  BY DEF Rotated
<1>4. ASSUME NEW m \in Nodes
      PROVE  L.parent[m] = IF m = up THEN top ELSE IF m = n THEN up
                           ELSE IF m = inner THEN n ELSE Parent(m)
  BY <1>2
<1>5. ASSUME NEW m \in Nodes, NEW s \in Sides
      PROVE  L.child[m][s] = IF m = up /\ s = side THEN n
                             ELSE IF m = n /\ s = Other(side) THEN inner
                             ELSE IF m = top /\ s = SideOf(n) THEN up ELSE Child(m, s)
  BY <1>3
<1>. QED
  BY <1>1, <1>4, <1>5

LEMMA RotatedType ==
  ASSUME links \in Links, NEW n \in Nodes, NEW side \in Sides, Child(n, Other(side)) \in Nodes
  PROVE  Rotated(n, side) \in Links
<1>. DEFINE up == Child(n, Other(side))
            inner == Child(up, side)
            top == Parent(n)
<1>1. up \in Nodes /\ inner \in Pointer /\ top \in Pointer /\ links.root \in Pointer
  BY LinksFacts
<1>2. [m \in Nodes |-> CASE m = up -> top [] m = n -> up [] m = inner -> n
                                     [] OTHER -> Parent(m)] \in [Nodes -> Pointer]
  BY <1>1, LinksFacts DEF Pointer
<1>3. [m \in Nodes |-> [s \in Sides |->
                   CASE m = up /\ s = side -> n [] m = n /\ s = Other(side) -> inner
                     [] m = top /\ s = SideOf(n) -> up [] OTHER -> Child(m, s)]]
        \in [Nodes -> [Sides -> Pointer]]
  BY <1>1, LinksFacts DEF Pointer
<1>4. (IF top = Null THEN up ELSE links.root) \in Pointer
  BY <1>1 DEF Pointer
<1>. HIDE DEF up, inner, top
<1>5. Rotated(n, side) =
        [root |-> IF top = Null THEN up ELSE links.root,
         parent |-> [m \in Nodes |-> CASE m = up -> top [] m = n -> up [] m = inner -> n
                                     [] OTHER -> Parent(m)],
         child |-> [m \in Nodes |-> [s \in Sides |->
                   CASE m = up /\ s = side -> n [] m = n /\ s = Other(side) -> inner
                     [] m = top /\ s = SideOf(n) -> up [] OTHER -> Child(m, s)]]]
  BY Zenon DEF Rotated, up, inner, top
<1>. QED
  BY <1>2, <1>3, <1>4, <1>5 DEF Links

\* Where the nodes below n, and below the child that comes up, are afterwards.
RotatedBelow(L, S, A, sub, n, side) ==
  LET o == Other(side)
      up == Child(n, o)
  IN  /\ S[up] = sub[n]
      /\ S[n] = {n} \cup Sub(sub, Child(n, side)) \cup Sub(sub, Child(up, side))
      /\ Sub(S, L.child[n][side]) = Sub(sub, Child(n, side))
      /\ Sub(S, L.child[n][o]) = Sub(sub, Child(up, side))
      /\ Sub(S, L.child[up][side]) = {n} \cup Sub(sub, Child(n, side)) \cup Sub(sub, Child(up, side))
      /\ Sub(S, L.child[up][o]) = Sub(sub, Child(up, o))
      /\ \A m \in A \ {n, up} :
           S[m] = sub[m] /\ \A s \in Sides : Sub(S, L.child[m][s]) = Sub(sub, Child(m, s))

\* The pointers afterwards.
RotatedPointers(L, n, side) ==
  LET o == Other(side)
      up == Child(n, o)
      inner == Child(up, side)
      top == Parent(n)
  IN  /\ up # n /\ inner # n /\ inner # up /\ top # n /\ top # up
      /\ L.root = IF top = Null THEN up ELSE links.root
      /\ \A m \in Nodes :
           L.parent[m] = IF m = up THEN top ELSE IF m = n THEN up
                         ELSE IF m = inner THEN n ELSE Parent(m)
      /\ \A m \in Nodes, s \in Sides :
           L.child[m][s] = IF m = up /\ s = side THEN n
                           ELSE IF m = n /\ s = o THEN inner
                           ELSE IF m = top /\ s = SideOf(n) THEN up ELSE Child(m, s)

LEMMA RotatedIsTree ==
  ASSUME links \in Links, NEW A \in SUBSET Nodes, NEW sub \in Subs, IsTree(links, A, sub),
         NEW n \in A, NEW side \in Sides, Child(n, Other(side)) # Null
  PROVE  /\ RotatedSub(sub, n, side) \in Subs
         /\ Rotated(n, side) \in Links
         /\ IsTree(Rotated(n, side), A, RotatedSub(sub, n, side))
         /\ RotatedBelow(Rotated(n, side), RotatedSub(sub, n, side), A, sub, n, side)
         /\ RotatedPointers(Rotated(n, side), n, side)
<1>1. PICK o \in Sides, up \in Nodes, inner \in Pointer, outer \in Pointer, low \in Pointer,
             top \in Pointer :
        /\ o = Other(side) /\ up = Child(n, o) /\ inner = Child(up, side)
        /\ outer = Child(up, o) /\ low = Child(n, side) /\ top = Parent(n)
  BY SidesFacts, LinksFacts DEF Pointer
<1>2. side # o /\ Sides = {side, o} /\ Other(o) = side /\ n \in Nodes /\ n # Null
  BY <1>1, SidesFacts, NullIsNone
<1>3. up \in A /\ Parent(up) = n /\ up # n /\ up # links.root /\ n \notin sub[up] /\ up \in sub[n]
  BY <1>1, <1>2, ChildFacts
<1>4. /\ sub[n] = {n} \cup Sub(sub, low) \cup sub[up] /\ Sub(sub, low) \cap sub[up] = {}
      /\ n \notin Sub(sub, low)
      /\ sub[up] = {up} \cup Sub(sub, inner) \cup Sub(sub, outer)
      /\ Sub(sub, inner) \cap Sub(sub, outer) = {}
      /\ up \notin Sub(sub, inner) /\ up \notin Sub(sub, outer)
  <2>1. up # Null
    BY NullIsNone
  <2>. QED
    BY <1>1, <1>2, <1>3, <2>1, SplitBySide DEF Sub
<1>5. /\ inner # Null => inner \in A /\ Parent(inner) = up /\ inner \in sub[inner]
      /\ outer # Null => outer \in A /\ Parent(outer) = up /\ outer \in sub[outer]
      /\ low # Null => low \in A /\ Parent(low) = n /\ low \in sub[low]
  BY <1>1, <1>3, ChildFacts
<1>6. /\ inner # n /\ inner # up /\ outer # n /\ outer # up /\ low # n /\ low # up
      /\ inner # Null => inner # outer /\ inner # low
  BY <1>3, <1>4, <1>5, NullIsNone DEF Sub
<1>7. /\ n = links.root <=> top = Null
      /\ top # Null => /\ top \in A /\ top # n /\ n \in sub[top] /\ top \notin sub[n]
                       /\ SideOf(n) \in Sides /\ Child(top, SideOf(n)) = n
                       /\ Child(top, Other(SideOf(n))) # n
  BY <1>1, ParentFacts
<1>8. top # n /\ top # up /\ (top # Null => top # inner)
  BY <1>2, <1>3, <1>4, <1>5, <1>7, NullIsNone DEF Sub
<1>9. PICK L, S : L = Rotated(n, side) /\ S = RotatedSub(sub, n, side)
  OBVIOUS
<1>10. /\ L.root = IF top = Null THEN up ELSE links.root
       /\ \A m \in Nodes :
            L.parent[m] = IF m = up THEN top ELSE IF m = n THEN up
                          ELSE IF m = inner THEN n ELSE Parent(m)
       /\ \A m \in Nodes, s \in Sides :
            L.child[m][s] = IF m = up /\ s = side THEN n
                            ELSE IF m = n /\ s = o THEN inner
                            ELSE IF m = top /\ s = SideOf(n) THEN up ELSE Child(m, s)
  BY <1>1, <1>3, <1>6, <1>8, <1>9, RotatedFacts
<1>11. L \in Links
  BY <1>1, <1>9, RotatedType
<1>12. /\ S \in Subs /\ S[up] = sub[n] /\ S[n] = {n} \cup Sub(sub, low) \cup Sub(sub, inner)
       /\ \A m \in Nodes : m # n /\ m # up => S[m] = sub[m]
  <2>1. S = [sub EXCEPT ![up] = sub[n], ![n] = {n} \cup Sub(sub, low) \cup Sub(sub, inner)]
    BY <1>1, <1>9 DEF RotatedSub
  <2>2. /\ sub[n] \in SUBSET Nodes
        /\ {n} \cup Sub(sub, low) \cup Sub(sub, inner) \in SUBSET Nodes
    BY <1>1 DEF Sub, Pointer, Subs
  <2>. QED
    BY <1>3, <2>1, <2>2 DEF Subs
<1>13. /\ Sub(S, inner) = Sub(sub, inner) /\ Sub(S, outer) = Sub(sub, outer)
       /\ Sub(S, low) = Sub(sub, low)
  BY <1>6, <1>12 DEF Sub, Pointer
<1>14. Rooted(L, A, S)
  <2>1. CASE top = Null
    BY <1>3, <1>4, <1>7, <1>10, <1>12, <2>1, NullIsNone DEF IsTree, Rooted, Sub
  <2>2. CASE top # Null
    <3>1. L.root = links.root /\ links.root # n /\ links.root # up /\ links.root \in A
      BY <1>3, <1>7, <1>10, <2>2, NullIsNone DEF IsTree, Rooted, Sub
    <3>2. links.root # inner
      BY <3>1, <1>3, <1>5, NullIsNone DEF IsTree, Rooted, Parent
    <3>. QED
      BY <3>1, <3>2, <1>10, <1>12, NullIsNone DEF IsTree, Rooted, Sub, Parent
  <2>. QED
    BY <2>1, <2>2
<1>15. Linked(L, A)
  <2>1. ASSUME NEW m \in A, NEW s \in Sides, L.child[m][s] # Null
        PROVE  L.child[m][s] \in A /\ L.parent[L.child[m][s]] = m
    <3>1. CASE m = up
      BY <1>2, <1>3, <1>5, <1>6, <1>10, <2>1, <3>1, <1>1
    <3>2. CASE m = n
      BY <1>2, <1>3, <1>5, <1>6, <1>10, <2>1, <3>2, <1>1
    <3>3. CASE m = top /\ s = SideOf(n)
      BY <1>2, <1>3, <1>5, <1>6, <1>8, <1>10, <2>1, <3>3, <1>1
    <3>4. CASE m # up /\ m # n /\ ~(m = top /\ s = SideOf(n))
      <4>1. L.child[m][s] = Child(m, s) /\ Child(m, s) \in A /\ Parent(Child(m, s)) = m
        <5>1. L.child[m][s] = Child(m, s)
          BY <1>10, <3>4
        <5>. QED
          BY <2>1, <5>1, ChildFacts
      <4>2. Child(m, s) # n
        <5>1. SUFFICES ASSUME Child(m, s) = n PROVE FALSE
          OBVIOUS
        <5>2. m = top /\ s # SideOf(n)
          BY <3>4, <4>1, <5>1, <1>1
        <5>3. top \in A /\ SideOf(n) \in Sides /\ Child(top, Other(SideOf(n))) # n
          BY <1>7, <5>2, NullIsNone
        <5>4. s = Other(SideOf(n))
          BY <5>2, <5>3 DEF Sides, Other
        <5>. QED
          BY <5>1, <5>2, <5>3, <5>4
      <4>3. Child(m, s) # up /\ Child(m, s) # inner
        BY <1>3, <1>5, <3>4, <4>1, NullIsNone
      <4>. QED
        BY <4>1, <4>2, <4>3, <1>10
    <3>. QED
      BY <3>1, <3>2, <3>3, <3>4
  <2>2. ASSUME NEW m \in A, m # L.root
        PROVE  L.parent[m] \in A /\ \E s \in Sides : L.child[L.parent[m]][s] = m
    <3>1. CASE m = up
      BY <1>3, <1>7, <1>8, <1>10, <2>2, <3>1
    <3>2. CASE m = n
      BY <1>3, <1>10, <3>2
    <3>3. CASE m = inner
      BY <1>2, <1>3, <1>6, <1>10, <3>3
    <3>4. CASE m \notin {up, n, inner}
      <4>1. m # links.root
        BY <1>7, <1>10, <2>2, <3>4
      <4>2. /\ Parent(m) \in A /\ SideOf(m) \in Sides /\ Child(Parent(m), SideOf(m)) = m
            /\ L.parent[m] = Parent(m)
        BY <1>10, <3>4, <4>1, ParentFacts
      <4>3. L.child[Parent(m)][SideOf(m)] = m
        <5>1. ~(Parent(m) = up /\ SideOf(m) = side) /\ ~(Parent(m) = n /\ SideOf(m) = o)
          BY <1>1, <3>4, <4>2
        <5>2. ~(Parent(m) = top /\ SideOf(m) = SideOf(n))
          BY <1>1, <1>7, <3>4, <4>2, NullIsNone
        <5>. QED
          BY <1>10, <4>2, <5>1, <5>2
      <4>. QED
        BY <4>2, <4>3
    <3>. QED
      BY <3>1, <3>2, <3>3, <3>4
  <2>. QED
    BY <2>1, <2>2 DEF Linked
<1>16. /\ Sub(S, L.child[n][side]) = Sub(sub, low) /\ Sub(S, L.child[n][o]) = Sub(sub, inner)
       /\ Sub(S, L.child[up][side]) = {n} \cup Sub(sub, low) \cup Sub(sub, inner)
       /\ Sub(S, L.child[up][o]) = Sub(sub, outer)
  <2>1. /\ L.child[n][side] = low /\ L.child[n][o] = inner
        /\ L.child[up][side] = n /\ L.child[up][o] = outer
    BY <1>1, <1>2, <1>3, <1>8, <1>10
  <2>2. Sub(S, n) = S[n]
    BY NullIsNone DEF Sub
  <2>. QED
    BY <1>12, <1>13, <2>1, <2>2
<1>17. ASSUME NEW m \in A, m \notin {n, up}, NEW s \in Sides
       PROVE  Sub(S, L.child[m][s]) = Sub(sub, Child(m, s))
  <2>1. CASE m = top /\ s = SideOf(n)
    <3>1. L.child[m][s] = up /\ Child(m, s) = n
      BY <1>7, <1>10, <1>17, <2>1, NullIsNone
    <3>. QED
      BY <3>1, <1>12, NullIsNone DEF Sub
  <2>2. CASE ~(m = top /\ s = SideOf(n))
    <3>1. L.child[m][s] = Child(m, s) /\ Child(m, s) \in Pointer
      BY <1>10, <1>17, <2>2, LinksFacts
    <3>2. Child(m, s) # Null => Parent(Child(m, s)) = m /\ SideOf(Child(m, s)) = s
      BY ChildFacts
    <3>3. Child(m, s) # n /\ Child(m, s) # up
      BY <1>1, <1>3, <1>17, <2>2, <3>2, NullIsNone
    <3>. QED
      BY <1>12, <3>1, <3>3 DEF Sub, Pointer
  <2>. QED
    BY <2>1, <2>2
<1>18. Split(L, A, S)
  <2>1. ASSUME NEW m \in A, NEW s \in Sides, NEW t \in Sides, t = Other(s), m \in {n, up} => s = side
        PROVE  /\ S[m] = {m} \cup Sub(S, L.child[m][s]) \cup Sub(S, L.child[m][t])
               /\ Sub(S, L.child[m][s]) \cap Sub(S, L.child[m][t]) = {}
               /\ m \notin Sub(S, L.child[m][s]) /\ m \notin Sub(S, L.child[m][t])
    <3>1. CASE m = n
      BY <1>1, <1>3, <1>4, <1>12, <1>16, <2>1, <3>1
    <3>2. CASE m = up
      BY <1>1, <1>3, <1>4, <1>12, <1>16, <2>1, <3>2
    <3>3. CASE m \notin {n, up}
      BY <1>12, <1>17, <2>1, <3>3, SplitBySide
    <3>. QED
      BY <3>1, <3>2, <3>3
  <2>2. ASSUME NEW m \in A
        PROVE  /\ S[m] = {m} \cup Sub(S, L.child[m]["left"]) \cup Sub(S, L.child[m]["right"])
               /\ Sub(S, L.child[m]["left"]) \cap Sub(S, L.child[m]["right"]) = {}
               /\ m \notin Sub(S, L.child[m]["left"]) /\ m \notin Sub(S, L.child[m]["right"])
    <3>1. PICK s \in Sides, t \in Sides : t = Other(s) /\ (m \in {n, up} => s = side)
      BY SidesFacts
    <3>2. (s = "left" /\ t = "right") \/ (s = "right" /\ t = "left")
      BY <3>1 DEF Sides, Other
    <3>. QED
      BY <2>1, <3>1, <3>2
  <2>. QED
    BY <2>2 DEF Split, Sides
<1>19. Nested(L, A, S)
  <2>1. SUFFICES ASSUME NEW c \in A, NEW x \in S[c]
                 PROVE  S[x] \subseteq S[c] /\ (x = c \/ L.parent[x] \in S[c])
    BY DEF Nested
  <2>2. n \in sub[n] /\ sub[n] \subseteq A /\ S[n] \subseteq sub[n]
    BY <1>4, <1>12, SubtreeFacts
  <2>3. CASE c = up
    <3>1. x \in sub[n] /\ x \in A
      BY <1>12, <2>1, <2>2, <2>3
    <3>2. S[x] \subseteq sub[n]
      BY <1>3, <1>12, <2>2, <3>1, SubtreeFacts
    <3>3. x = up \/ L.parent[x] \in sub[n]
      BY <1>3, <1>10, <2>2, <3>1, SubtreeFacts
    <3>. QED
      BY <1>12, <2>3, <3>2, <3>3
  <2>4. CASE c = n
    <3>1. CASE x = n
      BY <2>4, <3>1
    <3>2. ASSUME NEW r \in {low, inner}, r # Null, x \in sub[r]
          PROVE  S[x] \subseteq S[n] /\ L.parent[x] \in S[n]
      <4>1. r \in A /\ sub[r] \subseteq S[n] /\ sub[r] \subseteq A /\ r # up
        BY <1>5, <1>6, <1>12, <3>2, SubtreeFacts DEF Sub
      <4>2. x # n /\ x # up /\ x \in A
        BY <1>3, <1>4, <3>2, <4>1 DEF Sub
      <4>3. S[x] = sub[x] /\ sub[x] \subseteq sub[r] /\ (x = r \/ Parent(x) \in sub[r])
        BY <1>12, <3>2, <4>1, <4>2, SubtreeFacts
      <4>4. L.parent[x] = IF x = inner THEN n ELSE Parent(x)
        BY <1>10, <4>2
      <4>5. x = low => Parent(x) = n
        BY <1>5, <3>2, <4>2, NullIsNone
      <4>6. n \in S[n]
        BY <1>12
      <4>. QED
        BY <3>2, <4>1, <4>3, <4>4, <4>5, <4>6
    <3>. QED
      BY <1>12, <2>1, <2>4, <3>1, <3>2 DEF Sub
  <2>5. CASE c \notin {up, n}
    <3>1. S[c] = sub[c] /\ x \in sub[c] /\ x \in A
      BY <1>12, <2>1, <2>5, SubtreeFacts
    <3>2. sub[x] \subseteq sub[c] /\ (x = c \/ Parent(x) \in sub[c])
      BY <3>1, SubtreeFacts
    <3>3. up \in sub[c] => n \in sub[c] /\ sub[n] \subseteq sub[c]
      BY <1>3, <2>5, SubtreeFacts
    <3>4. S[x] \subseteq sub[c]
      BY <1>12, <2>2, <3>1, <3>2, <3>3
    <3>5. x = c \/ L.parent[x] \in sub[c]
      <4>1. CASE x = up
        <5>1. n \in sub[c] /\ n # c
          BY <2>5, <3>1, <3>3, <4>1
        <5>2. Parent(n) \in sub[c]
          BY <5>1, SubtreeFacts
        <5>. QED
          BY <1>1, <1>3, <1>10, <4>1, <5>2
      <4>2. CASE x = n
        BY <1>3, <1>10, <3>2, <4>2
      <4>3. CASE x = inner
        <5>1. Parent(x) = up /\ L.parent[x] = n
          BY <1>5, <1>6, <1>10, <3>1, <4>3, NullIsNone
        <5>. QED
          BY <3>2, <3>3, <5>1
      <4>4. CASE x \notin {up, n, inner}
        BY <1>10, <3>1, <3>2, <4>4
      <4>. QED
        BY <4>1, <4>2, <4>3, <4>4
    <3>. QED
      BY <3>1, <3>4, <3>5
  <2>. QED
    BY <2>3, <2>4, <2>5
<1>20. RotatedBelow(L, S, A, sub, n, side)
  BY <1>1, <1>12, <1>16, <1>17 DEF RotatedBelow
<1>21. RotatedPointers(L, n, side)
  BY <1>1, <1>3, <1>6, <1>8, <1>10 DEF RotatedPointers
<1>. QED
  BY <1>9, <1>11, <1>12, <1>14, <1>15, <1>18, <1>19, <1>20, <1>21 DEF IsTree

-----------------------------------------------------------------------------
(* The order of the keys.                                                  *)

\* On that side of a key.
Beyond(side, k, from) == IF side = "left" THEN k < from ELSE from < k

Ordered(L, A, sub, ky) ==
  \A n \in A, s \in Sides : \A m \in Sub(sub, L.child[n][s]) : Beyond(s, ky[m], ky[n])

\* Rotating leaves the order of the keys as it is.
LEMMA RotatedIsOrdered ==
  ASSUME links \in Links, NEW A \in SUBSET Nodes, NEW sub \in Subs, IsTree(links, A, sub),
         NEW n \in A, NEW side \in Sides, Child(n, Other(side)) # Null,
         key \in [Nodes -> Int], Ordered(links, A, sub, key)
  PROVE  Ordered(Rotated(n, side), A, RotatedSub(sub, n, side), key)
<1>1. PICK o, up, L, S :
        /\ o \in Sides /\ up \in Nodes /\ o = Other(side) /\ o # side /\ Sides = {side, o} /\ up = Child(n, o)
        /\ L = Rotated(n, side) /\ S = RotatedSub(sub, n, side)
  BY SidesFacts, LinksFacts DEF Pointer
<1>2. RotatedBelow(L, S, A, sub, n, side)
  BY <1>1, RotatedIsTree
<1>3. up \in A /\ up \in sub[up] /\ sub[up] \subseteq A /\ sub[n] \subseteq A
  BY <1>1, NullIsNone, ChildFacts, SubtreeFacts
<1>4. \A m \in A, s \in Sides : \A x \in Sub(sub, Child(m, s)) : x \in A /\ Beyond(s, key[x], key[m])
  BY BelowFacts DEF Ordered, Child
<1>5. \A x \in Sub(sub, Child(up, side)) : x \in sub[up]
  BY <1>3, SplitBySide
<1>6. \A x \in sub[up] : Beyond(o, key[x], key[n])
  BY <1>1, <1>4, NullIsNone DEF Sub
<1>7. Beyond(side, key[n], key[up])
  <2>1. Beyond(o, key[up], key[n]) /\ key[up] \in Int /\ key[n] \in Int
    BY <1>3, <1>6
  <2>. QED
    BY <1>1, <2>1 DEF Beyond, Sides
<1>8. ASSUME NEW m \in A, NEW s \in Sides, NEW x \in Sub(S, L.child[m][s])
      PROVE  Beyond(s, key[x], key[m])
  <2>1. CASE m \notin {n, up}
    BY <1>1, <1>2, <1>4, <1>8, <2>1 DEF RotatedBelow
  <2>2. CASE m = n
    BY <1>1, <1>2, <1>4, <1>5, <1>6, <1>8, <2>2 DEF RotatedBelow
  <2>3. CASE m = up /\ s = o
    BY <1>1, <1>2, <1>3, <1>4, <1>8, <2>3 DEF RotatedBelow
  <2>4. CASE m = up /\ s = side
    <3>1. x \in {n} \cup Sub(sub, Child(n, side)) \cup Sub(sub, Child(up, side))
      BY <1>1, <1>2, <1>8, <2>4 DEF RotatedBelow
    <3>2. CASE x = n
      BY <1>7, <2>4, <3>2
    <3>3. CASE x \in Sub(sub, Child(n, side))
      <4>1. /\ Beyond(side, key[x], key[n]) /\ Beyond(side, key[n], key[up])
            /\ key[x] \in Int /\ key[n] \in Int /\ key[up] \in Int
        BY <1>3, <1>4, <1>7, <3>3
      <4>. QED
        BY <2>4, <4>1 DEF Beyond
    <3>4. CASE x \in Sub(sub, Child(up, side))
      BY <1>3, <1>4, <2>4, <3>4
    <3>. QED
      BY <3>1, <3>2, <3>3, <3>4
  <2>. QED
    BY <1>1, <1>8, <2>1, <2>2, <2>3, <2>4
<1>. QED
  BY <1>1, <1>8 DEF Ordered

-----------------------------------------------------------------------------
(* Hanging a new node z on the side t of p, or making it the root.         *)

HungSub(A, sub, z, p) ==
  [m \in Nodes |-> IF m = z THEN {z} ELSE IF m \in A /\ p \in sub[m] THEN sub[m] \cup {z} ELSE sub[m]]

HungLinks(L, z, p, t) ==
  /\ L.root = IF p = Null THEN z ELSE links.root
  /\ \A m \in Nodes : L.parent[m] = IF m = z THEN p ELSE Parent(m)
  /\ \A m \in Nodes, s \in Sides :
       L.child[m][s] = IF m = z THEN Null ELSE IF m = p /\ s = t THEN z ELSE Child(m, s)

HungBelow(L, S, A, sub, z, p, t) ==
  \A m \in A, s \in Sides :
    Sub(S, L.child[m][s]) =
      IF (m = p /\ s = t) \/ p \in Sub(sub, Child(m, s)) THEN Sub(sub, Child(m, s)) \cup {z}
      ELSE Sub(sub, Child(m, s))

LEMMA HungIsTree ==
  ASSUME links \in Links, NEW A \in SUBSET Nodes, NEW sub \in Subs, IsTree(links, A, sub),
         NEW z \in Nodes, z \notin A, NEW p \in A \cup {Null}, NEW t \in Sides,
         p = Null => links.root = Null, p # Null => Child(p, t) = Null,
         NEW L, HungLinks(L, z, p, t)
  PROVE  /\ HungSub(A, sub, z, p) \in Subs
         /\ IsTree(L, A \cup {z}, HungSub(A, sub, z, p))
         /\ HungBelow(L, HungSub(A, sub, z, p), A, sub, z, p, t)
<1>1. PICK S : S = HungSub(A, sub, z, p)
  OBVIOUS
<1>2. /\ S \in Subs /\ S[z] = {z}
      /\ \A m \in A : S[m] = IF p \in sub[m] THEN sub[m] \cup {z} ELSE sub[m]
  BY <1>1 DEF HungSub, Subs
<1>3. z # Null /\ p # z /\ (p = Null => A = {}) /\ (A = {} => p = Null /\ links.root = Null)
  BY NullIsNone DEF IsTree, Rooted, Sub
<1>4. \A m \in A : sub[m] \subseteq A /\ m \in sub[m] /\ m # z
  BY SubtreeFacts
<1>5. \A m \in A, s \in Sides :
        /\ Child(m, s) \in A \cup {Null} /\ Child(m, s) # z
        /\ Sub(sub, Child(m, s)) \subseteq A
        /\ Sub(S, Child(m, s)) =
             IF p \in Sub(sub, Child(m, s)) THEN Sub(sub, Child(m, s)) \cup {z}
             ELSE Sub(sub, Child(m, s))
  <2>. TAKE m \in A, s \in Sides
  <2>1. CASE Child(m, s) = Null
    BY <1>3, <2>1 DEF Sub
  <2>2. CASE Child(m, s) # Null
    <3>1. Child(m, s) \in A
      BY <2>2, ChildFacts
    <3>. QED
      BY <1>2, <1>4, <2>2, <3>1 DEF Sub
  <2>. QED
    BY <2>1, <2>2
<1>6. \A m \in A, s \in Sides : L.child[m][s] = IF m = p /\ s = t THEN z ELSE Child(m, s)
  BY <1>4 DEF HungLinks
<1>7. HungBelow(L, S, A, sub, z, p, t)
  <2>. SUFFICES ASSUME NEW m \in A, NEW s \in Sides
                PROVE  Sub(S, L.child[m][s]) =
                         IF (m = p /\ s = t) \/ p \in Sub(sub, Child(m, s))
                         THEN Sub(sub, Child(m, s)) \cup {z} ELSE Sub(sub, Child(m, s))
    BY DEF HungBelow
  <2>1. CASE m = p /\ s = t
    <3>1. Child(m, s) = Null /\ L.child[m][s] = z
      BY <1>4, <1>6, <2>1, NullIsNone
    <3>. QED
      BY <1>2, <1>3, <2>1, <3>1 DEF Sub
  <2>2. CASE ~(m = p /\ s = t)
    BY <1>5, <1>6, <2>2
  <2>. QED
    BY <2>1, <2>2
<1>8. Rooted(L, A \cup {z}, S)
  <2>1. CASE p = Null
    BY <1>2, <1>3, <2>1 DEF Rooted, HungLinks, Sub
  <2>2. CASE p # Null
    <3>1. links.root \in A /\ A = sub[links.root] /\ Parent(links.root) = Null
      BY <1>3, <2>2 DEF IsTree, Rooted, Sub, Parent
    <3>2. L.root = links.root /\ L.root # Null /\ L.parent[L.root] = Null
      BY <1>4, <2>2, <3>1, NullIsNone DEF HungLinks
    <3>3. S[links.root] = A \cup {z}
      BY <1>2, <2>2, <3>1
    <3>. QED
      BY <3>1, <3>2, <3>3 DEF Rooted, Sub
  <2>. QED
    BY <2>1, <2>2
<1>9. Linked(L, A \cup {z})
  <2>1. ASSUME NEW m \in A \cup {z}, NEW s \in Sides, L.child[m][s] # Null
        PROVE  L.child[m][s] \in A \cup {z} /\ L.parent[L.child[m][s]] = m
    <3>1. m \in A
      BY <2>1 DEF HungLinks
    <3>2. CASE m = p /\ s = t
      BY <1>6, <3>1, <3>2 DEF HungLinks
    <3>3. CASE ~(m = p /\ s = t)
      <4>1. Child(m, s) # Null /\ L.child[m][s] = Child(m, s) /\ Child(m, s) # z
        BY <1>5, <1>6, <2>1, <3>1, <3>3
      <4>2. Child(m, s) \in A /\ Parent(Child(m, s)) = m
        BY <3>1, <4>1, ChildFacts
      <4>. QED
        BY <4>1, <4>2 DEF HungLinks
    <3>. QED
      BY <3>2, <3>3
  <2>2. ASSUME NEW m \in A \cup {z}, m # L.root
        PROVE  /\ L.parent[m] \in A \cup {z}
               /\ \E s \in Sides : L.child[L.parent[m]][s] = m
    <3>1. CASE m = z
      <4>1. p \in A /\ L.parent[m] = p
        BY <2>2, <3>1 DEF HungLinks
      <4>. QED
        BY <1>6, <3>1, <4>1
    <3>2. CASE m # z
      <4>1. m \in A /\ m # links.root
        BY <1>3, <2>2, <3>2 DEF HungLinks
      <4>2. Parent(m) \in A /\ SideOf(m) \in Sides /\ Child(Parent(m), SideOf(m)) = m
        BY <4>1, ParentFacts
      <4>3. L.parent[m] = Parent(m)
        BY <3>2, <4>1 DEF HungLinks
      <4>4. L.child[Parent(m)][SideOf(m)] = m
        BY <1>6, <4>1, <4>2, NullIsNone
      <4>. QED
        BY <4>2, <4>3, <4>4
    <3>. QED
      BY <3>1, <3>2
  <2>. QED
    BY <2>1, <2>2 DEF Linked
<1>10. Split(L, A \cup {z}, S)
  <2>1. ASSUME NEW m \in A \cup {z}
        PROVE  /\ S[m] = {m} \cup Sub(S, L.child[m]["left"]) \cup Sub(S, L.child[m]["right"])
               /\ Sub(S, L.child[m]["left"]) \cap Sub(S, L.child[m]["right"]) = {}
               /\ m \notin Sub(S, L.child[m]["left"]) /\ m \notin Sub(S, L.child[m]["right"])
    <3>1. CASE m = z
      <4>1. \A s \in Sides : Sub(S, L.child[m][s]) = {}
        BY <3>1 DEF HungLinks, Sub
      <4>. QED
        BY <1>2, <3>1, <4>1 DEF Sides
    <3>2. CASE m \in A
      <4>1. PICK s \in Sides, u \in Sides :
              /\ u = Other(s) /\ (m = p => s = t)
              /\ (s = "left" /\ u = "right") \/ (s = "right" /\ u = "left")
        BY DEF Sides, Other
      <4>2. /\ sub[m] = {m} \cup Sub(sub, Child(m, s)) \cup Sub(sub, Child(m, u))
            /\ Sub(sub, Child(m, s)) \cap Sub(sub, Child(m, u)) = {}
            /\ m \notin Sub(sub, Child(m, s)) /\ m \notin Sub(sub, Child(m, u))
        BY <3>2, <4>1, SplitBySide
      <4>3. \A v \in {s, u} :
              Sub(S, L.child[m][v]) =
                IF (m = p /\ v = t) \/ p \in Sub(sub, Child(m, v))
                THEN Sub(sub, Child(m, v)) \cup {z} ELSE Sub(sub, Child(m, v))
        BY <1>7, <3>2 DEF HungBelow
      <4>4. s # u /\ z \notin sub[m] /\ m # z
        BY <1>4, <3>2, <4>1
      <4>5. /\ S[m] = {m} \cup Sub(S, L.child[m][s]) \cup Sub(S, L.child[m][u])
            /\ Sub(S, L.child[m][s]) \cap Sub(S, L.child[m][u]) = {}
            /\ m \notin Sub(S, L.child[m][s]) /\ m \notin Sub(S, L.child[m][u])
        <5>. DEFINE B == Sub(sub, Child(m, s))
                    D == Sub(sub, Child(m, u))
        <5>1. CASE m = p \/ p \in B
          <6>1. /\ S[m] = sub[m] \cup {z} /\ Sub(S, L.child[m][s]) = B \cup {z}
                /\ Sub(S, L.child[m][u]) = D
            BY <1>2, <3>2, <4>1, <4>2, <4>3, <4>4, <5>1
          <6>. HIDE DEF B, D
          <6>. QED
            BY <4>2, <4>4, <6>1 DEF B, D
        <5>2. CASE m # p /\ p \in D
          <6>1. /\ S[m] = sub[m] \cup {z} /\ Sub(S, L.child[m][u]) = D \cup {z}
                /\ Sub(S, L.child[m][s]) = B
            BY <1>2, <3>2, <4>1, <4>2, <4>3, <4>4, <5>2
          <6>. QED
            BY <4>2, <4>4, <6>1
        <5>3. CASE m # p /\ p \notin B /\ p \notin D
          <6>1. S[m] = sub[m] /\ Sub(S, L.child[m][u]) = D /\ Sub(S, L.child[m][s]) = B
            BY <1>2, <3>2, <4>1, <4>2, <4>3, <4>4, <5>3
          <6>. QED
            BY <4>2, <4>4, <6>1
        <5>. QED
          BY <5>1, <5>2, <5>3
      <4>. QED
        BY <4>1, <4>5
    <3>. QED
      BY <3>1, <3>2
  <2>. QED
    BY <2>1 DEF Split, Sides
<1>11. Nested(L, A \cup {z}, S)
  <2>1. SUFFICES ASSUME NEW c \in A \cup {z}, NEW x \in S[c]
                 PROVE  S[x] \subseteq S[c] /\ (x = c \/ L.parent[x] \in S[c])
    BY DEF Nested
  <2>2. CASE c = z
    BY <1>2, <2>1, <2>2
  <2>3. CASE c \in A /\ x = z
    <3>1. p \in sub[c] /\ L.parent[x] = p /\ z \in S[c]
      BY <1>2, <1>4, <2>1, <2>3 DEF HungLinks
    <3>. QED
      BY <1>2, <2>3, <3>1
  <2>4. CASE c \in A /\ x # z
    <3>1. x \in sub[c] /\ x \in A
      BY <1>2, <1>4, <2>1, <2>4
    <3>2. sub[x] \subseteq sub[c] /\ (x = c \/ Parent(x) \in sub[c])
      BY <2>4, <3>1, SubtreeFacts
    <3>3. L.parent[x] = Parent(x)
      BY <2>4, <3>1 DEF HungLinks
    <3>. QED
      BY <1>2, <2>4, <3>1, <3>2, <3>3
  <2>. QED
    BY <2>2, <2>3, <2>4
<1>. QED
  BY <1>1, <1>2, <1>7, <1>8, <1>9, <1>10, <1>11 DEF IsTree

LEMMA HungIsOrdered ==
  ASSUME links \in Links, NEW A \in SUBSET Nodes, NEW sub \in Subs, IsTree(links, A, sub),
         NEW z \in Nodes, z \notin A, NEW p \in A \cup {Null}, NEW t \in Sides,
         p = Null => links.root = Null, p # Null => Child(p, t) = Null,
         NEW L, HungLinks(L, z, p, t),
         Ordered(links, A, sub, key), NEW k,
         p # Null => Beyond(t, k, key[p]),
         \A m \in A, s \in Sides : p \in Sub(sub, Child(m, s)) => Beyond(s, k, key[m]),
         NEW ky, ky[z] = k, \A m \in A : ky[m] = key[m]
  PROVE  Ordered(L, A \cup {z}, HungSub(A, sub, z, p), ky)
<1>1. PICK S : S = HungSub(A, sub, z, p)
  OBVIOUS
<1>2. HungBelow(L, S, A, sub, z, p, t)
  BY <1>1, HungIsTree
<1>3. ASSUME NEW m \in A, NEW s \in Sides, NEW x \in Sub(S, L.child[m][s])
      PROVE  Beyond(s, ky[x], ky[m])
  <2>1. CASE x = z
    <3>1. z \notin Sub(sub, Child(m, s))
      BY BelowFacts
    <3>2. (m = p /\ s = t) \/ p \in Sub(sub, Child(m, s))
      BY <1>2, <1>3, <2>1, <3>1 DEF HungBelow
    <3>. QED
      BY <2>1, <3>2, NullIsNone
  <2>2. CASE x # z
    <3>1. x \in Sub(sub, Child(m, s))
      BY <1>2, <1>3, <2>2 DEF HungBelow
    <3>2. x \in A
      BY <3>1, BelowFacts
    <3>3. Beyond(s, key[x], key[m])
      BY <3>1 DEF Ordered, Child
    <3>. QED
      BY <3>2, <3>3
  <2>. QED
    BY <2>1, <2>2
<1>4. \A s \in Sides : Sub(S, L.child[z][s]) = {}
  BY DEF HungLinks, Sub
<1>. QED
  BY <1>1, <1>3, <1>4 DEF Ordered

-----------------------------------------------------------------------------
(* Taking out y, of whose two children one at least is missing.            *)

SplicedSub(sub, y) == [m \in Nodes |-> sub[m] \ {y}]

\* x, the other child of y if there is one, takes its place.
SplicedLinks(L, y, x) ==
  /\ L.root = IF Parent(y) = Null THEN x ELSE links.root
  /\ \A m \in Nodes : L.parent[m] = IF m = x THEN Parent(y) ELSE Parent(m)
  /\ \A m \in Nodes, s \in Sides :
       L.child[m][s] = IF m = Parent(y) /\ s = SideOf(y) THEN x ELSE Child(m, s)

SplicedBelow(L, S, A, sub, y) ==
  \A m \in A \ {y}, s \in Sides : Sub(S, L.child[m][s]) = Sub(sub, Child(m, s)) \ {y}

LEMMA SplicedIsTree ==
  ASSUME links \in Links, NEW A \in SUBSET Nodes, NEW sub \in Subs, IsTree(links, A, sub),
         NEW y \in A, NEW b \in Sides, Child(y, b) = Null, NEW x, x = Child(y, Other(b)),
         NEW L, SplicedLinks(L, y, x)
  PROVE  /\ SplicedSub(sub, y) \in Subs
         /\ IsTree(L, A \ {y}, SplicedSub(sub, y))
         /\ SplicedBelow(L, SplicedSub(sub, y), A, sub, y)
         /\ sub[y] = {y} \cup Sub(sub, x)
<1>1. PICK S, p : S = SplicedSub(sub, y) /\ p = Parent(y)
  OBVIOUS
<1>2. S \in Subs /\ \A m \in Nodes : S[m] = sub[m] \ {y}
  BY <1>1 DEF SplicedSub, Subs
<1>3. /\ sub[y] = {y} \cup Sub(sub, x) /\ y \notin Sub(sub, x)
      /\ x # Null => /\ x \in A /\ Parent(x) = y /\ x # y /\ y \notin sub[x] /\ x \in sub[x]
                     /\ x # links.root
  <2>1. PICK o \in Sides : o = Other(b)
    BY SidesFacts
  <2>2. sub[y] = {y} \cup Sub(sub, x) /\ y \notin Sub(sub, x)
    BY <2>1, SplitBySide DEF Sub
  <2>3. x # Null => /\ x \in A /\ Parent(x) = y /\ x # y /\ y \notin sub[x] /\ x \in sub[x]
                    /\ x # links.root
    BY <2>1, ChildFacts
  <2>. QED
    BY <2>2, <2>3
<1>4. /\ y = links.root <=> p = Null
      /\ p # Null => /\ p \in A /\ p # y /\ y \in sub[p] /\ p \notin sub[y] /\ SideOf(y) \in Sides
                     /\ Child(p, SideOf(y)) = y /\ Child(p, Other(SideOf(y))) # y /\ p # x
  <2>1. p # Null => p # x
    BY <1>1, <1>3, ParentFacts DEF Sub
  <2>. QED
    BY <1>1, <2>1, ParentFacts
<1>5. \A m \in A : m \in sub[m] /\ sub[m] \subseteq A
  BY SubtreeFacts
<1>6. y # Null /\ \A m \in A : m # Null
  BY NullIsNone
<1>7. \A m \in A, s \in Sides :
        L.child[m][s] = IF m = p /\ s = SideOf(y) THEN x ELSE Child(m, s)
  BY <1>1 DEF SplicedLinks
<1>8. \A m \in A, s \in Sides : Child(m, s) = y => m = p /\ s = SideOf(y)
  BY <1>1, <1>6, ChildFacts
<1>9. Sub(S, x) = Sub(sub, x)
  BY <1>2, <1>3 DEF Sub
<1>10. SplicedBelow(L, S, A, sub, y)
  <2>. SUFFICES ASSUME NEW m \in A \ {y}, NEW s \in Sides
                PROVE  Sub(S, L.child[m][s]) = Sub(sub, Child(m, s)) \ {y}
    BY DEF SplicedBelow
  <2>1. CASE m = p /\ s = SideOf(y)
    BY <1>3, <1>4, <1>6, <1>7, <1>9, <2>1 DEF Sub
  <2>2. CASE ~(m = p /\ s = SideOf(y))
    BY <1>2, <1>7, <2>2, LinksFacts DEF Sub, Pointer
  <2>. QED
    BY <2>1, <2>2
<1>11. Rooted(L, A \ {y}, S)
  <2>1. CASE p = Null
    <3>1. A = sub[y] /\ L.root = x
      BY <1>1, <1>4, <1>6, <2>1 DEF IsTree, Rooted, Sub, SplicedLinks
    <3>2. x # Null => L.parent[x] = Null
      BY <1>1, <1>3, <2>1 DEF SplicedLinks
    <3>. QED
      BY <1>3, <1>9, <3>1, <3>2 DEF Rooted
  <2>2. CASE p # Null
    <3>1. /\ links.root \in A /\ A = sub[links.root] /\ links.root # y
          /\ Parent(links.root) = Null /\ links.root # x
      BY <1>3, <1>4, <1>6, <2>2 DEF IsTree, Rooted, Sub, Parent
    <3>2. L.root = links.root /\ L.parent[links.root] = Null /\ S[links.root] = A \ {y}
      BY <1>1, <1>2, <2>2, <3>1 DEF SplicedLinks
    <3>. QED
      BY <1>6, <3>1, <3>2 DEF Rooted, Sub
  <2>. QED
    BY <2>1, <2>2
<1>12. Linked(L, A \ {y})
  <2>1. ASSUME NEW m \in A \ {y}, NEW s \in Sides, L.child[m][s] # Null
        PROVE  L.child[m][s] \in A \ {y} /\ L.parent[L.child[m][s]] = m
    <3>1. CASE m = p /\ s = SideOf(y)
      BY <1>1, <1>3, <1>7, <2>1, <3>1 DEF SplicedLinks
    <3>2. CASE ~(m = p /\ s = SideOf(y))
      <4>1. L.child[m][s] = Child(m, s) /\ Child(m, s) # y
        BY <1>7, <1>8, <3>2
      <4>2. Child(m, s) \in A /\ Parent(Child(m, s)) = m
        BY <2>1, <4>1, ChildFacts
      <4>3. Child(m, s) # x
        BY <1>3, <2>1, <4>1, <4>2
      <4>. QED
        BY <4>1, <4>2, <4>3 DEF SplicedLinks
    <3>. QED
      BY <3>1, <3>2
  <2>2. ASSUME NEW m \in A \ {y}, m # L.root
        PROVE  /\ L.parent[m] \in A \ {y}
               /\ \E s \in Sides : L.child[L.parent[m]][s] = m
    <3>1. CASE m = x
      <4>1. p # Null
        BY <1>1, <2>2, <3>1 DEF SplicedLinks
      <4>2. L.parent[m] = p /\ L.child[p][SideOf(y)] = m
        BY <1>1, <1>4, <1>7, <3>1, <4>1 DEF SplicedLinks
      <4>. QED
        BY <1>4, <4>1, <4>2
    <3>2. CASE m # x
      <4>1. m # links.root
        BY <1>1, <1>4, <2>2 DEF SplicedLinks
      <4>2. Parent(m) \in A /\ SideOf(m) \in Sides /\ Child(Parent(m), SideOf(m)) = m
        BY <4>1, ParentFacts
      <4>3. L.parent[m] = Parent(m)
        BY <3>2 DEF SplicedLinks
      <4>4. Parent(m) # y
        <5>1. SUFFICES ASSUME Parent(m) = y PROVE FALSE
          OBVIOUS
        <5>2. SideOf(m) = b \/ SideOf(m) = Other(b)
          BY <4>2 DEF Sides, Other
        <5>. QED
          BY <1>6, <3>2, <4>2, <5>1, <5>2
      <4>5. ~(Parent(m) = p /\ SideOf(m) = SideOf(y))
        BY <1>4, <1>6, <4>2
      <4>. QED
        BY <1>7, <4>2, <4>3, <4>4, <4>5
    <3>. QED
      BY <3>1, <3>2
  <2>. QED
    BY <2>1, <2>2 DEF Linked
<1>13. Split(L, A \ {y}, S)
  <2>1. ASSUME NEW m \in A \ {y}
        PROVE  /\ S[m] = {m} \cup Sub(S, L.child[m]["left"]) \cup Sub(S, L.child[m]["right"])
               /\ Sub(S, L.child[m]["left"]) \cap Sub(S, L.child[m]["right"]) = {}
               /\ m \notin Sub(S, L.child[m]["left"]) /\ m \notin Sub(S, L.child[m]["right"])
    <3>1. /\ Sub(S, L.child[m]["left"]) = Sub(sub, Child(m, "left")) \ {y}
          /\ Sub(S, L.child[m]["right"]) = Sub(sub, Child(m, "right")) \ {y}
      BY <1>10 DEF SplicedBelow, Sides
    <3>2. /\ sub[m] = {m} \cup Sub(sub, Child(m, "left")) \cup Sub(sub, Child(m, "right"))
          /\ Sub(sub, Child(m, "left")) \cap Sub(sub, Child(m, "right")) = {}
          /\ m \notin Sub(sub, Child(m, "left")) /\ m \notin Sub(sub, Child(m, "right"))
      BY DEF IsTree, Split, Child, Sides
    <3>. QED
      BY <1>2, <3>1, <3>2
  <2>. QED
    BY <2>1 DEF Split, Sides
<1>14. Nested(L, A \ {y}, S)
  <2>1. SUFFICES ASSUME NEW c \in A \ {y}, NEW w \in S[c]
                 PROVE  S[w] \subseteq S[c] /\ (w = c \/ L.parent[w] \in S[c])
    BY DEF Nested
  <2>2. w \in sub[c] /\ w \in A /\ w # y /\ sub[w] \subseteq sub[c] /\ (w = c \/ Parent(w) \in sub[c])
    <3>1. w \in sub[c] /\ w # y
      BY <1>2, <2>1
    <3>2. sub[c] \subseteq A /\ sub[w] \subseteq sub[c] /\ (w = c \/ Parent(w) \in sub[c])
      BY <2>1, <3>1, SubtreeFacts
    <3>. QED
      BY <3>1, <3>2
  <2>3. S[w] \subseteq S[c]
    BY <1>2, <2>2
  <2>4. w = c \/ L.parent[w] \in S[c]
    <3>1. CASE w = x
      <4>1. SUFFICES ASSUME w # c PROVE L.parent[w] \in S[c]
        OBVIOUS
      <4>2. Parent(w) = y /\ L.parent[w] = p
        BY <1>1, <1>3, <1>6, <2>2, <3>1 DEF SplicedLinks
      <4>3. y \in sub[c] /\ y # c
        BY <2>2, <4>1, <4>2
      <4>4. p \in sub[c]
        BY <1>1, <4>3, SubtreeFacts
      <4>5. p # y
        BY <1>4, <1>5, <1>6, <4>4
      <4>. QED
        BY <1>2, <4>2, <4>4, <4>5
    <3>2. CASE w # x
      <4>1. L.parent[w] = Parent(w)
        BY <2>2, <3>2 DEF SplicedLinks
      <4>2. w # c => Parent(w) # y
        <5>1. SUFFICES ASSUME w # c, Parent(w) = y PROVE FALSE
          OBVIOUS
        <5>2. w # links.root
          BY <1>6, <2>2, <5>1, ParentFacts
        <5>3. SideOf(w) \in Sides /\ Child(y, SideOf(w)) = w
          BY <2>2, <5>1, <5>2, ParentFacts
        <5>4. SideOf(w) = b \/ SideOf(w) = Other(b)
          BY <5>3 DEF Sides, Other
        <5>. QED
          BY <1>6, <2>2, <3>2, <5>3, <5>4
      <4>. QED
        BY <1>2, <2>2, <4>1, <4>2
    <3>. QED
      BY <3>1, <3>2
  <2>. QED
    BY <2>3, <2>4
<1>. QED
  BY <1>1, <1>2, <1>3, <1>10, <1>11, <1>12, <1>13, <1>14 DEF IsTree

\* n is y, or one whose successor is y and that takes over its key.
LEMMA SplicedIsOrdered ==
  ASSUME links \in Links, NEW A \in SUBSET Nodes, NEW sub \in Subs, IsTree(links, A, sub),
         NEW y \in A, NEW b \in Sides, Child(y, b) = Null, NEW x, x = Child(y, Other(b)),
         NEW L, SplicedLinks(L, y, x),
         key \in [Nodes -> Int], Ordered(links, A, sub, key), NEW n \in A,
         NEW ky, \A m \in A : ky[m] = IF m = n THEN key[y] ELSE key[m],
         n # y => /\ y \in Sub(sub, Child(n, "right"))
                  /\ \A m \in Sub(sub, Child(n, "right")) : m = y \/ key[y] < key[m]
  PROVE  Ordered(L, A \ {y}, SplicedSub(sub, y), ky)
<1>1. PICK S : S = SplicedSub(sub, y)
  OBVIOUS
<1>2. SplicedBelow(L, S, A, sub, y)
  BY <1>1, SplicedIsTree
<1>3. ASSUME NEW m \in A \ {y}, NEW s \in Sides, NEW w \in Sub(S, L.child[m][s])
      PROVE  Beyond(s, ky[w], ky[m])
  <2>1. w \in Sub(sub, Child(m, s)) /\ w # y
    BY <1>2, <1>3 DEF SplicedBelow
  <2>2. w \in A /\ w # m
    BY <2>1, BelowFacts
  <2>3. \A v \in Sub(sub, Child(m, s)) : Beyond(s, key[v], key[m])
    BY DEF Ordered, Child
  <2>4. CASE m # n /\ w # n
    BY <2>1, <2>2, <2>3, <2>4
  <2>5. CASE w = n
    <3>1. n # y /\ y \in sub[n]
      BY <2>1, <2>5, BelowFacts DEF Sides
    <3>2. y \in Sub(sub, Child(m, s))
      <4>1. Child(m, s) # Null /\ Child(m, s) \in A /\ n \in sub[Child(m, s)]
        BY <2>1, <2>5, ChildFacts DEF Sub
      <4>. QED
        BY <3>1, <4>1, SubtreeFacts DEF Sub
    <3>. QED
      BY <2>2, <2>3, <2>5, <3>2
  <2>6. CASE m = n
    <3>1. y \in Sub(sub, Child(n, "right")) /\ key[n] < key[y] /\ ky[n] = key[y] /\ ky[w] = key[w]
      BY <1>3, <2>2, <2>6 DEF Ordered, Child, Beyond, Sides
    <3>2. key[w] \in Int /\ key[n] \in Int /\ key[y] \in Int
      BY <2>2
    <3>3. CASE s = "left"
      BY <2>1, <2>3, <2>6, <3>1, <3>2, <3>3 DEF Beyond
    <3>4. CASE s = "right"
      BY <2>1, <2>6, <3>1, <3>4 DEF Beyond
    <3>. QED
      BY <3>3, <3>4 DEF Sides
  <2>. QED
    BY <2>4, <2>5, <2>6
<1>. QED
  BY <1>1, <1>3 DEF Ordered

-----------------------------------------------------------------------------
(* The inductive invariant.                                                *)

\* If the key is in the tree it is at or below the node that the call has come
\* to, and if not, that is where it belongs.
OnWayDown(L, A, sub, ky, c) ==
  /\ c.node \in A \cup {Null} /\ c.other \in A \cup {Null}
  /\ \A q \in A : ky[q] = c.key => q \in Sub(sub, c.node)
  /\ c.other = Null => c.node = L.root
  /\ c.other # Null =>
       \E s \in Sides : c.node = L.child[c.other][s] /\ Beyond(s, c.key, ky[c.other])
  /\ \A m \in A, s \in Sides : c.other \in Sub(sub, L.child[m][s]) => Beyond(s, c.key, ky[m])

\* The node with the key has two children, and its successor is at or below the
\* node that the call has come to.
OnWayToSuccessor(L, A, sub, ky, va, c) ==
  /\ c.other \in A /\ ky[c.other] = c.key /\ va[c.other] = c.value
  /\ \A s \in Sides : L.child[c.other][s] # Null
  /\ c.node \in Sub(sub, L.child[c.other]["right"])
  /\ \A m \in Sub(sub, L.child[c.other]["right"]) : m \in sub[c.node] \/ ky[c.node] < ky[m]

TreeIsSound ==
  \E sub \in Subs :
    /\ IsTree(links, InTree, sub) /\ Ordered(links, InTree, sub, key)
    /\ call.at \in Descending => OnWayDown(links, InTree, sub, key, call)
    /\ call.at = "successor" => OnWayToSuccessor(links, InTree, sub, key, value, call)

KeysAreSound ==
  /\ \A n \in InTree : key[n] \in Keys /\ value[n] \in Values
  /\ \A m, n \in InTree : key[m] = key[n] => m = n
  /\ call.at = "insert" => call.value \in Values

SizeIsSound == IsFiniteSet(allocated) /\ SizeToBe = Cardinality(InTree)

\* No red node is the root or has a red parent, those in X aside.
Strict(L, A, co, X) == \A n \in A \ X : co[n] = "red" => n # L.root /\ co[L.parent[n]] = "black"

\* fix_delete ends with painting the node that it has come to.
Painted == IF call.at = "delete" THEN [color EXCEPT ![call.node] = "black"] ELSE color
Spared == IF call.at \in Inserting THEN {call.node} ELSE {}

RepairIsSound ==
  /\ call.at \in Inserting => call.node \in InTree /\ IsRed(call.node)
  /\ call.at = "raise" => /\ call.node # links.root /\ Parent(call.node) # links.root
                          /\ IsRed(Parent(call.node)) /\ ~IsInner(call.node) /\ ~IsRed(Uncle)
  /\ call.at \in Deleting => call.node \in InTree /\ call.other \in allocated
  /\ call.at \in {"nephews", "turn"} => call.node # links.root /\ ~IsRed(call.node)
  /\ call.at = "turn" => Sibling(call.node) # Null /\ Far # Null

ColorsAreSound == Strict(links, InTree, Painted, Spared)

TreeInv ==
  /\ TreeTypeOK /\ TreeIsSound /\ KeysAreSound /\ SizeIsSound /\ RepairIsSound /\ ColorsAreSound

LEMMA InitIsSound == TreeInit => TreeInv
<1>. SUFFICES ASSUME TreeInit PROVE TreeInv
  OBVIOUS
<1>. USE DEF TreeInit
<1>1. TreeTypeOK
  <2>1. links \in Links
    BY DEF Links, Pointer
  <2>2. call \in Calls
    BY DEF Calls
  <2>3. /\ key \in [Nodes -> Int] /\ value \in [Nodes -> Values \cup {None}]
        /\ color \in [Nodes -> {"red", "black"}]
    OBVIOUS
  <2>. QED
    BY <2>1, <2>2, <2>3 DEF TreeTypeOK
<1>2. InTree = {} /\ call.at = "idle" /\ links.root = Null
  BY DEF InTree, Idle, Deleting
<1>3. TreeIsSound
  <2>1. PICK sub : sub = [n \in Nodes |-> {}]
    OBVIOUS
  <2>2. sub \in Subs /\ IsTree(links, InTree, sub) /\ Ordered(links, InTree, sub, key)
    BY <1>2, <2>1 DEF Subs, IsTree, Rooted, Linked, Split, Nested, Ordered, Sub
  <2>. QED
    BY <1>2, <2>2 DEF TreeIsSound, Descending
<1>4. SizeIsSound
  BY <1>2, FS_EmptySet DEF SizeIsSound, SizeToBe, Inserting, Deleting
<1>5. KeysAreSound /\ RepairIsSound /\ ColorsAreSound
  BY <1>2 DEF KeysAreSound, RepairIsSound, ColorsAreSound, Strict, Inserting, Deleting
<1>. QED
  BY <1>1, <1>3, <1>4, <1>5 DEF TreeInv

-----------------------------------------------------------------------------
(* What every step starts from.                                            *)

\* The tree as it is, with sub as witness.
Witness(sub) ==
  /\ sub \in Subs /\ IsTree(links, InTree, sub) /\ Ordered(links, InTree, sub, key)
  /\ call.at \in Descending => OnWayDown(links, InTree, sub, key, call)
  /\ call.at = "successor" => OnWayToSuccessor(links, InTree, sub, key, value, call)

LEMMA TypeFacts ==
  ASSUME TreeTypeOK
  PROVE  /\ links \in Links /\ key \in [Nodes -> Int] /\ value \in [Nodes -> Values \cup {None}]
         /\ color \in [Nodes -> {"red", "black"}] /\ allocated \in SUBSET Nodes
         /\ InTree \in SUBSET Nodes /\ tree_size \in Nat
         /\ call = Idle \/
              /\ call.at \in Descending \cup {"successor"} \cup Inserting \cup Deleting
              /\ call.key \in Keys /\ call.value \in Values \cup {None}
              /\ call.node \in Pointer /\ call.other \in Pointer
              /\ call = [at |-> call.at, key |-> call.key, value |-> call.value,
                         node |-> call.node, other |-> call.other]
         /\ call.at # "idle" => call # Idle
BY DEF TreeTypeOK, Calls, Idle, InTree

LEMMA WitnessExists ==
  ASSUME TreeInv
  PROVE  \E sub \in Subs : Witness(sub)
BY DEF TreeInv, TreeIsSound, Witness

\* Steps that leave the tree alone, on the way down.
LEMMA StillKeeps ==
  ASSUME TreeInv, Still, call.at \notin Inserting \cup Deleting,
         call' \in Calls, call'.at \notin Inserting \cup Deleting,
         tree_reply' \in Values \cup {None},
         call'.at = "insert" => call'.value \in Values,
         \A sub \in Subs : Witness(sub) =>
           /\ call'.at \in Descending => OnWayDown(links, InTree, sub, key, call')
           /\ call'.at = "successor" => OnWayToSuccessor(links, InTree, sub, key, value, call')
  PROVE  TreeInv'
<1>1. InTree' = InTree /\ InTree = allocated /\ call.at # "delete" /\ call'.at # "delete"
  BY DEF Still, InTree, Deleting
<1>2. TreeTypeOK'
  BY DEF TreeInv, TreeTypeOK, Still
<1>3. TreeIsSound'
  <2>1. PICK sub \in Subs : Witness(sub)
    BY WitnessExists
  <2>. QED
    BY <1>1, <2>1 DEF TreeIsSound, Witness, Still
<1>4. KeysAreSound' /\ SizeIsSound'
  BY <1>1 DEF TreeInv, KeysAreSound, SizeIsSound, SizeToBe, Still
<1>5. RepairIsSound'
  BY DEF RepairIsSound, Inserting, Deleting
<1>6. ColorsAreSound'
  BY <1>1 DEF TreeInv, ColorsAreSound, Strict, Painted, Spared, Still
<1>. QED
  BY <1>2, <1>3, <1>4, <1>5, <1>6 DEF TreeInv

LEMMA StartKeeps ==
  ASSUME TreeInv, NEW op \in Descending, NEW k \in Keys, NEW v \in Values \cup {None},
         op = "insert" => v \in Values, Start(op, k, v)
  PROVE  TreeInv'
<1>1. /\ call = Idle /\ Still /\ tree_reply' = tree_reply
      /\ call' = [at |-> op, key |-> k, value |-> v, node |-> links.root, other |-> Null]
  BY DEF Start
<1>2. TreeTypeOK /\ InTree \in SUBSET Nodes /\ links.root \in Pointer
  BY TypeFacts, LinksFacts DEF TreeInv
<1>3. /\ call.at \notin Inserting \cup Deleting /\ call'.at \notin Inserting \cup Deleting
      /\ call'.at # "successor"
  BY <1>1 DEF Idle, Inserting, Deleting, Descending
<1>4. call' \in Calls
  <2>1. op \in Descending \cup {"successor"} \cup Inserting \cup Deleting /\ Null \in Pointer
    BY DEF Pointer
  <2>. QED
    BY <1>1, <1>2, <2>1 DEF Calls
<1>5. ASSUME NEW sub \in Subs, Witness(sub)
      PROVE  OnWayDown(links, InTree, sub, key, call')
  <2>1. links.root \in InTree \cup {Null} /\ InTree = Sub(sub, links.root)
    BY <1>5 DEF Witness, IsTree, Rooted
  <2>2. \A m \in InTree, s \in Sides : Null \notin Sub(sub, Child(m, s))
    BY <1>2, <1>5, BelowFacts, NullIsNone DEF Witness
  <2>. QED
    BY <1>1, <2>1, <2>2 DEF OnWayDown, Child
<1>. QED
  BY <1>1, <1>2, <1>3, <1>4, <1>5, StillKeeps DEF TreeTypeOK

LEMMA DescendKeeps == ASSUME TreeInv, Descend PROVE TreeInv'
<1>1. PICK n, side, k :
        /\ n = call.node /\ k = call.key /\ side = Toward(k, n)
        /\ call.at \in Descending /\ n # Null /\ key[n] # k
        /\ call' = [call EXCEPT !.node = Child(n, side), !.other = n]
        /\ Still /\ tree_reply' = tree_reply
  BY DEF Descend
<1>2. /\ TreeTypeOK /\ InTree \in SUBSET Nodes /\ n \in Nodes /\ side \in Sides
      /\ k \in Keys /\ key \in [Nodes -> Int] /\ Child(n, side) \in Pointer
  BY <1>1, TypeFacts, LinksFacts DEF TreeInv, Pointer, Toward, Sides, Descending, Idle
<1>3. /\ call' = [at |-> call.at, key |-> k, value |-> call.value, node |-> Child(n, side),
                  other |-> n]
      /\ call.value \in Values \cup {None}
  BY <1>1, TypeFacts DEF TreeInv, Descending, Idle
<1>4. call.at \notin Inserting \cup Deleting /\ call'.at = call.at /\ call.at # "successor"
  BY <1>1, <1>3 DEF Inserting, Deleting, Descending
<1>5. call' \in Calls
  BY <1>1, <1>2, <1>3 DEF Calls, Pointer
<1>6. ASSUME NEW sub \in Subs, Witness(sub)
      PROVE  OnWayDown(links, InTree, sub, key, call')
  <2>1. /\ IsTree(links, InTree, sub) /\ Ordered(links, InTree, sub, key)
        /\ OnWayDown(links, InTree, sub, key, call)
    BY <1>1, <1>6 DEF Witness
  <2>2. n \in InTree
    BY <1>1, <2>1 DEF OnWayDown
  <2>3. Beyond(side, k, key[n])
    BY <1>1, <1>2, TreeAssumption DEF Toward, Beyond, Sides
  <2>4. Child(n, side) \in InTree \cup {Null}
    BY <1>2, <2>1, <2>2, ChildFacts
  <2>5. ASSUME NEW q \in InTree, key[q] = k
        PROVE  q \in Sub(sub, Child(n, side))
    <3>1. q \in sub[n] /\ q # n
      BY <1>1, <2>1, <2>5 DEF OnWayDown, Sub
    <3>2. q \in Sub(sub, Child(n, side)) \/ q \in Sub(sub, Child(n, Other(side)))
      BY <1>2, <2>1, <2>2, <3>1, SplitBySide
    <3>3. q \in Sub(sub, Child(n, Other(side))) => Beyond(Other(side), k, key[n])
      BY <1>2, <2>1, <2>2, <2>5, SidesFacts DEF Ordered, Child
    <3>4. ~(Beyond(side, k, key[n]) /\ Beyond(Other(side), k, key[n]))
      BY <1>2, <2>5, TreeAssumption DEF Beyond, Sides, Other
    <3>. QED
      BY <2>3, <3>2, <3>3, <3>4
  <2>6. ASSUME NEW m \in InTree, NEW s \in Sides, n \in Sub(sub, Child(m, s))
        PROVE  Beyond(s, k, key[m])
    <3>1. Child(m, s) \in InTree /\ Child(m, s) # Null /\ n \in sub[Child(m, s)]
      BY <1>2, <2>1, <2>6, ChildFacts DEF Sub
    <3>2. CASE call.other = Null
      <4>1. n = links.root /\ sub[n] = InTree /\ n # m
        BY <1>1, <1>2, <2>1, <2>6, <3>2, BelowFacts DEF OnWayDown, IsTree, Rooted, Sub
      <4>2. n \in sub[m]
        BY <1>2, <2>1, <2>6, BelowFacts
      <4>. QED
        BY <1>2, <2>1, <2>2, <4>1, <4>2, SubtreeFacts
    <3>3. CASE call.other # Null
      <4>1. PICK p \in InTree, t \in Sides :
              p = call.other /\ n = Child(p, t) /\ Beyond(t, k, key[p])
        BY <1>1, <2>1, <3>3 DEF OnWayDown, Child
      <4>2. Parent(n) = p /\ SideOf(n) = t
        <5>1. Child(p, t) # Null
          BY <1>1, <4>1
        <5>2. Parent(Child(p, t)) = p /\ SideOf(Child(p, t)) = t
          BY <1>2, <2>1, <5>1, ChildFacts
        <5>. QED
          BY <4>1, <5>2
      <4>3. CASE n = Child(m, s)
        <5>1. m = p /\ s = t
          <6>1. Parent(Child(m, s)) = m /\ SideOf(Child(m, s)) = s
            BY <1>2, <2>1, <3>1, ChildFacts
          <6>. QED
            BY <4>2, <4>3, <6>1
        <5>. QED
          BY <4>1, <5>1
      <4>4. CASE n # Child(m, s)
        <5>1. p \in Sub(sub, Child(m, s))
          BY <1>2, <2>1, <3>1, <4>2, <4>4, SubtreeFacts DEF Sub
        <5>. QED
          BY <1>1, <2>1, <4>1, <5>1 DEF OnWayDown, Child
      <4>. QED
        BY <4>3, <4>4
    <3>. QED
      BY <3>2, <3>3
  <2>7. n # Null /\ Child(n, side) = links.child[n][side]
    BY <1>1 DEF Child
  <2>. QED
    BY <1>2, <1>3, <2>2, <2>3, <2>4, <2>5, <2>6, <2>7 DEF OnWayDown, Child
<1>7. call'.at = "insert" => call'.value \in Values
  BY <1>3, <1>4 DEF TreeInv, KeysAreSound
<1>. QED
  BY <1>1, <1>4, <1>5, <1>6, <1>7, StillKeeps DEF TreeInv, TreeTypeOK

LEMMA AnswerKeeps == ASSUME TreeInv, Find \/ Miss PROVE TreeInv'
<1>1. /\ Still /\ call' = Idle /\ call.at \in {"find", "remove"}
      /\ tree_reply' \in Values \cup {None}
  <2>1. CASE Find
    <3>1. Still /\ call' = Idle /\ call.at = "find" /\ call.node # Null /\ tree_reply' = value[call.node]
      BY <2>1 DEF Find, Return, Arrived
    <3>2. value[call.node] \in Values \cup {None}
      BY <3>1, TypeFacts DEF TreeInv, Pointer, Idle
    <3>. QED
      BY <3>1, <3>2
  <2>2. CASE Miss
    BY <2>2 DEF Miss, Missed, Return
  <2>. QED
    BY <2>1, <2>2
<1>2. /\ call.at \notin Inserting \cup Deleting /\ call'.at \notin Inserting \cup Deleting
      /\ call'.at \notin Descending /\ call'.at # "successor"
  BY <1>1 DEF Idle, Inserting, Deleting, Descending
<1>3. call' \in Calls
  BY <1>1 DEF Calls
<1>. QED
  BY <1>1, <1>2, <1>3, StillKeeps DEF Descending

LEMMA FindSuccessorKeeps == ASSUME TreeInv, FindSuccessor PROVE TreeInv'
<1>1. PICK n, r :
        /\ n = call.node /\ r = Child(n, "right") /\ call.at = "remove" /\ n # Null
        /\ key[n] = call.key /\ \A s \in Sides : Child(n, s) # Null
        /\ call' = [call EXCEPT !.at = "successor", !.value = value[n], !.node = r, !.other = n]
        /\ Still /\ tree_reply' = tree_reply
  BY DEF FindSuccessor, Arrived
<1>2. /\ TreeTypeOK /\ InTree \in SUBSET Nodes /\ n \in Nodes /\ call.key \in Keys
      /\ r \in Pointer /\ r # Null /\ value[n] \in Values \cup {None}
  BY <1>1, TypeFacts, LinksFacts DEF TreeInv, Pointer, Idle, Sides
<1>3. call' = [at |-> "successor", key |-> call.key, value |-> value[n], node |-> r, other |-> n]
  BY <1>1, <1>2, TypeFacts DEF Idle
<1>4. /\ call.at \notin Inserting \cup Deleting /\ call'.at \notin Inserting \cup Deleting
      /\ call'.at \notin Descending /\ call'.at = "successor"
  BY <1>1, <1>3 DEF Inserting, Deleting, Descending
<1>5. call' \in Calls
  BY <1>2, <1>3 DEF Calls, Pointer
<1>6. ASSUME NEW sub \in Subs, Witness(sub)
      PROVE  OnWayToSuccessor(links, InTree, sub, key, value, call')
  <2>1. IsTree(links, InTree, sub) /\ n \in InTree
    BY <1>1, <1>6 DEF Witness, OnWayDown, Descending
  <2>2. r \in sub[r]
    BY <1>1, <1>2, <2>1, ChildFacts DEF Sides
  <2>. QED
    BY <1>1, <1>2, <1>3, <2>1, <2>2 DEF OnWayToSuccessor, Child, Sub
<1>. QED
  BY <1>1, <1>2, <1>4, <1>5, <1>6, StillKeeps DEF TreeTypeOK, Descending

LEMMA NextLeftKeeps == ASSUME TreeInv, NextLeft PROVE TreeInv'
<1>1. PICK y, n, l :
        /\ y = call.node /\ n = call.other /\ l = Child(y, "left") /\ call.at = "successor"
        /\ l # Null /\ call' = [call EXCEPT !.node = l]
        /\ Still /\ tree_reply' = tree_reply
  BY DEF NextLeft
<1>2. PICK sub \in Subs : Witness(sub)
  BY WitnessExists
<1>3. TreeTypeOK /\ InTree \in SUBSET Nodes /\ call.key \in Keys /\ key \in [Nodes -> Int]
  BY <1>1, TypeFacts DEF TreeInv, Idle
<1>4. /\ call' = [at |-> "successor", key |-> call.key, value |-> call.value, node |-> l, other |-> n]
      /\ call.value \in Values \cup {None}
  BY <1>1, TypeFacts DEF TreeInv, Idle
<1>5. ASSUME NEW S \in Subs, Witness(S)
      PROVE  /\ n \in InTree /\ y \in InTree /\ l \in InTree
             /\ OnWayToSuccessor(links, InTree, S, key, value, call')
  <2>1. /\ IsTree(links, InTree, S) /\ Ordered(links, InTree, S, key)
        /\ OnWayToSuccessor(links, InTree, S, key, value, call)
    BY <1>1, <1>5 DEF Witness, Descending
  <2>2. n \in InTree /\ y \in Sub(S, Child(n, "right"))
    BY <1>1, <2>1 DEF OnWayToSuccessor, Child
  <2>3. y \in InTree /\ Child(n, "right") \in InTree /\ y \in S[Child(n, "right")]
    BY <1>3, <2>1, <2>2, BelowFacts, ChildFacts DEF Sides, Sub
  <2>4. l \in InTree /\ l \in S[l] /\ l \in S[y]
    BY <1>1, <1>3, <2>1, <2>3, ChildFacts, ZenonT(60) DEF Sides
  <2>5. l \in Sub(S, Child(n, "right"))
    BY <1>3, <2>1, <2>2, <2>3, <2>4, SubtreeFacts DEF Sub
  <2>6. ASSUME NEW m \in Sub(S, Child(n, "right"))
        PROVE  m \in S[l] \/ key[l] < key[m]
    <3>1. m \in InTree
      BY <1>3, <2>1, <2>2, <2>6, BelowFacts DEF Sides
    <3>2. key[l] < key[y] /\ key[l] \in Int /\ key[m] \in Int /\ key[y] \in Int
      BY <1>1, <1>3, <2>1, <2>3, <2>4, <3>1 DEF Ordered, Child, Sides, Beyond, Sub
    <3>3. m \in S[y] \/ key[y] < key[m]
      BY <1>1, <2>1, <2>6 DEF OnWayToSuccessor, Child
    <3>4. m \in S[y] => m = y \/ m \in S[l] \/ m \in Sub(S, Child(y, "right"))
      BY <1>1, <2>1, <2>3 DEF IsTree, Split, Child, Sub
    <3>5. m \in Sub(S, Child(y, "right")) => key[y] < key[m]
      BY <2>1, <2>3 DEF Ordered, Child, Sides, Beyond
    <3>. QED
      BY <3>2, <3>3, <3>4, <3>5
  <2>. QED
    BY <1>1, <1>4, <2>1, <2>2, <2>3, <2>4, <2>5, <2>6 DEF OnWayToSuccessor, Child
<1>6. call' \in Calls
  BY <1>2, <1>3, <1>4, <1>5 DEF Calls, Pointer
<1>7. /\ call.at \notin Inserting \cup Deleting /\ call'.at \notin Inserting \cup Deleting
      /\ call'.at \notin Descending /\ call'.at = "successor"
  BY <1>1, <1>4 DEF Inserting, Deleting, Descending
<1>. QED
  BY <1>1, <1>3, <1>5, <1>6, <1>7, StillKeeps DEF TreeTypeOK, Descending

LEMMA CrashKeeps == ASSUME TreeInv, Crash PROVE TreeInv'
<1>1. /\ crashed' = TRUE
      /\ UNCHANGED <<links, key, value, color, allocated, tree_size, call, tree_reply, unfixed>>
  BY DEF Crash
<1>2. TreeTypeOK'
  BY <1>1 DEF TreeInv, TreeTypeOK
<1>3. TreeIsSound'
  BY <1>1 DEF TreeInv, TreeIsSound, InTree
<1>4. KeysAreSound' /\ SizeIsSound'
  BY <1>1 DEF TreeInv, KeysAreSound, SizeIsSound, SizeToBe, InTree
<1>5. RepairIsSound'
  BY <1>1 DEF TreeInv, RepairIsSound, InTree, IsInner, Uncle, Sibling, SideOf, Parent, Child, IsRed, Far
<1>6. ColorsAreSound'
  BY <1>1 DEF TreeInv, ColorsAreSound, Painted, Spared, InTree
<1>. QED
  BY <1>2, <1>3, <1>4, <1>5, <1>6 DEF TreeInv

LEMMA ClearKeeps == ASSUME TreeInv, Clear PROVE TreeInv'
<1>1. /\ call' = Idle /\ tree_reply' = None /\ allocated' = {} /\ tree_size' = 0 /\ unfixed' = FALSE
      /\ links' = [links EXCEPT !.root = Null]
      /\ UNCHANGED <<key, value, color, crashed>>
  BY DEF Clear, Return
<1>2. TreeTypeOK /\ links \in Links
  BY TypeFacts DEF TreeInv
<1>3. links' \in Links /\ links'.root = Null
  BY <1>1, <1>2 DEF Links, Pointer
<1>4. TreeTypeOK'
  <2>1. call' \in Calls
    BY <1>1 DEF Calls
  <2>. QED
    BY <1>1, <1>2, <1>3, <2>1 DEF TreeTypeOK
<1>5. /\ InTree' = {} /\ call'.at = "idle" /\ call'.at \notin Inserting \cup Deleting
      /\ call'.at \notin Descending
  BY <1>1 DEF InTree, Idle, Inserting, Deleting, Descending
<1>6. TreeIsSound'
  <2>1. PICK sub : sub = [n \in Nodes |-> {}]
    OBVIOUS
  <2>2. sub \in Subs /\ IsTree(links', InTree', sub) /\ Ordered(links', InTree', sub, key')
    BY <1>3, <1>5, <2>1 DEF Subs, IsTree, Rooted, Linked, Split, Nested, Ordered, Sub
  <2>. QED
    BY <1>5, <2>2 DEF TreeIsSound
<1>7. SizeIsSound'
  BY <1>1, <1>5, FS_EmptySet DEF SizeIsSound, SizeToBe
<1>8. KeysAreSound' /\ RepairIsSound' /\ ColorsAreSound'
  BY <1>5 DEF KeysAreSound, RepairIsSound, ColorsAreSound, Strict, Inserting, Deleting
<1>. QED
  BY <1>4, <1>6, <1>7, <1>8 DEF TreeInv

LEMMA UpdateKeeps == ASSUME TreeInv, Update PROVE TreeInv'
<1>1. PICK n : /\ n = call.node /\ call.at = "insert" /\ n # Null
               /\ value' = [value EXCEPT ![n] = call.value] /\ call' = Idle /\ tree_reply' = None
               /\ UNCHANGED <<links, key, color, allocated, tree_size, unfixed, crashed>>
  BY DEF Update, Arrived, Return
<1>2. call.value \in Values /\ TreeTypeOK
  BY <1>1 DEF TreeInv, KeysAreSound
<1>3. TreeTypeOK'
  <2>1. call' \in Calls /\ value' \in [Nodes -> Values \cup {None}]
    BY <1>1, <1>2 DEF Calls, TreeTypeOK
  <2>. QED
    BY <1>1, <1>2, <2>1 DEF TreeTypeOK
<1>4. /\ InTree' = InTree /\ InTree \in SUBSET Nodes
      /\ call'.at = "idle" /\ call'.at \notin Inserting \cup Deleting /\ call'.at \notin Descending
      /\ call.at \notin Inserting \cup Deleting
  BY <1>1, <1>2, TypeFacts DEF InTree, Idle, Inserting, Deleting, Descending
<1>5. TreeIsSound'
  BY <1>1, <1>4 DEF TreeInv, TreeIsSound
<1>6. KeysAreSound'
  BY <1>1, <1>2, <1>4 DEF TreeInv, KeysAreSound, TreeTypeOK
<1>7. SizeIsSound' /\ ColorsAreSound' /\ RepairIsSound'
  BY <1>1, <1>4 DEF TreeInv, SizeIsSound, SizeToBe, ColorsAreSound, Strict, Painted, Spared,
    RepairIsSound, Inserting, Deleting
<1>. QED
  BY <1>3, <1>5, <1>6, <1>7 DEF TreeInv

\* The new node z is linked below p, on the side that its key belongs to.
HungBy(z, sub, p, k, t) ==
  /\ p = call.other /\ k = call.key /\ t = Toward(k, p) /\ call.at = "insert" /\ call.node = Null
  /\ TreeTypeOK /\ InTree = allocated /\ InTree \in SUBSET Nodes /\ z \notin InTree
  /\ k \in Keys /\ call.value \in Values /\ t \in Sides /\ p \in Pointer
  /\ call' = [at |-> "mend", key |-> k, value |-> call.value, node |-> z, other |-> p]
  /\ p \in InTree \cup {Null} /\ p # z /\ (p = Null => links.root = Null)
  /\ p # Null => Child(p, t) = Null /\ Beyond(t, k, key[p])
  /\ \A m \in InTree, s \in Sides : p \in Sub(sub, Child(m, s)) => Beyond(s, k, key[m])
  /\ \A q \in InTree : key[q] # k
  /\ HungLinks(links', z, p, t) /\ links' \in Links
  /\ allocated' = allocated \cup {z} /\ InTree' = InTree \cup {z}
  /\ key' \in [Nodes -> Int] /\ value' \in [Nodes -> Values \cup {None}]
  /\ color' \in [Nodes -> {"red", "black"}]
  /\ key'[z] = k /\ value'[z] = call.value /\ color'[z] = "red"
  /\ \A m \in InTree : key'[m] = key[m] /\ value'[m] = value[m] /\ color'[m] = color[m]
  /\ UNCHANGED <<tree_size, tree_reply, unfixed, crashed>>

LEMMA HangFacts ==
  ASSUME TreeInv, NEW z \in Nodes, Hang(z), NEW sub \in Subs, Witness(sub)
  PROVE  \E p, k, t : HungBy(z, sub, p, k, t)
<1>0. PICK p, k, t : p = call.other /\ k = call.key /\ t = Toward(k, p)
  OBVIOUS
<1>1.   /\ p = call.other /\ k = call.key /\ t = Toward(k, p)
        /\ call.at = "insert" /\ call.node = Null /\ z \notin allocated
        /\ allocated' = allocated \cup {z}
        /\ key' = [key EXCEPT ![z] = k] /\ value' = [value EXCEPT ![z] = call.value]
        /\ color' = [color EXCEPT ![z] = "red"]
        /\ links' = [root |-> IF p = Null THEN z ELSE links.root,
                     parent |-> [links.parent EXCEPT ![z] = p],
                     child |-> [m \in Nodes |-> [s \in Sides |->
                       CASE m = z -> Null [] m = p /\ s = t -> z [] OTHER -> Child(m, s)]]]
        /\ call' = [call EXCEPT !.at = "mend", !.node = z]
        /\ UNCHANGED <<tree_size, tree_reply, unfixed, crashed>>
  BY <1>0 DEF Hang, Missed
<1>2. /\ TreeTypeOK /\ InTree = allocated /\ InTree \in SUBSET Nodes /\ z \notin InTree
      /\ k \in Keys /\ call.value \in Values /\ t \in Sides /\ p \in Pointer
      /\ call' = [at |-> "mend", key |-> k, value |-> call.value, node |-> z, other |-> p]
  BY <1>1, TypeFacts DEF TreeInv, KeysAreSound, InTree, Toward, Sides, Idle, Deleting
<1>3. /\ IsTree(links, InTree, sub) /\ Ordered(links, InTree, sub, key)
      /\ OnWayDown(links, InTree, sub, key, call)
  BY <1>1 DEF Witness, Descending
<1>4. p \in InTree \cup {Null} /\ p # z /\ (p = Null => links.root = Null)
  BY <1>1, <1>2, <1>3, NullIsNone DEF OnWayDown
<1>5. p # Null => Child(p, t) = Null /\ Beyond(t, k, key[p])
  <2>1. SUFFICES ASSUME p # Null PROVE Child(p, t) = Null /\ Beyond(t, k, key[p])
    OBVIOUS
  <2>2. PICK s \in Sides : Null = Child(p, s) /\ Beyond(s, k, key[p])
    BY <1>1, <1>3, <2>1 DEF OnWayDown, Child
  <2>3. k \in Int /\ key[p] \in Int
    BY <1>2, <1>4, <2>1, TreeAssumption, TypeFacts
  <2>4. s = t
    BY <1>1, <2>2, <2>3 DEF Toward, Sides, Beyond
  <2>. QED
    BY <2>2, <2>4
<1>6. \A m \in InTree, s \in Sides : p \in Sub(sub, Child(m, s)) => Beyond(s, k, key[m])
  BY <1>1, <1>3 DEF OnWayDown, Child
<1>7. \A q \in InTree : key[q] # k
  BY <1>1, <1>3 DEF OnWayDown, Sub
<1>8. HungLinks(links', z, p, t) /\ links' \in Links
  <2>1. links.parent \in [Nodes -> Pointer] /\ links.root \in Pointer
    BY <1>2 DEF TreeTypeOK, Links
  <2>2. /\ links'.parent \in [Nodes -> Pointer]
        /\ \A m \in Nodes : links'.parent[m] = IF m = z THEN p ELSE Parent(m)
    BY <1>1, <1>2, <2>1 DEF Parent
  <2>3. links'.child = [m \in Nodes |-> [s \in Sides |->
                          CASE m = z -> Null [] m = p /\ s = t -> z [] OTHER -> Child(m, s)]]
    BY <1>1
  <2>4. \A m \in Nodes, s \in Sides :
          links'.child[m][s] = IF m = z THEN Null ELSE IF m = p /\ s = t THEN z ELSE Child(m, s)
    BY <1>4, <2>3
  <2>5. links'.child \in [Nodes -> [Sides -> Pointer]]
    BY <1>2, <2>3, LinksFacts DEF Pointer, TreeTypeOK
  <2>6. links'.root = (IF p = Null THEN z ELSE links.root) /\ links'.root \in Pointer
    BY <1>1, <2>1 DEF Pointer
  <2>7. links' = [root |-> links'.root, parent |-> links'.parent, child |-> links'.child]
    BY <1>1
  <2>. QED
    BY <2>2, <2>4, <2>5, <2>6, <2>7 DEF HungLinks, Links
<1>9. InTree' = InTree \cup {z}
  BY <1>1, <1>2 DEF InTree, Deleting
<1>10. /\ key' \in [Nodes -> Int] /\ value' \in [Nodes -> Values \cup {None}]
       /\ color' \in [Nodes -> {"red", "black"}]
       /\ key'[z] = k /\ value'[z] = call.value /\ color'[z] = "red"
       /\ \A m \in InTree : key'[m] = key[m] /\ value'[m] = value[m] /\ color'[m] = color[m]
  BY <1>1, <1>2, TreeAssumption DEF TreeTypeOK
<1>11. HungBy(z, sub, p, k, t)
  BY <1>1, <1>2, <1>4, <1>5, <1>6, <1>7, <1>8, <1>9, <1>10 DEF HungBy
<1>. QED
  BY <1>11

LEMMA HangKeeps == ASSUME TreeInv, NEW z \in Nodes, Hang(z) PROVE TreeInv'
<1>3. PICK sub \in Subs : /\ Witness(sub) /\ IsTree(links, InTree, sub)
                          /\ Ordered(links, InTree, sub, key)
  BY WitnessExists DEF Witness
<1>0. PICK p, k, t : HungBy(z, sub, p, k, t)
  BY <1>3, HangFacts
<1>1. /\ p = call.other /\ k = call.key /\ call.at = "insert"
      /\ allocated' = allocated \cup {z} /\ UNCHANGED <<tree_size, tree_reply, unfixed, crashed>>
  BY <1>0 DEF HungBy
<1>2. /\ TreeTypeOK /\ InTree = allocated /\ InTree \in SUBSET Nodes /\ z \notin InTree
      /\ k \in Keys /\ call.value \in Values /\ t \in Sides /\ p \in Pointer
      /\ call' = [at |-> "mend", key |-> k, value |-> call.value, node |-> z, other |-> p]
  BY <1>0 DEF HungBy
<1>4. p \in InTree \cup {Null} /\ p # z /\ (p = Null => links.root = Null)
  BY <1>0 DEF HungBy
<1>5. p # Null => Child(p, t) = Null /\ Beyond(t, k, key[p])
  BY <1>0 DEF HungBy
<1>6. \A m \in InTree, s \in Sides : p \in Sub(sub, Child(m, s)) => Beyond(s, k, key[m])
  BY <1>0 DEF HungBy
<1>7. \A q \in InTree : key[q] # k
  BY <1>0 DEF HungBy
<1>8. HungLinks(links', z, p, t) /\ links' \in Links
  BY <1>0 DEF HungBy
<1>9. /\ InTree' = InTree \cup {z} /\ call'.at = "mend" /\ call'.node = z
      /\ call'.at \in Inserting /\ call'.at \notin Deleting /\ call'.at \notin Descending
      /\ call.at \notin Inserting /\ call.at \notin Deleting
  BY <1>0, <1>1, <1>2 DEF HungBy, Inserting, Deleting, Descending
<1>10. /\ key' \in [Nodes -> Int] /\ value' \in [Nodes -> Values \cup {None}]
       /\ color' \in [Nodes -> {"red", "black"}]
       /\ key'[z] = k /\ value'[z] = call.value /\ color'[z] = "red"
       /\ \A m \in InTree : key'[m] = key[m] /\ value'[m] = value[m] /\ color'[m] = color[m]
  BY <1>0 DEF HungBy
<1>11. TreeTypeOK'
  <2>1. call' \in Calls
    BY <1>2 DEF Calls, Inserting, Pointer
  <2>. QED
    BY <1>1, <1>2, <1>8, <1>10, <2>1 DEF TreeTypeOK
<1>12. TreeIsSound'
  <2>1. PICK S : S = HungSub(InTree, sub, z, p)
    OBVIOUS
  <2>2. S \in Subs /\ IsTree(links', InTree', S)
    BY <1>2, <1>3, <1>4, <1>5, <1>8, <1>9, <2>1, HungIsTree DEF TreeTypeOK
  <2>3. Ordered(links', InTree', S, key')
    BY <1>2, <1>3, <1>4, <1>5, <1>6, <1>8, <1>9, <1>10, <2>1, HungIsOrdered DEF TreeTypeOK
  <2>. QED
    BY <1>9, <2>2, <2>3 DEF TreeIsSound
<1>13. KeysAreSound'
  BY <1>2, <1>7, <1>9, <1>10 DEF TreeInv, KeysAreSound
<1>14. SizeIsSound'
  <2>1. IsFiniteSet(allocated) /\ tree_size = Cardinality(InTree)
    BY <1>9 DEF TreeInv, SizeIsSound, SizeToBe
  <2>. QED
    BY <1>1, <1>2, <1>9, <2>1, FS_AddElement DEF SizeIsSound, SizeToBe
<1>15. RepairIsSound'
  BY <1>9, <1>10, NullIsNone DEF RepairIsSound, IsRed, Deleting
<1>16. ColorsAreSound'
  <2>1. Painted' = color' /\ Spared' = {z}
    BY <1>9 DEF Painted, Spared
  <2>2. Strict(links, InTree, color, {})
    BY <1>1, <1>9 DEF TreeInv, ColorsAreSound, Painted, Spared
  <2>3. ASSUME NEW n \in InTree, color[n] = "red"
        PROVE  n # links'.root /\ color'[links'.parent[n]] = "black"
    <3>1. n # links.root /\ color[Parent(n)] = "black"
      BY <2>2, <2>3 DEF Strict, Parent
    <3>2. Parent(n) \in InTree
      BY <1>2, <1>3, <3>1, ParentFacts
    <3>3. p # Null
      BY <1>3, <1>4 DEF IsTree, Rooted, Sub
    <3>. QED
      BY <1>2, <1>8, <1>10, <3>1, <3>2, <3>3 DEF HungLinks
  <2>. QED
    BY <1>9, <1>10, <2>1, <2>3 DEF ColorsAreSound, Strict
<1>. QED
  BY <1>11, <1>12, <1>13, <1>14, <1>15, <1>16 DEF TreeInv

-----------------------------------------------------------------------------
(* fix_insert.                                                             *)

\* Whatever is below g is on one of its sides.
LEMMA ChildrenFacts ==
  ASSUME NEW A \in SUBSET Nodes, NEW sub, IsTree(links, A, sub)
  PROVE  \A g \in A, s \in Sides, m \in A :
           Parent(m) = g => m = Child(g, s) \/ m = Child(g, Other(s))
<1>. TAKE g \in A, s \in Sides, m \in A
<1>. HAVE Parent(m) = g
<1>1. m # links.root
  BY ParentFacts, NullIsNone
<1>2. SideOf(m) \in Sides /\ Child(g, SideOf(m)) = m
  BY <1>1, ParentFacts
<1>. QED
  BY <1>2 DEF Sides, Other

\* A red node with a red parent has a black grandparent.
LEMMA MendingFacts ==
  ASSUME TreeInv, NEW sub \in Subs, IsTree(links, InTree, sub), Mending \/ call.at = "raise",
         NEW n, n = call.node, NEW p, p = Parent(n), NEW g, g = Parent(p), NEW u, u = Uncle
  PROVE  /\ n \in InTree /\ p \in InTree /\ g \in InTree
         /\ color[n] = "red" /\ color[p] = "red" /\ color[g] = "black"
         /\ n # p /\ n # g /\ p # g /\ n # links.root /\ p # links.root
         /\ SideOf(n) \in Sides /\ SideOf(p) \in Sides
         /\ Child(p, SideOf(n)) = n /\ Child(g, SideOf(p)) = p
         /\ u = Child(g, Other(SideOf(p)))
         /\ u # Null => u \in InTree /\ Parent(u) = g /\ u \notin {n, p, g}
         /\ \A m \in InTree : Parent(m) = g => m = p \/ m = u
<1>1. /\ InTree \in SUBSET Nodes /\ call.at \in Inserting /\ Painted = color /\ Spared = {n}
      /\ color \in [Nodes -> {"red", "black"}]
  BY TypeFacts DEF TreeInv, Mending, Inserting, Painted, Spared
<1>2. n \in InTree /\ n # links.root /\ IsRed(p) /\ color[n] = "red"
  BY <1>1 DEF TreeInv, RepairIsSound, Mending, IsRed
<1>3. p \in InTree /\ SideOf(n) \in Sides /\ Child(p, SideOf(n)) = n /\ p # n /\ p \notin sub[n]
  BY <1>1, <1>2, ParentFacts
<1>4. p # links.root /\ color[g] = "black" /\ color[p] = "red"
  BY <1>1, <1>2, <1>3 DEF TreeInv, ColorsAreSound, Strict, IsRed, Parent
<1>5. g \in InTree /\ SideOf(p) \in Sides /\ Child(g, SideOf(p)) = p
  BY <1>1, <1>3, <1>4, ParentFacts
<1>6. u = Child(g, Other(SideOf(p)))
  BY DEF Uncle, Sibling
<1>7. u # Null => u \in InTree /\ Parent(u) = g /\ u # g /\ u # p
  <2>1. PICK o \in Sides : o = Other(SideOf(p)) /\ Other(o) = SideOf(p)
    BY <1>5, SidesFacts
  <2>2. Child(g, o) # Null => /\ Child(g, o) \in InTree /\ Parent(Child(g, o)) = g /\ Child(g, o) # g
                              /\ Child(g, o) # p
    <3>1. /\ g \in InTree /\ InTree \in SUBSET Nodes
          /\ SideOf(p) \in Sides /\ SideOf(p) # o /\ Child(g, SideOf(p)) = p
      BY <1>1, <1>5, <2>1, SidesFacts
    <3>. QED
      BY <3>1, ChildFacts
  <2>. QED
    BY <1>5, <1>6, <2>1, <2>2
<1>8. \A m \in InTree : Parent(m) = g => m = p \/ m = u
  BY <1>1, <1>5, <1>6, ChildrenFacts
<1>. QED
  BY <1>2, <1>3, <1>4, <1>5, <1>6, <1>7, <1>8

LEMMA PushDownKeeps == ASSUME TreeInv, PushDown PROVE TreeInv'
<1>. DEFINE n == call.node
            p == Parent(n)
            g == Parent(p)
            u == Uncle
<1>1. /\ Mending /\ IsRed(u) /\ call.at = "mend"
      /\ color' = [color EXCEPT ![p] = "black", ![u] = "black", ![g] = "red"]
      /\ call' = [call EXCEPT !.node = g]
      /\ UNCHANGED <<links, key, value, allocated, tree_size, tree_reply, unfixed, crashed>>
  BY DEF PushDown, Mending
<1>2. PICK sub \in Subs : IsTree(links, InTree, sub)
  BY WitnessExists DEF Witness
<1>3. /\ n \in InTree /\ p \in InTree /\ g \in InTree
      /\ color[n] = "red" /\ color[p] = "red" /\ color[g] = "black"
      /\ n # p /\ n # g /\ p # g /\ n # links.root
      /\ u \in InTree /\ u \notin {n, p, g}
      /\ \A m \in InTree : Parent(m) = g => m = p \/ m = u
  BY <1>1, <1>2, MendingFacts DEF IsRed
<1>4. p = Parent(n) /\ g = Parent(p) /\ n = call.node
  OBVIOUS
<1>. HIDE DEF n, p, g, u
<1>5. TreeTypeOK /\ InTree \in SUBSET Nodes /\ color \in [Nodes -> {"red", "black"}]
  BY TypeFacts DEF TreeInv
<1>6. /\ call' = [at |-> "mend", key |-> call.key, value |-> call.value, node |-> g,
                  other |-> call.other]
      /\ call.key \in Keys /\ call.value \in Values \cup {None} /\ call.other \in Pointer
  BY <1>1, TypeFacts DEF TreeInv, Idle
<1>7. /\ InTree' = InTree /\ call'.at \in Inserting /\ call.at \in Inserting
      /\ call'.at \notin Deleting /\ call'.at \notin Descending
  BY <1>1, <1>6 DEF InTree, Inserting, Deleting, Descending
<1>8. /\ color' \in [Nodes -> {"red", "black"}] /\ color'[g] = "red" /\ color'[p] = "black"
      /\ color'[u] = "black"
      /\ \A m \in Nodes : m \notin {p, u, g} => color'[m] = color[m]
  BY <1>1, <1>3, <1>5
<1>9. TreeTypeOK'
  <2>1. call' \in Calls
    BY <1>3, <1>5, <1>6 DEF Calls, Inserting, Pointer
  <2>. QED
    BY <1>1, <1>5, <1>8, <2>1 DEF TreeTypeOK
<1>10. TreeIsSound'
  BY <1>1, <1>6, <1>7 DEF TreeInv, TreeIsSound
<1>11. KeysAreSound' /\ SizeIsSound'
  BY <1>1, <1>6, <1>7 DEF TreeInv, KeysAreSound, SizeIsSound, SizeToBe
<1>12. RepairIsSound'
  BY <1>3, <1>5, <1>6, <1>7, <1>8, NullIsNone DEF RepairIsSound, IsRed, Deleting
<1>13. ColorsAreSound'
  <2>1. Painted' = color' /\ Spared' = {g} /\ Painted = color /\ Spared = {n}
    BY <1>1, <1>4, <1>6, <1>7 DEF Painted, Spared
  <2>2. ASSUME NEW m \in InTree, m # g, color'[m] = "red"
        PROVE  m # links.root /\ color'[Parent(m)] = "black"
    <3>1. m \notin {p, u} /\ color[m] = "red"
      BY <1>5, <1>8, <2>2
    <3>2. CASE m = n
      BY <1>3, <1>4, <1>8, <3>2
    <3>3. CASE m # n
      <4>1. m # links.root /\ color[Parent(m)] = "black"
        BY <2>1, <3>1, <3>3 DEF TreeInv, ColorsAreSound, Strict, Parent
      <4>2. Parent(m) \in InTree /\ Parent(m) # g
        BY <1>2, <1>3, <1>5, <3>1, <4>1, ParentFacts
      <4>. QED
        BY <1>5, <1>8, <4>1, <4>2
    <3>. QED
      BY <3>2, <3>3
  <2>. QED
    BY <1>1, <1>7, <2>1, <2>2 DEF ColorsAreSound, Strict, Parent
<1>. QED
  BY <1>9, <1>10, <1>11, <1>12, <1>13 DEF TreeInv

LEMMA MendedKeeps == ASSUME TreeInv, Mended PROVE TreeInv'
<1>1. /\ call.at = "mend" /\ ~Mending /\ color' = [color EXCEPT ![links.root] = "black"]
      /\ tree_size' = tree_size + 1 /\ call' = Idle /\ tree_reply' = None
      /\ UNCHANGED <<links, key, value, allocated, unfixed, crashed>>
  BY DEF Mended, Return
<1>2. PICK sub \in Subs : IsTree(links, InTree, sub)
  BY WitnessExists DEF Witness
<1>3. TreeTypeOK /\ InTree \in SUBSET Nodes /\ color \in [Nodes -> {"red", "black"}]
  BY TypeFacts DEF TreeInv
<1>4. TreeTypeOK'
  <2>1. color' \in [Nodes -> {"red", "black"}]
    BY <1>1, <1>3
  <2>2. call' \in Calls /\ tree_size' \in Nat
    BY <1>1, <1>3 DEF Calls, TreeTypeOK
  <2>. QED
    BY <1>1, <1>3, <2>1, <2>2 DEF TreeTypeOK
<1>5. /\ InTree' = InTree /\ call'.at = "idle" /\ call'.at \notin Inserting \cup Deleting
      /\ call'.at \notin Descending /\ call.at \in Inserting /\ call.at \notin Deleting
  BY <1>1 DEF InTree, Idle, Inserting, Deleting, Descending
<1>6. TreeIsSound'
  BY <1>1, <1>5 DEF TreeInv, TreeIsSound
<1>7. KeysAreSound' /\ SizeIsSound' /\ RepairIsSound'
  BY <1>1, <1>5 DEF TreeInv, KeysAreSound, SizeIsSound, SizeToBe, RepairIsSound, Inserting, Deleting
<1>8. ColorsAreSound'
  <2>1. Painted' = color' /\ Spared' = {} /\ Painted = color /\ Spared = {call.node}
    BY <1>1, <1>5 DEF Painted, Spared
  <2>2. \A m \in Nodes : color'[m] = IF m = links.root THEN "black" ELSE color[m]
    BY <1>1, <1>3
  <2>3. ASSUME NEW m \in InTree, color'[m] = "red"
        PROVE  m # links.root /\ color'[Parent(m)] = "black"
    <3>1. m # links.root /\ color[m] = "red"
      BY <1>3, <2>2, <2>3
    <3>2. Parent(m) \in InTree
      BY <1>2, <1>3, <3>1, ParentFacts
    <3>3. color[Parent(m)] = "black"
      <4>1. CASE m = call.node
        BY <1>1, <1>3, <3>1, <3>2, <4>1, NullIsNone DEF Mending, IsRed
      <4>2. CASE m # call.node
        BY <2>1, <3>1, <4>2 DEF TreeInv, ColorsAreSound, Strict, Parent
      <4>. QED
        BY <4>1, <4>2
    <3>. QED
      BY <1>3, <2>2, <3>1, <3>2, <3>3
  <2>. QED
    BY <1>1, <1>5, <2>1, <2>3 DEF ColorsAreSound, Strict, Parent
<1>. QED
  BY <1>4, <1>6, <1>7, <1>8 DEF TreeInv

LEMMA RotationKeeps ==
  ASSUME TreeInv, NEW n \in InTree, NEW side \in Sides, Child(n, Other(side)) # Null,
         links' = Rotated(n, side), key' = key, InTree' = InTree,
         call'.at \notin Descending, call'.at # "successor"
  PROVE  TreeIsSound' /\ links' \in Links /\ RotatedPointers(links', n, side)
<1>1. PICK sub \in Subs : IsTree(links, InTree, sub) /\ Ordered(links, InTree, sub, key)
  BY WitnessExists DEF Witness
<1>2. links \in Links /\ InTree \in SUBSET Nodes /\ key \in [Nodes -> Int]
  BY TypeFacts DEF TreeInv
<1>3. PICK S : S = RotatedSub(sub, n, side)
  OBVIOUS
<1>4. S \in Subs /\ links' \in Links /\ IsTree(links', InTree, S) /\ RotatedPointers(links', n, side)
  BY <1>1, <1>2, <1>3, RotatedIsTree
<1>5. Ordered(links', InTree, S, key)
  BY <1>1, <1>2, <1>3, RotatedIsOrdered
<1>. QED
  BY <1>4, <1>5 DEF TreeIsSound

LEMMA RepairKeeps ==
  ASSUME TreeInv, InTree' = InTree, UNCHANGED <<key, value, allocated, tree_size>>,
         \/ call.at \in Inserting /\ call'.at \in Inserting
         \/ call.at \in Deleting /\ call'.at \in Deleting
  PROVE  KeysAreSound' /\ SizeIsSound'
<1>1. call'.at # "insert" /\ SizeToBe' = SizeToBe
  BY DEF Inserting, Deleting, SizeToBe
<1>. QED
  BY <1>1 DEF TreeInv, KeysAreSound, SizeIsSound

LEMMA TurnOutwardKeeps == ASSUME TreeInv, TurnOutward PROVE TreeInv'
<1>4. PICK n, p, g, u, side :
        n = call.node /\ p = Parent(n) /\ g = Parent(p) /\ u = Uncle /\ side = SideOf(p)
  OBVIOUS
<1>1. /\ Mending /\ ~IsRed(u) /\ IsInner(n) /\ call.at = "mend"
      /\ links' = Rotated(p, side)
      /\ call' = [call EXCEPT !.at = "raise", !.node = p]
      /\ UNCHANGED <<key, value, color, allocated, tree_size, tree_reply, unfixed, crashed>>
  BY <1>4 DEF TurnOutward, Mending
<1>2. PICK sub \in Subs : IsTree(links, InTree, sub)
  BY WitnessExists DEF Witness
<1>3. /\ n \in InTree /\ p \in InTree /\ g \in InTree
      /\ color[n] = "red" /\ color[p] = "red" /\ color[g] = "black"
      /\ n # p /\ n # g /\ p # g /\ n # links.root /\ p # links.root
      /\ SideOf(n) \in Sides /\ side \in Sides
      /\ Child(p, SideOf(n)) = n /\ Child(g, side) = p
      /\ u = Child(g, Other(side))
      /\ u # Null => u \in InTree /\ Parent(u) = g /\ u \notin {n, p, g}
      /\ \A m \in InTree : Parent(m) = g => m = p \/ m = u
  BY <1>1, <1>2, <1>4, MendingFacts
<1>5. SideOf(n) = Other(side) /\ Child(p, Other(side)) = n
  BY <1>1, <1>3, <1>4 DEF IsInner, Sides, Other
<1>6. /\ TreeTypeOK /\ InTree \in SUBSET Nodes /\ color \in [Nodes -> {"red", "black"}]
      /\ n # Null /\ p # Null /\ g # Null
  BY <1>3, NullIsNone, TypeFacts DEF TreeInv
<1>7. /\ call' = [at |-> "raise", key |-> call.key, value |-> call.value, node |-> p,
                  other |-> call.other]
      /\ call.key \in Keys /\ call.value \in Values \cup {None} /\ call.other \in Pointer
  BY <1>1, TypeFacts DEF TreeInv, Idle
<1>8. /\ InTree' = InTree /\ call'.at \in Inserting /\ call.at \in Inserting
      /\ call'.at \notin Deleting /\ call'.at \notin Descending /\ call'.at # "successor"
  BY <1>1, <1>7 DEF InTree, Inserting, Deleting, Descending
<1>9. TreeIsSound' /\ links' \in Links /\ RotatedPointers(links', p, side)
  BY <1>1, <1>3, <1>5, <1>6, <1>8, RotationKeeps
<1>10. /\ links'.root = links.root /\ links'.parent[p] = n /\ links'.parent[n] = g
       /\ links'.child[n][side] = p /\ links'.child[g][side] = n /\ links'.child[g][Other(side)] = u
       /\ \A m \in InTree : m \notin {n, p} /\ Parent(m) # n => links'.parent[m] = Parent(m)
  <2>1. PICK inner : inner = Child(n, side)
    OBVIOUS
  <2>2. /\ n # p /\ inner # p /\ inner # n /\ g # p /\ g # n
        /\ links'.root = links.root
        /\ \A m \in Nodes :
             links'.parent[m] = IF m = n THEN g ELSE IF m = p THEN n
                                ELSE IF m = inner THEN p ELSE Parent(m)
        /\ \A m \in Nodes, s \in Sides :
             links'.child[m][s] = IF m = n /\ s = side THEN p
                             ELSE IF m = p /\ s = Other(side) THEN inner
                             ELSE IF m = g /\ s = side THEN n ELSE Child(m, s)
    BY <1>4, <1>5, <1>6, <1>9, <2>1 DEF RotatedPointers
  <2>3. inner # Null => Parent(inner) = n
    <3>1. n \in InTree /\ side \in Sides /\ InTree \in SUBSET Nodes
      BY <1>3, <1>6
    <3>. QED
      BY <1>2, <2>1, <3>1, ChildFacts
  <2>4. Other(side) \in Sides /\ Other(side) # side /\ n \in Nodes /\ p \in Nodes /\ g \in Nodes
    BY <1>3, <1>6, SidesFacts
  <2>5. \A m \in InTree : Parent(m) # n => m # inner
    BY <1>6, <2>3, NullIsNone
  <2>6. links'.child[g][Other(side)] = u
    BY <1>3, <2>2, <2>4
  <2>7. links'.parent[p] = n /\ links'.parent[n] = g
    BY <2>2, <2>4
  <2>8. links'.child[n][side] = p /\ links'.child[g][side] = n
    BY <1>3, <2>2, <2>4
  <2>. QED
    BY <1>6, <2>2, <2>5, <2>6, <2>7, <2>8
<1>11. TreeTypeOK'
  <2>1. call' \in Calls
    BY <1>3, <1>6, <1>7 DEF Calls, Inserting, Pointer
  <2>. QED
    BY <1>1, <1>6, <1>9, <2>1 DEF TreeTypeOK
<1>12. KeysAreSound' /\ SizeIsSound'
  BY <1>1, <1>8, RepairKeeps
<1>13. RepairIsSound'
  <2>1. call'.node = p /\ Parent(p)' = n /\ Parent(n)' = g
    BY <1>7, <1>10 DEF Parent
  <2>2. u # n /\ u # p
    BY <1>3, <1>6
  <2>3. (SideOf(n))' = side
    BY <1>3, <1>10, <2>2 DEF SideOf, Parent, Child, Sides, Other
  <2>4. (SideOf(p))' = side
    <3>1. side = "left" => links'.child[n]["left"] = p
      BY <1>10
    <3>2. side = "right" => links'.child[n]["left"] # p
      <4>1. \A s \in Sides : links'.child[n][s] = p => s = side
        <5>1. Other(side) \in Sides /\ n \in Nodes /\ Other(side) # side /\ g # n
          BY <1>3, <1>6, SidesFacts
        <5>2. links'.child[n][Other(side)] = Child(n, Other(side))
          BY <1>4, <1>5, <1>6, <1>9, <1>3, <5>1 DEF RotatedPointers
        <5>3. Child(n, Other(side)) # Null => Parent(Child(n, Other(side))) = n
          <6>1. n \in InTree /\ InTree \in SUBSET Nodes
            BY <1>3, <1>6
          <6>. QED
            BY <1>2, <5>1, <6>1, ChildFacts
        <5>4. Child(n, Other(side)) # p
          BY <1>3, <1>4, <1>6, <5>3
        <5>. QED
          BY <1>3, <5>2, <5>4 DEF Sides, Other
      <4>. QED
        BY <4>1 DEF Sides
    <3>. QED
      BY <1>3, <1>10, <3>1, <3>2 DEF SideOf, Parent, Child, Sides
  <2>5. ~IsInner(call.node)'
    BY <2>1, <2>3, <2>4 DEF IsInner
  <2>6. Uncle' = u
    <3>1. Uncle' = links'.child[links'.parent[n]][Other((SideOf(n))')]
      BY <2>1 DEF Uncle, Sibling, Child, Parent
    <3>. QED
      BY <1>10, <2>3, <3>1
  <2>. QED
    BY <1>1, <1>3, <1>6, <1>7, <1>8, <1>10, <2>1, <2>5, <2>6 DEF RepairIsSound, IsRed, Deleting
<1>14. ColorsAreSound'
  <2>1. Painted' = color /\ Spared' = {p} /\ Painted = color /\ Spared = {n}
    BY <1>1, <1>4, <1>7, <1>8 DEF Painted, Spared
  <2>2. ASSUME NEW m \in InTree, m # p, color[m] = "red"
        PROVE  m # links'.root /\ color[links'.parent[m]] = "black"
    <3>1. CASE m = n
      BY <1>3, <1>10, <3>1
    <3>2. CASE m # n
      <4>1. m # links.root /\ color[Parent(m)] = "black"
        BY <2>1, <2>2, <3>2 DEF TreeInv, ColorsAreSound, Strict, Parent
      <4>. QED
        BY <1>3, <1>10, <2>2, <3>2, <4>1
    <3>. QED
      BY <3>1, <3>2
  <2>. QED
    BY <1>1, <1>8, <2>1, <2>2 DEF ColorsAreSound, Strict
<1>. QED
  BY <1>9, <1>11, <1>12, <1>13, <1>14 DEF TreeInv

LEMMA RaiseKeeps == ASSUME TreeInv, Raise PROVE TreeInv'
<1>1. PICK n, p, g, u, s, o :
        /\ n = call.node /\ p = Parent(n) /\ g = Parent(p) /\ u = Uncle
        /\ s = SideOf(p) /\ o = Other(s)
  OBVIOUS
<1>2. /\ (Mending /\ ~IsRed(u) /\ ~IsInner(n)) \/ call.at = "raise"
      /\ color' = [color EXCEPT ![p] = "black", ![g] = "red"]
      /\ links' = Rotated(g, o) /\ call' = [call EXCEPT !.at = "mend"]
      /\ UNCHANGED <<key, value, allocated, tree_size, tree_reply, unfixed, crashed>>
  BY <1>1 DEF Raise
<1>3. PICK sub \in Subs : IsTree(links, InTree, sub)
  BY WitnessExists DEF Witness
<1>4. /\ n \in InTree /\ p \in InTree /\ g \in InTree
      /\ color[n] = "red" /\ color[p] = "red" /\ color[g] = "black"
      /\ n # p /\ n # g /\ p # g /\ n # links.root /\ p # links.root
      /\ SideOf(n) \in Sides /\ s \in Sides
      /\ Child(p, SideOf(n)) = n /\ Child(g, s) = p
      /\ \A m \in InTree : Parent(m) = g => m = p \/ m = u
  BY <1>1, <1>2, <1>3, MendingFacts
<1>5. ~IsRed(u) /\ SideOf(n) = s
  BY <1>1, <1>2 DEF TreeInv, RepairIsSound, IsInner
<1>6. /\ TreeTypeOK /\ InTree \in SUBSET Nodes /\ color \in [Nodes -> {"red", "black"}]
      /\ n # Null /\ p # Null /\ g # Null /\ o \in Sides /\ o # s /\ Other(o) = s
  BY <1>1, <1>4, SidesFacts, NullIsNone, TypeFacts DEF TreeInv
<1>7. call.at \in Inserting /\ call.at # "idle"
  BY <1>2 DEF Mending, Inserting
<1>8. /\ call' = [at |-> "mend", key |-> call.key, value |-> call.value, node |-> n,
                  other |-> call.other]
      /\ call.key \in Keys /\ call.value \in Values \cup {None} /\ call.other \in Pointer
  BY <1>1, <1>2, <1>7, TypeFacts DEF TreeInv, Idle
<1>9. /\ InTree' = InTree /\ call'.at \in Inserting
      /\ call'.at \notin Deleting /\ call'.at \notin Descending /\ call'.at # "successor"
  BY <1>2, <1>7, <1>8 DEF InTree, Inserting, Deleting, Descending
<1>10. TreeIsSound' /\ links' \in Links /\ RotatedPointers(links', g, o)
  BY <1>2, <1>4, <1>6, <1>9, RotationKeeps
<1>11. PICK inner, top : inner = Child(p, o) /\ top = Parent(g)
  OBVIOUS
<1>12. /\ links'.root = IF top = Null THEN p ELSE links.root
       /\ \A m \in Nodes :
            links'.parent[m] = IF m = p THEN top ELSE IF m = g THEN p
                               ELSE IF m = inner THEN g ELSE Parent(m)
  BY <1>1, <1>4, <1>6, <1>10, <1>11 DEF RotatedPointers
<1>13. /\ color' \in [Nodes -> {"red", "black"}] /\ color'[g] = "red" /\ color'[p] = "black"
       /\ \A m \in Nodes : m \notin {p, g} => color'[m] = color[m]
  BY <1>2, <1>4, <1>6
<1>14. TreeTypeOK'
  <2>1. call' \in Calls
    BY <1>4, <1>6, <1>8 DEF Calls, Inserting, Pointer
  <2>. QED
    BY <1>2, <1>6, <1>10, <1>13, <2>1 DEF TreeTypeOK
<1>15. KeysAreSound' /\ SizeIsSound'
  BY <1>2, <1>7, <1>9, RepairKeeps
<1>16. RepairIsSound'
  BY <1>4, <1>6, <1>8, <1>9, <1>13 DEF RepairIsSound, IsRed, Deleting
<1>17. ColorsAreSound'
  <2>1. Painted' = color' /\ Spared' = {n} /\ Painted = color /\ Spared = {n}
    BY <1>1, <1>2, <1>7, <1>8, <1>9 DEF Painted, Spared, Inserting
  <2>2. ASSUME NEW m \in InTree, m # n, color'[m] = "red"
        PROVE  m # links'.root /\ color'[links'.parent[m]] = "black"
    <3>1. CASE m = g
      <4>1. top = Null \/ g # links.root
        BY <1>3, <1>4, <1>6, <1>11, ParentFacts
      <4>. QED
        BY <1>4, <1>6, <1>12, <1>13, <3>1, <4>1
    <3>2. CASE m # g
      <4>1. m # p /\ color[m] = "red"
        BY <1>6, <1>13, <2>2, <3>2
      <4>2. m # links.root /\ color[Parent(m)] = "black"
        BY <2>1, <2>2, <4>1 DEF TreeInv, ColorsAreSound, Strict, Parent
      <4>3. Parent(m) \in InTree /\ m # u /\ Parent(m) # g /\ Parent(m) # p
        BY <1>3, <1>4, <1>5, <1>6, <4>1, <4>2, ParentFacts, NullIsNone DEF IsRed
      <4>4. m # inner
        <5>1. p \in InTree /\ InTree \in SUBSET Nodes /\ o \in Sides /\ m # Null
          BY <1>4, <1>6, NullIsNone
        <5>2. inner # Null => Parent(inner) = p
          BY <1>3, <1>11, <5>1, ChildFacts
        <5>. QED
          BY <4>3, <5>1, <5>2
      <4>. QED
        BY <1>6, <1>12, <1>13, <3>2, <4>1, <4>2, <4>3, <4>4
    <3>. QED
      BY <3>1, <3>2
  <2>. QED
    BY <1>9, <2>1, <2>2 DEF ColorsAreSound, Strict
<1>. QED
  BY <1>10, <1>14, <1>15, <1>16, <1>17 DEF TreeInv

-----------------------------------------------------------------------------
(* infra_rbtree_remove.                                                    *)

\* What comes before the splice, whether the node leaves or its successor does.
ReadyToSplice(sub, n, y, answer) ==
  /\ n \in InTree /\ y \in InTree /\ answer \in Values \cup {None}
  /\ \E b \in Sides : Child(y, b) = Null
  /\ n # y => /\ y \in Sub(sub, Child(n, "right"))
              /\ \A m \in Sub(sub, Child(n, "right")) : m = y \/ key[y] < key[m]

LEMMA OnlyChildFacts ==
  ASSUME NEW y, \E b \in Sides : Child(y, b) = Null
  PROVE  \E b \in Sides : Child(y, b) = Null /\ OnlyChild(y) = Child(y, Other(b))
BY DEF Sides, Other, OnlyChild

\* x has taken the place of y, and n has what y had.
SplicedBy(n, y, answer, sub, S, x, b) ==
  /\ b \in Sides /\ Child(y, b) = Null /\ x = Child(y, Other(b))
  /\ TreeTypeOK /\ links \in Links /\ InTree \in SUBSET Nodes /\ key \in [Nodes -> Int]
  /\ value \in [Nodes -> Values \cup {None}] /\ color \in [Nodes -> {"red", "black"}]
  /\ n \in InTree /\ y \in InTree /\ n \in Nodes /\ y \in Nodes /\ x \in Pointer
  /\ answer \in Values \cup {None}
  /\ InTree = allocated /\ call.at \notin Inserting /\ call.at \notin Deleting /\ call.at # "idle"
  /\ tree_size = Cardinality(InTree) /\ IsFiniteSet(InTree)
  /\ SplicedLinks(links', y, x) /\ links' \in Links
  /\ S \in Subs /\ IsTree(links', InTree \ {y}, S) /\ Ordered(links', InTree \ {y}, S, key')
  /\ key' \in [Nodes -> Int] /\ value' \in [Nodes -> Values \cup {None}]
  /\ \A m \in InTree : key'[m] = IF m = n THEN key[y] ELSE key[m]
  /\ \A m \in InTree : value'[m] = IF m = n THEN value[y] ELSE value[m]
  /\ unfixed' = (links'.root # Null /\ (unfixed \/ (~IsRed(y) /\ x = Null)))
  /\ \/ /\ IsRed(y) \/ x = Null
        /\ allocated' = allocated \ {y} /\ tree_size' = tree_size - 1
        /\ call' = Idle /\ tree_reply' = answer
     \/ /\ ~IsRed(y) /\ x # Null
        /\ call' = [at |-> "delete", key |-> call.key, value |-> answer, node |-> x, other |-> y]
        /\ call.key \in Keys /\ UNCHANGED <<allocated, tree_size, tree_reply>>
  /\ UNCHANGED <<color, crashed>> /\ InTree' = InTree \ {y}

LEMMA SpliceFacts ==
  ASSUME TreeInv, NEW sub \in Subs, IsTree(links, InTree, sub), Ordered(links, InTree, sub, key),
         NEW n, NEW y, NEW answer, ReadyToSplice(sub, n, y, answer),
         call.at \in Descending \cup {"successor"}, Splice(n, y, answer)
  PROVE  \E S, x, b : SplicedBy(n, y, answer, sub, S, x, b)
<1>1. PICK x, p : x = OnlyChild(y) /\ p = Parent(y)
  OBVIOUS
<1>2. /\ links' = [root |-> IF p = Null THEN x ELSE links.root,
                   parent |-> [m \in Nodes |-> IF m = x THEN p ELSE Parent(m)],
                   child |-> [m \in Nodes |-> [s \in Sides |->
                     IF m = p /\ s = SideOf(y) THEN x ELSE Child(m, s)]]]
      /\ key' = [key EXCEPT ![n] = key[y]] /\ value' = [value EXCEPT ![n] = value[y]]
      /\ unfixed' = (links'.root # Null /\ (unfixed \/ (~IsRed(y) /\ x = Null)))
      /\ \/ /\ IsRed(y) \/ x = Null
            /\ allocated' = allocated \ {y} /\ tree_size' = tree_size - 1
            /\ call' = Idle /\ tree_reply' = answer
         \/ /\ ~IsRed(y) /\ x # Null
            /\ call' = [call EXCEPT !.at = "delete", !.value = answer, !.node = x, !.other = y]
            /\ UNCHANGED <<allocated, tree_size, tree_reply>>
      /\ UNCHANGED <<color, crashed>>
  BY <1>1 DEF Splice, TakeOver, Leave, Return
<1>3. PICK b \in Sides : Child(y, b) = Null /\ x = Child(y, Other(b))
  BY <1>1, OnlyChildFacts DEF ReadyToSplice
<1>4. /\ TreeTypeOK /\ links \in Links /\ InTree \in SUBSET Nodes /\ key \in [Nodes -> Int]
      /\ value \in [Nodes -> Values \cup {None}] /\ color \in [Nodes -> {"red", "black"}]
      /\ n \in InTree /\ y \in InTree /\ n \in Nodes /\ y \in Nodes /\ x \in Pointer /\ p \in Pointer
      /\ answer \in Values \cup {None}
  BY <1>1, <1>3, TypeFacts, LinksFacts, SidesFacts DEF TreeInv, ReadyToSplice
<1>5. /\ InTree = allocated /\ call.at \notin Inserting /\ call.at \notin Deleting /\ call.at # "idle"
      /\ tree_size = Cardinality(InTree) /\ IsFiniteSet(InTree)
  <2>1. call.at \notin Inserting /\ call.at \notin Deleting /\ call.at # "idle"
    BY DEF Descending, Inserting, Deleting
  <2>. QED
    BY <2>1 DEF TreeInv, SizeIsSound, SizeToBe, InTree
<1>6. SplicedLinks(links', y, x) /\ links' \in Links
  <2>1. links.root \in Pointer
    BY <1>4, LinksFacts
  <2>2. /\ links'.root = IF p = Null THEN x ELSE links.root
        /\ links'.parent = [m \in Nodes |-> IF m = x THEN p ELSE Parent(m)]
        /\ links'.child = [m \in Nodes |-> [s \in Sides |->
                             IF m = p /\ s = SideOf(y) THEN x ELSE Child(m, s)]]
        /\ links' = [root |-> links'.root, parent |-> links'.parent, child |-> links'.child]
    BY <1>2
  <2>3. links'.parent \in [Nodes -> Pointer] /\ links'.child \in [Nodes -> [Sides -> Pointer]]
    BY <1>4, <2>2, LinksFacts
  <2>4. links'.root \in Pointer
    BY <1>4, <2>1, <2>2
  <2>. QED
    BY <1>1, <2>2, <2>3, <2>4 DEF SplicedLinks, Links
<1>7. PICK S : S = SplicedSub(sub, y)
  OBVIOUS
<1>8. S \in Subs /\ IsTree(links', InTree \ {y}, S) /\ sub[y] = {y} \cup Sub(sub, x)
  <2>1. links \in Links /\ InTree \in SUBSET Nodes /\ y \in InTree /\ SplicedLinks(links', y, x)
    BY <1>4, <1>6
  <2>2. PICK A, L : A = InTree /\ L = links'
    OBVIOUS
  <2>3. /\ SplicedSub(sub, y) \in Subs /\ IsTree(L, A \ {y}, SplicedSub(sub, y))
        /\ sub[y] = {y} \cup Sub(sub, x)
    <3>1. A \in SUBSET Nodes /\ IsTree(links, A, sub) /\ y \in A /\ SplicedLinks(L, y, x)
      BY <2>1, <2>2
    <3>2. links \in Links /\ b \in Sides /\ Child(y, b) = Null /\ x = Child(y, Other(b))
      BY <1>3, <2>1
    <3>3. SplicedSub(sub, y) \in Subs
      BY <3>1, <3>2, SplicedIsTree
    <3>4. IsTree(L, A \ {y}, SplicedSub(sub, y))
      BY <3>1, <3>2, SplicedIsTree
    <3>5. sub[y] = {y} \cup Sub(sub, x)
      BY <2>2, <3>1, <3>2, SplitBySide DEF Sub
    <3>. QED
      BY <3>3, <3>4, <3>5
  <2>. QED
    BY <1>7, <2>2, <2>3
<1>9. /\ key' \in [Nodes -> Int] /\ value' \in [Nodes -> Values \cup {None}]
      /\ \A m \in InTree : key'[m] = IF m = n THEN key[y] ELSE key[m]
      /\ \A m \in InTree : value'[m] = IF m = n THEN value[y] ELSE value[m]
  BY <1>2, <1>4
<1>10. Ordered(links', InTree \ {y}, S, key')
  BY <1>3, <1>4, <1>6, <1>7, <1>9, SplicedIsOrdered DEF ReadyToSplice
<1>11. \/ call' = Idle /\ (IsRed(y) \/ x = Null)
       \/ /\ call' = [at |-> "delete", key |-> call.key, value |-> answer, node |-> x, other |-> y]
          /\ call.key \in Keys /\ ~IsRed(y) /\ x # Null
  BY <1>2, <1>5, TypeFacts DEF TreeInv, Idle
<1>12. InTree' = InTree \ {y}
  BY <1>2, <1>5, <1>11 DEF InTree, Idle, Deleting
<1>13. \/ /\ IsRed(y) \/ x = Null
          /\ allocated' = allocated \ {y} /\ tree_size' = tree_size - 1
          /\ call' = Idle /\ tree_reply' = answer
       \/ /\ ~IsRed(y) /\ x # Null
          /\ call' = [at |-> "delete", key |-> call.key, value |-> answer, node |-> x, other |-> y]
          /\ call.key \in Keys /\ UNCHANGED <<allocated, tree_size, tree_reply>>
  BY <1>2, <1>5, TypeFacts DEF TreeInv, Idle
<1>. QED
  BY <1>2, <1>3, <1>4, <1>5, <1>6, <1>8, <1>9, <1>10, <1>12, <1>13 DEF SplicedBy

LEMMA SpliceKeeps ==
  ASSUME TreeInv, NEW sub \in Subs, IsTree(links, InTree, sub), Ordered(links, InTree, sub, key),
         NEW n, NEW y, NEW answer, ReadyToSplice(sub, n, y, answer),
         call.at \in Descending \cup {"successor"}, Splice(n, y, answer)
  PROVE  TreeInv'
<1>1. PICK S, x, b : SplicedBy(n, y, answer, sub, S, x, b)
  BY SpliceFacts
<1>2. /\ unfixed' = (links'.root # Null /\ (unfixed \/ (~IsRed(y) /\ x = Null)))
      /\ \/ /\ IsRed(y) \/ x = Null
            /\ allocated' = allocated \ {y} /\ tree_size' = tree_size - 1
            /\ call' = Idle /\ tree_reply' = answer
         \/ /\ ~IsRed(y) /\ x # Null
            /\ call' = [at |-> "delete", key |-> call.key, value |-> answer, node |-> x, other |-> y]
            /\ UNCHANGED <<allocated, tree_size, tree_reply>>
      /\ UNCHANGED <<color, crashed>>
  BY <1>1 DEF SplicedBy
<1>3. b \in Sides /\ Child(y, b) = Null /\ x = Child(y, Other(b)) /\ IsTree(links, InTree, sub)
  BY <1>1 DEF SplicedBy
<1>4. /\ TreeTypeOK /\ links \in Links /\ InTree \in SUBSET Nodes /\ key \in [Nodes -> Int]
      /\ value \in [Nodes -> Values \cup {None}] /\ color \in [Nodes -> {"red", "black"}]
      /\ n \in InTree /\ y \in InTree /\ n \in Nodes /\ y \in Nodes /\ x \in Pointer
      /\ answer \in Values \cup {None}
  BY <1>1 DEF SplicedBy
<1>5. /\ InTree = allocated /\ call.at \notin Inserting /\ call.at \notin Deleting /\ call.at # "idle"
      /\ tree_size = Cardinality(InTree) /\ IsFiniteSet(InTree)
  BY <1>1 DEF SplicedBy
<1>6. SplicedLinks(links', y, x) /\ links' \in Links
  BY <1>1 DEF SplicedBy
<1>8. S \in Subs /\ IsTree(links', InTree \ {y}, S)
  BY <1>1 DEF SplicedBy
<1>9. /\ key' \in [Nodes -> Int] /\ value' \in [Nodes -> Values \cup {None}]
      /\ \A m \in InTree : key'[m] = IF m = n THEN key[y] ELSE key[m]
      /\ \A m \in InTree : value'[m] = IF m = n THEN value[y] ELSE value[m]
  BY <1>1 DEF SplicedBy
<1>10. Ordered(links', InTree \ {y}, S, key')
  BY <1>1 DEF SplicedBy
<1>11. \/ call' = Idle /\ (IsRed(y) \/ x = Null)
       \/ /\ call' = [at |-> "delete", key |-> call.key, value |-> answer, node |-> x, other |-> y]
          /\ call.key \in Keys /\ ~IsRed(y) /\ x # Null
  BY <1>1 DEF SplicedBy
<1>12. /\ InTree' = InTree \ {y} /\ call'.at \in {"idle", "delete"}
       /\ call'.at = "delete" => call'.other = y /\ call'.node = x /\ ~IsRed(y) /\ x # Null
       /\ call'.at = "idle" => IsRed(y) \/ x = Null
       /\ call'.at \notin Inserting /\ call'.at \notin Descending /\ call'.at # "successor"
       /\ call'.at \in Deleting <=> call'.at = "delete"
  BY <1>2, <1>5, <1>11 DEF InTree, Idle, Inserting, Deleting, Descending
<1>13. /\ IsFiniteSet(InTree \ {y}) /\ Cardinality(InTree \ {y}) = tree_size - 1
       /\ tree_size - 1 \in Nat
  <2>1. IsFiniteSet(InTree \ {y}) /\ Cardinality(InTree \ {y}) = Cardinality(InTree) - 1
    BY <1>4, <1>5, FS_RemoveElement
  <2>2. Cardinality(InTree \ {y}) \in Nat
    BY <2>1, FS_CardinalityType
  <2>. QED
    BY <1>5, <2>1, <2>2
<1>14. TreeTypeOK'
  <2>1. call' \in Calls
    <3>1. CASE call' = Idle
      BY <3>1 DEF Calls
    <3>2. CASE call' # Idle
      BY <1>4, <1>11, <3>2 DEF Calls, Deleting, Pointer
    <3>. QED
      BY <3>1, <3>2
  <2>2. /\ allocated' \in SUBSET Nodes /\ tree_size' \in Nat /\ tree_reply' \in Values \cup {None}
        /\ unfixed' \in BOOLEAN /\ crashed' \in BOOLEAN
    BY <1>2, <1>4, <1>13 DEF TreeTypeOK
  <2>. QED
    BY <1>2, <1>4, <1>6, <1>9, <2>1, <2>2 DEF TreeTypeOK
<1>15. TreeIsSound'
  BY <1>8, <1>10, <1>12 DEF TreeIsSound
<1>16. KeysAreSound'
  <2>1. \A m \in InTree \ {y} : key'[m] \in Keys /\ value'[m] \in Values
    BY <1>4, <1>9 DEF TreeInv, KeysAreSound
  <2>2. \A m, w \in InTree \ {y} : key'[m] = key'[w] => m = w
    BY <1>4, <1>9 DEF TreeInv, KeysAreSound
  <2>. QED
    BY <1>12, <2>1, <2>2 DEF KeysAreSound
<1>17. SizeIsSound'
  BY <1>2, <1>5, <1>12, <1>13 DEF SizeIsSound, SizeToBe, Inserting, Deleting
<1>18. /\ x # Null => x \in InTree \ {y}
       /\ ~IsRed(y) => color[y] = "black"
  <2>1. x # Null => x \in InTree /\ x # y
    BY <1>3, <1>4, SidesFacts, ChildFacts
  <2>. QED
    BY <1>4, <2>1, NullIsNone DEF IsRed
<1>19. RepairIsSound'
  BY <1>2, <1>4, <1>5, <1>12, <1>18 DEF RepairIsSound
<1>20. ColorsAreSound'
  <2>1. /\ Painted' = IF call'.at = "delete" THEN [color EXCEPT ![x] = "black"] ELSE color
        /\ Spared' = {} /\ Painted = color /\ Spared = {}
    BY <1>2, <1>5, <1>12 DEF Painted, Spared, Deleting
  <2>2. ASSUME NEW m \in InTree \ {y}, Painted'[m] = "red"
        PROVE  m # links'.root /\ Painted'[links'.parent[m]] = "black"
    <3>1. color[m] = "red" /\ (m = x => IsRed(y))
      <4>1. CASE call'.at = "delete"
        BY <1>4, <1>18, <1>12, <2>1, <2>2, <4>1
      <4>2. CASE call'.at # "delete"
        BY <1>4, <1>12, <2>1, <2>2, <4>2, NullIsNone
      <4>. QED
        BY <4>1, <4>2
    <3>2. m # links.root /\ color[Parent(m)] = "black"
      BY <2>1, <3>1 DEF TreeInv, ColorsAreSound, Strict, Parent
    <3>3. m # x
      <4>1. SUFFICES ASSUME m = x PROVE FALSE
        OBVIOUS
      <4>2. color[y] = "red"
        BY <3>1, <4>1 DEF IsRed
      <4>3. Parent(x) = y
        BY <1>3, <1>4, <4>1, NullIsNone, SidesFacts, ChildFacts
      <4>. QED
        BY <3>2, <4>1, <4>2, <4>3
    <3>4. m # links'.root /\ links'.parent[m] = Parent(m)
      BY <1>4, <1>6, <3>2, <3>3 DEF SplicedLinks
    <3>5. Parent(m) \in Nodes
      BY <1>4, <3>2, ParentFacts
    <3>6. Painted'[Parent(m)] = "black"
      BY <1>4, <2>1, <3>2, <3>5
    <3>. QED
      BY <3>4, <3>6
  <2>. QED
    BY <1>12, <2>1, <2>2 DEF ColorsAreSound, Strict
<1>. QED
  BY <1>14, <1>15, <1>16, <1>17, <1>19, <1>20 DEF TreeInv

LEMMA SuccessorIsReady ==
  ASSUME TreeInv, NEW sub \in Subs, Witness(sub), call.at = "successor",
         Child(call.node, "left") = Null
  PROVE  ReadyToSplice(sub, call.other, call.node, call.value)
<1>1. PICK n, y : n = call.other /\ y = call.node
  OBVIOUS
<1>2. /\ InTree \in SUBSET Nodes /\ IsTree(links, InTree, sub) /\ call.value \in Values \cup {None}
      /\ OnWayToSuccessor(links, InTree, sub, key, value, call)
  BY TypeFacts DEF TreeInv, Witness, Idle
<1>3. /\ n \in InTree /\ y \in Sub(sub, Child(n, "right"))
      /\ \A m \in Sub(sub, Child(n, "right")) : m \in sub[y] \/ key[y] < key[m]
  BY <1>1, <1>2 DEF OnWayToSuccessor, Child
<1>4. y \in InTree
  BY <1>2, <1>3, BelowFacts DEF Sides
<1>5. ASSUME NEW m \in Sub(sub, Child(n, "right"))
      PROVE  m = y \/ key[y] < key[m]
  <2>1. m \in sub[y] => m = y \/ m \in Sub(sub, Child(y, "right"))
    BY <1>1, <1>2, <1>4 DEF IsTree, Split, Child, Sub
  <2>2. m \in Sub(sub, Child(y, "right")) => key[y] < key[m]
    BY <1>4 DEF Witness, Ordered, Child, Sides, Beyond
  <2>. QED
    BY <1>3, <2>1, <2>2
<1>6. \E b \in Sides : Child(y, b) = Null
  BY <1>1 DEF Sides
<1>. QED
  BY <1>1, <1>2, <1>3, <1>4, <1>5, <1>6 DEF ReadyToSplice

LEMMA RemoveSuccessorKeeps == ASSUME TreeInv, RemoveSuccessor PROVE TreeInv'
<1>1. PICK sub \in Subs : Witness(sub)
  BY WitnessExists
<1>2. PICK n, y, answer : n = call.other /\ y = call.node /\ answer = call.value
  OBVIOUS
<1>3. call.at = "successor" /\ Splice(n, y, answer) /\ ReadyToSplice(sub, n, y, answer)
  BY <1>1, <1>2, SuccessorIsReady DEF RemoveSuccessor
<1>. QED
  BY <1>1, <1>3, SpliceKeeps DEF Witness

LEMMA FoundIsReady ==
  ASSUME TreeInv, NEW sub \in Subs, Witness(sub), Arrived("remove"),
         \E s \in Sides : Child(call.node, s) = Null
  PROVE  ReadyToSplice(sub, call.node, call.node, value[call.node])
<1>1. call.node \in InTree
  BY DEF Witness, Arrived, Descending, OnWayDown
<1>2. value[call.node] \in Values
  BY <1>1 DEF TreeInv, KeysAreSound
<1>. QED
  BY <1>1, <1>2 DEF ReadyToSplice

LEMMA RemoveFoundKeeps == ASSUME TreeInv, RemoveFound PROVE TreeInv'
<1>1. PICK sub \in Subs : Witness(sub)
  BY WitnessExists
<1>2. PICK y, answer : y = call.node /\ answer = value[call.node]
  OBVIOUS
<1>3. call.at = "remove" /\ Splice(y, y, answer) /\ ReadyToSplice(sub, y, y, answer)
  BY <1>1, <1>2, FoundIsReady DEF RemoveFound, Arrived
<1>. QED
  BY <1>1, <1>3, SpliceKeeps DEF Witness, Descending

-----------------------------------------------------------------------------
(* fix_delete.                                                             *)

\* A black node that is not the root, its parent p, and its sibling w.
FixingFacts ==
  \A sub \in Subs : IsTree(links, InTree, sub) =>
    LET n == call.node
        p == Parent(n)
        s == SideOf(n)
        w == Sibling(n)
    IN  /\ n \in InTree /\ p \in InTree /\ n # p /\ s \in Sides
        /\ Child(p, s) = n /\ Child(p, Other(s)) = w
        /\ w # Null => w \in InTree /\ Parent(w) = p /\ w \notin {n, p} /\ SideOf(w) = Other(s)
                       /\ w # links.root
        /\ \A m \in InTree : Parent(m) = p => m = n \/ m = w

LEMMA FixingFactsHold ==
  ASSUME TreeInv, call.at \in Deleting, call.node # links.root
  PROVE  FixingFacts
<1>. SUFFICES ASSUME NEW sub \in Subs, IsTree(links, InTree, sub),
                     NEW n, n = call.node, NEW p, p = Parent(n), NEW s, s = SideOf(n),
                     NEW w, w = Sibling(n)
              PROVE  /\ n \in InTree /\ p \in InTree /\ n # p /\ s \in Sides
                     /\ Child(p, s) = n /\ Child(p, Other(s)) = w
                     /\ w # Null => w \in InTree /\ Parent(w) = p /\ w \notin {n, p}
                                    /\ SideOf(w) = Other(s) /\ w # links.root
                     /\ \A m \in InTree : Parent(m) = p => m = n \/ m = w
  BY DEF FixingFacts
<1>1. InTree \in SUBSET Nodes /\ n \in InTree /\ n # links.root
  BY TypeFacts DEF TreeInv, RepairIsSound
<1>2. p \in InTree /\ n # p /\ s \in Sides /\ Child(p, s) = n /\ Child(p, Other(s)) # n
  BY <1>1, ParentFacts
<1>3. w = Child(p, Other(s))
  BY DEF Sibling
<1>4. PICK o \in Sides : o = Other(s)
  BY <1>2, SidesFacts
<1>5. w # Null => w \in InTree /\ Parent(w) = p /\ w # p /\ SideOf(w) = o /\ w # links.root
  <2>1. p \in InTree /\ InTree \in SUBSET Nodes /\ w = Child(p, o)
    BY <1>1, <1>2, <1>3, <1>4
  <2>. QED
    BY <2>1, ChildFacts, SMTT(30)
<1>6. \A m \in InTree : Parent(m) = p => m = n \/ m = w
  BY <1>1, <1>2, <1>3, ChildrenFacts
<1>. QED
  BY <1>1, <1>2, <1>3, <1>4, <1>5, <1>6

\* As long as the node that fix_delete has come to is black, the tree is strict.
LEMMA DeletingIsStrict ==
  ASSUME TreeInv, call.at \in Deleting, ~IsRed(call.node)
  PROVE  /\ call.node \in Nodes /\ color[call.node] = "black" /\ Painted = color
         /\ \A m \in InTree : color[m] = "red" => m # links.root /\ color[Parent(m)] = "black"
<1>1. call.node \in InTree /\ call.node \in Nodes /\ color \in [Nodes -> {"red", "black"}]
  BY TypeFacts DEF TreeInv, RepairIsSound
<1>2. color[call.node] = "black"
  BY <1>1, NullIsNone DEF IsRed
<1>3. Painted = color
  BY <1>1, <1>2 DEF Painted
<1>4. Spared = {}
  BY DEF Spared, Inserting, Deleting
<1>. QED
  BY <1>1, <1>2, <1>3, <1>4 DEF TreeInv, ColorsAreSound, Strict, Parent

\* What the steps of the repair have in common.
LEMMA DeletingCall ==
  ASSUME TreeInv, call.at \in Deleting, NEW a \in Deleting, NEW z \in InTree,
         call' = [call EXCEPT !.at = a, !.node = z], UNCHANGED allocated
  PROVE  /\ call' \in Calls /\ call'.at = a /\ call'.node = z /\ call'.other = call.other
         /\ InTree' = InTree /\ call'.at \notin Inserting /\ call'.at \notin Descending
         /\ call'.at # "successor" /\ call'.other \in allocated' /\ Spared' = {}
<1>1. /\ call.key \in Keys /\ call.value \in Values \cup {None} /\ call.other \in Pointer
      /\ call = [at |-> call.at, key |-> call.key, value |-> call.value, node |-> call.node,
                 other |-> call.other]
      /\ z \in Nodes /\ call.other \in allocated
  BY TypeFacts DEF TreeInv, RepairIsSound, Deleting, Idle
<1>2. call' = [at |-> a, key |-> call.key, value |-> call.value, node |-> z, other |-> call.other]
  BY <1>1
<1>3. call' \in Calls
  BY <1>1, <1>2 DEF Calls, Pointer
<1>. QED
  BY <1>1, <1>2, <1>3 DEF InTree, Spared, Inserting, Deleting, Descending

LEMMA BothBlackKeeps == ASSUME TreeInv, BothBlack PROVE TreeInv'
<1>1. PICK n, p, w, near, far, s :
        /\ n = call.node /\ p = Parent(n) /\ w = Sibling(n) /\ near = Near /\ far = Far
        /\ s = SideOf(n)
  OBVIOUS
<1>2. /\ AtNephews /\ w # Null /\ ~IsRed(near) /\ ~IsRed(far)
      /\ color' = [color EXCEPT ![w] = "red"]
      /\ call' = [call EXCEPT !.at = "delete", !.node = p]
      /\ UNCHANGED <<links, key, value, allocated, tree_size, tree_reply, unfixed, crashed>>
  BY <1>1 DEF BothBlack, NephewsThere
<1>3. call.at \in Deleting /\ n # links.root /\ ~IsRed(n)
  BY <1>1, <1>2 DEF AtNephews, Fixing, Deleting, TreeInv, RepairIsSound
<1>4. PICK sub \in Subs : IsTree(links, InTree, sub)
  BY WitnessExists DEF Witness
<1>5. /\ n \in InTree /\ p \in InTree /\ w \in InTree /\ n # p /\ w # n /\ w # p /\ Parent(w) = p
      /\ s \in Sides /\ w # links.root
  BY <1>1, <1>2, <1>3, <1>4, FixingFactsHold DEF FixingFacts
<1>6. TreeTypeOK /\ InTree \in SUBSET Nodes /\ color \in [Nodes -> {"red", "black"}]
  BY TypeFacts DEF TreeInv
<1>7. /\ call' \in Calls /\ call'.at = "delete" /\ call'.node = p /\ InTree' = InTree
      /\ call'.at \notin Inserting /\ call'.at \notin Descending /\ call'.at # "successor"
      /\ call'.other \in allocated' /\ Spared' = {} /\ call'.at \in Deleting
  BY <1>1, <1>2, <1>3, <1>5, DeletingCall DEF Deleting
<1>8. TreeTypeOK'
  BY <1>2, <1>6, <1>7 DEF TreeTypeOK
<1>9. TreeIsSound' /\ RepairIsSound'
  BY <1>2, <1>5, <1>7 DEF TreeInv, TreeIsSound, RepairIsSound
<1>10. KeysAreSound' /\ SizeIsSound'
  BY <1>2, <1>3, <1>7, RepairKeeps
<1>11. ASSUME NEW m \in InTree, Painted'[m] = "red"
       PROVE  m # links.root /\ Painted'[Parent(m)] = "black"
  <2>1. Painted' = [color EXCEPT ![w] = "red", ![p] = "black"]
    BY <1>2, <1>7 DEF Painted
  <2>2. CASE m = w
    BY <1>5, <1>6, <2>1, <2>2
  <2>3. CASE m # w
    <3>1. color[m] = "red"
      BY <1>5, <1>6, <1>11, <2>1, <2>3
    <3>2. m # links.root /\ color[Parent(m)] = "black"
      BY <1>1, <1>3, <3>1, DeletingIsStrict
    <3>3. Parent(m) \in InTree
      BY <1>4, <1>6, <3>2, ParentFacts
    <3>4. Parent(m) # w
      <4>1. Parent(m) = w => m = near \/ m = far
        BY <1>1, <1>4, <1>5, <1>6, ChildrenFacts DEF Near, Far
      <4>. QED
        BY <1>2, <1>6, <3>1, <4>1, NullIsNone DEF IsRed
    <3>. QED
      BY <1>5, <1>6, <2>1, <3>2, <3>3, <3>4
  <2>. QED
    BY <2>2, <2>3
<1>12. ColorsAreSound'
  BY <1>2, <1>7, <1>11 DEF ColorsAreSound, Strict, Parent
<1>. QED
  BY <1>8, <1>9, <1>10, <1>12 DEF TreeInv

LEMMA FixedKeeps == ASSUME TreeInv, Fixed PROVE TreeInv'
<1>1. /\ call.at = "delete" /\ color' = [color EXCEPT ![call.node] = "black"]
      /\ allocated' = allocated \ {call.other} /\ tree_size' = tree_size - 1
      /\ call' = Idle /\ tree_reply' = call.value
      /\ UNCHANGED <<links, key, value, unfixed, crashed>>
  BY DEF Fixed, Leave, Return
<1>2. /\ TreeTypeOK /\ call.value \in Values \cup {None} /\ InTree \in SUBSET Nodes
      /\ color \in [Nodes -> {"red", "black"}]
  BY <1>1, TypeFacts DEF TreeInv, Idle
<1>3. /\ InTree' = InTree /\ allocated' = InTree /\ call'.at = "idle"
      /\ call'.at \notin Inserting \cup Deleting
      /\ call'.at \notin Descending /\ call.at \notin Inserting
  BY <1>1 DEF InTree, Idle, Inserting, Deleting, Descending
<1>4. IsFiniteSet(InTree) /\ Cardinality(InTree) = tree_size - 1 /\ tree_size - 1 \in Nat
  <2>1. IsFiniteSet(allocated) /\ InTree \subseteq allocated /\ tree_size - 1 = Cardinality(InTree)
    BY <1>1 DEF TreeInv, SizeIsSound, SizeToBe, InTree, Inserting, Deleting
  <2>2. IsFiniteSet(InTree)
    BY <2>1, FS_Subset
  <2>3. Cardinality(InTree) \in Nat
    BY <2>2, FS_CardinalityType
  <2>. QED
    BY <2>1, <2>2, <2>3
<1>5. TreeTypeOK'
  <2>1. call' \in Calls
    BY <1>1 DEF Calls
  <2>. QED
    BY <1>1, <1>2, <1>3, <1>4, <2>1 DEF TreeTypeOK
<1>6. TreeIsSound' /\ KeysAreSound' /\ SizeIsSound' /\ RepairIsSound'
  <2>1. TreeIsSound'
    BY <1>1, <1>3 DEF TreeInv, TreeIsSound
  <2>2. KeysAreSound' /\ RepairIsSound'
    BY <1>1, <1>3 DEF TreeInv, KeysAreSound, RepairIsSound
  <2>3. SizeIsSound'
    BY <1>1, <1>3, <1>4 DEF SizeIsSound, SizeToBe
  <2>. QED
    BY <2>1, <2>2, <2>3
<1>7. ColorsAreSound'
  <2>1. Painted' = Painted /\ Spared' = Spared
    BY <1>1, <1>3 DEF Painted, Spared
  <2>. QED
    BY <1>1, <1>3, <2>1 DEF TreeInv, ColorsAreSound
<1>. QED
  BY <1>5, <1>6, <1>7 DEF TreeInv

LEMMA RedSiblingKeeps == ASSUME TreeInv, RedSibling PROVE TreeInv'
<1>1. PICK n, p, w, s : n = call.node /\ p = Parent(n) /\ w = Sibling(n) /\ s = SideOf(n)
  OBVIOUS
<1>2. /\ Fixing /\ IsRed(w)
      /\ color' = [color EXCEPT ![w] = "black", ![p] = "red"]
      /\ links' = Rotated(p, s) /\ call' = [call EXCEPT !.at = "nephews"]
      /\ UNCHANGED <<key, value, allocated, tree_size, tree_reply, unfixed, crashed>>
  BY <1>1 DEF RedSibling
<1>3. call.at \in Deleting /\ n # links.root /\ ~IsRed(n) /\ w # Null /\ color[w] = "red"
  BY <1>1, <1>2 DEF Fixing, Deleting, IsRed
<1>4. PICK sub \in Subs : IsTree(links, InTree, sub)
  BY WitnessExists DEF Witness
<1>5. /\ n \in InTree /\ p \in InTree /\ w \in InTree /\ n # p /\ w # n /\ w # p /\ Parent(w) = p
      /\ s \in Sides /\ w # links.root /\ Child(p, s) = n /\ Child(p, Other(s)) = w
      /\ \A m \in InTree : Parent(m) = p => m = n \/ m = w
  BY <1>1, <1>3, <1>4, FixingFactsHold DEF FixingFacts
<1>6. TreeTypeOK /\ InTree \in SUBSET Nodes /\ color \in [Nodes -> {"red", "black"}]
  BY TypeFacts DEF TreeInv
<1>7. /\ call' \in Calls /\ call'.at = "nephews" /\ call'.node = n /\ InTree' = InTree
      /\ call'.at \notin Inserting /\ call'.at \notin Descending /\ call'.at # "successor"
      /\ call'.other \in allocated' /\ Spared' = {} /\ call'.at \in Deleting
  <2>1. call' = [call EXCEPT !.at = "nephews", !.node = n]
    BY <1>1, <1>2, <1>3, TypeFacts DEF TreeInv, Deleting, Idle
  <2>. QED
    BY <1>2, <1>3, <1>5, <2>1, DeletingCall DEF Deleting
<1>8. TreeIsSound' /\ links' \in Links /\ RotatedPointers(links', p, s)
  BY <1>2, <1>3, <1>5, <1>7, RotationKeeps
<1>9. PICK inner, top : inner = Child(w, s) /\ top = Parent(p)
  OBVIOUS
<1>10. /\ links'.root = IF top = Null THEN w ELSE links.root
       /\ \A m \in Nodes :
            links'.parent[m] = IF m = w THEN top ELSE IF m = p THEN w
                               ELSE IF m = inner THEN p ELSE Parent(m)
  BY <1>5, <1>8, <1>9 DEF RotatedPointers
<1>11. /\ color' \in [Nodes -> {"red", "black"}] /\ color'[p] = "red" /\ color'[w] = "black"
       /\ \A m \in Nodes : m \notin {p, w} => color'[m] = color[m]
  BY <1>2, <1>5, <1>6
<1>12. TreeTypeOK'
  BY <1>2, <1>6, <1>7, <1>8, <1>11 DEF TreeTypeOK
<1>13. KeysAreSound' /\ SizeIsSound'
  BY <1>2, <1>3, <1>7, RepairKeeps
<1>14. RepairIsSound'
  <2>1. n # links'.root
    BY <1>3, <1>5, <1>10
  <2>2. color'[n] # "red"
    BY <1>3, <1>5, <1>6, <1>11, NullIsNone DEF IsRed
  <2>. QED
    BY <1>5, <1>7, <2>1, <2>2 DEF RepairIsSound, IsRed
<1>15. ASSUME NEW m \in InTree, color'[m] = "red"
       PROVE  m # links'.root /\ color'[links'.parent[m]] = "black"
  <2>1. CASE m = p
    <3>1. top = Null \/ p # links.root
      BY <1>4, <1>5, <1>6, <1>9, ParentFacts
    <3>. QED
      BY <1>5, <1>6, <1>10, <1>11, <2>1, <3>1
  <2>2. CASE m # p
    <3>1. m # w /\ color[m] = "red"
      BY <1>6, <1>11, <1>15, <2>2
    <3>2. m # links.root /\ color[Parent(m)] = "black"
      BY <1>1, <1>3, <3>1, DeletingIsStrict
    <3>3. Parent(m) \in InTree /\ Parent(m) # w
      BY <1>3, <1>4, <1>6, <3>2, ParentFacts
    <3>4. m # n
      BY <1>1, <1>3, <3>1, DeletingIsStrict
    <3>5. m # inner
      <4>1. w \in InTree /\ InTree \in SUBSET Nodes /\ s \in Sides /\ m # Null
        BY <1>5, <1>6, NullIsNone
      <4>2. inner # Null => Parent(inner) = w
        BY <1>4, <1>9, <4>1, ChildFacts
      <4>. QED
        BY <3>3, <4>1, <4>2
    <3>6. links'.parent[m] = Parent(m) /\ m # links'.root
      BY <1>6, <1>10, <2>2, <3>1, <3>2, <3>5
    <3>7. Parent(m) # p
      BY <1>5, <3>1, <3>4
    <3>. QED
      BY <1>6, <1>11, <3>2, <3>3, <3>6, <3>7
  <2>. QED
    BY <2>1, <2>2
<1>16. ColorsAreSound'
  <2>1. Painted' = color'
    BY <1>7 DEF Painted
  <2>. QED
    BY <1>7, <1>15, <2>1 DEF ColorsAreSound, Strict
<1>. QED
  BY <1>8, <1>12, <1>13, <1>14, <1>16 DEF TreeInv

LEMMA NearRedKeeps == ASSUME TreeInv, NearRed PROVE TreeInv'
<1>1. PICK n, p, w, near, far, s, o :
        /\ n = call.node /\ p = Parent(n) /\ w = Sibling(n) /\ near = Near /\ far = Far
        /\ s = SideOf(n) /\ o = Other(s)
  OBVIOUS
<1>2. /\ AtNephews /\ w # Null /\ near # Null /\ far # Null /\ IsRed(near) /\ ~IsRed(far)
      /\ color' = [color EXCEPT ![near] = "black", ![w] = "red"]
      /\ links' = Rotated(w, o) /\ call' = [call EXCEPT !.at = "turn"]
      /\ UNCHANGED <<key, value, allocated, tree_size, tree_reply, unfixed, crashed>>
  BY <1>1 DEF NearRed, NephewsThere
<1>3. call.at \in Deleting /\ n # links.root /\ ~IsRed(n) /\ color[near] = "red"
  BY <1>1, <1>2 DEF AtNephews, Fixing, Deleting, TreeInv, RepairIsSound, IsRed
<1>4. PICK sub \in Subs : IsTree(links, InTree, sub)
  BY WitnessExists DEF Witness
<1>5. /\ n \in InTree /\ p \in InTree /\ w \in InTree /\ n # p /\ w # n /\ w # p /\ Parent(w) = p
      /\ s \in Sides /\ w # links.root /\ Child(p, s) = n /\ Child(p, o) = w /\ SideOf(w) = o
      /\ \A m \in InTree : Parent(m) = p => m = n \/ m = w
  BY <1>1, <1>2, <1>3, <1>4, FixingFactsHold DEF FixingFacts
<1>6. /\ TreeTypeOK /\ InTree \in SUBSET Nodes /\ color \in [Nodes -> {"red", "black"}]
      /\ o \in Sides /\ Other(o) = s /\ o # s /\ p # Null /\ n \in Nodes /\ p \in Nodes /\ w \in Nodes
  BY <1>1, <1>5, TypeFacts, SidesFacts, NullIsNone DEF TreeInv
<1>7. /\ call' \in Calls /\ call'.at = "turn" /\ call'.node = n /\ InTree' = InTree
      /\ call'.at \notin Inserting /\ call'.at \notin Descending /\ call'.at # "successor"
      /\ call'.other \in allocated' /\ Spared' = {} /\ call'.at \in Deleting
  <2>1. call' = [call EXCEPT !.at = "turn", !.node = n]
    BY <1>1, <1>2, <1>3, TypeFacts DEF TreeInv, Deleting, Idle
  <2>. QED
    BY <1>2, <1>3, <1>5, <2>1, DeletingCall DEF Deleting
<1>8. near = Child(w, s) /\ far = Child(w, o)
  BY <1>1 DEF Near, Far
<1>9. /\ near \in InTree /\ near \in Nodes /\ Parent(near) = w
      /\ \A m \in InTree : Parent(m) = w => m = near \/ m = far
  <2>1. w \in InTree /\ InTree \in SUBSET Nodes /\ s \in Sides
    BY <1>5, <1>6
  <2>2. near \in InTree /\ Parent(near) = w
    BY <1>2, <1>4, <1>8, <2>1, ChildFacts
  <2>3. \A m \in InTree : Parent(m) = w => m = near \/ m = far
    BY <1>1, <1>4, <1>8, <2>1, ChildrenFacts
  <2>. QED
    BY <1>6, <2>2, <2>3
<1>10. TreeIsSound' /\ links' \in Links /\ RotatedPointers(links', w, o)
  BY <1>2, <1>5, <1>6, <1>7, <1>8, RotationKeeps
<1>11. PICK inner : inner = Child(near, o)
  OBVIOUS
<1>12. /\ near # w /\ inner # w /\ inner # near /\ p # w /\ p # near
       /\ links'.root = links.root
       /\ \A m \in Nodes :
            links'.parent[m] = IF m = near THEN p ELSE IF m = w THEN near
                               ELSE IF m = inner THEN w ELSE Parent(m)
       /\ \A m \in Nodes, t \in Sides :
            links'.child[m][t] = IF m = near /\ t = o THEN w
                                 ELSE IF m = w /\ t = s THEN inner
                                 ELSE IF m = p /\ t = o THEN near ELSE Child(m, t)
  BY <1>5, <1>6, <1>8, <1>10, <1>11 DEF RotatedPointers
<1>13. inner # Null => Parent(inner) = near
  BY <1>4, <1>6, <1>9, <1>11, ChildFacts
<1>14. /\ color' \in [Nodes -> {"red", "black"}] /\ color'[w] = "red" /\ color'[near] = "black"
       /\ \A m \in Nodes : m \notin {near, w} => color'[m] = color[m]
  BY <1>2, <1>6, <1>9, <1>12
<1>15. TreeTypeOK'
  BY <1>2, <1>6, <1>7, <1>10, <1>14 DEF TreeTypeOK
<1>16. KeysAreSound' /\ SizeIsSound'
  BY <1>2, <1>3, <1>7, RepairKeeps
<1>17. n # near /\ n # inner
  BY <1>1, <1>5, <1>6, <1>9, <1>12, <1>13, NullIsNone
<1>18. RepairIsSound'
  <2>1. n # links'.root
    BY <1>3, <1>12
  <2>2. color'[n] # "red"
    BY <1>3, <1>5, <1>6, <1>14, <1>17, NullIsNone DEF IsRed
  <2>3. links'.parent[n] = p /\ links'.child[p][s] = n /\ links'.child[p][o] = near
        /\ links'.child[near][o] = w
    BY <1>1, <1>5, <1>6, <1>9, <1>12, <1>17
  <2>4. SideOf(n)' = s
    <3>1. s = "left" \/ (s = "right" /\ o = "left")
      BY <1>5, <1>6 DEF Sides
    <3>. QED
      BY <1>17, <2>3, <3>1 DEF SideOf, Parent, Child
  <2>5. Sibling(n)' = near
    BY <1>1, <2>3, <2>4 DEF Sibling, Parent, Child
  <2>6. Far' = w
    BY <1>1, <1>7, <2>3, <2>4, <2>5 DEF Far, Child
  <2>7. call'.node = n /\ Sibling(call.node)' # Null
    BY <1>2, <1>7, <2>5
  <2>. QED
    BY <1>2, <1>5, <1>7, <2>1, <2>2, <2>6, <2>7 DEF RepairIsSound, IsRed
<1>19. ASSUME NEW m \in InTree, color'[m] = "red"
       PROVE  m # links'.root /\ color'[links'.parent[m]] = "black"
  <2>1. CASE m = w
    BY <1>5, <1>6, <1>12, <1>14, <2>1
  <2>2. CASE m # w
    <3>1. m # near /\ color[m] = "red"
      BY <1>6, <1>14, <1>19, <2>2
    <3>2. m # links.root /\ color[Parent(m)] = "black"
      BY <1>1, <1>3, <3>1, DeletingIsStrict
    <3>3. Parent(m) \in InTree /\ Parent(m) # near
      BY <1>3, <1>4, <1>6, <3>2, ParentFacts
    <3>4. Parent(m) # w
      BY <1>2, <1>6, <1>9, <3>1, NullIsNone DEF IsRed
    <3>5. m # inner
      BY <1>6, <1>13, <3>3, NullIsNone
    <3>6. links'.parent[m] = Parent(m)
      BY <1>6, <1>12, <2>2, <3>1, <3>5
    <3>. QED
      BY <1>6, <1>12, <1>14, <3>2, <3>3, <3>4, <3>6
  <2>. QED
    BY <2>1, <2>2
<1>20. ColorsAreSound'
  <2>1. Painted' = color'
    BY <1>7 DEF Painted
  <2>. QED
    BY <1>7, <1>19, <2>1 DEF ColorsAreSound, Strict
<1>. QED
  BY <1>10, <1>15, <1>16, <1>18, <1>20 DEF TreeInv

LEMMA FarRedKeeps == ASSUME TreeInv, FarRed PROVE TreeInv'
<1>1. PICK n, p, w, near, far, s, o :
        /\ n = call.node /\ p = Parent(n) /\ w = Sibling(n) /\ near = Near /\ far = Far
        /\ s = SideOf(n) /\ o = Other(s)
  OBVIOUS
<1>2. PICK z : z = links'.root
  OBVIOUS
<1>3. /\ call.at = "turn" \/ (AtNephews /\ w # Null /\ near # Null /\ far # Null)
      /\ color' = [color EXCEPT ![w] = color[p], ![p] = "black", ![far] = "black"]
      /\ links' = Rotated(p, s) /\ call' = [call EXCEPT !.at = "delete", !.node = z]
      /\ UNCHANGED <<key, value, allocated, tree_size, tree_reply, unfixed, crashed>>
  BY <1>1, <1>2 DEF FarRed, NephewsThere
<1>4. call.at \in Deleting /\ n # links.root /\ ~IsRed(n) /\ w # Null /\ far # Null
  BY <1>1, <1>3 DEF AtNephews, Fixing, Deleting, TreeInv, RepairIsSound
<1>5. PICK sub \in Subs : IsTree(links, InTree, sub)
  BY WitnessExists DEF Witness
<1>6. /\ n \in InTree /\ p \in InTree /\ w \in InTree /\ n # p /\ w # n /\ w # p /\ Parent(w) = p
      /\ s \in Sides /\ w # links.root /\ Child(p, s) = n /\ Child(p, o) = w
      /\ \A m \in InTree : Parent(m) = p => m = n \/ m = w
  BY <1>1, <1>4, <1>5, FixingFactsHold DEF FixingFacts
<1>7. /\ TreeTypeOK /\ InTree \in SUBSET Nodes /\ color \in [Nodes -> {"red", "black"}]
      /\ o \in Sides /\ Other(o) = s /\ p \in Nodes /\ w \in Nodes
  BY <1>1, <1>6, TypeFacts, SidesFacts DEF TreeInv
<1>8. near = Child(w, s) /\ far = Child(w, o)
  BY <1>1 DEF Near, Far
<1>9. /\ far \in InTree /\ Parent(far) = w /\ far # w
      /\ \A m \in InTree : Parent(m) = w => m = near \/ m = far
      /\ near # Null => Parent(near) = w
  BY <1>1, <1>4, <1>5, <1>6, <1>7, <1>8, ChildFacts, ChildrenFacts, SMTT(40)
<1>10. links.root \in InTree /\ links.root # Null
  BY <1>5, <1>6, <1>7, NullIsNone DEF IsTree, Rooted, Sub
<1>11. /\ Rotated(p, s).root \in InTree
  BY <1>1, <1>6, <1>10 DEF Rotated
<1>12. /\ call' \in Calls /\ call'.at = "delete" /\ call'.node = z /\ InTree' = InTree
       /\ call'.at \notin Inserting /\ call'.at \notin Descending /\ call'.at # "successor"
       /\ call'.other \in allocated' /\ Spared' = {} /\ call'.at \in Deleting /\ z \in InTree
  BY <1>2, <1>3, <1>4, <1>11, DeletingCall DEF Deleting
<1>13. TreeIsSound' /\ links' \in Links /\ RotatedPointers(links', p, s)
  BY <1>1, <1>3, <1>4, <1>6, <1>12, RotationKeeps
<1>14. PICK top : top = Parent(p)
  OBVIOUS
<1>15. /\ top # w /\ top # p
       /\ links'.root = IF top = Null THEN w ELSE links.root
       /\ \A m \in Nodes :
            links'.parent[m] = IF m = w THEN top ELSE IF m = p THEN w
                               ELSE IF m = near THEN p ELSE Parent(m)
  BY <1>1, <1>6, <1>8, <1>13, <1>14 DEF RotatedPointers
<1>16. far # p
  BY <1>9, <1>14, <1>15
<1>17. /\ color' \in [Nodes -> {"red", "black"}]
       /\ color'[p] = "black" /\ color'[far] = "black" /\ color'[w] = color[p]
       /\ \A m \in Nodes : m \notin {p, w, far} => color'[m] = color[m]
  BY <1>3, <1>6, <1>7, <1>9, <1>16
<1>18. TreeTypeOK'
  BY <1>3, <1>7, <1>12, <1>13, <1>17 DEF TreeTypeOK
<1>19. KeysAreSound' /\ SizeIsSound'
  BY <1>3, <1>4, <1>12, RepairKeeps
<1>20. RepairIsSound'
  BY <1>12 DEF RepairIsSound
<1>21. ASSUME NEW m \in InTree, Painted'[m] = "red"
       PROVE  m # links'.root /\ Painted'[links'.parent[m]] = "black"
  <2>1. Painted' = [color' EXCEPT ![z] = "black"]
    BY <1>12 DEF Painted
  <2>2. /\ m # z /\ color'[m] = "red" /\ m \notin {p, far}
        /\ \A x \in InTree : color'[x] = "black" => Painted'[x] = "black"
    BY <1>7, <1>12, <1>17, <1>21, <2>1
  <2>3. \A x \in InTree : color[x] = "black" /\ x # w => color'[x] = "black"
    BY <1>7, <1>17
  <2>4. CASE m = w
    <3>1. color[p] = "red"
      BY <1>17, <2>2, <2>4
    <3>2. p # links.root /\ color[top] = "black"
      BY <1>1, <1>4, <1>6, <1>14, <3>1, DeletingIsStrict
    <3>3. top \in InTree
      BY <1>5, <1>6, <1>7, <1>14, <3>2, ParentFacts
    <3>. QED
      BY <1>2, <1>7, <1>15, <2>2, <2>3, <2>4, <3>2, <3>3
  <2>5. CASE m = near
    <3>1. near # w /\ near # p
      BY <1>1, <1>6, <1>8, <1>13 DEF RotatedPointers
    <3>. QED
      BY <1>2, <1>6, <1>7, <1>15, <1>17, <2>2, <2>5, <3>1
  <2>6. CASE m \notin {w, near}
    <3>1. color[m] = "red"
      BY <1>7, <1>17, <2>2, <2>6
    <3>2. m # links.root /\ color[Parent(m)] = "black"
      BY <1>1, <1>4, <3>1, DeletingIsStrict
    <3>3. Parent(m) \in InTree /\ Parent(m) # w
      BY <1>5, <1>7, <1>9, <2>2, <2>6, <3>2, ParentFacts
    <3>4. links'.parent[m] = Parent(m)
      BY <1>7, <1>15, <2>2, <2>6
    <3>. QED
      BY <1>2, <2>2, <2>3, <3>2, <3>3, <3>4
  <2>. QED
    BY <2>4, <2>5, <2>6
<1>22. ColorsAreSound'
  BY <1>12, <1>21 DEF ColorsAreSound, Strict
<1>. QED
  BY <1>13, <1>18, <1>19, <1>20, <1>22 DEF TreeInv

-----------------------------------------------------------------------------

LEMMA NextKeeps == ASSUME TreeInv, TreeNext PROVE TreeInv'
<1>1. ASSUME NEW p \in Puts, Insert(p[1], p[2])
      PROVE  TreeInv'
  <2>1. p[1] \in Keys /\ p[2] \in Values /\ "insert" \in Descending
    BY TreeAssumption DEF Descending
  <2>. QED
    BY <1>1, <2>1, StartKeeps DEF Insert
<1>2. ASSUME NEW k \in Keys, NEW op \in {"find", "remove"}, Start(op, k, None)
      PROVE  TreeInv'
  <2>1. op \in Descending /\ op # "insert"
    BY DEF Descending
  <2>. QED
    BY <1>2, <2>1, StartKeeps
<1>. QED
  BY <1>1, <1>2, DescendKeeps, UpdateKeeps, AnswerKeeps, HangKeeps, PushDownKeeps, TurnOutwardKeeps,
     RaiseKeeps, MendedKeeps, FindSuccessorKeeps, NextLeftKeeps, RemoveSuccessorKeeps,
     RemoveFoundKeeps, RedSiblingKeeps, CrashKeeps, BothBlackKeeps, NearRedKeeps, FarRedKeeps,
     FixedKeeps, ClearKeeps DEF TreeNext

LEMMA StutterKeeps == ASSUME TreeInv, UNCHANGED tree_vars PROVE TreeInv'
<1>1. UNCHANGED <<links, key, value, color, allocated, tree_size, call, tree_reply, unfixed, crashed>>
  BY DEF tree_vars
<1>2. TreeTypeOK'
  BY <1>1 DEF TreeInv, TreeTypeOK
<1>3. TreeIsSound'
  BY <1>1 DEF TreeInv, TreeIsSound, InTree
<1>4. KeysAreSound' /\ SizeIsSound'
  BY <1>1 DEF TreeInv, KeysAreSound, SizeIsSound, SizeToBe, InTree
<1>5. RepairIsSound'
  BY <1>1 DEF TreeInv, RepairIsSound, InTree, IsInner, Uncle, Sibling, SideOf, Parent, Child, IsRed, Far
<1>6. ColorsAreSound'
  BY <1>1 DEF TreeInv, ColorsAreSound, Painted, Spared, InTree
<1>. QED
  BY <1>2, <1>3, <1>4, <1>5, <1>6 DEF TreeInv

\* Whatever is inserted, found, removed and cleared in whatever order, the
\* pointers make an ordered tree of the nodes in use, no two nodes have a key
\* in common, the size is the number of nodes, and no red node is the root or
\* has a red parent but for the one that the call under way has come to
\* (infra_rbtree_insert, _find, _remove, _clear).
THEOREM TreeInvariant == TreeSpec => []TreeInv
<1>1. TreeInit => TreeInv
  BY InitIsSound
<1>2. TreeInv /\ [TreeNext]_tree_vars => TreeInv'
  BY NextKeeps, StutterKeeps
<1>. QED
  BY <1>1, <1>2, PTL DEF TreeSpec

-----------------------------------------------------------------------------
(* Above.                                                                  *)

\* Of any sets of parts of a finite set, one contains no other.
LEMMA SmallestPart ==
  ASSUME NEW A, IsFiniteSet(A), NEW T \in SUBSET SUBSET A, T # {}
  PROVE  \E X \in T : \A Y \in T : Y \subseteq X => Y = X
<1>1. FiniteSubsetsOf(A) = SUBSET A
  BY FS_FiniteSubsetsOfFinite
<1>2. IsWellFoundedOn(StrictSubsetOrdering(A), SUBSET A)
  BY <1>1, FS_StrictSubsetOrderingWellFounded
<1>3. PICK X \in T : \A Y \in T : ~ (<<Y, X>> \in StrictSubsetOrdering(A))
  BY <1>2, WFMin
<1>4. \A Y \in T : Y \subseteq X => Y = X
  BY <1>3 DEF StrictSubsetOrdering
<1>. QED
  BY <1>4

\* Going up from any node leads to the root.
LEMMA UpToTheRoot ==
  ASSUME NEW A \in SUBSET Nodes, IsFiniteSet(A), NEW sub, IsTree(links, A, sub),
         NEW S \in SUBSET A, S # {}, \A x \in S : Parent(x) \in S \cup {Null}
  PROVE  links.root \in S
<1>1. PICK T : T = {A \ sub[x] : x \in S}
  OBVIOUS
<1>2. T \in SUBSET SUBSET A /\ T # {}
  BY <1>1
<1>3. PICK X \in T : \A Y \in T : Y \subseteq X => Y = X
  BY <1>2, SmallestPart
<1>4. PICK x \in S : X = A \ sub[x]
  BY <1>1, <1>3
<1>5. SUFFICES ASSUME x # links.root PROVE FALSE
  BY <1>4
<1>6. PICK p : p = Parent(x)
  OBVIOUS
<1>7. p \in A /\ x \in sub[p] /\ p \notin sub[x]
  BY <1>5, <1>6, ParentFacts
<1>8. p \in sub[p] /\ sub[x] \subseteq sub[p]
  BY <1>7, SubtreeFacts
<1>9. p \in S
  BY <1>6, <1>7, NullIsNone
<1>10. A \ sub[p] \in T /\ A \ sub[p] \subseteq X
  BY <1>1, <1>4, <1>8, <1>9
<1>11. A \ sub[p] = A \ sub[x]
  BY <1>3, <1>4, <1>10
<1>. QED
  BY <1>7, <1>8, <1>11

\* The nodes above the root, and above a child.
LEMMA AboveRoot ==
  ASSUME NEW sub, InTree \in SUBSET Nodes, IsTree(links, InTree, sub), links.root \in InTree
  PROVE  Above(links.root) = {links.root}
<1>1. Parent(links.root) = Null
  BY ParentFacts
<1>2. PICK parts : parts =
        {S \in SUBSET InTree : links.root \in S /\ \A x \in S : Parent(x) \in S \cup {Null}}
  OBVIOUS
<1>3. {links.root} \in parts /\ \A S \in parts : links.root \in S
  BY <1>1, <1>2
<1>4. Above(links.root) = {m \in InTree : \A S \in parts : m \in S}
  BY <1>2 DEF Above
<1>. QED
  BY <1>3, <1>4

LEMMA AboveChild ==
  ASSUME NEW sub, InTree \in SUBSET Nodes, IsTree(links, InTree, sub),
         NEW c \in InTree, c # links.root
  PROVE  Above(c) = Above(Parent(c)) \cup {c} /\ c \notin Above(Parent(c))
<1>1. PICK p : p = Parent(c)
  OBVIOUS
<1>2. p \in InTree /\ p \notin sub[c] /\ c # p
  BY <1>1, ParentFacts
<1>3. PICK up : up = [n \in {c, p} |->
         {S \in SUBSET InTree : n \in S /\ \A x \in S : Parent(x) \in S \cup {Null}}]
  OBVIOUS
<1>4. /\ Above(c) = {m \in InTree : \A S \in up[c] : m \in S}
      /\ Above(p) = {m \in InTree : \A S \in up[p] : m \in S}
  BY <1>3 DEF Above
<1>5. /\ \A S : S \in up[c] <=>
            S \in SUBSET InTree /\ c \in S /\ \A x \in S : Parent(x) \in S \cup {Null}
      /\ \A S : S \in up[p] <=>
            S \in SUBSET InTree /\ p \in S /\ \A x \in S : Parent(x) \in S \cup {Null}
  BY <1>3
<1>6. Above(p) \cup {c} \subseteq Above(c)
  <2>1. \A S \in up[c] : S \in up[p]
    BY <1>1, <1>2, <1>5, NullIsNone
  <2>. QED
    BY <1>4, <1>5, <2>1
<1>7. ASSUME NEW m \in Above(c), m # c
      PROVE  m \in Above(p)
  <2>1. ASSUME NEW S \in up[p]
        PROVE  m \in S
    <3>1. S \cup {c} \in up[c]
      BY <1>1, <1>5, <2>1
    <3>. QED
      BY <1>4, <1>7, <3>1
  <2>. QED
    BY <1>4, <1>7, <2>1
<1>8. c \notin Above(p)
  <2>1. PICK S : S = {m \in InTree : p \in sub[m]}
    OBVIOUS
  <2>2. p \in S /\ c \notin S
    BY <1>2, <2>1, SubtreeFacts
  <2>3. ASSUME NEW x \in S
        PROVE  Parent(x) \in S \cup {Null}
    <3>1. CASE x = links.root
      BY <2>1, <3>1, ParentFacts
    <3>2. CASE x # links.root
      <4>1. x \in InTree /\ p \in sub[x] /\ Parent(x) \in InTree /\ x \in sub[Parent(x)]
        BY <2>1, <3>2, ParentFacts
      <4>. QED
        BY <2>1, <4>1, SubtreeFacts
    <3>. QED
      BY <3>1, <3>2
  <2>4. S \in up[p]
    BY <1>5, <2>1, <2>2, <2>3
  <2>. QED
    BY <1>4, <2>2, <2>4
<1>. QED
  BY <1>1, <1>6, <1>7, <1>8

LEMMA TreeInvWellLinked == ASSUME TreeInv PROVE TreeIsWellLinked
<1>1. PICK sub \in Subs : IsTree(links, InTree, sub)
  BY WitnessExists DEF Witness
<1>2. InTree \in SUBSET Nodes /\ IsFiniteSet(InTree)
  <2>1. IsFiniteSet(allocated) /\ InTree \subseteq allocated
    BY DEF TreeInv, SizeIsSound, InTree
  <2>. QED
    BY <2>1, FS_Subset, TypeFacts DEF TreeInv
<1>3. links.root = Null <=> InTree = {}
  BY <1>1, <1>2, NullIsNone DEF IsTree, Rooted, Sub
<1>4. \A n \in InTree : \A s \in Sides : Child(n, s) # Null =>
        Child(n, s) \in InTree /\ Parent(Child(n, s)) = n
  BY <1>1, <1>2, ChildFacts
<1>5. ASSUME NEW n \in InTree
      PROVE  links.root \in Above(n)
  <2>1. links.root \in InTree
    BY <1>1, <1>3 DEF IsTree, Rooted
  <2>2. ASSUME NEW S \in SUBSET InTree, n \in S, \A x \in S : Parent(x) \in S \cup {Null}
        PROVE  links.root \in S
    BY <1>1, <1>2, <2>2, UpToTheRoot
  <2>. QED
    BY <2>1, <2>2 DEF Above
<1>6. \A n \in InTree : IF n = links.root THEN Parent(n) = Null
                        ELSE Parent(n) \in InTree /\ \E s \in Sides : Child(Parent(n), s) = n
  BY <1>1, <1>2, ParentFacts
<1>. QED
  BY <1>3, <1>4, <1>5, <1>6 DEF TreeIsWellLinked, TreeInv, SizeIsSound

\* Whatever sequence of calls, rotations and removals included, each node is the
\* parent of its children, every node in use but the root is the child of
\* another and below the root, and the size is their number: none is lost and
\* none is freed that the tree still points to (infra_rbtree_insert, _remove).
THEOREM TreeIsLinked == TreeSpec => []TreeIsWellLinked
<1>1. TreeInv => TreeIsWellLinked
  BY TreeInvWellLinked
<1>. QED
  BY <1>1, TreeInvariant, PTL

-----------------------------------------------------------------------------
(* Balance.                                                                *)

\* The black nodes on the way down from a pointer, whichever way is taken.
Height(h, n) == IF n = Null THEN 0 ELSE h[n]
Weight(co, n) == IF co[n] = "red" THEN 0 ELSE 1
Heights(L, A, co, h) == \A n \in A, s \in Sides : h[n] = Height(h, L.child[n][s]) + Weight(co, n)

IsBalanced(L, A, co) == \E h \in [Nodes -> Nat] : Heights(L, A, co, h)

\* As long as no black leaf has been removed, fix_delete is only called for a red
\* node, which it paints, and so neither crashes nor rotates.
BalanceInv ==
  /\ crashed => unfixed
  /\ ~unfixed => /\ call.at \notin {"nephews", "turn"}
                 /\ call.at = "delete" => IsRed(call.node)
                 /\ IsBalanced(links, InTree, Painted)

LEMMA HangBalances ==
  ASSUME TreeInv, NEW z \in Nodes, Hang(z), IsBalanced(links, InTree, color)
  PROVE  call'.at = "mend" /\ Painted' = color' /\ IsBalanced(links', InTree', color')
<1>1. PICK sub \in Subs : Witness(sub)
  BY WitnessExists
<1>2. PICK p, k, t : HungBy(z, sub, p, k, t)
  BY <1>1, HangFacts
<1>3. /\ InTree' = InTree \cup {z} /\ InTree \in SUBSET Nodes /\ z \notin InTree /\ call'.at = "mend"
      /\ HungLinks(links', z, p, t) /\ p \in InTree \cup {Null} /\ (p # Null => Child(p, t) = Null)
      /\ color'[z] = "red" /\ \A m \in InTree : color'[m] = color[m]
  BY <1>2 DEF HungBy
<1>4. PICK h \in [Nodes -> Nat] : Heights(links, InTree, color, h)
  BY DEF IsBalanced
<1>5. PICK g \in [Nodes -> Nat] : g[z] = 0 /\ \A m \in Nodes : m # z => g[m] = h[m]
  <2>1. [h EXCEPT ![z] = 0] \in [Nodes -> Nat]
    OBVIOUS
  <2>. QED
    BY <2>1
<1>6. ASSUME NEW n \in InTree', NEW s \in Sides
      PROVE  g[n] = Height(g, links'.child[n][s]) + Weight(color', n)
  <2>1. CASE n = z
    BY <1>3, <1>5, <2>1 DEF HungLinks, Height, Weight
  <2>2. CASE n # z
    <3>1. n \in InTree /\ n \in Nodes /\ Weight(color', n) = Weight(color, n) /\ g[n] = h[n]
      BY <1>3, <1>5, <2>2 DEF Weight
    <3>2. h[n] = Height(h, Child(n, s)) + Weight(color, n)
      BY <1>4, <3>1 DEF Heights, Child
    <3>3. Height(g, links'.child[n][s]) = Height(h, Child(n, s))
      <4>1. CASE n = p /\ s = t
        BY <1>3, <1>5, <3>1, <4>1, NullIsNone DEF HungLinks, Height
      <4>2. CASE ~(n = p /\ s = t)
        <5>1. links'.child[n][s] = Child(n, s)
          BY <1>3, <2>2, <3>1, <4>2 DEF HungLinks
        <5>2. Child(n, s) = Null \/ (Child(n, s) \in InTree /\ Child(n, s) # z)
          <6>1. IsTree(links, InTree, sub)
            BY <1>1 DEF Witness
          <6>2. InTree \in SUBSET Nodes
            BY <1>3
          <6>3. Child(n, s) # Null => Child(n, s) \in InTree
            BY <3>1, <6>1, <6>2, ChildFacts
          <6>. QED
            BY <1>3, <6>3
        <5>. QED
          BY <1>3, <1>5, <5>1, <5>2 DEF Height
      <4>. QED
        BY <4>1, <4>2
    <3>. QED
      BY <3>1, <3>2, <3>3
  <2>. QED
    BY <2>1, <2>2
<1>7. Painted' = color'
  BY <1>3 DEF Painted
<1>. QED
  BY <1>3, <1>6, <1>7 DEF IsBalanced, Heights

LEMMA PushDownBalances ==
  ASSUME TreeInv, PushDown, IsBalanced(links, InTree, color)
  PROVE  IsBalanced(links', InTree', color')
<1>1. PICK n, p, g, u :
        n = call.node /\ p = Parent(n) /\ g = Parent(p) /\ u = Uncle
  OBVIOUS
<1>2. /\ Mending /\ IsRed(u) /\ call.at = "mend"
      /\ color' = [color EXCEPT ![p] = "black", ![u] = "black", ![g] = "red"]
      /\ call' = [call EXCEPT !.node = g] /\ links' = links /\ allocated' = allocated
  BY <1>1 DEF PushDown, Mending
<1>3. PICK sub \in Subs : IsTree(links, InTree, sub)
  BY WitnessExists DEF Witness
<1>4. /\ p \in InTree /\ g \in InTree /\ u \in InTree /\ p # g /\ u # p /\ u # g
      /\ color[p] = "red" /\ color[u] = "red" /\ color[g] = "black" /\ Parent(u) = g
      /\ \A m \in InTree : Parent(m) = g => m = p \/ m = u
  BY <1>1, <1>2, <1>3, MendingFacts DEF IsRed
<1>5. InTree \in SUBSET Nodes /\ color \in [Nodes -> {"red", "black"}] /\ links \in Links
  BY TypeFacts DEF TreeInv
<1>6. InTree' = InTree
  BY <1>2, TypeFacts DEF TreeInv, InTree, Deleting, Idle
<1>7. PICK h \in [Nodes -> Nat] : Heights(links, InTree, color, h)
  BY DEF IsBalanced
<1>8. PICK f : f = [m \in Nodes |-> IF m \in {p, u} THEN h[m] + 1 ELSE h[m]]
  OBVIOUS
<1>9. f \in [Nodes -> Nat] /\ \A m \in Nodes : f[m] = IF m \in {p, u} THEN h[m] + 1 ELSE h[m]
  BY <1>8
<1>10. ASSUME NEW m \in InTree, NEW s \in Sides
       PROVE  f[m] = Height(f, Child(m, s)) + Weight(color', m)
  <2>1. h[m] = Height(h, Child(m, s)) + Weight(color, m) /\ h[m] \in Nat
    BY <1>5, <1>7 DEF Heights, Child
  <2>2. Child(m, s) # Null => Child(m, s) \in InTree /\ Parent(Child(m, s)) = m
    BY <1>3, <1>5, ChildFacts
  <2>3. CASE m = g
    <3>1. Child(g, s) = p \/ Child(g, s) = u
      <4>1. Parent(p) = g /\ SideOf(p) \in Sides /\ Child(g, SideOf(p)) = p
            /\ u = Child(g, Other(SideOf(p)))
        BY <1>1, <1>2, <1>3, MendingFacts
      <4>. QED
        BY <4>1 DEF Sides, Other
    <3>2. Weight(color', g) = 0 /\ Weight(color, g) = 1
      BY <1>2, <1>4, <1>5 DEF Weight
    <3>3. Height(f, Child(g, s)) = Height(h, Child(g, s)) + 1
      BY <1>4, <1>5, <1>9, <3>1, NullIsNone DEF Height
    <3>4. f[g] = h[g] /\ Height(h, Child(g, s)) \in Nat
      BY <1>4, <1>5, <1>7, <1>9, <3>1, NullIsNone DEF Height
    <3>. QED
      BY <2>1, <2>3, <3>2, <3>3, <3>4
  <2>4. CASE m # g
    <3>1. Child(m, s) \notin {p, u} \/ Child(m, s) = Null
      BY <1>1, <1>4, <2>2, <2>4
    <3>2. Height(f, Child(m, s)) = Height(h, Child(m, s))
      BY <1>5, <1>9, <2>2, <3>1 DEF Height
    <3>3. Weight(color', m) = IF m \in {p, u} THEN Weight(color, m) + 1 ELSE Weight(color, m)
      BY <1>2, <1>4, <1>5, <2>4 DEF Weight
    <3>4. Height(h, Child(m, s)) \in Nat /\ Weight(color, m) \in Nat
      BY <1>5, <1>7, <2>2 DEF Height, Weight
    <3>. QED
      BY <1>5, <1>9, <2>1, <3>2, <3>3, <3>4
  <2>. QED
    BY <2>3, <2>4
<1>11. \A m \in InTree, s \in Sides : f[m] = Height(f, links.child[m][s]) + Weight(color', m)
  BY <1>10 DEF Child
<1>12. Heights(links', InTree', color', f)
  BY <1>2, <1>6, <1>11 DEF Heights
<1>. QED
  BY <1>9, <1>12 DEF IsBalanced

LEMMA TurnOutwardBalances ==
  ASSUME TreeInv, TurnOutward, IsBalanced(links, InTree, color)
  PROVE  IsBalanced(links', InTree', color')
<1>1. PICK n, p, g, side :
        n = call.node /\ p = Parent(n) /\ g = Parent(p) /\ side = SideOf(p)
  OBVIOUS
<1>2. /\ Mending /\ IsInner(n) /\ call.at = "mend" /\ links' = Rotated(p, side)
      /\ call' = [call EXCEPT !.at = "raise", !.node = p]
      /\ UNCHANGED <<key, value, color, allocated, tree_size, tree_reply, unfixed, crashed>>
  BY <1>1 DEF TurnOutward, Mending
<1>3. PICK sub \in Subs : IsTree(links, InTree, sub)
  BY WitnessExists DEF Witness
<1>4. /\ n \in InTree /\ p \in InTree /\ color[n] = "red" /\ color[p] = "red" /\ n # p
      /\ SideOf(n) \in Sides /\ side \in Sides /\ Child(p, SideOf(n)) = n /\ Child(g, side) = p
      /\ g \in InTree
  BY <1>1, <1>2, <1>3, MendingFacts
<1>5. SideOf(n) = Other(side) /\ Child(p, Other(side)) = n
  BY <1>1, <1>2, <1>4 DEF IsInner, Sides, Other
<1>6. /\ InTree \in SUBSET Nodes /\ links \in Links /\ n # Null
      /\ Other(side) \in Sides /\ Other(side) # side
  BY <1>4, TypeFacts, NullIsNone, SidesFacts DEF TreeInv
<1>7. call' = [at |-> "raise", key |-> call.key, value |-> call.value, node |-> p,
               other |-> call.other]
  BY <1>2, TypeFacts DEF TreeInv, Idle
<1>8. /\ InTree' = InTree /\ call'.at \notin Descending /\ call'.at # "successor"
  BY <1>2, <1>7 DEF InTree, Deleting, Descending
<1>9. RotatedPointers(links', p, side)
  BY <1>2, <1>4, <1>5, <1>6, <1>8, RotationKeeps
<1>10. PICK inner : inner = Child(n, side)
  OBVIOUS
<1>11. \A m \in Nodes, s \in Sides :
         links'.child[m][s] = IF m = n /\ s = side THEN p
                              ELSE IF m = p /\ s = Other(side) THEN inner
                              ELSE IF m = g /\ s = side THEN n ELSE Child(m, s)
  BY <1>1, <1>5, <1>9, <1>10 DEF RotatedPointers
<1>12. PICK h \in [Nodes -> Nat] : Heights(links, InTree, color, h)
  BY DEF IsBalanced
<1>13. /\ h[n] \in Nat /\ h[p] \in Nat /\ h[p] = Height(h, n)
       /\ Height(h, n) = h[n] /\ Height(h, p) = h[p] /\ h[n] = Height(h, inner)
  <2>1. Weight(color, n) = 0 /\ Weight(color, p) = 0 /\ p # Null
    BY <1>4, <1>6, NullIsNone DEF Weight
  <2>2. /\ h[p] = Height(h, Child(p, Other(side))) + Weight(color, p)
        /\ h[n] = Height(h, Child(n, side)) + Weight(color, n)
    BY <1>4, <1>6, <1>12 DEF Heights, Child
  <2>3. h[n] \in Nat /\ h[p] \in Nat /\ Height(h, n) = h[n] /\ Height(h, p) = h[p]
    BY <1>4, <1>6, <2>1 DEF Height
  <2>4. Height(h, inner) \in Nat
    BY <1>4, <1>6, <1>10, <1>12, LinksFacts DEF Height, Pointer
  <2>. QED
    BY <1>5, <1>10, <2>1, <2>2, <2>3, <2>4
<1>14. ASSUME NEW m \in InTree, NEW s \in Sides
       PROVE  h[m] = Height(h, links'.child[m][s]) + Weight(color, m)
  <2>1. h[m] = Height(h, Child(m, s)) + Weight(color, m)
    BY <1>12 DEF Heights, Child
  <2>2. Height(h, links'.child[m][s]) = Height(h, Child(m, s))
    <3>1. m \in Nodes
      BY <1>6
    <3>2. CASE m = n /\ s = side
      BY <1>10, <1>11, <1>13, <3>1, <3>2
    <3>3. CASE m = p /\ s = Other(side)
      BY <1>4, <1>5, <1>11, <1>13, <3>1, <3>3
    <3>4. CASE m = g /\ s = side /\ m # n /\ ~(m = p /\ s = Other(side))
      BY <1>4, <1>11, <1>13, <3>1, <3>4
    <3>5. CASE ~(m = n /\ s = side) /\ ~(m = p /\ s = Other(side)) /\ ~(m = g /\ s = side)
      BY <1>11, <3>1, <3>5
    <3>. QED
      BY <3>2, <3>3, <3>4, <3>5
  <2>. QED
    BY <2>1, <2>2
<1>. QED
  BY <1>2, <1>8, <1>12, <1>14 DEF IsBalanced, Heights

LEMMA RaiseBalances ==
  ASSUME TreeInv, Raise, IsBalanced(links, InTree, color)
  PROVE  IsBalanced(links', InTree', color')
<1>1. PICK n, p, g, u, s, o :
        /\ n = call.node /\ p = Parent(n) /\ g = Parent(p) /\ u = Uncle
        /\ s = SideOf(p) /\ o = Other(s)
  OBVIOUS
<1>2. /\ Mending \/ call.at = "raise"
      /\ color' = [color EXCEPT ![p] = "black", ![g] = "red"]
      /\ links' = Rotated(g, o) /\ call' = [call EXCEPT !.at = "mend"]
      /\ UNCHANGED <<key, value, allocated, tree_size, tree_reply, unfixed, crashed>>
  BY <1>1 DEF Raise
<1>3. PICK sub \in Subs : IsTree(links, InTree, sub)
  BY WitnessExists DEF Witness
<1>4. /\ p \in InTree /\ g \in InTree /\ color[p] = "red" /\ color[g] = "black" /\ p # g
      /\ s \in Sides /\ Child(g, s) = p
  BY <1>1, <1>2, <1>3, MendingFacts
<1>5. /\ InTree \in SUBSET Nodes /\ color \in [Nodes -> {"red", "black"}] /\ links \in Links
      /\ p \in Nodes /\ g \in Nodes /\ p # Null /\ g # Null
      /\ o \in Sides /\ o # s /\ Other(o) = s /\ Sides = {s, o}
  BY <1>1, <1>4, SidesFacts, NullIsNone, TypeFacts DEF TreeInv
<1>6. call' = [at |-> "mend", key |-> call.key, value |-> call.value, node |-> n,
               other |-> call.other]
  BY <1>1, <1>2, TypeFacts DEF TreeInv, Mending, Idle
<1>7. InTree' = InTree /\ call'.at \notin Descending /\ call'.at # "successor"
  BY <1>2, <1>6 DEF InTree, Mending, Deleting, Descending
<1>8. RotatedPointers(links', g, o)
  BY <1>2, <1>4, <1>5, <1>7, RotationKeeps
<1>9. PICK inner, top, far, z :
        inner = Child(p, o) /\ top = Parent(g) /\ far = Child(p, s) /\ z = Child(g, o)
  OBVIOUS
<1>10. /\ top # g /\ top # p /\ inner # g /\ inner # p
       /\ \A m \in Nodes, t \in Sides :
            links'.child[m][t] = IF m = p /\ t = o THEN g
                                 ELSE IF m = g /\ t = s THEN inner
                                 ELSE IF m = top /\ t = SideOf(g) THEN p ELSE Child(m, t)
  BY <1>4, <1>5, <1>8, <1>9 DEF RotatedPointers
<1>11. PICK h \in [Nodes -> Nat] : Heights(links, InTree, color, h)
  BY DEF IsBalanced
<1>12. /\ h[p] = Height(h, inner) /\ h[p] = Height(h, far)
       /\ h[g] = h[p] + 1 /\ Height(h, z) = h[p] /\ h[p] \in Nat
  <2>1. Weight(color, p) = 0 /\ Weight(color, g) = 1
    BY <1>4 DEF Weight
  <2>2. \A m \in Nodes, t \in Sides : Height(h, Child(m, t)) \in Nat
    BY <1>5, <1>11, LinksFacts DEF Height, Pointer
  <2>3. /\ h[p] = Height(h, inner) + Weight(color, p) /\ h[p] = Height(h, far) + Weight(color, p)
        /\ h[g] = Height(h, p) + Weight(color, g) /\ h[g] = Height(h, z) + Weight(color, g)
    BY <1>4, <1>5, <1>9, <1>11 DEF Heights, Child
  <2>4. Height(h, p) = h[p] /\ h[p] \in Nat /\ Height(h, z) \in Nat
        /\ Height(h, inner) \in Nat /\ Height(h, far) \in Nat
    BY <1>5, <1>9, <1>11, <2>2 DEF Height
  <2>. QED
    BY <2>1, <2>3, <2>4
<1>13. PICK f : f = [m \in Nodes |-> IF m = p THEN h[p] + 1 ELSE IF m = g THEN h[p] ELSE h[m]]
  OBVIOUS
<1>14. /\ f \in [Nodes -> Nat] /\ f[p] = h[p] + 1 /\ f[g] = h[p]
       /\ \A m \in Nodes : m \notin {p, g} => f[m] = h[m]
  BY <1>4, <1>5, <1>12, <1>13
<1>15. /\ Weight(color', p) = 1 /\ Weight(color', g) = 0
       /\ \A m \in Nodes : m \notin {p, g} => Weight(color', m) = Weight(color, m)
  BY <1>2, <1>4, <1>5 DEF Weight
<1>16. \A c \in Pointer : c \notin {p, g} => Height(f, c) = Height(h, c)
  BY <1>14 DEF Height, Pointer
<1>17. Height(f, p) = h[g] /\ Height(f, g) = h[p]
  BY <1>5, <1>12, <1>14 DEF Height
<1>18. /\ inner \in Pointer /\ far \in Pointer /\ z \in Pointer
       /\ far # g /\ far # p /\ z # g /\ z # p
  <2>1. inner \in Pointer /\ far \in Pointer /\ z \in Pointer
    BY <1>5, <1>9, LinksFacts
  <2>2. far # p /\ z # g
    <3>1. p \in InTree /\ g \in InTree /\ InTree \in SUBSET Nodes /\ s \in Sides /\ o \in Sides
      BY <1>4, <1>5
    <3>2. far # Null => far # p
      BY <1>3, <1>9, <3>1, ChildFacts
    <3>3. z # Null => z # g
      BY <1>3, <1>9, <3>1, ChildFacts
    <3>. QED
      BY <1>5, <3>2, <3>3
  <2>3. far # g
    <3>1. far # Null => Parent(far) = p
      BY <1>3, <1>4, <1>5, <1>9, ChildFacts, ZenonT(60)
    <3>. QED
      BY <1>5, <1>9, <1>10, <3>1
  <2>4. z # p
    <3>1. Child(Parent(p), Other(SideOf(p))) # p
      <4>1. p # links.root
        BY <1>1, <1>2, <1>3, MendingFacts
      <4>2. p \in InTree /\ InTree \in SUBSET Nodes
        BY <1>4, <1>5
      <4>. QED
        BY <1>3, <4>1, <4>2, ParentFacts
    <3>. QED
      BY <1>1, <1>9, <3>1
  <2>. QED
    BY <2>1, <2>2, <2>3, <2>4
<1>19. ASSUME NEW m \in InTree, NEW t \in Sides
       PROVE  f[m] = Height(f, links'.child[m][t]) + Weight(color', m)
  <2>1. m \in Nodes /\ (t = s \/ t = o)
    BY <1>5
  <2>2. CASE m = p /\ t = o
    <3>1. links'.child[m][t] = g
      BY <1>10, <2>1, <2>2
    <3>. QED
      BY <1>12, <1>14, <1>15, <1>17, <2>2, <3>1
  <2>3. CASE m = p /\ t = s
    <3>1. links'.child[m][t] = far
      BY <1>4, <1>5, <1>9, <1>10, <2>1, <2>3
    <3>. QED
      BY <1>12, <1>14, <1>15, <1>16, <1>18, <2>3, <3>1
  <2>4. CASE m = g /\ t = s
    <3>1. links'.child[m][t] = inner
      BY <1>4, <1>10, <2>1, <2>4
    <3>2. Height(f, inner) = h[p]
      BY <1>10, <1>12, <1>16, <1>18
    <3>. QED
      BY <1>12, <1>14, <1>15, <2>4, <3>1, <3>2
  <2>5. CASE m = g /\ t = o
    <3>1. links'.child[m][t] = z
      BY <1>4, <1>5, <1>9, <1>10, <2>1, <2>5
    <3>. QED
      BY <1>12, <1>14, <1>15, <1>16, <1>18, <2>5, <3>1
  <2>6. CASE m \notin {p, g}
    <3>1. h[m] = Height(h, Child(m, t)) + Weight(color, m) /\ f[m] = h[m]
          /\ Weight(color', m) = Weight(color, m)
      BY <1>11, <1>14, <1>15, <2>1, <2>6 DEF Heights, Child
    <3>2. CASE m = top /\ t = SideOf(g)
      <4>1. g # links.root
        BY <1>3, <1>4, <1>5, <1>9, <2>1, <3>2, ParentFacts, NullIsNone
      <4>2. Child(m, t) = g
        BY <1>3, <1>4, <1>5, <1>9, <3>2, <4>1, ParentFacts
      <4>3. links'.child[m][t] = p
        BY <1>10, <2>1, <2>6, <3>2
      <4>4. Height(h, g) = h[g]
        BY <1>5 DEF Height
      <4>. QED
        BY <1>17, <3>1, <4>2, <4>3, <4>4
    <3>3. CASE ~(m = top /\ t = SideOf(g))
      <4>1. links'.child[m][t] = Child(m, t) /\ Child(m, t) \in Pointer
        BY <1>5, <1>10, <2>1, <2>6, <3>3, LinksFacts
      <4>2. Child(m, t) # Null => Parent(Child(m, t)) = m /\ SideOf(Child(m, t)) = t
        <5>1. InTree \in SUBSET Nodes
          BY <1>5
        <5>. QED
          BY <1>3, <5>1, ChildFacts
      <4>3. Child(m, t) \notin {p, g}
        BY <1>1, <1>5, <1>9, <2>6, <3>3, <4>2
      <4>. QED
        BY <1>16, <3>1, <4>1, <4>3
    <3>. QED
      BY <3>2, <3>3
  <2>. QED
    BY <2>1, <2>2, <2>3, <2>4, <2>5, <2>6
<1>. QED
  BY <1>7, <1>14, <1>19 DEF IsBalanced, Heights

LEMMA MendedBalances ==
  ASSUME TreeInv, Mended, IsBalanced(links, InTree, color)
  PROVE  IsBalanced(links', InTree', color')
<1>1. /\ call.at = "mend" /\ color' = [color EXCEPT ![links.root] = "black"]
      /\ call' = Idle /\ links' = links /\ allocated' = allocated
  BY DEF Mended, Return
<1>2. PICK sub \in Subs : IsTree(links, InTree, sub)
  BY WitnessExists DEF Witness
<1>3. InTree \in SUBSET Nodes /\ color \in [Nodes -> {"red", "black"}] /\ links \in Links
  BY TypeFacts DEF TreeInv
<1>4. InTree' = InTree
  BY <1>1 DEF InTree, Idle, Deleting
<1>5. PICK h \in [Nodes -> Nat] : Heights(links, InTree, color, h)
  BY DEF IsBalanced
<1>6. PICK r : r = links.root
  OBVIOUS
<1>7. PICK f : f = [m \in Nodes |-> IF m = r THEN h[m] + 1 - Weight(color, m) ELSE h[m]]
  OBVIOUS
<1>8. \A m \in Nodes : f[m] \in Nat /\ f[m] = IF m = r THEN h[m] + 1 - Weight(color, m) ELSE h[m]
  <2>1. \A m \in Nodes : Weight(color, m) \in {0, 1} /\ h[m] \in Nat
    BY <1>5 DEF Weight
  <2>2. ASSUME NEW m \in Nodes
        PROVE  h[m] + 1 - Weight(color, m) \in Nat
    <3>1. PICK w, k : w = Weight(color, m) /\ k = h[m]
      OBVIOUS
    <3>2. w \in {0, 1} /\ k \in Nat
      BY <2>1, <3>1
    <3>. QED
      BY <3>1, <3>2
  <2>. QED
    BY <1>7, <2>1, <2>2
<1>9. f \in [Nodes -> Nat]
  BY <1>7, <1>8
<1>10. \A m \in Nodes : Weight(color', m) = IF m = r THEN 1 ELSE Weight(color, m)
  BY <1>1, <1>3, <1>6 DEF Weight
<1>11. ASSUME NEW m \in InTree, NEW s \in Sides
       PROVE  f[m] = Height(f, Child(m, s)) + Weight(color', m)
  <2>1. h[m] = Height(h, Child(m, s)) + Weight(color, m)
    BY <1>5 DEF Heights, Child
  <2>2. Child(m, s) \in Pointer /\ (Child(m, s) # Null => Child(m, s) # r) /\ m \in Nodes
    <3>1. InTree \in SUBSET Nodes /\ m \in Nodes
      BY <1>3
    <3>2. Child(m, s) # Null => Child(m, s) # r
      BY <1>2, <1>6, <3>1, ChildFacts
    <3>3. Child(m, s) \in Pointer
      BY <1>3, <3>1, LinksFacts
    <3>. QED
      BY <3>1, <3>2, <3>3
  <2>3. Height(f, Child(m, s)) = Height(h, Child(m, s)) /\ Height(h, Child(m, s)) \in Nat
    BY <1>5, <1>8, <2>2 DEF Height, Pointer
  <2>4. Weight(color, m) \in Nat
    BY DEF Weight
  <2>. QED
    BY <1>8, <1>10, <2>1, <2>2, <2>3, <2>4
<1>. QED
  BY <1>1, <1>4, <1>9, <1>11 DEF IsBalanced, Heights, Child

\* A red node, or a black one with a child, leaves: the child is red then, and is
\* what fix_delete paints.
LEMMA SpliceBalances ==
  ASSUME TreeInv, TreeInv', NEW sub \in Subs, IsTree(links, InTree, sub), NEW n, NEW y, NEW answer,
         NEW S, NEW x, NEW b, SplicedBy(n, y, answer, sub, S, x, b),
         unfixed' = FALSE, links'.root # Null, IsBalanced(links, InTree, color)
  PROVE  /\ call'.at \in {"idle", "delete"} /\ (call'.at = "delete" => (IsRed(call.node))')
         /\ IsBalanced(links', InTree', Painted')
<1>1. /\ b \in Sides /\ Child(y, b) = Null /\ x = Child(y, Other(b))
      /\ links \in Links /\ InTree \in SUBSET Nodes /\ color \in [Nodes -> {"red", "black"}]
      /\ y \in InTree /\ y \in Nodes /\ x \in Pointer
      /\ SplicedLinks(links', y, x) /\ color' = color /\ InTree' = InTree \ {y}
  BY DEF SplicedBy
<1>2. ~(~IsRed(y) /\ x = Null)
  BY DEF SplicedBy
<1>3. \/ call' = Idle /\ IsRed(y)
      \/ /\ call'.at = "delete" /\ call'.node = x /\ ~IsRed(y) /\ x # Null
  BY <1>2 DEF SplicedBy
<1>4. PICK h \in [Nodes -> Nat] : Heights(links, InTree, color, h)
  BY DEF IsBalanced
<1>5. Height(h, x) = 0 /\ h[y] = Weight(color, y)
  <2>1. Height(h, Child(y, b)) = 0
    BY <1>1 DEF Height
  <2>2. h[y] = Height(h, Child(y, b)) + Weight(color, y)
        /\ h[y] = Height(h, x) + Weight(color, y)
    BY <1>1, <1>4, SidesFacts DEF Heights, Child
  <2>3. Weight(color, y) \in Nat /\ Height(h, x) \in Nat
    BY <1>1, <1>4 DEF Weight, Height, Pointer
  <2>. QED
    BY <2>1, <2>2, <2>3
<1>6. x # Null => /\ x \in InTree /\ x # y /\ h[x] = 0 /\ color[x] = "red"
                  /\ \A s \in Sides : Height(h, Child(x, s)) = 0
  <2>1. SUFFICES ASSUME x # Null
                 PROVE  /\ x \in InTree /\ x # y /\ h[x] = 0 /\ color[x] = "red"
                        /\ \A s \in Sides : Height(h, Child(x, s)) = 0
    OBVIOUS
  <2>2. x \in InTree /\ x # y
    BY <1>1, <2>1, ChildFacts, SidesFacts
  <2>3. h[x] = 0
    BY <1>5, <2>1 DEF Height
  <2>4. ASSUME NEW s \in Sides
        PROVE  Height(h, Child(x, s)) = 0 /\ Weight(color, x) = 0
    <3>1. h[x] = Height(h, Child(x, s)) + Weight(color, x)
      BY <1>4, <2>2 DEF Heights, Child
    <3>2. Height(h, Child(x, s)) \in Nat /\ Weight(color, x) \in Nat
      BY <1>1, <1>4, <2>2, LinksFacts DEF Height, Weight, Pointer
    <3>. QED
      BY <2>3, <3>1, <3>2
  <2>5. color[x] = "red"
    BY <1>1, <2>2, <2>4 DEF Weight, Sides
  <2>. QED
    BY <2>2, <2>3, <2>4, <2>5
<1>7. PICK painted : painted = IF IsRed(y) THEN {} ELSE {x}
  OBVIOUS
<1>8. Painted' = [m \in Nodes |-> IF m \in painted THEN "black" ELSE color[m]]
  <2>1. CASE IsRed(y)
    <3>1. Painted' = color /\ painted = {}
      BY <1>1, <1>3, <1>7, <2>1 DEF Painted, Idle
    <3>. QED
      BY <1>1, <3>1
  <2>2. CASE ~IsRed(y)
    <3>1. Painted' = [color EXCEPT ![x] = "black"] /\ painted = {x}
      BY <1>1, <1>3, <1>7, <2>2 DEF Painted
    <3>. QED
      BY <1>1, <3>1
  <2>. QED
    BY <2>1, <2>2
<1>9. PICK f : f = [m \in Nodes |-> IF m \in painted THEN 1 ELSE h[m]]
  OBVIOUS
<1>10. f \in [Nodes -> Nat] /\ \A m \in Nodes : f[m] = IF m \in painted THEN 1 ELSE h[m]
  BY <1>4, <1>9
<1>11. Height(f, x) = h[y]
  <2>1. CASE IsRed(y)
    <3>1. h[y] = 0 /\ painted = {}
      BY <1>5, <1>7, <2>1 DEF IsRed, Weight
    <3>. QED
      BY <1>1, <1>5, <1>10, <3>1 DEF Height, Pointer
  <2>2. CASE ~IsRed(y)
    <3>1. h[y] = 1 /\ painted = {x} /\ x # Null
      BY <1>1, <1>2, <1>5, <1>7, <2>2, NullIsNone DEF IsRed, Weight
    <3>. QED
      BY <1>1, <1>6, <1>10, <3>1 DEF Height, Pointer
  <2>. QED
    BY <2>1, <2>2
<1>12. ASSUME NEW m \in InTree \ {y}, NEW s \in Sides
       PROVE  f[m] = Height(f, links'.child[m][s]) + Weight(Painted', m)
  <2>1. h[m] = Height(h, Child(m, s)) + Weight(color, m)
    BY <1>4 DEF Heights, Child
  <2>2. m \in Nodes /\ Child(m, s) \in Pointer /\ h[m] \in Nat
    BY <1>1, <1>4, LinksFacts
  <2>3. CASE m = Parent(y) /\ s = SideOf(y)
    <3>1. y # links.root /\ Child(m, s) = y
      BY <1>1, <2>2, <2>3, ParentFacts, NullIsNone
    <3>2. links'.child[m][s] = x
      BY <1>1, <2>2, <2>3 DEF SplicedLinks
    <3>3. m \notin painted
      <4>1. x # Null => Parent(x) = y
        BY <1>1, ChildFacts, SidesFacts
      <4>2. m # x
        <5>1. Parent(y) \notin sub[y]
          BY <1>1, <3>1, ParentFacts
        <5>2. x # Null => x \in sub[y]
          BY <1>1, <1>6, <4>1, ParentFacts, NullIsNone
        <5>. QED
          BY <2>2, <2>3, <5>1, <5>2, NullIsNone
      <4>. QED
        BY <1>7, <4>2
    <3>4. Height(h, y) = h[y] /\ f[m] = h[m] /\ Weight(Painted', m) = Weight(color, m)
      BY <1>1, <1>8, <1>10, <2>2, <3>3, NullIsNone DEF Height, Weight
    <3>. QED
      BY <1>11, <2>1, <3>1, <3>2, <3>4
  <2>4. CASE ~(m = Parent(y) /\ s = SideOf(y))
    <3>1. links'.child[m][s] = Child(m, s)
      BY <1>1, <2>2, <2>4 DEF SplicedLinks
    <3>2. Child(m, s) = Null \/ Child(m, s) \notin painted
      <4>1. x # Null => Parent(x) = y
        BY <1>1, ChildFacts, SidesFacts
      <4>2. Child(m, s) # Null => Parent(Child(m, s)) = m
        BY <1>1, ChildFacts
      <4>. QED
        BY <1>7, <4>1, <4>2
    <3>3. Height(f, Child(m, s)) = Height(h, Child(m, s))
      BY <1>10, <2>2, <3>2 DEF Height, Pointer
    <3>4. CASE m \notin painted
      <4>1. f[m] = h[m] /\ Weight(Painted', m) = Weight(color, m)
        BY <1>8, <1>10, <2>2, <3>4 DEF Weight
      <4>. QED
        BY <2>1, <3>1, <3>3, <4>1
    <3>5. CASE m \in painted
      <4>1. m = x /\ f[m] = 1 /\ Weight(Painted', m) = 1
        BY <1>7, <1>8, <1>10, <2>2, <3>5 DEF Weight
      <4>2. Height(h, Child(m, s)) = 0
        BY <1>6, <2>2, <4>1, NullIsNone
      <4>. QED
        BY <3>1, <3>3, <4>1, <4>2
    <3>. QED
      BY <3>4, <3>5
  <2>. QED
    BY <2>3, <2>4
<1>13. IsBalanced(links', InTree', Painted')
  BY <1>1, <1>10, <1>12 DEF IsBalanced, Heights
<1>14. call'.at = "delete" => (IsRed(call.node))'
  <2>1. call'.at = "delete" => call'.node = x /\ x # Null
    BY <1>3 DEF Idle
  <2>. QED
    BY <1>1, <1>6, <2>1 DEF IsRed
<1>15. call'.at \in {"idle", "delete"}
  BY <1>3 DEF Idle
<1>. QED
  BY <1>13, <1>14, <1>15

LEMMA QuietBalances ==
  ASSUME BalanceInv, UNCHANGED <<links, color, allocated, unfixed, crashed>>,
         call.at \notin Deleting, call'.at \notin Deleting
  PROVE  BalanceInv'
<1>1. InTree' = InTree /\ Painted' = Painted
  BY DEF InTree, Painted, Deleting
<1>. QED
  BY <1>1 DEF BalanceInv, Deleting

LEMMA InsertBalances ==
  ASSUME TreeInv, BalanceInv,
         \/ \E n \in Nodes : Hang(n)
         \/ PushDown \/ TurnOutward \/ Raise \/ Mended
  PROVE  BalanceInv'
<1>1. call.at = "insert" \/ call.at \in Inserting
  BY DEF Hang, Missed, PushDown, TurnOutward, Raise, Mended, Mending, Inserting
<1>2. Painted = color
  BY <1>1 DEF Painted, Inserting
<1>3. call'.at \notin Deleting /\ UNCHANGED <<unfixed, crashed>>
  <2>1. call.at # "idle" => call = [at |-> call.at, key |-> call.key, value |-> call.value,
                                    node |-> call.node, other |-> call.other]
    BY TypeFacts DEF TreeInv, Idle
  <2>2. /\ UNCHANGED <<unfixed, crashed>>
        /\ \/ \E n \in Nodes : call' = [call EXCEPT !.at = "mend", !.node = n]
           \/ call.at = "mend" /\ call' = [call EXCEPT !.node = Parent(Parent(call.node))]
           \/ call' = [call EXCEPT !.at = "raise", !.node = Parent(call.node)]
           \/ call' = [call EXCEPT !.at = "mend"] \/ call' = Idle
    BY DEF Hang, PushDown, TurnOutward, Raise, Mended, Mending, Return
  <2>3. call = [at |-> call.at, key |-> call.key, value |-> call.value, node |-> call.node,
                other |-> call.other]
    BY <1>1, <2>1 DEF Inserting
  <2>4. call'.at \in {"mend", "raise", "idle"}
    <3>1. PICK a, k, v, n, o : call = [at |-> a, key |-> k, value |-> v, node |-> n, other |-> o]
      BY <2>3
    <3>2. CASE \E z \in Nodes : call' = [call EXCEPT !.at = "mend", !.node = z]
      BY <3>1, <3>2
    <3>3. CASE call.at = "mend" /\ call' = [call EXCEPT !.node = Parent(Parent(call.node))]
      <4>1. PICK z : z = Parent(Parent(call.node))
        OBVIOUS
      <4>2. call' = [at |-> a, key |-> k, value |-> v, node |-> z, other |-> o] /\ a = "mend"
        BY <3>1, <3>3, <4>1
      <4>. QED
        BY <4>2
    <3>4. CASE call' = [call EXCEPT !.at = "raise", !.node = Parent(call.node)]
      BY <3>1, <3>4
    <3>5. CASE call' = [call EXCEPT !.at = "mend"] \/ call' = Idle
      BY <3>1, <3>5 DEF Idle
    <3>. QED
      BY <2>2, <3>2, <3>3, <3>4, <3>5
  <2>. QED
    BY <2>2, <2>4 DEF Deleting
<1>4. Painted' = color'
  BY <1>3 DEF Painted, Deleting
<1>5. IsBalanced(links, InTree, color) => IsBalanced(links', InTree', color')
  BY HangBalances, PushDownBalances, TurnOutwardBalances, RaiseBalances, MendedBalances
<1>. QED
  BY <1>2, <1>3, <1>4, <1>5 DEF BalanceInv, Deleting

LEMMA RemoveBalances ==
  ASSUME TreeInv, TreeInv', BalanceInv, ~crashed, RemoveSuccessor \/ RemoveFound
  PROVE  BalanceInv'
<1>1. PICK sub \in Subs : Witness(sub)
  BY WitnessExists
<1>2. PICK n, y, answer :
        /\ ReadyToSplice(sub, n, y, answer) /\ Splice(n, y, answer)
        /\ call.at \in Descending \cup {"successor"}
  <2>1. CASE RemoveSuccessor
    BY <1>1, <2>1, SuccessorIsReady DEF RemoveSuccessor
  <2>2. CASE RemoveFound
    BY <1>1, <2>2, FoundIsReady DEF RemoveFound, Arrived, Descending
  <2>. QED
    BY <2>1, <2>2
<1>3. IsTree(links, InTree, sub) /\ Ordered(links, InTree, sub, key)
  BY <1>1 DEF Witness
<1>4. PICK S, x, b : SplicedBy(n, y, answer, sub, S, x, b)
  BY <1>2, <1>3, SpliceFacts
<1>5. crashed' = FALSE /\ unfixed' \in BOOLEAN
  BY <1>4 DEF SplicedBy, TreeInv, TreeTypeOK
<1>6. SUFFICES ASSUME ~unfixed'
               PROVE  /\ call'.at \notin {"nephews", "turn"}
                      /\ call'.at = "delete" => (IsRed(call.node))'
                      /\ IsBalanced(links', InTree', Painted')
  BY <1>5 DEF BalanceInv
<1>7. CASE links'.root = Null
  <2>1. PICK T \in Subs : IsTree(links', InTree', T)
    BY DEF TreeInv, TreeIsSound
  <2>2. InTree' = {}
    BY <1>7, <2>1 DEF IsTree, Rooted, Sub
  <2>3. call'.at \notin Deleting
    BY <2>2 DEF TreeInv, RepairIsSound
  <2>4. IsBalanced(links', InTree', Painted')
    <3>1. PICK h : h = [m \in Nodes |-> 0]
      OBVIOUS
    <3>2. h \in [Nodes -> Nat] /\ Heights(links', InTree', Painted', h)
      BY <2>2, <3>1 DEF Heights
    <3>. QED
      BY <3>2 DEF IsBalanced
  <2>. QED
    BY <2>3, <2>4 DEF Deleting
<1>8. CASE links'.root # Null
  <2>1. ~unfixed /\ call.at # "delete"
    BY <1>4, <1>6, <1>8 DEF SplicedBy, Deleting
  <2>2. IsBalanced(links, InTree, color)
    BY <2>1 DEF BalanceInv, Painted
  <2>3. unfixed' = FALSE
    BY <1>5, <1>6
  <2>. QED
    BY <1>3, <1>4, <1>8, <2>2, <2>3, SpliceBalances
<1>. QED
  BY <1>7, <1>8

\* The repair of a tree from which a black leaf has been removed, and its end.
LEMMA DeleteBalances ==
  ASSUME TreeInv, BalanceInv, ~crashed,
         RedSibling \/ Crash \/ BothBlack \/ NearRed \/ FarRed \/ Fixed
  PROVE  BalanceInv'
<1>1. unfixed \/ (~AtNephews /\ ~Fixing /\ call.at # "turn")
  BY DEF BalanceInv, AtNephews, Fixing
<1>2. CASE Fixed
  <2>1. /\ call.at = "delete" /\ color' = [color EXCEPT ![call.node] = "black"]
        /\ call' = Idle /\ allocated' = allocated \ {call.other}
        /\ UNCHANGED <<links, unfixed, crashed>>
    BY <1>2 DEF Fixed, Leave, Return
  <2>2. Painted' = Painted /\ InTree' = InTree /\ call'.at = "idle"
    BY <2>1 DEF Painted, InTree, Idle, Deleting
  <2>. QED
    BY <2>1, <2>2 DEF BalanceInv
<1>3. CASE ~Fixed
  <2>1. AtNephews \/ Fixing \/ call.at = "turn"
    BY <1>3 DEF RedSibling, Crash, BothBlack, NearRed, FarRed
  <2>2. unfixed' = unfixed
    BY <1>3 DEF RedSibling, Crash, BothBlack, NearRed, FarRed
  <2>. QED
    BY <1>1, <2>1, <2>2 DEF BalanceInv
<1>. QED
  BY <1>2, <1>3

LEMMA ClearBalances == ASSUME ~crashed, Clear PROVE BalanceInv'
<1>1. /\ call' = Idle /\ allocated' = {} /\ crashed' = crashed
  BY DEF Clear, Return
<1>2. InTree' = {} /\ call'.at = "idle"
  BY <1>1 DEF InTree, Idle, Deleting
<1>3. PICK h : h = [m \in Nodes |-> 0]
  OBVIOUS
<1>4. h \in [Nodes -> Nat] /\ Heights(links', InTree', Painted', h)
  BY <1>2, <1>3 DEF Heights
<1>. QED
  BY <1>1, <1>2, <1>4 DEF BalanceInv, IsBalanced

LEMMA NextBalances == ASSUME TreeInv, TreeInv', BalanceInv, TreeNext PROVE BalanceInv'
<1>1. ~crashed
  BY DEF TreeNext
<1>2. ASSUME NEW op \in Descending, NEW k, NEW v, Start(op, k, v)
      PROVE  BalanceInv'
  <2>1. call.at = "idle" /\ call'.at = op /\ UNCHANGED <<links, color, allocated, unfixed, crashed>>
    BY <1>2 DEF Start, Still, Idle
  <2>. QED
    BY <2>1, QuietBalances DEF Descending, Deleting
<1>3. CASE Descend \/ FindSuccessor \/ NextLeft \/ Find \/ Miss \/ Update
  <2>1. UNCHANGED <<links, color, allocated, unfixed, crashed>>
    BY <1>3 DEF Descend, FindSuccessor, NextLeft, Find, Miss, Update, Still
  <2>2. call.at \in Descending \cup {"successor"}
    BY <1>3 DEF Descend, FindSuccessor, NextLeft, Find, Miss, Update, Arrived, Missed, Descending
  <2>3. call = [at |-> call.at, key |-> call.key, value |-> call.value, node |-> call.node,
                other |-> call.other]
    BY <2>2, TypeFacts DEF TreeInv, Idle, Descending
  <2>4. call'.at = "idle" \/ call'.at = call.at \/ call'.at = "successor"
    <3>1. CASE Descend \/ FindSuccessor \/ NextLeft
      BY <2>3, <3>1 DEF Descend, FindSuccessor, NextLeft
    <3>2. CASE Find \/ Miss \/ Update
      BY <3>2 DEF Find, Miss, Update, Return, Idle
    <3>. QED
      BY <1>3, <3>1, <3>2
  <2>. QED
    BY <2>1, <2>2, <2>4, QuietBalances DEF Descending, Deleting
<1>4. CASE \E p \in Puts : Insert(p[1], p[2])
  BY <1>2, <1>4 DEF Insert, Descending
<1>5. CASE \E k \in Keys, op \in {"find", "remove"} : Start(op, k, None)
  BY <1>2, <1>5 DEF Descending
<1>. QED
  BY <1>1, <1>3, <1>4, <1>5, InsertBalances, RemoveBalances, DeleteBalances, ClearBalances DEF TreeNext

\* Until a black leaf is removed the tree is balanced, no call follows a pointer
\* that is not there, and fix_delete has only to paint (infra_rbtree_insert,
\* infra_rbtree_remove).
THEOREM TreeStaysBalanced == TreeSpec => []BalanceInv
<1>1. TreeInit => BalanceInv
  <2>1. SUFFICES ASSUME TreeInit PROVE BalanceInv
    OBVIOUS
  <2>2. InTree = {} /\ call.at = "idle" /\ ~crashed
    BY <2>1 DEF TreeInit, InTree, Idle, Deleting
  <2>3. PICK h : h = [m \in Nodes |-> 0]
    OBVIOUS
  <2>4. h \in [Nodes -> Nat] /\ Heights(links, InTree, Painted, h)
    BY <2>2, <2>3 DEF Heights
  <2>. QED
    BY <2>2, <2>4 DEF BalanceInv, IsBalanced
<1>2. TreeInv /\ TreeInv' /\ BalanceInv /\ [TreeNext]_tree_vars => BalanceInv'
  <2>1. SUFFICES ASSUME TreeInv, BalanceInv, UNCHANGED tree_vars PROVE BalanceInv'
    BY NextBalances
  <2>2. UNCHANGED <<links, color, allocated, call, unfixed, crashed>>
    BY <2>1 DEF tree_vars
  <2>. QED
    BY <2>1, <2>2 DEF BalanceInv, IsRed, Painted, InTree
<1>. QED
  BY <1>1, <1>2, TreeInvariant, PTL DEF TreeSpec

\* The black nodes above a node and those below it make the same sum everywhere.
LEMMA BlacksAreLevel ==
  ASSUME NEW sub, InTree \in SUBSET Nodes, IsFiniteSet(InTree), IsTree(links, InTree, sub),
         color \in [Nodes -> {"red", "black"}], links \in Links,
         NEW h \in [Nodes -> Nat], Heights(links, InTree, color, h)
  PROVE  \A n \in InTree, s \in Sides : BlacksAbove(n) + Height(h, Child(n, s)) = h[links.root]
<1>1. PICK S : S = {n \in InTree : \A s \in Sides :
                      BlacksAbove(n) + Height(h, Child(n, s)) = h[links.root]}
  OBVIOUS
<1>2. SUFFICES ASSUME InTree \ S # {} PROVE FALSE
  BY <1>1
<1>3. PICK r : r = links.root
  OBVIOUS
<1>4. r \in InTree /\ r \in Nodes
  BY <1>2, <1>3, NullIsNone DEF IsTree, Rooted, Sub
<1>5. ASSUME NEW n \in InTree, NEW s \in Sides
      PROVE  /\ h[n] = Height(h, Child(n, s)) + Weight(color, n)
             /\ h[n] \in Nat /\ Height(h, Child(n, s)) \in Nat
             /\ Weight(color, n) = IF IsRed(n) THEN 0 ELSE 1
  <2>1. n \in Nodes /\ Child(n, s) \in Pointer /\ n # Null
    BY LinksFacts, NullIsNone
  <2>. QED
    BY <2>1 DEF Heights, Child, Height, Pointer, Weight, IsRed
<1>6. r \in S
  <2>1. BlacksAbove(r) = IF IsRed(r) THEN 0 ELSE 1
    <3>1. Above(r) = {r}
      BY <1>3, <1>4, AboveRoot
    <3>2. {m \in {r} : ~IsRed(m)} = IF IsRed(r) THEN {} ELSE {r}
      OBVIOUS
    <3>. QED
      BY <3>1, <3>2, FS_EmptySet, FS_Singleton DEF BlacksAbove
  <2>2. ASSUME NEW s \in Sides
        PROVE  BlacksAbove(r) + Height(h, Child(r, s)) = h[r]
    BY <1>4, <1>5, <2>1
  <2>. QED
    BY <1>1, <1>3, <1>4, <2>2
<1>7. ASSUME NEW c \in InTree \ S
      PROVE  Parent(c) \in (InTree \ S) \cup {Null}
  <2>1. SUFFICES ASSUME Parent(c) \notin InTree \ S, Parent(c) # Null PROVE FALSE
    OBVIOUS
  <2>2. PICK p : p = Parent(c)
    OBVIOUS
  <2>3. c # r /\ p \in InTree /\ p \in S /\ SideOf(c) \in Sides /\ Child(p, SideOf(c)) = c
    BY <1>3, <2>1, <2>2, ParentFacts
  <2>4. BlacksAbove(p) + h[c] = h[r]
    <3>1. Height(h, c) = h[c]
      BY NullIsNone DEF Height
    <3>. QED
      BY <1>1, <1>3, <2>3, <3>1
  <2>5. BlacksAbove(c) = BlacksAbove(p) + (IF IsRed(c) THEN 0 ELSE 1) /\ BlacksAbove(p) \in Nat
    <3>1. PICK B : B = {m \in Above(p) : ~IsRed(m)}
      OBVIOUS
    <3>2. Above(c) = Above(p) \cup {c} /\ c \notin Above(p)
      BY <1>3, <2>2, <2>3, AboveChild
    <3>3. c \notin B /\ {m \in Above(c) : ~IsRed(m)} = IF IsRed(c) THEN B ELSE B \cup {c}
      BY <3>1, <3>2
    <3>4. IsFiniteSet(B)
      <4>1. B \in SUBSET InTree
        BY <3>1 DEF Above
      <4>. QED
        BY <4>1, FS_Subset
    <3>5. Cardinality(B) \in Nat /\ Cardinality(B \cup {c}) = Cardinality(B) + 1
      BY <3>3, <3>4, FS_CardinalityType, FS_AddElement
    <3>6. BlacksAbove(p) = Cardinality(B)
          /\ BlacksAbove(c) = IF IsRed(c) THEN Cardinality(B) ELSE Cardinality(B \cup {c})
      BY <3>1, <3>3 DEF BlacksAbove
    <3>. QED
      BY <3>5, <3>6
  <2>6. ASSUME NEW s \in Sides
        PROVE  BlacksAbove(c) + Height(h, Child(c, s)) = h[r]
    <3>1. PICK i, j, k, w : /\ i = BlacksAbove(p) /\ j = Height(h, Child(c, s)) /\ k = h[c]
                            /\ w = IF IsRed(c) THEN 0 ELSE 1
      OBVIOUS
    <3>2. i \in Nat /\ j \in Nat /\ k \in Nat /\ k = j + w /\ i + k = h[r] /\ BlacksAbove(c) = i + w
          /\ w \in Nat
      BY <1>5, <2>4, <2>5, <3>1
    <3>. QED
      BY <3>1, <3>2
  <2>. QED
    BY <1>1, <1>3, <2>6
<1>. QED
  BY <1>2, <1>3, <1>6, <1>7, UpToTheRoot

LEMMA InvariantsAreRedBlack == ASSUME TreeInv, BalanceInv PROVE TreeIsRedBlack
<1>1. PICK sub \in Subs : IsTree(links, InTree, sub)
  BY WitnessExists DEF Witness
<1>2. InTree \in SUBSET Nodes /\ IsFiniteSet(InTree)
  <2>1. IsFiniteSet(allocated) /\ InTree \subseteq allocated
    BY DEF TreeInv, SizeIsSound, InTree
  <2>. QED
    BY <2>1, FS_Subset, TypeFacts DEF TreeInv
<1>3. links \in Links /\ color \in [Nodes -> {"red", "black"}]
  BY TypeFacts DEF TreeInv
<1>4. ASSUME call = Idle, NEW n \in InTree, IsRed(n)
      PROVE  n # links.root /\ ~IsRed(Parent(n))
  <2>1. Painted = color /\ Spared = {}
    BY <1>4 DEF Painted, Spared, Idle, Inserting
  <2>. QED
    BY <1>4, <2>1 DEF TreeInv, ColorsAreSound, Strict, IsRed, Parent
<1>5. ASSUME ~unfixed, call.at # "delete"
      PROVE  ~crashed /\ \A m, n \in {BlacksAbove(e) : e \in Ends} : m = n
  <2>1. ~crashed /\ IsBalanced(links, InTree, color)
    BY <1>5 DEF BalanceInv, Painted
  <2>2. PICK h \in [Nodes -> Nat] : Heights(links, InTree, color, h)
    BY <2>1 DEF IsBalanced
  <2>3. ASSUME NEW e \in Ends
        PROVE  BlacksAbove(e) = h[links.root]
    <3>1. PICK s \in Sides : e \in InTree /\ Child(e, s) = Null
      BY DEF Ends
    <3>2. BlacksAbove(e) + 0 = h[links.root]
      BY <1>1, <1>2, <1>3, <2>2, <3>1, BlacksAreLevel DEF Height
    <3>3. BlacksAbove(e) \in Nat
      <4>1. {m \in Above(e) : ~IsRed(m)} \in SUBSET InTree
        BY DEF Above
      <4>. QED
        BY <1>2, <4>1, FS_Subset, FS_CardinalityType DEF BlacksAbove
    <3>. QED
      BY <3>2, <3>3
  <2>. QED
    BY <2>1, <2>3
<1>. QED
  BY <1>4, <1>5 DEF TreeIsRedBlack

\* Between calls the root is black and no red node has a red parent, and until a
\* black leaf is removed there are as many black nodes on each way down to a
\* missing child (fix_insert, infra_rbtree_remove).
THEOREM TreeIsColored == TreeSpec => []TreeIsRedBlack
<1>1. TreeInv /\ BalanceInv => TreeIsRedBlack
  BY InvariantsAreRedBlack
<1>. QED
  BY <1>1, TreeInvariant, TreeStaysBalanced, PTL

-----------------------------------------------------------------------------
(* The tree implements the map.                                            *)

ContentsOf(A, ky, va) ==
  [k \in Keys |-> IF {n \in A : ky[n] = k} = {} THEN None
                  ELSE va[CHOOSE n \in {m \in A : ky[m] = k} : TRUE]]

LEMMA ContentsAre ==
  /\ Contents = ContentsOf(InTree, key, value)
  /\ Contents' = ContentsOf(InTree', key', value')
BY DEF Contents, ContentsOf, Holders

\* Keys that differ, and values: what KeysAreSound says of the nodes in A.
Distinct(A, ky, va) ==
  /\ \A n \in A : ky[n] \in Keys /\ va[n] \in Values
  /\ \A m, n \in A : ky[m] = ky[n] => m = n

LEMMA ContentsFacts ==
  ASSUME NEW A, NEW ky, NEW va, Distinct(A, ky, va), NEW c, c = ContentsOf(A, ky, va)
  PROVE  /\ c = [k \in Keys |-> c[k]]
         /\ \A n \in A : c[ky[n]] = va[n]
         /\ \A k \in Keys : (\A n \in A : ky[n] # k) => c[k] = None
         /\ \A k \in Keys : c[k] # None <=> \E n \in A : ky[n] = k
<1>1. /\ c = [k \in Keys |-> c[k]]
      /\ \A k \in Keys : c[k] = IF {n \in A : ky[n] = k} = {} THEN None
                                ELSE va[CHOOSE n \in {m \in A : ky[m] = k} : TRUE]
  BY DEF ContentsOf
<1>2. ASSUME NEW n \in A
      PROVE  c[ky[n]] = va[n]
  <2>1. {m \in A : ky[m] = ky[n]} = {n}
    BY DEF Distinct
  <2>2. (CHOOSE m \in {n} : TRUE) = n
    OBVIOUS
  <2>3. ky[n] \in Keys
    BY DEF Distinct
  <2>. QED
    BY <1>1, <2>1, <2>2, <2>3
<1>3. ASSUME NEW k \in Keys, \A n \in A : ky[n] # k
      PROVE  c[k] = None
  BY <1>1, <1>3
<1>4. ASSUME NEW n \in A
      PROVE  c[ky[n]] # None
  BY <1>2, ElementAssumption DEF Distinct
<1>5. \A k \in Keys : c[k] # None <=> \E n \in A : ky[n] = k
  BY <1>3, <1>4
<1>. QED
  BY <1>1, <1>2, <1>3, <1>5

\* There are as many keys with a value as there are nodes.
LEMMA AsManyKeys ==
  ASSUME NEW A, NEW ky, NEW va, Distinct(A, ky, va), IsFiniteSet(A),
         NEW c, c = ContentsOf(A, ky, va)
  PROVE  Cardinality({k \in Keys : c[k] # None}) = Cardinality(A)
<1>1. PICK P : P = {k \in Keys : c[k] # None}
  OBVIOUS
<1>2. PICK f : f = [n \in A |-> ky[n]]
  OBVIOUS
<1>3. \A k : k \in P <=> \E n \in A : ky[n] = k
  BY <1>1, ContentsFacts DEF Distinct
<1>4. f \in [A -> P]
  BY <1>2, <1>3
<1>5. \A m, n \in A : f[m] = f[n] => m = n
  BY <1>2 DEF Distinct
<1>6. \A k \in P : \E n \in A : f[n] = k
  BY <1>2, <1>3
<1>7. f \in Bijection(A, P)
  BY <1>4, <1>5, <1>6 DEF Bijection, Injection, Surjection, IsInjective
<1>8. ExistsBijection(A, P)
  BY <1>7 DEF ExistsBijection
<1>. QED
  BY <1>1, <1>8, FS_Bijection

LEMMA SameCardinality == \A S : Tree!Cardinality(S) = Cardinality(S)
BY DEF Tree!Cardinality, Cardinality, Tree!IsFiniteSet, IsFiniteSet

LEMMA SizeIsPresent ==
  ASSUME KeysAreSound, SizeIsSound, InTree \subseteq allocated
  PROVE  SizeToBe = Cardinality({k \in Keys : Contents[k] # None})
<1>1. IsFiniteSet(InTree) /\ SizeToBe = Cardinality(InTree)
  BY FS_Subset DEF SizeIsSound
<1>2. Distinct(InTree, key, value)
  BY DEF KeysAreSound, Distinct
<1>. QED
  BY <1>1, <1>2, ContentsAre, AsManyKeys

\* The same of the state that a step leads to.
LEMMA SizeWillBePresent ==
  ASSUME TreeInv'
  PROVE  SizeToBe' = Cardinality({k \in Keys : Contents'[k] # None})
<1>1. IsFiniteSet(allocated') /\ SizeToBe' = Cardinality(InTree') /\ InTree' \subseteq allocated'
  BY DEF TreeInv, SizeIsSound, InTree
<1>2. IsFiniteSet(InTree')
  BY <1>1, FS_Subset
<1>3. Distinct(InTree', key', value')
  BY DEF TreeInv, KeysAreSound, Distinct
<1>. QED
  BY <1>1, <1>2, <1>3, ContentsAre, AsManyKeys

LEMMA PresentAre == Tree!Present = {k \in Keys : Contents[k] # None}
BY DEF Tree!Present

LEMMA IsPut ==
  ASSUME TreeInv', NEW k \in Keys, NEW v \in Values,
         Contents' = [Contents EXCEPT ![k] = v], ReplyToBe' = None
  PROVE  Tree!Put(k, v)
<1>1. \A m \in Keys : Contents'[m] = IF m = k THEN v ELSE Contents[m]
  BY DEF Contents
<1>2. {m \in Keys : Contents'[m] # None} = Tree!Present \cup {k}
  BY <1>1, PresentAre, ElementAssumption
<1>. QED
  BY <1>2, SizeWillBePresent, SameCardinality DEF Tree!Put

LEMMA IsRemove ==
  ASSUME TreeInv', NEW k \in Keys, Contents' = [Contents EXCEPT ![k] = None],
         ReplyToBe' = Contents[k]
  PROVE  Tree!Remove(k)
<1>1. \A m \in Keys : Contents'[m] = IF m = k THEN None ELSE Contents[m]
  BY DEF Contents
<1>2. {m \in Keys : Contents'[m] # None} = Tree!Present \ {k}
  BY <1>1, PresentAre
<1>. QED
  BY <1>2, SizeWillBePresent, SameCardinality DEF Tree!Remove

\* What the tree holds is read off its nodes.
LEMMA Holds ==
  ASSUME TreeInv
  PROVE  /\ Distinct(InTree, key, value)
         /\ Contents = [k \in Keys |-> Contents[k]]
         /\ \A n \in InTree : Contents[key[n]] = value[n]
         /\ \A k \in Keys : (\A n \in InTree : key[n] # k) => Contents[k] = None
<1>1. Distinct(InTree, key, value)
  BY DEF TreeInv, KeysAreSound, Distinct
<1>. QED
  BY <1>1, ContentsAre, ContentsFacts

LEMMA WillHold ==
  ASSUME TreeInv'
  PROVE  /\ Contents' = [k \in Keys |-> Contents'[k]]
         /\ \A n \in InTree' : Contents'[key'[n]] = value'[n]
         /\ \A k \in Keys : (\A n \in InTree' : key'[n] # k) => Contents'[k] = None
<1>1. Distinct(InTree', key', value')
  BY DEF TreeInv, KeysAreSound, Distinct
<1>. QED
  BY <1>1, ContentsAre, ContentsFacts

LEMMA UpdateIsPut ==
  ASSUME TreeInv, TreeInv', Update
  PROVE  Tree!Put(call.key, call.value)
<1>1. PICK n, k, v : n = call.node /\ k = call.key /\ v = call.value
  OBVIOUS
<1>2. /\ call.at = "insert" /\ n # Null /\ key[n] = k /\ value' = [value EXCEPT ![n] = v]
      /\ call' = Idle /\ tree_reply' = None /\ UNCHANGED <<key, allocated>>
  BY <1>1 DEF Update, Arrived, Return
<1>3. v \in Values /\ k \in Keys /\ value \in [Nodes -> Values \cup {None}] /\ InTree \in SUBSET Nodes
  BY <1>1, <1>2, TypeFacts DEF TreeInv, KeysAreSound, Idle
<1>4. n \in InTree
  BY <1>1, <1>2, WitnessExists DEF Witness, OnWayDown, Descending
<1>5. InTree' = InTree /\ ReplyToBe' = None
  BY <1>2 DEF InTree, ReplyToBe, Idle, Inserting, Deleting
<1>6. ASSUME NEW j \in Keys
      PROVE  Contents'[j] = IF j = k THEN v ELSE Contents[j]
  <2>1. CASE \E m \in InTree : key[m] = j
    <3>1. PICK m \in InTree : key[m] = j
      BY <2>1
    <3>2. Contents'[j] = value'[m] /\ Contents[j] = value[m]
      BY <1>2, <1>5, <3>1, Holds, WillHold
    <3>3. m = n <=> j = k
      BY <1>2, <1>4, <3>1, Holds DEF Distinct
    <3>. QED
      BY <1>2, <1>3, <3>2, <3>3
  <2>2. CASE \A m \in InTree : key[m] # j
    BY <1>2, <1>4, <1>5, <2>2, Holds, WillHold
  <2>. QED
    BY <2>1, <2>2
<1>7. Contents' = [Contents EXCEPT ![k] = v]
  BY <1>6, Holds, WillHold
<1>. QED
  BY <1>1, <1>3, <1>5, <1>7, IsPut

LEMMA HangIsPut ==
  ASSUME TreeInv, TreeInv', NEW z \in Nodes, Hang(z)
  PROVE  Tree!Put(call.key, call.value) /\ call.key \in Keys /\ call.value \in Values
<1>1. PICK sub \in Subs : Witness(sub)
  BY WitnessExists
<1>2. PICK p, k, t : HungBy(z, sub, p, k, t)
  BY <1>1, HangFacts
<1>3. PICK v : v = call.value
  OBVIOUS
<1>4. /\ k = call.key /\ k \in Keys /\ v \in Values /\ call'.at = "mend"
      /\ z \notin InTree /\ InTree' = InTree \cup {z} /\ key'[z] = k /\ value'[z] = v
      /\ \A m \in InTree : key'[m] = key[m] /\ value'[m] = value[m]
      /\ \A q \in InTree : key[q] # k
  BY <1>2, <1>3 DEF HungBy
<1>5. ReplyToBe' = None
  BY <1>4 DEF ReplyToBe, Inserting, Deleting
<1>6. ASSUME NEW j \in Keys
      PROVE  Contents'[j] = IF j = k THEN v ELSE Contents[j]
  <2>1. CASE j = k
    BY <1>4, <2>1, WillHold
  <2>2. CASE j # k
    <3>1. CASE \E m \in InTree : key[m] = j
      BY <1>4, <2>2, <3>1, Holds, WillHold
    <3>2. CASE \A m \in InTree : key[m] # j
      BY <1>4, <2>2, <3>2, Holds, WillHold
    <3>. QED
      BY <2>2, <3>1, <3>2
  <2>. QED
    BY <2>1, <2>2
<1>7. Contents' = [Contents EXCEPT ![k] = v]
  BY <1>6, Holds, WillHold
<1>. QED
  BY <1>3, <1>4, <1>5, <1>7, IsPut

LEMMA SpliceIsRemove ==
  ASSUME TreeInv, TreeInv', NEW sub, NEW n, NEW y, NEW answer, NEW S, NEW x, NEW b,
         SplicedBy(n, y, answer, sub, S, x, b),
         key[n] = call.key, value[n] = answer
  PROVE  Tree!Remove(call.key) /\ call.key \in Keys
<1>1. PICK k : k = call.key
  OBVIOUS
<1>2. /\ n \in InTree /\ y \in InTree /\ InTree' = InTree \ {y} /\ key[n] = k
      /\ \A m \in InTree : key'[m] = IF m = n THEN key[y] ELSE key[m]
      /\ \A m \in InTree : value'[m] = IF m = n THEN value[y] ELSE value[m]
  BY <1>1 DEF SplicedBy
<1>3. k \in Keys /\ Contents[k] = answer
  BY <1>2, Holds DEF Distinct
<1>4. ReplyToBe' = answer
  BY DEF SplicedBy, ReplyToBe, Idle, Inserting, Deleting
<1>5. ASSUME NEW j \in Keys
      PROVE  Contents'[j] = IF j = k THEN None ELSE Contents[j]
  <2>1. CASE j = k
    <3>1. \A m \in InTree' : key'[m] # k
      BY <1>2, Holds DEF Distinct
    <3>. QED
      BY <2>1, <3>1, WillHold
  <2>2. CASE j # k /\ \E w \in InTree : key[w] = j
    <3>1. PICK w \in InTree : key[w] = j
      BY <2>2
    <3>2. w # n /\ Contents[j] = value[w]
      BY <1>2, <2>2, <3>1, Holds
    <3>3. CASE w = y
      <4>1. n \in InTree' /\ key'[n] = j /\ value'[n] = value[w]
        BY <1>2, <3>1, <3>2, <3>3
      <4>. QED
        BY <2>2, <3>2, <4>1, WillHold
    <3>4. CASE w # y
      <4>1. w \in InTree' /\ key'[w] = j /\ value'[w] = value[w]
        BY <1>2, <3>1, <3>2, <3>4
      <4>. QED
        BY <2>2, <3>2, <4>1, WillHold
    <3>. QED
      BY <3>3, <3>4
  <2>3. CASE j # k /\ \A w \in InTree : key[w] # j
    <3>1. \A m \in InTree' : key'[m] # j
      BY <1>2, <2>3
    <3>. QED
      BY <2>3, <3>1, Holds, WillHold
  <2>. QED
    BY <2>1, <2>2, <2>3
<1>6. Contents' = [Contents EXCEPT ![k] = None]
  BY <1>5, Holds, WillHold
<1>. QED
  BY <1>1, <1>3, <1>4, <1>6, IsRemove

LEMMA RemovalIsRemove ==
  ASSUME TreeInv, TreeInv', RemoveSuccessor \/ RemoveFound
  PROVE  Tree!Remove(call.key) /\ call.key \in Keys
<1>1. PICK sub \in Subs : Witness(sub)
  BY WitnessExists
<1>2. PICK n, y, answer :
        /\ ReadyToSplice(sub, n, y, answer) /\ Splice(n, y, answer)
        /\ call.at \in Descending \cup {"successor"}
        /\ key[n] = call.key /\ value[n] = answer
  <2>1. CASE RemoveSuccessor
    <3>1. key[call.other] = call.key /\ value[call.other] = call.value
      BY <1>1, <2>1 DEF RemoveSuccessor, Witness, OnWayToSuccessor
    <3>. QED
      BY <1>1, <2>1, <3>1, SuccessorIsReady DEF RemoveSuccessor
  <2>2. CASE RemoveFound
    BY <1>1, <2>2, FoundIsReady DEF RemoveFound, Arrived, Descending
  <2>. QED
    BY <2>1, <2>2
<1>3. IsTree(links, InTree, sub) /\ Ordered(links, InTree, sub, key)
  BY <1>1 DEF Witness
<1>4. PICK S, x, b : SplicedBy(n, y, answer, sub, S, x, b)
  BY <1>2, <1>3, SpliceFacts
<1>. QED
  BY <1>2, <1>4, SpliceIsRemove

LEMMA AnswerIsGet ==
  ASSUME TreeInv, Find \/ Miss
  PROVE  Tree!Get(call.key) /\ call.key \in Keys
<1>1. PICK sub \in Subs : Witness(sub)
  BY WitnessExists
<1>2. call.at \in Descending /\ Still /\ call' = Idle
  BY DEF Find, Miss, Arrived, Missed, Descending, Return
<1>3. call.key \in Keys /\ OnWayDown(links, InTree, sub, key, call)
  BY <1>1, <1>2, TypeFacts DEF TreeInv, Witness, Idle, Descending
<1>4. /\ InTree' = InTree /\ ReplyToBe' = tree_reply' /\ SizeToBe' = SizeToBe
  BY <1>2 DEF Still, InTree, ReplyToBe, SizeToBe, Idle, Descending, Inserting, Deleting
<1>5. Contents' = Contents
  BY <1>2, <1>4 DEF Still, Contents, Holders
<1>6. tree_reply' = Contents[call.key]
  <2>1. CASE Find
    <3>1. call.node \in InTree /\ key[call.node] = call.key /\ tree_reply' = value[call.node]
      BY <1>3, <2>1 DEF Find, Arrived, Return, OnWayDown
    <3>. QED
      BY <3>1, Holds
  <2>2. CASE Miss
    <3>1. call.node = Null /\ tree_reply' = None
      BY <2>2 DEF Miss, Missed, Return
    <3>2. \A q \in InTree : key[q] # call.key
      BY <1>3, <3>1 DEF OnWayDown, Sub
    <3>. QED
      BY <1>3, <3>1, <3>2, Holds
  <2>. QED
    BY <2>1, <2>2
<1>. QED
  BY <1>3, <1>4, <1>5, <1>6 DEF Tree!Get

LEMMA ClearIsClear == ASSUME TreeInv', Clear PROVE Tree!Clear
<1>1. call' = Idle /\ allocated' = {} /\ tree_size' = 0 /\ tree_reply' = None
  BY DEF Clear, Return
<1>2. InTree' = {} /\ SizeToBe' = 0 /\ ReplyToBe' = None
  BY <1>1 DEF InTree, SizeToBe, ReplyToBe, Idle, Inserting, Deleting
<1>3. Contents' = [k \in Keys |-> None]
  BY <1>2, WillHold
<1>. QED
  BY <1>2, <1>3 DEF Tree!Clear

\* All other steps are no concern of the callers.
LEMMA RestIsStutter ==
  ASSUME TreeInv,
         \/ \E op \in Descending : \E k, v : Start(op, k, v)
         \/ Descend \/ FindSuccessor \/ NextLeft \/ Crash
         \/ PushDown \/ TurnOutward \/ Raise \/ Mended
         \/ RedSibling \/ BothBlack \/ NearRed \/ FarRed \/ Fixed
  PROVE  UNCHANGED <<Contents, SizeToBe, ReplyToBe>>
<1>1. SUFFICES /\ UNCHANGED <<key, value>> /\ InTree' = InTree
               /\ SizeToBe' = SizeToBe /\ ReplyToBe' = ReplyToBe
  BY DEF Contents, Holders
<1>2. PICK a, k, v, n, o :
        call.at # "idle" => call = [at |-> a, key |-> k, value |-> v, node |-> n, other |-> o]
  BY TypeFacts DEF TreeInv, Idle
<1>. USE DEF InTree, SizeToBe, ReplyToBe
<1>3. CASE \E op \in Descending : \E j, w : Start(op, j, w)
  BY <1>3 DEF Start, Still, Idle, Descending, Inserting, Deleting
<1>4. CASE Descend \/ FindSuccessor \/ NextLeft
  <2>1. call.at \in Descending \cup {"successor"} /\ Still /\ tree_reply' = tree_reply
    BY <1>4 DEF Descend, FindSuccessor, NextLeft, Arrived, Descending
  <2>2. \E w, x, u :
           \/ call' = [call EXCEPT !.node = w] \/ call' = [call EXCEPT !.node = w, !.other = x]
           \/ call' = [call EXCEPT !.at = "successor", !.value = u, !.node = w, !.other = x]
    BY <1>4 DEF Descend, FindSuccessor, NextLeft
  <2>3. call'.at \in Descending \cup {"successor"}
    BY <1>2, <2>1, <2>2 DEF Descending
  <2>. QED
    BY <2>1, <2>3 DEF Still, Descending, Inserting, Deleting
<1>5. CASE Crash
  BY <1>5 DEF Crash
<1>6. CASE PushDown \/ TurnOutward \/ Raise
  <2>1. call.at \in Inserting /\ UNCHANGED <<key, value, allocated, tree_size, tree_reply>>
    BY <1>6 DEF PushDown, TurnOutward, Raise, Mending, Inserting
  <2>2. \E w : \/ call' = [call EXCEPT !.node = w]
               \/ call' = [call EXCEPT !.at = "raise", !.node = w] \/ call' = [call EXCEPT !.at = "mend"]
    BY <1>6 DEF PushDown, TurnOutward, Raise
  <2>3. call'.at \in Inserting
    BY <1>2, <2>1, <2>2 DEF Inserting
  <2>. QED
    BY <2>1, <2>3 DEF Inserting, Deleting
<1>7. CASE Mended
  BY <1>7 DEF Mended, Return, Idle, Inserting, Deleting
<1>8. CASE RedSibling \/ BothBlack \/ NearRed \/ FarRed
  <2>1. call.at \in Deleting /\ UNCHANGED <<key, value, allocated, tree_size, tree_reply>>
    BY <1>8 DEF RedSibling, BothBlack, NearRed, FarRed, AtNephews, Fixing, Deleting
  <2>2. \E w : \/ call' = [call EXCEPT !.at = "nephews"] \/ call' = [call EXCEPT !.at = "turn"]
               \/ call' = [call EXCEPT !.at = "delete", !.node = w]
    BY <1>8 DEF RedSibling, BothBlack, NearRed, FarRed
  <2>3. call'.at \in Deleting /\ call'.other = call.other /\ call'.value = call.value
    BY <1>2, <2>1, <2>2 DEF Deleting
  <2>. QED
    BY <2>1, <2>3 DEF Inserting, Deleting
<1>9. CASE Fixed
  BY <1>9 DEF Fixed, Leave, Return, Idle, Inserting, Deleting
<1>. QED
  BY <1>3, <1>4, <1>5, <1>6, <1>7, <1>8, <1>9

\* For any keys and values, insert, find, remove and clear do to the map what
\* KeyValueMap says, whatever the shape of the tree, and find, remove and size
\* report it; the repairs are no concern of the callers (infra_rbtree_insert,
\* _find, _remove, _clear).
THEOREM RbTreeIsAMap == TreeSpec => TreeIsAMap
<1>1. TreeInit => Tree!Init
  <2>1. SUFFICES ASSUME TreeInit PROVE Tree!Init
    OBVIOUS
  <2>2. InTree = {} /\ SizeToBe = 0 /\ ReplyToBe = None
    BY <2>1 DEF TreeInit, InTree, SizeToBe, ReplyToBe, Idle, Inserting, Deleting
  <2>3. Contents = [k \in Keys |-> None]
    BY <2>2 DEF Contents, Holders
  <2>. QED
    BY <2>2, <2>3 DEF Tree!Init
<1>2. TreeInv /\ TreeInv' /\ [TreeNext]_tree_vars => [Tree!Next]_<<Contents, SizeToBe, ReplyToBe>>
  <2>. SUFFICES ASSUME TreeInv, TreeInv', [TreeNext]_tree_vars
                PROVE  [Tree!Next]_<<Contents, SizeToBe, ReplyToBe>>
    OBVIOUS
  <2>1. CASE Update
    <3>1. call.key \in Keys /\ call.value \in Values
      BY <2>1, TypeFacts DEF TreeInv, KeysAreSound, Update, Arrived, Idle
    <3>. QED
      BY <2>1, <3>1, UpdateIsPut DEF Tree!Next
  <2>2. CASE \E n \in Nodes : Hang(n)
    BY <2>2, HangIsPut DEF Tree!Next
  <2>3. CASE Find \/ Miss
    BY <2>3, AnswerIsGet DEF Tree!Next
  <2>4. CASE RemoveSuccessor \/ RemoveFound
    BY <2>4, RemovalIsRemove DEF Tree!Next
  <2>5. CASE Clear
    BY <2>5, ClearIsClear DEF Tree!Next
  <2>6. CASE UNCHANGED tree_vars
    BY <2>6 DEF tree_vars, Contents, Holders, InTree, SizeToBe, ReplyToBe
  <2>7. CASE \/ \E p \in Puts : Insert(p[1], p[2])
             \/ \E k \in Keys, op \in {"find", "remove"} : Start(op, k, None)
    <3>1. \E op \in Descending : \E k, v : Start(op, k, v)
      BY <2>7 DEF Insert, Descending
    <3>. QED
      BY <3>1, RestIsStutter
  <2>8. CASE \/ Descend \/ FindSuccessor \/ NextLeft \/ Crash
             \/ PushDown \/ TurnOutward \/ Raise \/ Mended
             \/ RedSibling \/ BothBlack \/ NearRed \/ FarRed \/ Fixed
    BY <2>8, RestIsStutter
  <2>. QED
    BY <2>1, <2>2, <2>3, <2>4, <2>5, <2>6, <2>7, <2>8 DEF TreeNext
<1>. QED
  BY <1>1, <1>2, TreeInvariant, PTL DEF TreeSpec, TreeIsAMap, Tree!Spec

=============================================================================
