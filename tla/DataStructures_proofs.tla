------------------------ MODULE DataStructures_proofs ------------------------
(***************************************************************************)
(* Proofs that the links of the list spell the order of its callers, and   *)
(* that the hash table implements KeyValueMap, for lists and tables of any *)
(* size, any strings and values and any hash function.                     *)
(***************************************************************************)
EXTENDS HashTable, LinkedList, FiniteSetTheorems, TLAPS

-----------------------------------------------------------------------------
(* Sequences.                                                              *)

\* One element less: those before its place stay, those behind it move up.
LEMMA RemoveAtPlace ==
  ASSUME NEW S, NEW s \in Seq(S), NEW p \in 1 .. Len(s)
  PROVE  /\ RemoveAt(s, p) \in Seq(S)
         /\ Len(RemoveAt(s, p)) = Len(s) - 1
         /\ \A i \in 1 .. Len(s) - 1 :
              RemoveAt(s, p)[i] = IF i < p THEN s[i] ELSE s[i + 1]
<1>. DEFINE front == SubSeq(s, 1, p - 1)
            back == SubSeq(s, p + 1, Len(s))
<1>1. /\ front \in Seq(S) /\ Len(front) = p - 1
      /\ \A i \in 1 .. p - 1 : front[i] = s[i]
  OBVIOUS
<1>2. /\ back \in Seq(S) /\ Len(back) = Len(s) - p
      /\ \A i \in 1 .. Len(s) - p : back[i] = s[p + i]
  OBVIOUS
<1>3. RemoveAt(s, p) = front \o back
  BY DEF RemoveAt
<1>. HIDE DEF front, back
<1>4. front \o back \in Seq(S) /\ Len(front \o back) = Len(s) - 1
  BY <1>1, <1>2
<1>5. \A i \in 1 .. Len(s) - 1 :
        (front \o back)[i] = IF i < p THEN front[i] ELSE back[i - (p - 1)]
  BY <1>1, <1>2
<1>6. ASSUME NEW i \in 1 .. Len(s) - 1
      PROVE  (front \o back)[i] = IF i < p THEN s[i] ELSE s[i + 1]
  <2>1. CASE i < p
    BY <2>1, <1>1, <1>5
  <2>2. CASE ~(i < p)
    <3>1. i - (p - 1) \in 1 .. Len(s) - p /\ p + (i - (p - 1)) = i + 1
      BY <2>2
    <3>. QED
      BY <2>2, <3>1, <1>2, <1>5
  <2>. QED
    BY <2>1, <2>2
<1>. QED
  BY <1>3, <1>4, <1>6

\* The place found is the first at which the element stands.
LEMMA RemoveFirstPlace ==
  ASSUME NEW S, NEW s \in Seq(S), NEW p \in 1 .. Len(s),
         \A i, j \in 1 .. Len(s) : s[i] = s[j] => i = j
  PROVE  RemoveFirst(s, s[p]) = RemoveAt(s, p)
<1>. DEFINE I == {i \in 1 .. Len(s) : s[i] = s[p]}
<1>1. I = {p}
  OBVIOUS
<1>2. SelectInSeq(s, LAMBDA v : v = s[p]) = Min(I)
  BY <1>1 DEF SelectInSeq
<1>3. Min(I) = p
  BY <1>1 DEF Min
<1>. QED
  BY <1>2, <1>3 DEF RemoveFirst

-----------------------------------------------------------------------------
(* The list.                                                               *)

ListInv == ListTypeOK /\ ListLinksAgree

LEMMA AppendKeepsLinks ==
  ASSUME ListInv, NEW n \in Nodes, AppendNode(n)
  PROVE  ListInv'
<1>0. PICK L \in Nat : L = Len(order)
  BY DEF ListInv, ListTypeOK
<1>1. /\ order \in Seq(Nodes) /\ L = Len(order) /\ DOMAIN order = 1 .. L
      /\ DOMAIN node \subseteq Nodes /\ n \notin DOMAIN node
      /\ node \in [DOMAIN node -> [next : Pointer, prev : Pointer]]
  BY <1>0 DEF ListInv, ListTypeOK, AppendNode
<1>2. /\ order' = Append(order, n) /\ order' \in Seq(Nodes) /\ Len(order') = L + 1
      /\ DOMAIN order' = 1 .. L + 1
      /\ \A i \in 1 .. L : order'[i] = order[i]
      /\ order'[L + 1] = n
  BY <1>1 DEF AppendNode
<1>3. \A i \in 1 .. L : order[i] \in DOMAIN node /\ order[i] \in Nodes /\ order[i] # n /\ order[i] # Null
  BY <1>1, ElementAssumption DEF ListInv, ListLinksAgree, ToSet
<1>4. /\ tail = (IF L = 0 THEN Null ELSE order[L])
      /\ head = (IF L = 0 THEN Null ELSE order[1])
      /\ length = L
  BY <1>1 DEF ListInv, ListLinksAgree, NodeAt
<1>5. NodeAt(L + 1) = Null /\ NodeAt(0) = Null /\ NodeAt(L) = tail
  BY <1>1 DEF ListInv, ListLinksAgree, NodeAt
<1>6. NodeAt(L + 1)' = n /\ NodeAt(L + 2)' = Null /\ \A i \in 0 .. L : NodeAt(i)' = NodeAt(i)
  BY <1>1, <1>2 DEF NodeAt
<1>7. /\ DOMAIN node' = DOMAIN node \cup {n}
      /\ node'[n] = [next |-> Null, prev |-> tail]
      /\ \A m \in DOMAIN node :
           node'[m] = IF m = tail THEN [node[m] EXCEPT !.next = n] ELSE node[m]
  BY <1>1 DEF AppendNode
<1>8. \A i, j \in DOMAIN order' : order'[i] = order'[j] => i = j
  BY <1>1, <1>2, <1>3 DEF ListInv, ListLinksAgree
<1>9. ToSet(order') = DOMAIN node'
  <2>1. ToSet(order) = DOMAIN node
    BY DEF ListInv, ListLinksAgree
  <2>2. ToSet(order') = ToSet(order) \cup {n}
    BY <1>1, <1>2 DEF ToSet
  <2>. QED
    BY <2>1, <2>2, <1>7
<1>10. ASSUME NEW i \in DOMAIN order'
       PROVE  node'[order'[i]] = [next |-> NodeAt(i + 1)', prev |-> NodeAt(i - 1)']
  <2>1. CASE i = L + 1
    BY <2>1, <1>1, <1>2, <1>5, <1>6, <1>7
  <2>2. CASE i \in 1 .. L
    <3>1. /\ node[order[i]] = [next |-> NodeAt(i + 1), prev |-> NodeAt(i - 1)]
          /\ i - 1 \in 0 .. L
      BY <2>2, <1>1 DEF ListInv, ListLinksAgree
    <3>2. order'[i] = order[i] /\ order[i] \in DOMAIN node
      BY <2>2, <1>2, <1>3
    <3>3. CASE i = L
      <4>1. order[i] = tail
        BY <2>2, <3>3, <1>4
      <4>2. node'[order[i]] = [node[order[i]] EXCEPT !.next = n]
        BY <4>1, <3>2, <1>7
      <4>. QED
        BY <4>2, <3>1, <3>2, <3>3, <1>6
    <3>4. CASE i < L
      <4>1. order[i] # tail
        BY <2>2, <3>4, <1>1, <1>4 DEF ListInv, ListLinksAgree
      <4>2. i + 1 \in 0 .. L
        BY <2>2, <3>4, <1>1
      <4>. QED
        BY <4>1, <4>2, <3>1, <3>2, <1>6, <1>7
    <3>. QED
      BY <2>2, <3>3, <3>4, <1>1
  <2>. QED
    BY <2>1, <2>2, <1>1, <1>2
<1>11. head' = NodeAt(1)' /\ tail' = NodeAt(Len(order))' /\ length' = Len(order')
  <2>1. tail' = n /\ length' = L + 1 /\ head' = IF head = Null THEN n ELSE head
    BY <1>4 DEF AppendNode
  <2>2. CASE L = 0
    BY <2>1, <2>2, <1>2, <1>4, <1>6
  <2>3. CASE L # 0
    <3>1. 1 \in 1 .. L /\ NodeAt(1) = order[1] /\ head = order[1] /\ head # Null
      BY <2>3, <1>1, <1>3, <1>4 DEF NodeAt
    <3>. QED
      BY <3>1, <2>1, <1>2, <1>6, <1>1
  <2>. QED
    BY <2>2, <2>3
<1>12. ListTypeOK'
  <2>1. node' \in [DOMAIN node' -> [next : Pointer, prev : Pointer]]
    <3>1. node' = [m \in DOMAIN node' |-> node'[m]]
      BY DEF AppendNode
    <3>2. tail \in Pointer /\ n \in Pointer /\ Null \in Pointer
      BY DEF ListInv, ListTypeOK, Pointer
    <3>3. \A m \in DOMAIN node : node[m] \in [next : Pointer, prev : Pointer]
      BY <1>1
    <3>4. \A m \in DOMAIN node' : node'[m] \in [next : Pointer, prev : Pointer]
      BY <3>2, <3>3, <1>7
    <3>. QED
      BY <3>1, <3>4
  <2>. QED
    BY <2>1, <1>1, <1>2, <1>7 DEF ListInv, ListTypeOK, AppendNode, Pointer
<1>. QED
  BY <1>8, <1>9, <1>10, <1>11, <1>12 DEF ListInv, ListLinksAgree
LEMMA RemoveKeepsLinks ==
  ASSUME ListInv, NEW n \in Nodes, RemoveNode(n)
  PROVE  ListInv'
<1>0. PICK L \in Nat : L = Len(order)
  BY DEF ListInv, ListTypeOK
<1>1. /\ order \in Seq(Nodes) /\ L = Len(order) /\ DOMAIN order = 1 .. L
      /\ DOMAIN node \subseteq Nodes /\ n \in DOMAIN node
      /\ node \in [DOMAIN node -> [next : Pointer, prev : Pointer]]
      /\ \A i, j \in 1 .. L : order[i] = order[j] => i = j
  BY <1>0 DEF ListInv, ListTypeOK, ListLinksAgree, RemoveNode
<1>2. PICK p \in 1 .. L : order[p] = n
  BY <1>1 DEF ListInv, ListLinksAgree, ToSet
<1>3. /\ order' \in Seq(Nodes) /\ Len(order') = L - 1
      /\ DOMAIN order' = 1 .. L - 1
      /\ \A i \in 1 .. L - 1 : order'[i] = IF i < p THEN order[i] ELSE order[i + 1]
  <2>1. order' = RemoveAt(order, p)
    BY <1>1, <1>2, RemoveFirstPlace DEF RemoveNode
  <2>. QED
    BY <2>1, <1>1, <1>2, RemoveAtPlace
<1>4. \A i \in 1 .. L : order[i] \in DOMAIN node /\ order[i] \in Nodes /\ order[i] # Null
  BY <1>1, ElementAssumption DEF ListInv, ListLinksAgree, ToSet
<1>5. /\ NodeAt(0) = Null /\ NodeAt(L + 1) = Null
      /\ \A i \in 1 .. L : NodeAt(i) = order[i]
  BY <1>1 DEF NodeAt
<1>6. /\ NodeAt(0)' = Null /\ NodeAt(L)' = Null
      /\ \A i \in 1 .. L - 1 : NodeAt(i)' = IF i < p THEN order[i] ELSE order[i + 1]
  BY <1>3 DEF NodeAt
<1>7. \A i \in 0 .. L : NodeAt(i)' = IF i < p THEN NodeAt(i) ELSE NodeAt(i + 1)
  BY <1>5, <1>6
<1>8. /\ node[n] = [next |-> NodeAt(p + 1), prev |-> NodeAt(p - 1)]
      /\ \A i \in 1 .. L : node[order[i]] = [next |-> NodeAt(i + 1), prev |-> NodeAt(i - 1)]
  BY <1>1, <1>2 DEF ListInv, ListLinksAgree
<1>9. /\ DOMAIN node' = DOMAIN node \ {n}
      /\ \A m \in DOMAIN node \ {n} :
           node'[m] = [next |-> IF m = NodeAt(p - 1) THEN NodeAt(p + 1) ELSE node[m].next,
                       prev |-> IF m = NodeAt(p + 1) THEN NodeAt(p - 1) ELSE node[m].prev]
  BY <1>8 DEF RemoveNode, Bypass
\* A node is a neighbour of n exactly by its place.
<1>10. \A i \in 1 .. L : /\ order[i] = NodeAt(p - 1) <=> i = p - 1
                         /\ order[i] = NodeAt(p + 1) <=> i = p + 1
  <2>. SUFFICES ASSUME NEW i \in 1 .. L
                PROVE  /\ order[i] = NodeAt(p - 1) <=> i = p - 1
                       /\ order[i] = NodeAt(p + 1) <=> i = p + 1
    OBVIOUS
  <2>1. order[i] = NodeAt(p - 1) <=> i = p - 1
    <3>1. CASE p = 1
      BY <3>1, <1>4, <1>5
    <3>2. CASE p # 1
      <4>1. p - 1 \in 1 .. L
        BY <3>2
      <4>. QED
        BY <4>1, <1>1, <1>5
    <3>. QED
      BY <3>1, <3>2
  <2>2. order[i] = NodeAt(p + 1) <=> i = p + 1
    <3>1. CASE p = L
      BY <3>1, <1>4, <1>5
    <3>2. CASE p # L
      <4>1. p + 1 \in 1 .. L
        BY <3>2
      <4>. QED
        BY <4>1, <1>1, <1>5
    <3>. QED
      BY <3>1, <3>2
  <2>. QED
    BY <2>1, <2>2
\* The links of a node that stays, by its place before.
<1>11. \A i \in 1 .. L : i # p =>
         node'[order[i]] = [next |-> IF i = p - 1 THEN NodeAt(p + 1) ELSE NodeAt(i + 1),
                            prev |-> IF i = p + 1 THEN NodeAt(p - 1) ELSE NodeAt(i - 1)]
  <2>1. ASSUME NEW i \in 1 .. L, i # p
        PROVE  node'[order[i]] = [next |-> IF i = p - 1 THEN NodeAt(p + 1) ELSE NodeAt(i + 1),
                                  prev |-> IF i = p + 1 THEN NodeAt(p - 1) ELSE NodeAt(i - 1)]
    <3>1. order[i] \in DOMAIN node \ {n}
      BY <2>1, <1>1, <1>2, <1>4
    <3>2. node[order[i]].next = NodeAt(i + 1) /\ node[order[i]].prev = NodeAt(i - 1)
      <4>1. node[order[i]] = [next |-> NodeAt(i + 1), prev |-> NodeAt(i - 1)]
        BY <1>8
      <4>. QED
        BY <4>1
    <3>. QED
      BY <3>1, <3>2, <1>9, <1>10
  <2>. QED
    BY <2>1
<1>12. ASSUME NEW i \in DOMAIN order'
       PROVE  node'[order'[i]] = [next |-> NodeAt(i + 1)', prev |-> NodeAt(i - 1)']
  <2>0. i \in 1 .. L - 1 /\ i \in 1 .. L /\ i + 1 \in 1 .. L /\ i - 1 \in 0 .. L /\ i + 1 \in 0 .. L
    BY <1>3
  <2>1. /\ NodeAt(i + 1)' = IF i + 1 < p THEN NodeAt(i + 1) ELSE NodeAt(i + 2)
        /\ NodeAt(i - 1)' = IF i - 1 < p THEN NodeAt(i - 1) ELSE NodeAt(i)
    BY <2>0, <1>7
  <2>2. CASE i < p
    <3>1. order'[i] = order[i] /\ i # p /\ i # p + 1 /\ i - 1 < p
      BY <2>0, <2>2, <1>3
    <3>2. i = p - 1 <=> ~(i + 1 < p)
      BY <2>0, <2>2
    <3>3. i = p - 1 => i + 2 = p + 1
      BY <2>0
    <3>. QED
      BY <2>0, <2>1, <3>1, <3>2, <3>3, <1>11
  <2>3. CASE ~(i < p)
    <3>1. order'[i] = order[i + 1] /\ i + 1 # p /\ i + 1 # p - 1 /\ ~(i + 1 < p)
      BY <2>0, <2>3, <1>3
    <3>2. i + 1 = p + 1 <=> i - 1 < p
      BY <2>0, <2>3
    <3>3. i + 1 = p + 1 => i - 1 = p - 1
      BY <2>0
    <3>4. (i + 1) + 1 = i + 2 /\ (i + 1) - 1 = i
      BY <2>0
    <3>5. node'[order[i + 1]] = [next |-> NodeAt(i + 2),
                                 prev |-> IF i + 1 = p + 1 THEN NodeAt(p - 1) ELSE NodeAt(i)]
      BY <2>0, <3>1, <3>4, <1>11
    <3>. QED
      BY <2>1, <3>1, <3>2, <3>3, <3>5
  <2>. QED
    BY <2>2, <2>3
<1>13. \A i, j \in DOMAIN order' : order'[i] = order'[j] => i = j
  <2>. SUFFICES ASSUME NEW i \in 1 .. L - 1, NEW j \in 1 .. L - 1, order'[i] = order'[j]
                PROVE  i = j
    BY <1>3
  <2>. DEFINE was(h) == IF h < p THEN h ELSE h + 1
  <2>1. was(i) \in 1 .. L /\ was(j) \in 1 .. L
    OBVIOUS
  <2>2. order'[i] = order[was(i)] /\ order'[j] = order[was(j)]
    BY <1>3
  <2>3. was(i) = was(j)
    BY <2>1, <2>2, <1>1
  <2>. QED
    BY <2>3
<1>14. ToSet(order') = DOMAIN node'
  <2>1. ToSet(order) = DOMAIN node
    BY DEF ListInv, ListLinksAgree
  <2>2. ASSUME NEW i \in 1 .. L - 1  PROVE  order'[i] \in DOMAIN node \ {n}
    BY <1>1, <1>2, <1>3, <1>4
  <2>3. ASSUME NEW m \in DOMAIN node \ {n}  PROVE  \E i \in 1 .. L - 1 : order'[i] = m
    <3>1. PICK j \in 1 .. L : order[j] = m
      BY <2>1, <1>1 DEF ToSet
    <3>2. j # p
      BY <2>3, <3>1, <1>2
    <3>3. CASE j < p
      <4>1. j \in 1 .. L - 1
        BY <3>3
      <4>. QED
        BY <4>1, <3>1, <3>3, <1>3
    <3>4. CASE ~(j < p)
      <4>1. j - 1 \in 1 .. L - 1 /\ ~(j - 1 < p) /\ (j - 1) + 1 = j
        BY <3>2, <3>4
      <4>. QED
        BY <4>1, <3>1, <1>3
    <3>. QED
      BY <3>3, <3>4
  <2>4. ToSet(order') = {order'[i] : i \in 1 .. L - 1}
    BY <1>3 DEF ToSet
  <2>5. DOMAIN node \ {n} \subseteq ToSet(order')
    BY <2>3, <2>4
  <2>6. ToSet(order') \subseteq DOMAIN node \ {n}
    BY <2>2, <2>4
  <2>. QED
    BY <2>5, <2>6, <1>9
<1>15. head' = NodeAt(1)' /\ tail' = NodeAt(Len(order))' /\ length' = Len(order')
  <2>1. head = NodeAt(1) /\ tail = NodeAt(L) /\ length = L
    BY <1>1 DEF ListInv, ListLinksAgree
  <2>2. /\ head' = IF NodeAt(p - 1) = Null THEN NodeAt(p + 1) ELSE head
        /\ tail' = IF NodeAt(p + 1) = Null THEN NodeAt(p - 1) ELSE tail
        /\ length' = length - 1
    BY <1>8 DEF RemoveNode
  <2>3. NodeAt(p - 1) = Null <=> p = 1
    <3>1. CASE p = 1
      BY <3>1, <1>5
    <3>2. CASE p # 1
      <4>1. p - 1 \in 1 .. L
        BY <3>2
      <4>. QED
        BY <3>2, <4>1, <1>4, <1>5
    <3>. QED
      BY <3>1, <3>2
  <2>4. NodeAt(p + 1) = Null <=> p = L
    <3>1. CASE p = L
      BY <3>1, <1>5
    <3>2. CASE p # L
      <4>1. p + 1 \in 1 .. L
        BY <3>2
      <4>. QED
        BY <3>2, <4>1, <1>4, <1>5
    <3>. QED
      BY <3>1, <3>2
  <2>5. 1 \in 0 .. L /\ L - 1 \in 0 .. L
    OBVIOUS
  <2>6. head' = NodeAt(1)'
    BY <2>1, <2>2, <2>3, <2>5, <1>7
  <2>7. tail' = NodeAt(L - 1)'
    <3>1. NodeAt(L - 1)' = IF L - 1 < p THEN NodeAt(L - 1) ELSE NodeAt(L)
      BY <2>5, <1>7
    <3>. QED
      BY <3>1, <2>1, <2>2, <2>4
  <2>. QED
    BY <2>1, <2>2, <2>6, <2>7, <1>3
<1>16. ListTypeOK'
  <2>1. \A i \in 0 .. L + 1 : NodeAt(i) \in Pointer
    BY <1>4, <1>5 DEF Pointer
  <2>2. node' \in [DOMAIN node' -> [next : Pointer, prev : Pointer]]
    <3>1. node' = [m \in DOMAIN node' |-> node'[m]]
      BY DEF RemoveNode, Bypass
    <3>2. p - 1 \in 0 .. L + 1 /\ p + 1 \in 0 .. L + 1
      OBVIOUS
    <3>3. \A m \in DOMAIN node : node[m] \in [next : Pointer, prev : Pointer]
      BY <1>1
    <3>4. \A m \in DOMAIN node' : node'[m] \in [next : Pointer, prev : Pointer]
      BY <2>1, <3>2, <3>3, <1>9
    <3>. QED
      BY <3>1, <3>4
  <2>3. head' \in Pointer /\ tail' \in Pointer
    <3>1. node[n].next \in Pointer /\ node[n].prev \in Pointer
      BY <1>1
    <3>. QED
      BY <3>1 DEF ListInv, ListTypeOK, RemoveNode
  <2>. QED
    BY <2>2, <2>3, <1>1, <1>3, <1>9, <1>15 DEF ListInv, ListTypeOK
<1>. QED
  BY <1>12, <1>13, <1>14, <1>15, <1>16 DEF ListInv, ListLinksAgree

\* The inductive invariant of the list: its types, and that next and prev of
\* every node are those of its place in the order of the callers
\* (infra_list_append, infra_list_remove).
THEOREM ListInvariant == ListSpec => []ListInv
<1>1. ListInit => ListInv
  BY DEF ListInit, ListInv, ListTypeOK, ListLinksAgree, Pointer, NodeAt, ToSet
<1>2. ListInv /\ [ListNext]_list_vars => ListInv'
  <2>. SUFFICES ASSUME ListInv, [ListNext]_list_vars  PROVE ListInv'
    OBVIOUS
  <2>1. CASE ListNext
    BY <2>1, AppendKeepsLinks, RemoveKeepsLinks DEF ListNext
  <2>2. CASE UNCHANGED list_vars
    BY <2>2 DEF list_vars, ListInv, ListTypeOK, ListLinksAgree, NodeAt
  <2>. QED
    BY <2>1, <2>2
<1>. QED
  BY <1>1, <1>2, PTL DEF ListSpec

\* Lists of any length: walking either way meets every node that was appended
\* and not removed, once and in order, and length counts them.
THEOREM ListLinksStayRight == ListSpec => []ListLinksAgree
BY ListInvariant, PTL DEF ListInv
-----------------------------------------------------------------------------
(* The hash table: ranks of the entries that the chains follow upwards.    *)

In(b) == {e \in DOMAIN entry : bucket_of[entry[e].key] = b}
Behind(rank, e) == {f \in In(bucket_of[entry[e].key]) : rank[e] < rank[f]}
IsFirst(rank, T, e) == (T = {} /\ e = Null) \/ (e \in T /\ \A f \in T : rank[e] <= rank[f])

\* A bucket starts with its entry of the lowest rank, and the entry behind
\* another is the one of the next rank in the bucket.
Chained(rank) ==
  /\ rank \in [DOMAIN entry -> Int]
  /\ \A e, f \in DOMAIN entry : rank[e] = rank[f] => e = f
  /\ \E low \in Int : \A e \in DOMAIN entry : low < rank[e]
  /\ \A b \in Buckets : IsFirst(rank, In(b), bucket[b])
  /\ \A e \in DOMAIN entry : IsFirst(rank, Behind(rank, e), entry[e].next)

\* The walk has come along the chain, and the key is not behind it.
WalkIsSound(rank) ==
  walk # NoWalk =>
    /\ walk.op = "put" => walk.value \in Values
    /\ \/ walk.prev = Null /\ walk.entry = bucket[bucket_of[walk.key]]
       \/ walk.prev \in In(bucket_of[walk.key]) /\ walk.entry = entry[walk.prev].next
    /\ \A e \in DOMAIN entry :
         entry[e].key = walk.key => walk.entry \in DOMAIN entry /\ rank[walk.entry] <= rank[e]

KeysOnce == \A e, f \in DOMAIN entry : entry[e].key = entry[f].key => e = f

\* The keys that there are.
Stored == {entry[e].key : e \in DOMAIN entry}
SizeCounts == IsFiniteSet(Stored) /\ size = Cardinality(Stored)

HashInv ==
  /\ HashTypeOK /\ KeysOnce /\ SizeCounts
  /\ \E rank : Chained(rank) /\ WalkIsSound(rank)

LEMMA ValueStored ==
  ASSUME HashInv, NEW k \in Strings
  PROVE  /\ k \in Stored <=> ValueOf(k) # None
         /\ \A e \in DOMAIN entry : entry[e].key = k => ValueOf(k) = entry[e].value
         /\ k \notin Stored => ValueOf(k) = None
<1>1. CASE k \notin Stored
  BY <1>1 DEF Stored, Entries, ValueOf
<1>2. ASSUME NEW e \in DOMAIN entry, entry[e].key = k
      PROVE  ValueOf(k) = entry[e].value /\ k \in Stored /\ ValueOf(k) # None
  <2>1. Entries(k) = {e}
    BY <1>2 DEF Entries, HashInv, KeysOnce
  <2>2. ValueOf(k) = entry[e].value
    BY <2>1 DEF ValueOf
  <2>3. entry[e].value \in Values
    BY DEF HashInv, HashTypeOK, Entry
  <2>. QED
    BY <1>2, <2>2, <2>3, ElementAssumption DEF Stored
<1>3. CASE k \in Stored
  BY <1>2, <1>3 DEF Stored
<1>. QED
  BY <1>1, <1>2, <1>3

\* Where a walk is.
LEMMA WalkShape ==
  ASSUME HashInv, walk # NoWalk
  PROVE  /\ walk.op \in Operations /\ walk.key \in Strings
         /\ bucket_of[walk.key] \in Buckets
         /\ walk = [op |-> walk.op, key |-> walk.key, value |-> walk.value,
                    entry |-> walk.entry, prev |-> walk.prev]
         /\ walk.entry \in Pointer /\ walk.prev \in Pointer /\ walk.value \in Values \cup {None}
BY DEF HashInv, HashTypeOK, Walks

ValuesAreStored ==
  \A k \in Strings :
    /\ \A e \in DOMAIN entry : entry[e].key = k => ValueOf(k) = entry[e].value
    /\ k \notin Stored => ValueOf(k) = None

LEMMA ValuesStored == HashInv => ValuesAreStored
BY ValueStored DEF ValuesAreStored

LEMMA CallKeeps ==
  ASSUME HashInv, NEW op \in Operations, NEW k \in Strings, NEW v \in Values \cup {None},
         op = "put" => v \in Values, Call(op, k, v)
  PROVE  HashInv'
<1>1. /\ UNCHANGED <<bucket_of, bucket, entry, size, reply>>
      /\ walk' = [op |-> op, key |-> k, value |-> v, entry |-> bucket[bucket_of[k]], prev |-> Null]
  BY DEF Call
<1>2. PICK rank : Chained(rank) /\ WalkIsSound(rank)
  BY DEF HashInv
<1>3. bucket_of[k] \in Buckets /\ bucket[bucket_of[k]] \in Pointer
  BY DEF HashInv, HashTypeOK
<1>4. HashTypeOK'
  BY <1>1, <1>3 DEF HashInv, HashTypeOK, Walks, Pointer, Buckets, Entry
<1>5. Chained(rank)'
  BY <1>1, <1>2 DEF Chained, In, Behind, IsFirst, Buckets
<1>6. ASSUME NEW e \in DOMAIN entry, entry[e].key = k
      PROVE  bucket[bucket_of[k]] \in DOMAIN entry /\ rank[bucket[bucket_of[k]]] <= rank[e]
  <2>1. e \in In(bucket_of[k])
    BY <1>6 DEF In
  <2>2. IsFirst(rank, In(bucket_of[k]), bucket[bucket_of[k]])
    BY <1>2, <1>3 DEF Chained
  <2>. QED
    BY <2>1, <2>2 DEF IsFirst, In
<1>7. WalkIsSound(rank)'
  BY <1>1, <1>6 DEF WalkIsSound
<1>8. KeysOnce' /\ SizeCounts'
  BY <1>1 DEF HashInv, KeysOnce, SizeCounts, Stored
<1>. QED
  BY <1>4, <1>5, <1>7, <1>8 DEF HashInv

LEMMA WalkOnKeeps == ASSUME HashInv, WalkOn PROVE HashInv'
<1>. DEFINE at == walk.entry
            b == bucket_of[walk.key]
<1>1. /\ UNCHANGED <<bucket_of, bucket, entry, size, reply>>
      /\ walk # NoWalk /\ at # Null /\ entry[at].key # walk.key
      /\ walk' = [walk EXCEPT !.prev = at, !.entry = entry[at].next]
  BY DEF WalkOn
<1>2. PICK rank : Chained(rank) /\ WalkIsSound(rank)
  BY DEF HashInv
<1>3. at \in In(b) /\ b \in Buckets /\ at \in DOMAIN entry
  <2>1. b \in Buckets
    BY <1>1, WalkShape
  <2>2. CASE walk.entry = bucket[b]
    BY <1>1, <1>2, <2>1, <2>2 DEF Chained, IsFirst, In
  <2>3. CASE walk.prev \in In(b) /\ walk.entry = entry[walk.prev].next
    <3>1. walk.prev \in DOMAIN entry /\ bucket_of[entry[walk.prev].key] = b
      BY <2>3 DEF In
    <3>2. IsFirst(rank, Behind(rank, walk.prev), at)
      BY <1>2, <2>3, <3>1 DEF Chained
    <3>3. at \in Behind(rank, walk.prev)
      BY <1>1, <3>2 DEF IsFirst
    <3>. QED
      BY <2>1, <3>1, <3>3 DEF Behind, In
  <2>. QED
    BY <1>1, <1>2, <2>1, <2>2, <2>3 DEF WalkIsSound, In
<1>4. /\ walk'.op = walk.op /\ walk'.key = walk.key /\ walk'.value = walk.value
      /\ walk'.entry = entry[at].next /\ walk'.prev = at /\ walk' # NoWalk /\ walk' \in Walks
  <2>1. at \in Pointer /\ entry[at].next \in Pointer
    BY <1>3 DEF HashInv, HashTypeOK, Entry, Pointer
  <2>2. walk \in [op : Operations, key : Strings, value : Values \cup {None}, entry : Pointer, prev : Pointer]
    BY <1>1 DEF HashInv, HashTypeOK, Walks
  <2>. QED
    BY <1>1, <2>1, <2>2 DEF Walks, NoWalk, Operations
<1>5. HashTypeOK'
  BY <1>1, <1>4 DEF HashInv, HashTypeOK, Buckets, Entry, Pointer
<1>6. Chained(rank)'
  BY <1>1, <1>2 DEF Chained, In, Behind, IsFirst, Buckets
<1>7. ASSUME NEW e \in DOMAIN entry, entry[e].key = walk.key
      PROVE  entry[at].next \in DOMAIN entry /\ rank[entry[at].next] <= rank[e]
  <2>1. rank[at] <= rank[e] /\ e # at
    BY <1>1, <1>2, <1>7 DEF WalkIsSound
  <2>2. rank[at] \in Int /\ rank[e] \in Int /\ rank[at] # rank[e]
    BY <1>2, <1>3, <2>1 DEF Chained
  <2>3. e \in Behind(rank, at)
    BY <1>3, <1>7, <2>1, <2>2 DEF Behind, In
  <2>4. IsFirst(rank, Behind(rank, at), entry[at].next)
    BY <1>2, <1>3 DEF Chained
  <2>. QED
    BY <2>3, <2>4 DEF IsFirst, Behind, In
<1>8. WalkIsSound(rank)'
  BY <1>1, <1>2, <1>3, <1>4, <1>7 DEF WalkIsSound, In
<1>9. KeysOnce' /\ SizeCounts'
  BY <1>1 DEF HashInv, KeysOnce, SizeCounts, Stored
<1>. QED
  BY <1>5, <1>6, <1>8, <1>9 DEF HashInv

\* Where a walk that is not over has come to: an entry of the bucket, which
\* nothing in the bucket but the one in front leads to.
LEMMA WalkAt ==
  ASSUME HashInv, NEW rank, Chained(rank), WalkIsSound(rank), walk # NoWalk, walk.entry # Null
  PROVE  /\ walk.entry \in In(bucket_of[walk.key])
         /\ walk.prev # Null => /\ walk.prev \in In(bucket_of[walk.key])
                                /\ entry[walk.prev].next = walk.entry
                                /\ rank[walk.prev] < rank[walk.entry]
         /\ walk.prev = Null => /\ walk.entry = bucket[bucket_of[walk.key]]
                                /\ \A e \in In(bucket_of[walk.key]) : rank[walk.entry] <= rank[e]
<1>. DEFINE b == bucket_of[walk.key]
<1>1. b \in Buckets /\ In(b) \subseteq DOMAIN entry /\ DOMAIN entry \subseteq Nodes
  BY WalkShape DEF In, HashInv, HashTypeOK
<1>2. CASE walk.prev = Null
  <2>1. walk.entry = bucket[b]
    BY <1>1, <1>2, ElementAssumption DEF WalkIsSound
  <2>2. IsFirst(rank, In(b), walk.entry)
    BY <1>1, <2>1 DEF Chained
  <2>. QED
    BY <1>2, <2>1, <2>2 DEF IsFirst
<1>3. CASE walk.prev # Null
  <2>1. walk.prev \in In(b) /\ walk.entry = entry[walk.prev].next
    BY <1>3 DEF WalkIsSound
  <2>2. walk.prev \in DOMAIN entry /\ bucket_of[entry[walk.prev].key] = b
    BY <2>1 DEF In
  <2>3. IsFirst(rank, Behind(rank, walk.prev), walk.entry)
    BY <2>1, <2>2 DEF Chained
  <2>4. walk.entry \in Behind(rank, walk.prev)
    BY <2>3 DEF IsFirst
  <2>5. walk.entry \in In(b) /\ rank[walk.prev] < rank[walk.entry]
    BY <2>2, <2>4 DEF Behind
  <2>. QED
    BY <1>3, <2>1, <2>5
<1>. QED
  BY <1>2, <1>3

\* A walk that has come to the end has found that the key is not there.
LEMMA EndMeansAbsent ==
  ASSUME HashInv, walk # NoWalk, walk.entry = Null
  PROVE  walk.key \notin Stored
<1>1. PICK rank : Chained(rank) /\ WalkIsSound(rank)
  BY DEF HashInv
<1>2. Null \notin DOMAIN entry
  BY ElementAssumption DEF HashInv, HashTypeOK
<1>. QED
  BY <1>1, <1>2 DEF WalkIsSound, Stored

\* What stays when a call returns and the links are as they were.
LEMMA LinksStay ==
  ASSUME HashInv, UNCHANGED <<bucket_of, bucket>>, walk' = NoWalk,
         DOMAIN entry' = DOMAIN entry,
         \A e \in DOMAIN entry : entry'[e].key = entry[e].key /\ entry'[e].next = entry[e].next
  PROVE  KeysOnce' /\ Stored' = Stored /\ \E rank : Chained(rank)' /\ WalkIsSound(rank)'
<1>1. PICK rank : Chained(rank)
  BY DEF HashInv
<1>2. \A b : In(b)' = In(b)
  BY DEF In
<1>3. \A e \in DOMAIN entry : Behind(rank, e)' = Behind(rank, e)
  BY <1>2 DEF Behind
<1>4. Chained(rank)'
  BY <1>1, <1>2, <1>3 DEF Chained, IsFirst, Buckets
<1>5. WalkIsSound(rank)'
  BY DEF WalkIsSound
<1>6. KeysOnce' /\ Stored' = Stored
  BY DEF HashInv, KeysOnce, Stored
<1>. QED
  BY <1>4, <1>5, <1>6

LEMMA ReplaceKeeps ==
  ASSUME HashInv, ReplaceValue
  PROVE  /\ HashInv' /\ walk.key \in Strings /\ walk.value \in Values
         /\ \A m \in Strings : ValueOf(m)' = IF m = walk.key THEN walk.value ELSE ValueOf(m)
         /\ size' = Cardinality(Stored \cup {walk.key}) /\ reply' = None
<1>. DEFINE at == walk.entry
<1>1. /\ walk # NoWalk /\ walk.op = "put" /\ at # Null /\ entry[at].key = walk.key
      /\ entry' = [entry EXCEPT ![at].value = walk.value]
      /\ UNCHANGED <<bucket_of, bucket, size>> /\ walk' = NoWalk /\ reply' = None
  BY DEF ReplaceValue, MeetsKey, NoWalk, Returns
<1>2. PICK rank : Chained(rank) /\ WalkIsSound(rank)
  BY DEF HashInv
<1>3. at \in DOMAIN entry /\ walk.value \in Values /\ walk.key \in Strings
  BY <1>1, <1>2, WalkAt, WalkShape DEF In, WalkIsSound
<1>4. /\ DOMAIN entry' = DOMAIN entry /\ entry[at] \in Entry /\ entry'[at] \in Entry
      /\ entry'[at].key = entry[at].key /\ entry'[at].next = entry[at].next
      /\ entry'[at].value = walk.value
      /\ \A e \in DOMAIN entry : e # at => entry'[e] = entry[e]
  <2>1. entry[at] \in Entry
    BY <1>3 DEF HashInv, HashTypeOK
  <2>2. entry'[at] = [entry[at] EXCEPT !.value = walk.value]
    BY <1>1, <1>3
  <2>. QED
    BY <1>1, <1>3, <2>1, <2>2 DEF Entry
<1>5. KeysOnce' /\ Stored' = Stored /\ \E r : Chained(r)' /\ WalkIsSound(r)'
  BY <1>1, <1>4, LinksStay
<1>6. HashTypeOK'
  <2>1. entry' \in [DOMAIN entry' -> Entry]
    <3>1. \A e \in DOMAIN entry' : entry'[e] \in Entry
      BY <1>4 DEF HashInv, HashTypeOK
    <3>2. entry' = [e \in DOMAIN entry' |-> entry'[e]]
      BY <1>1, <1>4 DEF HashInv, HashTypeOK
    <3>. QED
      BY <3>1, <3>2
  <2>. QED
    BY <1>1, <1>4, <2>1 DEF HashInv, HashTypeOK, Walks, Buckets, Entry, Pointer
<1>7. SizeCounts'
  BY <1>1, <1>5 DEF HashInv, SizeCounts
<1>8. HashInv'
  BY <1>5, <1>6, <1>7 DEF HashInv
<1>9. ASSUME NEW m \in Strings
      PROVE  ValueOf(m)' = IF m = walk.key THEN walk.value ELSE ValueOf(m)
  <2>1. /\ m \notin Stored' => ValueOf(m)' = None
        /\ \A e \in DOMAIN entry' : entry'[e].key = m => ValueOf(m)' = entry'[e].value
    <3>1. ValuesAreStored'
      BY <1>8, ValuesStored, PTL
    <3>. QED
      BY <3>1 DEF ValuesAreStored
  <2>2. CASE m = walk.key
    BY <1>1, <1>3, <1>4, <2>1, <2>2
  <2>3. CASE m # walk.key /\ m \in Stored
    <3>1. PICK e \in DOMAIN entry : entry[e].key = m
      BY <2>3 DEF Stored
    <3>2. ValueOf(m) = entry[e].value /\ e # at
      BY <1>1, <2>3, <3>1, ValueStored
    <3>. QED
      BY <1>4, <2>1, <2>3, <3>1, <3>2
  <2>4. CASE m \notin Stored /\ m # walk.key
    BY <1>5, <2>1, <2>4, ValueStored
  <2>. QED
    BY <2>2, <2>3, <2>4
<1>10. Stored \cup {walk.key} = Stored
  BY <1>1, <1>3 DEF Stored
<1>. QED
  BY <1>1, <1>3, <1>8, <1>9, <1>10 DEF HashInv, SizeCounts

LEMMA AddKeeps ==
  ASSUME HashInv, NEW n \in Nodes, AddEntry(n)
  PROVE  /\ HashInv' /\ walk.key \in Strings /\ walk.value \in Values
         /\ \A m \in Strings : ValueOf(m)' = IF m = walk.key THEN walk.value ELSE ValueOf(m)
         /\ size' = Cardinality(Stored \cup {walk.key}) /\ reply' = None
<1>0. PICK k, b : k = walk.key /\ b = bucket_of[k]
  OBVIOUS
<1>. DEFINE new == [key |-> k, value |-> walk.value, next |-> bucket[b]]
<1>1. /\ walk # NoWalk /\ walk.op = "put" /\ walk.entry = Null /\ n \notin DOMAIN entry
      /\ entry' = [e \in DOMAIN entry \cup {n} |-> IF e = n THEN new ELSE entry[e]]
      /\ bucket' = [bucket EXCEPT ![b] = n]
      /\ size' = size + 1 /\ walk' = NoWalk /\ reply' = None /\ UNCHANGED bucket_of
  BY <1>0 DEF AddEntry, AtEnd, NoWalk, Returns
<1>2. PICK rank : Chained(rank) /\ WalkIsSound(rank)
  BY DEF HashInv
<1>3. PICK low \in Int : \A e \in DOMAIN entry : low < rank[e]
  BY <1>2 DEF Chained
<1>4. /\ k \in Strings /\ b \in Buckets /\ walk.value \in Values /\ bucket[b] \in Pointer
      /\ k \notin Stored /\ DOMAIN entry \subseteq Nodes /\ n # Null
  BY <1>0, <1>1, <1>2, WalkShape, EndMeansAbsent, ElementAssumption DEF WalkIsSound, HashInv, HashTypeOK
<1>5. /\ DOMAIN entry' = DOMAIN entry \cup {n}
      /\ entry'[n].key = k /\ entry'[n].value = walk.value /\ entry'[n].next = bucket[b]
      /\ entry'[n] \in Entry
      /\ \A e \in DOMAIN entry : entry'[e] = entry[e] /\ e # n
      /\ bucket'[b] = n
      /\ \A c \in Buckets : c # b => bucket'[c] = bucket[c]
  BY <1>1, <1>4 DEF Entry, HashInv, HashTypeOK
<1>6. PICK above :
        /\ above[n] = low /\ above \in [DOMAIN entry' -> Int]
        /\ \A e \in DOMAIN entry : above[e] = rank[e] /\ above[n] < above[e] /\ above[e] \in Int
  <2>. DEFINE new_rank == [e \in DOMAIN entry \cup {n} |-> IF e = n THEN low ELSE rank[e]]
  <2>1. /\ new_rank[n] = low /\ new_rank \in [DOMAIN entry' -> Int]
        /\ \A e \in DOMAIN entry : new_rank[e] = rank[e] /\ new_rank[n] < new_rank[e] /\ new_rank[e] \in Int
    BY <1>2, <1>3, <1>5 DEF Chained
  <2>. QED
    BY <2>1
<1>7. In(b)' = In(b) \cup {n} /\ \A c : c # b => In(c)' = In(c)
  <2>1. bucket_of[entry'[n].key] = b /\ bucket_of' = bucket_of
    BY <1>0, <1>1, <1>5
  <2>2. \A e \in DOMAIN entry : entry'[e].key = entry[e].key
    BY <1>5
  <2>3. \A c : In(c)' = {e \in DOMAIN entry \cup {n} : bucket_of[entry'[e].key] = c}
    BY <1>5, <2>1 DEF In
  <2>4. In(b)' = In(b) \cup {n}
    <3>1. \A e : e \in In(b)' <=> e \in In(b) \cup {n}
      BY <2>1, <2>2, <2>3 DEF In
    <3>. QED
      BY <3>1
  <2>5. ASSUME NEW c, c # b  PROVE In(c)' = In(c)
    <3>1. \A e : e \in In(c)' <=> e \in In(c)
      BY <1>5, <2>1, <2>2, <2>3, <2>5 DEF In
    <3>. QED
      BY <3>1
  <2>. QED
    BY <2>4, <2>5
<1>8. ASSUME NEW c \in Buckets  PROVE IsFirst(above, In(c)', bucket'[c])
  <2>1. \A d : \A e \in In(d) : e \in DOMAIN entry
    BY DEF In
  <2>2. CASE c = b
    <3>1. In(c)' = In(b) \cup {n} /\ bucket'[c] = n
      BY <1>5, <1>7, <2>2
    <3>2. \A e \in In(b) \cup {n} : above[n] <= above[e]
      BY <1>6, <2>1
    <3>. QED
      BY <3>1, <3>2 DEF IsFirst
  <2>3. CASE c # b
    <3>1. IsFirst(rank, In(c), bucket[c])
      BY <1>2 DEF Chained
    <3>. QED
      BY <1>5, <1>6, <1>7, <2>1, <2>3, <3>1 DEF IsFirst
  <2>. QED
    BY <2>2, <2>3
<1>9. ASSUME NEW e \in DOMAIN entry \cup {n}, NEW c, c = bucket_of[entry'[e].key]
      PROVE  IsFirst(above, {f \in In(c)' : above[e] < above[f]}, entry'[e].next)
  <2>0. \A d : \A f \in In(d) : f \in DOMAIN entry
    BY DEF In
  <2>1. CASE e = n
    <3>1. {f \in In(b)' : above[n] < above[f]} = In(b)
      BY <1>6, <1>7, <2>0
    <3>2. IsFirst(rank, In(b), bucket[b])
      BY <1>2, <1>4 DEF Chained
    <3>3. c = b /\ entry'[e].next = bucket[b]
      BY <1>0, <1>5, <1>9, <2>1
    <3>4. \A f \in In(b) : above[f] = rank[f]
      BY <1>6, <2>0
    <3>. QED
      BY <2>1, <3>1, <3>2, <3>3, <3>4 DEF IsFirst
  <2>2. CASE e # n
    <3>0. c = bucket_of[entry[e].key] /\ e \in DOMAIN entry
      BY <1>5, <1>9, <2>2
    <3>1. {f \in In(c)' : above[e] < above[f]} = Behind(rank, e)
      BY <1>6, <1>7, <2>0, <3>0 DEF Behind
    <3>2. IsFirst(rank, Behind(rank, e), entry[e].next)
      BY <1>2, <2>2 DEF Chained
    <3>3. Behind(rank, e) \subseteq DOMAIN entry
      BY <2>0 DEF Behind
    <3>4. \A f \in Behind(rank, e) : above[f] = rank[f]
      BY <1>6, <3>3
    <3>5. entry'[e].next = entry[e].next
      BY <1>5, <3>0
    <3>. QED
      BY <3>1, <3>2, <3>4, <3>5 DEF IsFirst
  <2>. QED
    BY <2>1, <2>2
<1>10. Chained(above)'
  <2>1. \A e, f \in DOMAIN entry' : above[e] = above[f] => e = f
    BY <1>2, <1>5, <1>6 DEF Chained
  <2>2. low - 1 \in Int /\ \A e \in DOMAIN entry' : low - 1 < above[e]
    BY <1>5, <1>6
  <2>3. ASSUME NEW e \in DOMAIN entry'
        PROVE  IsFirst(above, Behind(above, e)', entry'[e].next)
    <3>1. PICK c : c = bucket_of[entry'[e].key]
      OBVIOUS
    <3>2. Behind(above, e)' = {f \in In(c)' : above[e] < above[f]}
      BY <1>1, <3>1 DEF Behind, In
    <3>. QED
      BY <1>5, <1>9, <3>1, <3>2
  <2>. QED
    BY <1>6, <1>8, <2>1, <2>2, <2>3 DEF Chained, Buckets, IsFirst
<1>11. WalkIsSound(above)'
  BY <1>1 DEF WalkIsSound
<1>12. HashTypeOK'
  <2>1. entry' \in [DOMAIN entry' -> Entry]
    <3>1. \A e \in DOMAIN entry' : entry'[e] \in Entry
      BY <1>5 DEF HashInv, HashTypeOK
    <3>. QED
      BY <1>1, <3>1
  <2>2. bucket' \in [Buckets -> Pointer] /\ size' \in Nat
    BY <1>1, <1>4 DEF HashInv, HashTypeOK, Pointer
  <2>. QED
    BY <1>1, <1>4, <1>5, <2>1, <2>2 DEF HashInv, HashTypeOK, Walks, Buckets, Entry, Pointer
<1>13. KeysOnce' /\ Stored' = Stored \cup {k}
  <2>1. \A e \in DOMAIN entry : entry[e].key # k
    BY <1>4 DEF Stored
  <2>2. KeysOnce'
    BY <1>5, <2>1 DEF HashInv, KeysOnce
  <2>. QED
    BY <1>5, <2>2 DEF Stored
<1>14. IsFiniteSet(Stored \cup {k}) /\ size' = Cardinality(Stored \cup {k})
  BY <1>1, <1>4, FS_AddElement DEF HashInv, SizeCounts
<1>15. HashInv'
  BY <1>10, <1>11, <1>12, <1>13, <1>14 DEF HashInv, SizeCounts
<1>16. ASSUME NEW m \in Strings
       PROVE  ValueOf(m)' = IF m = k THEN walk.value ELSE ValueOf(m)
  <2>1. ValuesAreStored'
    BY <1>15, ValuesStored, PTL
  <2>2. /\ m \notin Stored' => ValueOf(m)' = None
        /\ \A e \in DOMAIN entry' : entry'[e].key = m => ValueOf(m)' = entry'[e].value
    BY <2>1 DEF ValuesAreStored
  <2>3. CASE m = k
    BY <1>5, <2>2, <2>3
  <2>4. CASE m # k /\ m \in Stored
    <3>1. PICK e \in DOMAIN entry : entry[e].key = m
      BY <2>4 DEF Stored
    <3>2. ValueOf(m) = entry[e].value
      BY <3>1, ValueStored
    <3>. QED
      BY <1>5, <2>2, <2>4, <3>1, <3>2
  <2>5. CASE m \notin Stored /\ m # k
    BY <1>13, <2>2, <2>5, ValueStored
  <2>. QED
    BY <2>3, <2>4, <2>5
<1>. QED
  BY <1>0, <1>1, <1>4, <1>14, <1>15, <1>16

\* get finds the value of its key, and nothing is found for a key that is not there.
LEMMA GetKeeps ==
  ASSUME HashInv, GetValue
  PROVE  /\ HashInv' /\ walk.key \in Strings /\ reply' = ValueOf(walk.key)
         /\ \A m : ValueOf(m)' = ValueOf(m)
         /\ size' = size
<1>. DEFINE at == walk.entry
<1>1. /\ walk # NoWalk /\ at # Null /\ entry[at].key = walk.key
      /\ UNCHANGED <<bucket_of, bucket, entry, size>> /\ walk' = NoWalk /\ reply' = entry[at].value
  BY DEF GetValue, MeetsKey, NoWalk, Returns
<1>2. PICK rank : Chained(rank) /\ WalkIsSound(rank)
  BY DEF HashInv
<1>3. at \in DOMAIN entry /\ walk.key \in Strings /\ entry[at] \in Entry
  BY <1>1, <1>2, WalkAt, WalkShape DEF In, HashInv, HashTypeOK
<1>4. reply' = ValueOf(walk.key) /\ reply' \in Values
  BY <1>1, <1>3, ValueStored DEF Entry
<1>5. KeysOnce' /\ Stored' = Stored /\ \E r : Chained(r)' /\ WalkIsSound(r)'
  BY <1>1, LinksStay
<1>6. HashTypeOK'
  BY <1>1, <1>4 DEF HashInv, HashTypeOK, Walks, Buckets, Entry, Pointer
<1>. QED
  BY <1>1, <1>3, <1>4, <1>5, <1>6 DEF HashInv, SizeCounts, ValueOf, Entries

LEMMA NothingKeeps ==
  ASSUME HashInv, FindsNothing
  PROVE  /\ HashInv' /\ walk.key \in Strings /\ reply' = ValueOf(walk.key)
         /\ \A m : ValueOf(m)' = ValueOf(m)
         /\ size' = size
<1>1. /\ walk # NoWalk /\ walk.entry = Null
      /\ UNCHANGED <<bucket_of, bucket, entry, size>> /\ walk' = NoWalk /\ reply' = None
  BY DEF FindsNothing, AtEnd, Operations, NoWalk, Returns
<1>2. walk.key \in Strings /\ reply' = ValueOf(walk.key)
  BY <1>1, WalkShape, EndMeansAbsent, ValueStored
<1>3. KeysOnce' /\ Stored' = Stored /\ \E r : Chained(r)' /\ WalkIsSound(r)'
  BY <1>1, LinksStay
<1>4. HashTypeOK'
  BY <1>1 DEF HashInv, HashTypeOK, Walks, Buckets, Entry, Pointer
<1>. QED
  BY <1>1, <1>2, <1>3, <1>4 DEF HashInv, SizeCounts, ValueOf, Entries

LEMMA RemoveKeeps ==
  ASSUME HashInv, RemoveEntry
  PROVE  /\ HashInv' /\ walk.key \in Strings /\ reply' = ValueOf(walk.key)
         /\ \A m \in Strings : ValueOf(m)' = IF m = walk.key THEN None ELSE ValueOf(m)
         /\ size' = Cardinality(Stored \ {walk.key})
<1>0. PICK k, b, at, prev : /\ k = walk.key /\ b = bucket_of[k]
                            /\ at = walk.entry /\ prev = walk.prev
  OBVIOUS
<1>1. /\ walk # NoWalk /\ at # Null /\ entry[at].key = k
      /\ bucket' = IF prev = Null THEN [bucket EXCEPT ![b] = entry[at].next] ELSE bucket
      /\ entry' = [e \in DOMAIN entry \ {at} |->
                     IF e = prev THEN [entry[e] EXCEPT !.next = entry[at].next] ELSE entry[e]]
      /\ size' = size - 1 /\ walk' = NoWalk /\ reply' = entry[at].value /\ UNCHANGED bucket_of
  BY <1>0 DEF RemoveEntry, MeetsKey, NoWalk, Returns, Unlinked
<1>2. PICK rank : Chained(rank) /\ WalkIsSound(rank)
  BY DEF HashInv
<1>3. /\ k \in Strings /\ b \in Buckets
      /\ at \in In(b) /\ at \in DOMAIN entry /\ entry[at] \in Entry
      /\ prev # Null => prev \in In(b) /\ entry[prev].next = at /\ rank[prev] < rank[at]
      /\ prev = Null => at = bucket[b] /\ \A e \in In(b) : rank[at] <= rank[e]
  BY <1>0, <1>1, <1>2, WalkAt, WalkShape DEF In, HashInv, HashTypeOK
<1>4. /\ DOMAIN entry' = DOMAIN entry \ {at} /\ Null \notin DOMAIN entry
      /\ \A c : In(c) \subseteq DOMAIN entry
      /\ \A e \in DOMAIN entry : entry[e] \in Entry /\ rank[e] \in Int
      /\ \A e, f \in DOMAIN entry : rank[e] = rank[f] => e = f
  BY <1>1, <1>2, ElementAssumption DEF HashInv, HashTypeOK, In, Chained
<1>5. ASSUME NEW e \in DOMAIN entry, e # at
      PROVE  /\ e \in DOMAIN entry'
             /\ entry'[e].key = entry[e].key /\ entry'[e].value = entry[e].value
             /\ entry'[e].next = IF e = prev THEN entry[at].next ELSE entry[e].next
             /\ entry'[e] \in Entry
  BY <1>1, <1>3, <1>4, <1>5 DEF Entry
<1>6. \A c : In(c)' = In(c) \ {at}
  <2>. SUFFICES ASSUME NEW c  PROVE In(c)' = In(c) \ {at}
    OBVIOUS
  <2>1. In(c)' = {e \in DOMAIN entry \ {at} : bucket_of[entry'[e].key] = c}
    BY <1>1, <1>4 DEF In
  <2>2. \A e : e \in In(c)' <=> e \in In(c) \ {at}
    BY <1>5, <2>1 DEF In
  <2>. QED
    BY <2>2
<1>7. PICK below : /\ below \in [DOMAIN entry' -> Int]
                   /\ \A e \in DOMAIN entry : e # at => below[e] = rank[e]
  <2>. DEFINE new_rank == [e \in DOMAIN entry' |-> rank[e]]
  <2>1. /\ new_rank \in [DOMAIN entry' -> Int]
        /\ \A e \in DOMAIN entry : e # at => new_rank[e] = rank[e]
    BY <1>4
  <2>. QED
    BY <2>1
\* What comes behind the entry that goes.
<1>8. IsFirst(rank, {f \in In(b) : rank[at] < rank[f]}, entry[at].next)
  <2>1. Behind(rank, at) = {f \in In(b) : rank[at] < rank[f]}
    BY <1>0, <1>1 DEF Behind
  <2>. QED
    BY <1>2, <1>3, <2>1 DEF Chained
<1>9. ASSUME NEW c \in Buckets  PROVE IsFirst(below, In(c)', bucket'[c])
  <2>1. IsFirst(rank, In(c), bucket[c])
    BY <1>2 DEF Chained
  <2>2. CASE c = b /\ prev = Null
    <3>1. bucket'[c] = entry[at].next
      BY <1>1, <1>3, <2>2 DEF HashInv, HashTypeOK
    <3>2. {f \in In(b) : rank[at] < rank[f]} = In(c)'
      <4>1. \A f \in In(b) : rank[at] < rank[f] <=> f # at
        BY <1>3, <1>4, <2>2
      <4>. QED
        BY <1>6, <2>2, <4>1
    <3>3. \A f \in In(c)' : below[f] = rank[f]
      BY <1>4, <1>6, <1>7
    <3>. QED
      BY <1>8, <3>1, <3>2, <3>3 DEF IsFirst
  <2>3. CASE ~(c = b /\ prev = Null)
    <3>1. bucket'[c] = bucket[c]
      BY <1>1, <1>3, <2>3 DEF HashInv, HashTypeOK
    <3>2. \A f \in In(c)' : below[f] = rank[f] /\ f \in In(c)
      BY <1>4, <1>6, <1>7
    <3>3. bucket[c] # at
      <4>1. CASE c = b
        <5>1. prev \in In(c) /\ rank[prev] < rank[at]
          BY <1>3, <2>3, <4>1
        <5>. QED
          BY <1>3, <1>4, <2>1, <5>1 DEF IsFirst
      <4>2. CASE c # b
        <5>1. at \notin In(c)
          BY <1>3, <4>2 DEF In
        <5>2. at # Null
          BY <1>1
        <5>. QED
          BY <2>1, <5>1, <5>2 DEF IsFirst
      <4>. QED
        BY <4>1, <4>2
    <3>4. CASE In(c) = {}
      BY <1>6, <2>1, <3>1, <3>4 DEF IsFirst
    <3>5. CASE In(c) # {}
      <4>1. bucket[c] \in In(c) /\ \A f \in In(c) : rank[bucket[c]] <= rank[f]
        BY <2>1, <3>5 DEF IsFirst
      <4>2. bucket[c] \in In(c)'
        BY <1>6, <3>3, <4>1
      <4>. QED
        BY <3>1, <3>2, <4>1, <4>2 DEF IsFirst
    <3>. QED
      BY <3>4, <3>5
  <2>. QED
    BY <2>2, <2>3
<1>10. ASSUME NEW e \in DOMAIN entry', NEW c, c = bucket_of[entry'[e].key]
       PROVE  IsFirst(below, {f \in In(c)' : below[e] < below[f]}, entry'[e].next)
  <2>1. e \in DOMAIN entry /\ e # at /\ c = bucket_of[entry[e].key] /\ e \in In(c) /\ below[e] = rank[e]
    BY <1>4, <1>5, <1>7, <1>10 DEF In
  <2>2. \A f \in In(c)' : below[f] = rank[f] /\ f \in In(c) /\ f # at
    BY <1>4, <1>6, <1>7
  <2>. DEFINE T == {f \in In(c) : rank[e] < rank[f]}
              U == {f \in In(c)' : below[e] < below[f]}
  <2>3. IsFirst(rank, T, entry[e].next)
    BY <1>2, <2>1 DEF Chained, Behind
  <2>4. U = T \ {at}
    BY <1>6, <2>1, <2>2
  <2>5. \A f \in U : below[f] = rank[f] /\ f \in T
    BY <2>2, <2>4
  <2>6. CASE e = prev
    <3>1. entry'[e].next = entry[at].next /\ c = b /\ entry[e].next = at
      BY <1>3, <1>4, <1>5, <2>1, <2>6 DEF In
    <3>2. at \in T /\ \A f \in T : rank[at] <= rank[f]
      BY <1>1, <2>3, <3>1 DEF IsFirst
    <3>3. U = {f \in In(b) : rank[at] < rank[f]}
      <4>1. \A f \in In(b) : f \in U <=> rank[at] < rank[f]
        <5>. SUFFICES ASSUME NEW f \in In(b)  PROVE f \in U <=> rank[at] < rank[f]
          OBVIOUS
        <5>0. f \in DOMAIN entry /\ rank[f] \in Int /\ rank[at] \in Int /\ rank[e] \in Int /\ rank[e] < rank[at]
          BY <1>3, <1>4, <2>1, <3>2
        <5>1. f \in T /\ f # at => rank[at] < rank[f]
          BY <1>3, <1>4, <3>2, <5>0
        <5>2. rank[at] < rank[f] => f \in T /\ f # at
          BY <3>1, <5>0
        <5>. QED
          BY <2>4, <5>1, <5>2
      <4>2. \A f \in U : f \in In(b)
        BY <2>2, <3>1
      <4>. QED
        BY <4>1, <4>2
    <3>. QED
      BY <1>8, <2>5, <3>1, <3>3 DEF IsFirst
  <2>7. CASE e # prev
    <3>1. entry'[e].next = entry[e].next
      BY <1>5, <2>1, <2>7
    <3>2. entry[e].next # at
      <4>. SUFFICES ASSUME entry[e].next = at  PROVE FALSE
        OBVIOUS
      <4>1. at \in T /\ \A f \in T : rank[at] <= rank[f]
        BY <1>1, <2>3 DEF IsFirst
      <4>2. c = b /\ rank[e] < rank[at]
        BY <1>3, <4>1 DEF In
      <4>3. CASE prev = Null
        <5>1. rank[at] <= rank[e]
          BY <1>3, <2>1, <4>2, <4>3
        <5>. QED
          BY <1>3, <1>4, <2>1, <4>2, <5>1
      <4>4. CASE prev # Null
        <5>1. prev \in In(b) /\ prev \in DOMAIN entry /\ rank[prev] < rank[at] /\ entry[prev].next = at
          BY <1>3, <1>4, <4>4
        <5>2. rank[prev] \in Int /\ rank[at] \in Int /\ rank[e] \in Int /\ rank[e] # rank[prev]
          BY <1>3, <1>4, <2>1, <2>7, <5>1
        <5>3. ~(rank[e] < rank[prev])
          <6>1. rank[e] < rank[prev] => prev \in T
            BY <4>2, <5>1
          <6>. QED
            BY <4>1, <5>1, <5>2, <6>1
        <5>4. e \in Behind(rank, prev)
          BY <2>1, <4>2, <5>1, <5>2, <5>3 DEF Behind, In
        <5>5. IsFirst(rank, Behind(rank, prev), at)
          BY <1>2, <5>1 DEF Chained
        <5>6. rank[at] <= rank[e]
          BY <5>4, <5>5 DEF IsFirst
        <5>. QED
          BY <4>2, <5>2, <5>6
      <4>. QED
        BY <4>3, <4>4
    <3>3. CASE T = {}
      BY <2>3, <2>4, <3>1, <3>3 DEF IsFirst
    <3>4. CASE T # {}
      <4>1. entry[e].next \in T /\ \A f \in T : rank[entry[e].next] <= rank[f]
        BY <2>3, <3>4 DEF IsFirst
      <4>2. entry[e].next \in U
        BY <2>4, <3>2, <4>1
      <4>. QED
        BY <2>5, <3>1, <4>1, <4>2 DEF IsFirst
    <3>. QED
      BY <3>3, <3>4
  <2>. QED
    BY <2>6, <2>7
<1>11. Chained(below)'
  <2>1. \A e, f \in DOMAIN entry' : below[e] = below[f] => e = f
    BY <1>4, <1>7
  <2>2. \E low \in Int : \A e \in DOMAIN entry' : low < below[e]
    BY <1>2, <1>4, <1>7 DEF Chained
  <2>3. ASSUME NEW e \in DOMAIN entry'
        PROVE  IsFirst(below, Behind(below, e)', entry'[e].next)
    <3>1. PICK c : c = bucket_of[entry'[e].key]
      OBVIOUS
    <3>2. Behind(below, e)' = {f \in In(c)' : below[e] < below[f]}
      BY <1>1, <3>1 DEF Behind, In
    <3>. QED
      BY <1>10, <3>1, <3>2
  <2>. QED
    BY <1>7, <1>9, <2>1, <2>2, <2>3 DEF Chained, Buckets, IsFirst
<1>12. WalkIsSound(below)'
  BY <1>1 DEF WalkIsSound
<1>13. KeysOnce' /\ Stored' = Stored \ {k} /\ k \in Stored
  <2>1. \A e \in DOMAIN entry : e # at => entry[e].key # k
    BY <1>1, <1>3 DEF HashInv, KeysOnce
  <2>2. KeysOnce'
    BY <1>4, <1>5 DEF HashInv, KeysOnce
  <2>. QED
    BY <1>1, <1>3, <1>4, <1>5, <2>1, <2>2 DEF Stored
<1>14. IsFiniteSet(Stored \ {k}) /\ size' = Cardinality(Stored \ {k}) /\ size' \in Nat
  <2>1. IsFiniteSet(Stored) /\ size = Cardinality(Stored)
    BY DEF HashInv, SizeCounts
  <2>2. IsFiniteSet(Stored \ {k}) /\ Cardinality(Stored \ {k}) = Cardinality(Stored) - 1
    BY <1>13, <2>1, FS_RemoveElement
  <2>3. Cardinality(Stored \ {k}) \in Nat
    BY <2>2, FS_CardinalityType
  <2>. QED
    BY <1>1, <2>1, <2>2, <2>3
<1>15. reply' = ValueOf(k) /\ reply' \in Values
  BY <1>1, <1>3, ValueStored DEF Entry
<1>16. HashTypeOK'
  <2>1. entry' \in [DOMAIN entry' -> Entry]
    <3>1. \A e \in DOMAIN entry' : entry'[e] \in Entry
      BY <1>4, <1>5
    <3>. QED
      BY <1>1, <3>1
  <2>2. bucket' \in [Buckets -> Pointer]
    BY <1>1, <1>3 DEF HashInv, HashTypeOK, Entry
  <2>. QED
    BY <1>1, <1>4, <1>14, <1>15, <2>1, <2>2 DEF HashInv, HashTypeOK, Walks, Buckets, Entry, Pointer
<1>17. HashInv'
  BY <1>11, <1>12, <1>13, <1>14, <1>16 DEF HashInv, SizeCounts
<1>18. ASSUME NEW m \in Strings
       PROVE  ValueOf(m)' = IF m = k THEN None ELSE ValueOf(m)
  <2>1. ValuesAreStored'
    BY <1>17, ValuesStored, PTL
  <2>2. /\ m \notin Stored' => ValueOf(m)' = None
        /\ \A e \in DOMAIN entry' : entry'[e].key = m => ValueOf(m)' = entry'[e].value
    BY <2>1 DEF ValuesAreStored
  <2>3. CASE m = k
    BY <1>13, <2>2, <2>3
  <2>4. CASE m # k /\ m \in Stored
    <3>1. PICK e \in DOMAIN entry : entry[e].key = m
      BY <2>4 DEF Stored
    <3>2. ValueOf(m) = entry[e].value /\ e # at
      BY <1>1, <2>4, <3>1, ValueStored
    <3>. QED
      BY <1>5, <2>2, <2>4, <3>1, <3>2
  <2>5. CASE m \notin Stored /\ m # k
    BY <1>13, <2>2, <2>5, ValueStored
  <2>. QED
    BY <2>3, <2>4, <2>5
<1>. QED
  BY <1>0, <1>3, <1>14, <1>15, <1>17, <1>18

\* A table with no entries.
Empty ==
  /\ bucket_of \in [Strings -> Buckets] /\ bucket = [b \in Buckets |-> Null]
  /\ entry = <<>> /\ size = 0 /\ reply = None /\ walk = NoWalk

NothingThere == \A m : ValueOf(m) = None

LEMMA EmptyTable == Empty => HashInv /\ NothingThere
<1>. SUFFICES ASSUME Empty  PROVE HashInv /\ NothingThere
  OBVIOUS
<1>0. DOMAIN entry = {} /\ entry \in [DOMAIN entry -> Entry] /\ entry \in [DOMAIN entry -> Int]
  <2>1. DOMAIN <<>> = {} /\ <<>> \in [DOMAIN <<>> -> Entry] /\ <<>> \in [DOMAIN <<>> -> Int]
    OBVIOUS
  <2>. QED
    BY <2>1 DEF Empty
<1>1. HashTypeOK
  BY <1>0 DEF Empty, HashTypeOK, Walks, Pointer
<1>2. Stored = {} /\ SizeCounts
  BY <1>0, FS_EmptySet DEF Empty, Stored, SizeCounts
<1>3. KeysOnce
  BY <1>0 DEF KeysOnce
<1>4. Chained(entry)
  <2>1. \A b : In(b) = {}
    BY <1>0 DEF In
  <2>. QED
    BY <1>0, <2>1 DEF Empty, Chained, IsFirst
<1>5. WalkIsSound(entry)
  BY DEF Empty, WalkIsSound
<1>. QED
  BY <1>0, <1>1, <1>2, <1>3, <1>4, <1>5 DEF HashInv, NothingThere, ValueOf, Entries

LEMMA ClearKeeps ==
  ASSUME HashInv, HashClear
  PROVE  HashInv' /\ (\A m : ValueOf(m)' = None) /\ size' = 0 /\ reply' = None
<1>1. Empty'
  BY DEF HashClear, Empty, HashInv, HashTypeOK, Buckets
<1>2. HashInv' /\ NothingThere'
  BY <1>1, EmptyTable, PTL
<1>. QED
  BY <1>2 DEF NothingThere, HashClear

LEMMA HashIdle ==
  ASSUME HashInv, UNCHANGED hash_vars
  PROVE  HashInv' /\ \A m : ValueOf(m)' = ValueOf(m)
<1>1. UNCHANGED <<bucket_of, bucket, entry, size, reply, walk>>
  BY DEF hash_vars
<1>2. PICK rank : Chained(rank) /\ WalkIsSound(rank)
  BY DEF HashInv
<1>3. Chained(rank)' /\ WalkIsSound(rank)'
  BY <1>1, <1>2 DEF Chained, In, Behind, IsFirst, Buckets, WalkIsSound
<1>4. HashTypeOK' /\ KeysOnce' /\ SizeCounts'
  BY <1>1 DEF HashInv, HashTypeOK, KeysOnce, SizeCounts, Stored, Buckets, Entry, Pointer
<1>. QED
  BY <1>1, <1>3, <1>4 DEF HashInv, ValueOf, Entries

\* The beginning of a call, and a step along the chain.
LEMMA OnTheWayKeeps ==
  ASSUME HashInv,
         \/ \E k \in Strings : Call("get", k, None) \/ Call("remove", k, None)
         \/ \E k \in Strings, v \in Values : Call("put", k, v)
         \/ WalkOn
  PROVE  HashInv' /\ (\A m : ValueOf(m)' = ValueOf(m)) /\ UNCHANGED <<size, reply>>
<1>1. CASE \E k \in Strings : Call("get", k, None)
  BY <1>1, CallKeeps DEF Call, Operations, ValueOf, Entries
<1>2. CASE \E k \in Strings : Call("remove", k, None)
  BY <1>2, CallKeeps DEF Call, Operations, ValueOf, Entries
<1>3. CASE \E k \in Strings, v \in Values : Call("put", k, v)
  BY <1>3, CallKeeps DEF Call, Operations, ValueOf, Entries
<1>4. CASE WalkOn
  BY <1>4, WalkOnKeeps DEF WalkOn, ValueOf, Entries
<1>. QED
  BY <1>1, <1>2, <1>3, <1>4

\* The inductive invariant of the hash table: types, one entry for a key, size the
\* number of keys, chains that lead through all entries of their bucket once, and
\* a walk that has not passed its key (infra_hash_put, _get, _remove, _clear).
THEOREM HashInvariant == HashSpec => []HashInv
<1>1. HashInit => HashInv
  BY EmptyTable DEF HashInit, Empty
<1>2. HashInv /\ [HashNext]_hash_vars => HashInv'
  BY OnTheWayKeeps, ReplaceKeeps, AddKeeps, GetKeeps, NothingKeeps, RemoveKeeps, ClearKeeps,
     HashIdle DEF HashNext
<1>. QED
  BY <1>1, <1>2, PTL DEF HashSpec

-----------------------------------------------------------------------------
(* The table implements the map.                                           *)

LEMMA SameCardinality == \A S : Map!Cardinality(S) = Cardinality(S)
BY DEF Map!Cardinality, Cardinality, Map!IsFiniteSet, IsFiniteSet

LEMMA PresentIsStored == ASSUME HashInv PROVE Map!Present = Stored
<1>1. Stored \subseteq Strings
  BY DEF Stored, HashInv, HashTypeOK, Entry
<1>2. Map!Present = {k \in Strings : ValueOf(k) # None}
  BY DEF Map!Present
<1>. QED
  BY <1>1, <1>2, ValueStored

LEMMA PutIsMapPut ==
  ASSUME HashInv, ReplaceValue \/ \E n \in Nodes : AddEntry(n)
  PROVE  \E k \in Strings, v \in Values : Map!Put(k, v)
<1>0. PICK k, v : k = walk.key /\ v = walk.value
  OBVIOUS
<1>1. /\ \A m \in Strings : ValueOf(m)' = IF m = k THEN v ELSE ValueOf(m)
      /\ size' = Cardinality(Stored \cup {k}) /\ reply' = None
      /\ k \in Strings /\ v \in Values
  BY <1>0, ReplaceKeeps, AddKeeps
<1>2. [m \in Strings |-> ValueOf(m)]' = [[m \in Strings |-> ValueOf(m)] EXCEPT ![k] = v]
  BY <1>1
<1>3. Map!Put(k, v)
  BY <1>1, <1>2, PresentIsStored, SameCardinality DEF Map!Put
<1>. QED
  BY <1>1, <1>3

LEMMA AnswerIsMapGet ==
  ASSUME HashInv, GetValue \/ FindsNothing
  PROVE  \E k \in Strings : Map!Get(k)
<1>0. PICK k : k = walk.key
  OBVIOUS
<1>1. /\ k \in Strings /\ reply' = ValueOf(k) /\ size' = size
      /\ \A m : ValueOf(m)' = ValueOf(m)
  BY <1>0, GetKeeps, NothingKeeps
<1>2. [m \in Strings |-> ValueOf(m)]' = [m \in Strings |-> ValueOf(m)]
  BY <1>1
<1>. QED
  BY <1>1, <1>2 DEF Map!Get

LEMMA RemoveIsMapRemove ==
  ASSUME HashInv, RemoveEntry
  PROVE  \E k \in Strings : Map!Remove(k)
<1>0. PICK k : k = walk.key
  OBVIOUS
<1>1. /\ \A m \in Strings : ValueOf(m)' = IF m = k THEN None ELSE ValueOf(m)
      /\ size' = Cardinality(Stored \ {k}) /\ reply' = ValueOf(k) /\ k \in Strings
  BY <1>0, RemoveKeeps
<1>2. [m \in Strings |-> ValueOf(m)]' = [[m \in Strings |-> ValueOf(m)] EXCEPT ![k] = None]
  BY <1>1
<1>3. Map!Remove(k)
  BY <1>1, <1>2, PresentIsStored, SameCardinality DEF Map!Remove
<1>. QED
  BY <1>1, <1>3

LEMMA ClearIsMapClear ==
  ASSUME HashInv, HashClear
  PROVE  Map!Clear
BY ClearKeeps DEF Map!Clear

\* The hash table implements the map for any number of buckets, any hash
\* function and any strings: whatever entry of a chain is changed, taken out or
\* put in front, get and remove answer what KeyValueMap says, and size counts.
THEOREM HashTableIsAMap == HashSpec => HashIsAMap
<1>1. HashInit => Map!Init
  <2>. SUFFICES ASSUME HashInit  PROVE Map!Init
    OBVIOUS
  <2>1. \A m : ValueOf(m) = None
    BY EmptyTable DEF HashInit, Empty, NothingThere
  <2>. QED
    BY <2>1 DEF HashInit, Map!Init
<1>2. HashInv /\ [HashNext]_hash_vars
        => [Map!Next]_<<[k \in Strings |-> ValueOf(k)], size, reply>>
  <2>. SUFFICES ASSUME HashInv, [HashNext]_hash_vars
                PROVE  [Map!Next]_<<[k \in Strings |-> ValueOf(k)], size, reply>>
    OBVIOUS
  <2>1. CASE ReplaceValue \/ \E n \in Nodes : AddEntry(n)
    BY <2>1, PutIsMapPut DEF Map!Next
  <2>2. CASE GetValue \/ FindsNothing
    BY <2>2, AnswerIsMapGet DEF Map!Next
  <2>3. CASE RemoveEntry
    BY <2>3, RemoveIsMapRemove DEF Map!Next
  <2>4. CASE HashClear
    BY <2>4, ClearIsMapClear DEF Map!Next
  <2>5. CASE UNCHANGED hash_vars
    BY <2>5, HashIdle DEF hash_vars
  <2>6. CASE \/ \E k \in Strings : Call("get", k, None) \/ Call("remove", k, None)
             \/ \E k \in Strings, v \in Values : Call("put", k, v)
             \/ WalkOn
    BY <2>6, OnTheWayKeeps
  <2>. QED
    BY <2>1, <2>2, <2>3, <2>4, <2>5, <2>6 DEF HashNext
<1>. QED
  BY <1>1, <1>2, HashInvariant, PTL DEF HashSpec, HashIsAMap, Map!Spec
=============================================================================
