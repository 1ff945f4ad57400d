-------------------------- MODULE MemoryPool_proofs --------------------------
(* Proofs about MemoryPool, for a pool, alignment, header and word of any   *)
(* size and callers that ask for anything.                                  *)
EXTENDS MemoryPool, SequenceTheorems, FiniteSetTheorems, WellFoundedInduction, TLAPS

BlockRecord == [at : Addresses, size : Addresses, used : BOOLEAN, orig : Addresses]

\* Blocks in address order that do not overlap and stay in the pool.
Laid(list) ==
  /\ list \in Seq(BlockRecord) /\ list # <<>> /\ list[1].at = 0
  /\ \A i \in DOMAIN list : EndOf(list[i]) <= PoolSize
  /\ \A i, j \in DOMAIN list : i < j => EndOf(list[i]) <= list[j].at

\* They leave no byte out.
Tiles(list) ==
  \A i \in DOMAIN list : EndOf(list[i]) = IF i = Len(list) THEN PoolSize ELSE list[i + 1].at

\* No two free blocks are neighbours.
Mixed(list) == \A i \in 1 .. Len(list) - 1 : list[i].used \/ list[i + 1].used

SameUsed(list, other) ==
  /\ \A i \in DOMAIN list : list[i].used => \E j \in DOMAIN other : other[j] = list[i]
  /\ \A j \in DOMAIN other : other[j].used => \E i \in DOMAIN list : list[i] = other[j]

\* The callers hold the payloads of the used blocks, and nothing else.
OwnedBy(list, held) ==
  /\ \A p \in DOMAIN held :
       \E i \in DOMAIN list :
         list[i].at + Header = p /\ list[i].used /\ list[i].size >= held[p]
  /\ \A i \in DOMAIN list : list[i].used => list[i].at + Header \in DOMAIN held

\* What the used blocks of a list say was asked for.
Weight(b) == IF b.used THEN b.orig ELSE 0
Weights(list) == [i \in 1 .. Len(list) |-> Weight(list[i])]
Total(list) == Sums(Weights(list))[Len(list)]

\* The pool until infra_realloc overruns a block.
WholePool ==
  /\ TypeOK /\ Laid(blocks) /\ OwnedBy(blocks, live) /\ "overrun" \notin past
  /\ "shrink" \notin past => Tiles(blocks) /\ Mixed(blocks)
  /\ (\A i \in DOMAIN blocks : ~blocks[i].used) => Len(blocks) = 1

\* And when it has.
BrokenPool == TypeOK /\ ~ListIsSound /\ {"shrink", "overrun"} \subseteq past

MemoryInv == WholePool \/ BrokenPool

-----------------------------------------------------------------------------
(* Numbers.                                                                 *)

\* The least element of a set of numbers, which stands in for induction.
LEMMA SmallestOfNats ==
  ASSUME NEW S, S \subseteq Nat, S # {}
  PROVE  \E x \in S : \A y \in S : x <= y
<1>1. PICK R : IsWellFoundedOn(R, Nat) /\ \A x, y \in Nat : y < x => <<y, x>> \in R
  <2>1. \A x, y \in Nat : y < x => <<y, x>> \in OpToRel(<, Nat)
    BY DEF OpToRel
  <2>. QED
    BY <2>1, NatLessThanWellFounded, Zenon
<1>2. PICK x \in S : \A y \in S : <<y, x>> \notin R
  BY <1>1, WFMin
<1>3. \A y \in S : ~(y < x)
  BY <1>1, <1>2
<1>. QED
  BY <1>3

LEMMA Constants ==
  /\ Header \in Nat \ {0} /\ PoolSize \in Nat /\ Align \in Nat \ {0}
  /\ Sizes \subseteq Nat \ {0} /\ Garbage \subseteq Addresses
  /\ Addresses \subseteq Nat /\ \A n \in 0 .. PoolSize : n \in Addresses
BY MemoryAssumption DEF Addresses

LEMMA Modulo ==
  /\ \A a \in Int : a % Word \in Addresses
  /\ \A a \in Addresses : a % Word = a
BY MemoryAssumption DEF Addresses

LEMMA AlignedGrows == \A n \in Nat : Aligned(n) \in Nat /\ Aligned(n) >= n
BY MemoryAssumption DEF Aligned

-----------------------------------------------------------------------------
(* Sums.                                                                    *)

LEMMA SumsAre ==
  ASSUME NEW w \in Seq(Nat)
  PROVE  /\ Sums(w)[0] = 0
         /\ \A n \in 1 .. Len(w) : Sums(w)[n] = Sums(w)[n - 1] + w[n]
         /\ \A n \in 0 .. Len(w) : Sums(w)[n] \in Nat
<1>. DEFINE N == Len(w)
            Rec(g, m) == /\ g = [n \in 0 .. m |-> g[n]]
                         /\ \A n \in 0 .. m : g[n] = IF n = 0 THEN 0 ELSE g[n - 1] + w[n]
            Bad == {m \in Nat : m <= N /\ ~\E g : Rec(g, m)}
<1>1. N \in Nat /\ \A n \in 1 .. N : w[n] \in Nat
  OBVIOUS
<1>. HIDE DEF N
<1>2. Bad = {}
  <2>. SUFFICES ASSUME Bad # {} PROVE FALSE
    OBVIOUS
  <2>1. PICK m \in Bad : \A k \in Bad : m <= k
    <3>1. Bad \subseteq Nat
      OBVIOUS
    <3>. HIDE DEF Bad
    <3>. QED
      BY <3>1, SmallestOfNats
  <2>2. m \in Nat /\ m <= N /\ ~\E g : Rec(g, m)
    BY <2>1
  <2>3. m # 0
    <3>. DEFINE z == [n \in 0 .. 0 |-> 0]
    <3>1. \A n \in 0 .. 0 : n = 0
      OBVIOUS
    <3>2. Rec(z, 0)
      BY <3>1
    <3>. QED
      BY <2>2, <3>2
  <2>4. PICK g : Rec(g, m - 1)
    <3>1. m - 1 \in Nat /\ m - 1 <= N /\ ~(m <= m - 1)
      BY <1>1, <2>2, <2>3
    <3>2. m - 1 \notin Bad
      BY <2>1, <3>1
    <3>. HIDE DEF Rec
    <3>. QED
      BY <3>1, <3>2
  <2>. DEFINE new == g[m - 1] + w[m]
              h == [n \in 0 .. m |-> IF n = m THEN new ELSE g[n]]
  <2>7. ASSUME NEW n \in 0 .. m
        PROVE  h[n] = IF n = 0 THEN 0 ELSE h[n - 1] + w[n]
    <3>1. n # 0 => n - 1 \in 0 .. m /\ n - 1 # m
      BY <2>2
    <3>2. n # 0 => h[n - 1] = g[n - 1]
      BY <3>1
    <3>3. CASE n = m
      BY <2>3, <3>2, <3>3
    <3>4. CASE n # m
      <4>1. n \in 0 .. m - 1
        BY <2>2, <3>4
      <4>2. h[n] = g[n]
        BY <3>4
      <4>. QED
        BY <2>4, <3>2, <4>1, <4>2
    <3>. QED
      BY <3>3, <3>4
  <2>8. h = [n \in 0 .. m |-> h[n]]
    OBVIOUS
  <2>. HIDE DEF h
  <2>. QED
    BY <2>2, <2>7, <2>8
<1>9. \E g : Rec(g, N)
  <2>1. N \in Nat /\ N <= N
    BY <1>1
  <2>. HIDE DEF Rec
  <2>. QED
    BY <1>2, <2>1
<1>3. PICK g : Rec(g, N)
  BY <1>9
<1>4. g = [n \in 0 .. N |-> IF n = 0 THEN 0 ELSE g[n - 1] + w[n]]
  BY <1>3
<1>5. Sums(w) = CHOOSE f : f = [n \in 0 .. N |-> IF n = 0 THEN 0 ELSE f[n - 1] + w[n]]
  BY DEF Sums, N
<1>. DEFINE s == Sums(w)
<1>6. s = [n \in 0 .. N |-> IF n = 0 THEN 0 ELSE s[n - 1] + w[n]]
  BY <1>4, <1>5
<1>. HIDE DEF s
<1>7. s[0] = 0 /\ \A n \in 1 .. N : s[n] = s[n - 1] + w[n]
  <2>1. \A n \in 0 .. N : s[n] = IF n = 0 THEN 0 ELSE s[n - 1] + w[n]
    BY <1>6
  <2>2. 0 \in 0 .. N /\ \A n \in 1 .. N : n \in 0 .. N /\ n # 0
    BY <1>1
  <2>. QED
    BY <2>1, <2>2
<1>8. \A n \in 0 .. N : s[n] \in Nat
  <2>. DEFINE Odd == {n \in Nat : n <= N /\ s[n] \notin Nat}
  <2>. SUFFICES ASSUME Odd # {} PROVE FALSE
    OBVIOUS
  <2>1. PICK m \in Odd : \A k \in Odd : m <= k
    <3>1. Odd \subseteq Nat
      OBVIOUS
    <3>. HIDE DEF Odd
    <3>. QED
      BY <3>1, SmallestOfNats
  <2>2. m \in 1 .. N /\ s[m] \notin Nat
    BY <1>1, <1>7, <2>1
  <2>3. m - 1 \in Nat /\ m - 1 <= N /\ ~(m <= m - 1)
    BY <1>1, <2>2
  <2>4. s[m - 1] \in Nat
    BY <2>1, <2>3
  <2>. QED
    BY <1>1, <1>7, <2>2, <2>4, SMTT(30)
<1>. QED
  BY <1>7, <1>8 DEF s, N

LEMMA SumsStep ==
  ASSUME NEW w \in Seq(Nat), NEW n \in Nat, n < Len(w)
  PROVE  Sums(w)[n + 1] = Sums(w)[n] + w[n + 1] /\ Sums(w)[n] \in Nat /\ w[n + 1] \in Nat
<1>1. n + 1 \in 1 .. Len(w) /\ n \in 0 .. Len(w) /\ n + 1 - 1 = n
  OBVIOUS
<1>2. Sums(w)[n + 1] = Sums(w)[n + 1 - 1] + w[n + 1] /\ Sums(w)[n] \in Nat
  BY <1>1, SumsAre
<1>3. w[n + 1] \in Nat
  BY <1>1, ElementOfSeq
<1>. QED
  BY <1>1, <1>2, <1>3

Shifted(w, v, d, n, a, b) == Sums(v)[n + d] + a = Sums(w)[n] + b

\* Behind place m, v has the numbers of w d places later: the sums keep the
\* difference they have at m.
LEMMA SumsShift ==
  ASSUME NEW w \in Seq(Nat), NEW v \in Seq(Nat), NEW d \in Nat, Len(v) = Len(w) + d,
         NEW a \in Nat, NEW b \in Nat, NEW m \in 0 .. Len(w),
         Shifted(w, v, d, m, a, b),
         \A k \in m + 1 .. Len(w) : v[k + d] = w[k]
  PROVE  \A n \in m .. Len(w) : Shifted(w, v, d, n, a, b)
<1>. DEFINE N == Len(w)
            s == Sums(w)
            t == Sums(v)
            Bad == {n \in Nat : n \in m .. N /\ t[n + d] + a # s[n] + b}
<1>1. N \in Nat /\ m \in 0 .. N
  OBVIOUS
<1>2. /\ \A n \in 1 .. N : s[n] = s[n - 1] + w[n]
      /\ \A n \in 0 .. N : s[n] \in Nat
  BY SumsAre
<1>3. /\ \A n \in 1 .. N + d : t[n] = t[n - 1] + v[n]
      /\ \A n \in 0 .. N + d : t[n] \in Nat
  BY SumsAre
<1>4. \A n \in 1 .. N : w[n] \in Nat
  BY ElementOfSeq
<1>. HIDE DEF N, s, t
<1>5. Bad = {}
  <2>. SUFFICES ASSUME Bad # {} PROVE FALSE
    OBVIOUS
  <2>1. PICK n \in Bad : \A k \in Bad : n <= k
    <3>1. Bad \subseteq Nat
      OBVIOUS
    <3>. HIDE DEF Bad
    <3>. QED
      BY <3>1, SmallestOfNats
  <2>2. n \in m .. N /\ t[n + d] + a # s[n] + b
    BY <2>1
  <2>3. n # m
    BY <2>2 DEF Shifted, s, t
  <2>4. /\ n - 1 \in m .. N /\ n - 1 \in Nat /\ ~(n <= n - 1) /\ n \in 1 .. N
        /\ n \in m + 1 .. N /\ n + d \in 1 .. N + d /\ n - 1 \in 0 .. N /\ n - 1 + d \in 0 .. N + d
        /\ n + d - 1 = n - 1 + d
    BY <1>1, <2>2, <2>3
  <2>5. t[n - 1 + d] + a = s[n - 1] + b
    BY <2>1, <2>4
  <2>6. t[n + d] = t[n - 1 + d] + v[n + d]
    BY <1>3, <2>4
  <2>7. s[n] = s[n - 1] + w[n] /\ v[n + d] = w[n] /\ w[n] \in Nat
    BY <1>2, <1>4, <2>4 DEF N
  <2>8. s[n - 1] \in Nat /\ t[n - 1 + d] \in Nat
    BY <1>2, <1>3, <2>4
  <2>. DEFINE x == t[n - 1 + d]
              y == s[n - 1]
              z == w[n]
  <2>9. x + z + a # y + z + b /\ x + a = y + b /\ x \in Nat /\ y \in Nat /\ z \in Nat
    BY <2>2, <2>5, <2>6, <2>7, <2>8
  <2>. HIDE DEF x, y, z
  <2>. QED
    BY <2>9
<1>6. ASSUME NEW n \in m .. N PROVE t[n + d] + a = s[n] + b
  <2>1. n \in Nat
    BY <1>1
  <2>. QED
    BY <1>5, <2>1
<1>. QED
  BY <1>6 DEF Shifted, N, s, t

LEMMA SumsAgree ==
  ASSUME NEW w \in Seq(Nat), NEW v \in Seq(Nat), NEW m \in Nat, m <= Len(w), m <= Len(v),
         \A k \in 1 .. m : v[k] = w[k]
  PROVE  Sums(v)[m] = Sums(w)[m]
<1>. DEFINE s == Sums(w)
            t == Sums(v)
            Bad == {n \in Nat : n <= m /\ t[n] # s[n]}
<1>1. s[0] = 0 /\ \A n \in 1 .. m : s[n] = s[n - 1] + w[n]
  BY SumsAre
<1>2. t[0] = 0 /\ \A n \in 1 .. m : t[n] = t[n - 1] + v[n]
  BY SumsAre
<1>. HIDE DEF s, t
<1>3. Bad = {}
  <2>. SUFFICES ASSUME Bad # {} PROVE FALSE
    OBVIOUS
  <2>1. PICK n \in Bad : \A k \in Bad : n <= k
    <3>1. Bad \subseteq Nat
      OBVIOUS
    <3>. HIDE DEF Bad
    <3>. QED
      BY <3>1, SmallestOfNats
  <2>2. n \in 1 .. m /\ t[n] # s[n]
    BY <1>1, <1>2, <2>1
  <2>3. n - 1 \in Nat /\ n - 1 <= m /\ ~(n <= n - 1)
    BY <2>2
  <2>4. t[n - 1] = s[n - 1]
    BY <2>1, <2>3
  <2>. QED
    BY <1>1, <1>2, <2>2, <2>4
<1>. QED
  BY <1>3, SMTT(30) DEF s, t

-----------------------------------------------------------------------------
(* Lists.                                                                   *)

LEMMA ListOf ==
  ASSUME NEW list \in Seq(BlockRecord)
  PROVE  /\ Len(list) \in Nat /\ DOMAIN list = 1 .. Len(list)
         /\ \A i \in DOMAIN list : /\ list[i] \in BlockRecord
                                   /\ list[i].at \in Nat /\ list[i].size \in Nat
                                   /\ EndOf(list[i]) \in Nat
<1>1. Len(list) \in Nat /\ DOMAIN list = 1 .. Len(list)
  OBVIOUS
<1>2. ASSUME NEW i \in DOMAIN list
      PROVE  /\ list[i] \in BlockRecord /\ list[i].at \in Nat /\ list[i].size \in Nat
             /\ EndOf(list[i]) \in Nat
  <2>1. list[i] \in BlockRecord
    BY <1>2
  <2>2. list[i].at \in Nat /\ list[i].size \in Nat
    BY <2>1, Constants DEF BlockRecord
  <2>. QED
    BY <2>2, Constants DEF EndOf
<1>. QED
  BY <1>1, <1>2

LEMMA Joins ==
  ASSUME NEW S, NEW s \in Seq(S), NEW t \in Seq(S)
  PROVE  /\ s \o t \in Seq(S) /\ Len(s \o t) = Len(s) + Len(t)
         /\ \A k \in 1 .. Len(s) : (s \o t)[k] = s[k]
         /\ \A k \in 1 .. Len(t) : (s \o t)[Len(s) + k] = t[k]
<1>1. /\ s \o t \in Seq(S) /\ Len(s \o t) = Len(s) + Len(t)
      /\ \A k \in 1 .. Len(s) + Len(t) : (s \o t)[k] = IF k <= Len(s) THEN s[k] ELSE t[k - Len(s)]
  BY ConcatProperties
<1>2. Len(s) \in Nat /\ Len(t) \in Nat
  OBVIOUS
<1>3. ASSUME NEW k \in 1 .. Len(t) PROVE (s \o t)[Len(s) + k] = t[k]
  <2>1. Len(s) + k \in 1 .. Len(s) + Len(t) /\ ~(Len(s) + k <= Len(s)) /\ Len(s) + k - Len(s) = k
    BY <1>2
  <2>. QED
    BY <1>1, <2>1
<1>. QED
  BY <1>1, <1>2, <1>3

\* A block gives place to two.
LEMMA Splits ==
  ASSUME blocks \in Seq(BlockRecord), NEW i \in DOMAIN blocks,
         NEW b \in BlockRecord, NEW rest \in BlockRecord
  PROVE  /\ Split(i, b, rest) \in Seq(BlockRecord) /\ Len(Split(i, b, rest)) = Len(blocks) + 1
         /\ Split(i, b, rest)[i] = b /\ Split(i, b, rest)[i + 1] = rest
         /\ \A k \in 1 .. i - 1 : Split(i, b, rest)[k] = blocks[k]
         /\ \A k \in i + 1 .. Len(blocks) : Split(i, b, rest)[k + 1] = blocks[k]
<1>. DEFINE new == Split(i, b, rest)
            front == SubSeq(blocks, 1, i - 1)
            back == SubSeq(blocks, i + 1, Len(blocks))
            middle == <<b, rest>>
<1>1. /\ Len(blocks) \in Nat /\ i \in 1 .. Len(blocks)
      /\ \A k \in 1 .. Len(blocks) : blocks[k] \in BlockRecord
  OBVIOUS
<1>2. front \in Seq(BlockRecord) /\ Len(front) = i - 1 /\ \A k \in 1 .. i - 1 : front[k] = blocks[k]
  BY <1>1, SubSeqProperties
<1>3. /\ back \in Seq(BlockRecord) /\ Len(back) = Len(blocks) - i
      /\ \A k \in 1 .. Len(blocks) - i : back[k] = blocks[i + k]
  BY <1>1, SubSeqProperties
<1>4. middle \in Seq(BlockRecord) /\ Len(middle) = 2 /\ middle[1] = b /\ middle[2] = rest
  OBVIOUS
<1>5. new = (front \o middle) \o back
  BY DEF Split
<1>. HIDE DEF new, front, middle, back
<1>6. /\ front \o middle \in Seq(BlockRecord) /\ Len(front \o middle) = i + 1
      /\ \A k \in 1 .. i - 1 : (front \o middle)[k] = blocks[k]
      /\ (front \o middle)[i] = b /\ (front \o middle)[i + 1] = rest
  <2>0. front \in Seq(BlockRecord) /\ middle \in Seq(BlockRecord)
    BY <1>2, <1>4
  <2>1. /\ front \o middle \in Seq(BlockRecord) /\ Len(front \o middle) = Len(front) + Len(middle)
        /\ \A k \in 1 .. Len(front) : (front \o middle)[k] = front[k]
        /\ \A k \in 1 .. Len(middle) : (front \o middle)[Len(front) + k] = middle[k]
    BY <2>0, Joins
  <2>2. i - 1 + 2 = i + 1 /\ i - 1 + 1 = i
    BY <1>1
  <2>. QED
    BY <1>2, <1>4, <2>1, <2>2
<1>. DEFINE most == front \o middle
<1>7. /\ most \in Seq(BlockRecord) /\ Len(most) = i + 1
      /\ \A k \in 1 .. i - 1 : most[k] = blocks[k]
      /\ most[i] = b /\ most[i + 1] = rest
  BY <1>6
<1>8. new = most \o back
  BY <1>5
<1>. HIDE DEF most
<1>9. /\ new \in Seq(BlockRecord) /\ Len(new) = Len(most) + Len(back)
      /\ \A k \in 1 .. Len(most) : new[k] = most[k]
      /\ \A k \in 1 .. Len(back) : new[Len(most) + k] = back[k]
  <2>1. most \in Seq(BlockRecord) /\ back \in Seq(BlockRecord)
    BY <1>3, <1>7
  <2>. QED
    BY <1>8, <2>1, Joins
<1>10. ASSUME NEW k \in i + 1 .. Len(blocks) PROVE new[k + 1] = blocks[k]
  <2>1. k - i \in 1 .. Len(blocks) - i
    BY <1>1
  <2>3. i \in Int /\ k \in Int
    BY <1>1
  <2>2. i + 1 + (k - i) = k + 1
    BY <2>3
  <2>4. i + (k - i) = k
    BY <2>3
  <2>5. back[k - i] = blocks[k]
    BY <1>3, <2>1, <2>4
  <2>6. new[i + 1 + (k - i)] = back[k - i]
    BY <1>3, <1>7, <1>9, <2>1
  <2>. QED
    BY <2>2, <2>5, <2>6
<1>11. Len(new) = Len(blocks) + 1 /\ i \in 1 .. Len(most) /\ i + 1 \in 1 .. Len(most)
  BY <1>1, <1>3, <1>7, <1>9, SMTT(30)
<1>. QED
  BY <1>1, <1>7, <1>9, <1>10, <1>11 DEF new

\* The two lie within the one.
LEMMA SplitStaysLaid ==
  ASSUME Laid(blocks), NEW i \in DOMAIN blocks, NEW b \in BlockRecord, NEW rest \in BlockRecord,
         b.at = blocks[i].at, EndOf(b) <= rest.at, EndOf(rest) <= EndOf(blocks[i])
  PROVE  /\ Laid(Split(i, b, rest))
         /\ EndOf(b) = rest.at /\ EndOf(rest) = EndOf(blocks[i]) /\ Tiles(blocks) =>
              Tiles(Split(i, b, rest))
<1>. DEFINE new == Split(i, b, rest)
<1>1. blocks \in Seq(BlockRecord) /\ i \in 1 .. Len(blocks) /\ Len(blocks) \in Nat
  BY DEF Laid
<1>2. /\ new \in Seq(BlockRecord) /\ Len(new) = Len(blocks) + 1
      /\ new[i] = b /\ new[i + 1] = rest
      /\ \A k \in 1 .. i - 1 : new[k] = blocks[k]
      /\ \A k \in i + 1 .. Len(blocks) : new[k + 1] = blocks[k]
  <2>1. blocks \in Seq(BlockRecord)
    BY <1>1
  <2>2. new \in Seq(BlockRecord) /\ Len(new) = Len(blocks) + 1
    BY <2>1, Splits
  <2>3. new[i] = b /\ new[i + 1] = rest
    BY <2>1, Splits
  <2>4. \A k \in 1 .. i - 1 : new[k] = blocks[k]
    BY <2>1, Splits
  <2>5. \A k \in i + 1 .. Len(blocks) : new[k + 1] = blocks[k]
    BY <2>1, Splits
  <2>. QED
    BY <2>2, <2>3, <2>4, <2>5
<1>. HIDE DEF new
<1>. DEFINE old(k) == IF k <= i THEN k ELSE k - 1
<1>3. ASSUME NEW k \in 1 .. Len(blocks) + 1
      PROVE  /\ old(k) \in 1 .. Len(blocks)
             /\ blocks[old(k)].at <= new[k].at /\ EndOf(new[k]) <= EndOf(blocks[old(k)])
             /\ k # i /\ k # i + 1 => new[k] = blocks[old(k)]
  <2>1. \A n \in 1 .. Len(blocks) : /\ blocks[n].at \in Nat /\ EndOf(blocks[n]) \in Nat
    BY <1>1, ListOf
  <2>2. /\ \A n \in 1 .. Len(new) : new[n].at \in Nat /\ EndOf(new[n]) \in Nat
        /\ EndOf(b) \in Nat /\ EndOf(rest) \in Nat /\ b.at <= EndOf(b) /\ rest.at <= EndOf(rest)
    <3>1. /\ \A n \in 1 .. Len(new) : new[n].at \in Nat /\ EndOf(new[n]) \in Nat
          /\ b.at \in Nat /\ b.size \in Nat /\ rest.at \in Nat /\ rest.size \in Nat
      BY <1>2, ListOf, Constants DEF BlockRecord
    <3>2. EndOf(b) = b.at + Header + b.size /\ EndOf(rest) = rest.at + Header + rest.size /\ Header \in Nat
      BY Constants DEF EndOf
    <3>3. EndOf(b) \in Nat /\ b.at <= EndOf(b)
      <4>1. b.at \in Nat /\ b.size \in Nat
        BY <3>1
      <4>. QED
        BY <3>2, <4>1
    <3>4. EndOf(rest) \in Nat /\ rest.at <= EndOf(rest)
      <4>1. rest.at \in Nat /\ rest.size \in Nat
        BY <3>1
      <4>. QED
        BY <3>2, <4>1
    <3>. QED
      BY <3>1, <3>3, <3>4
  <2>3. CASE k < i
    <3>1. k \in 1 .. i - 1 /\ k <= i
      BY <1>1, <1>3, <2>3
    <3>2. new[k] = blocks[k]
      BY <1>2, <3>1
    <3>. QED
      BY <1>1, <2>1, <3>1, <3>2
  <2>4. CASE k = i
    BY <1>1, <1>2, <2>1, <2>2, <2>4
  <2>5. CASE k = i + 1
    BY <1>1, <1>2, <2>1, <2>2, <2>5
  <2>6. CASE k > i + 1
    <3>1. k - 1 \in i + 1 .. Len(blocks) /\ k - 1 + 1 = k /\ ~(k <= i)
      BY <1>1, <1>3, <2>6
    <3>2. new[k] = blocks[k - 1]
      BY <1>2, <3>1
    <3>. QED
      BY <1>1, <2>1, <3>1, <3>2
  <2>. QED
    BY <1>1, <1>3, <2>3, <2>4, <2>5, <2>6
<1>4. Laid(new)
  <2>1. new # <<>> /\ new[1].at = 0
    BY <1>1, <1>2 DEF Laid
  <2>2. ASSUME NEW k \in DOMAIN new PROVE EndOf(new[k]) <= PoolSize
    <3>1. k \in 1 .. Len(blocks) + 1
      BY <1>2
    <3>2. EndOf(blocks[old(k)]) <= PoolSize /\ EndOf(blocks[old(k)]) \in Nat
      BY <1>1, <1>3, <3>1, ListOf DEF Laid
    <3>3. EndOf(new[k]) \in Nat
      BY <1>2, ListOf
    <3>. QED
      BY <1>3, <3>1, <3>2, <3>3, Constants
  <2>3. ASSUME NEW x \in DOMAIN new, NEW y \in DOMAIN new, x < y
        PROVE  EndOf(new[x]) <= new[y].at
    <3>1. x \in 1 .. Len(blocks) + 1 /\ y \in 1 .. Len(blocks) + 1
      BY <1>2
    <3>2. CASE x = i /\ y = i + 1
      BY <1>2, <3>2
    <3>3. CASE ~(x = i /\ y = i + 1)
      <4>1. old(x) < old(y)
        BY <1>1, <2>3, <3>1, <3>3
      <4>2. EndOf(blocks[old(x)]) <= blocks[old(y)].at
        BY <1>1, <1>3, <3>1, <4>1 DEF Laid
      <4>3. /\ EndOf(new[x]) \in Nat /\ EndOf(blocks[old(x)]) \in Nat
            /\ new[y].at \in Nat /\ blocks[old(y)].at \in Nat
        BY <1>1, <1>2, <1>3, <3>1, ListOf
      <4>. QED
        BY <1>3, <3>1, <4>2, <4>3, SMTT(30)
    <3>. QED
      BY <3>2, <3>3
  <2>. QED
    BY <1>2, <2>1, <2>2, <2>3 DEF Laid
<1>5. ASSUME EndOf(b) = rest.at, EndOf(rest) = EndOf(blocks[i]), Tiles(blocks)
      PROVE  Tiles(new)
  <2>. SUFFICES ASSUME NEW k \in 1 .. Len(blocks) + 1
                PROVE  EndOf(new[k]) = IF k = Len(blocks) + 1 THEN PoolSize ELSE new[k + 1].at
    BY <1>2 DEF Tiles
  <2>1. \A n \in 1 .. Len(blocks) :
           EndOf(blocks[n]) = IF n = Len(blocks) THEN PoolSize ELSE blocks[n + 1].at
    BY <1>1, <1>5 DEF Tiles
  <2>2. CASE k < i
    <3>1. k \in 1 .. i - 1 /\ k \in 1 .. Len(blocks) /\ k # Len(blocks) /\ k # Len(blocks) + 1
      BY <1>1, <2>2
    <3>2. new[k] = blocks[k]
      BY <1>2, <3>1
    <3>3. new[k + 1].at = blocks[k + 1].at
      <4>1. CASE k + 1 = i
        BY <1>2, <4>1
      <4>2. CASE k + 1 # i
        <5>1. k + 1 \in 1 .. i - 1
          BY <1>1, <3>1, <4>2
        <5>. QED
          BY <1>2, <5>1
      <4>. QED
        BY <4>1, <4>2
    <3>. QED
      BY <2>1, <3>1, <3>2, <3>3
  <2>3. CASE k = i
    BY <1>1, <1>2, <1>5, <2>3
  <2>4. CASE k = i + 1 /\ i < Len(blocks)
    <3>1. i + 1 \in i + 1 .. Len(blocks)
      BY <1>1, <2>4
    <3>2. new[i + 1 + 1] = blocks[i + 1]
      BY <1>2, <3>1
    <3>. QED
      BY <1>1, <1>2, <1>5, <2>1, <2>4, <3>2
  <2>5. CASE k = i + 1 /\ i = Len(blocks)
    BY <1>1, <1>2, <1>5, <2>1, <2>5
  <2>6. CASE k > i + 1
    <3>1. k - 1 \in i + 1 .. Len(blocks)
      BY <1>1, <2>6
    <3>2. k - 1 + 1 = k
      OBVIOUS
    <3>3. new[k] = blocks[k - 1]
      BY <1>2, <3>1, <3>2
    <3>4. k # Len(blocks) + 1 => k \in i + 1 .. Len(blocks)
      BY <1>1, <2>6
    <3>5. k # Len(blocks) + 1 => new[k + 1] = blocks[k]
      BY <1>2, <3>4
    <3>6. k - 1 \in 1 .. Len(blocks) /\ (k - 1 = Len(blocks) <=> k = Len(blocks) + 1)
      BY <1>1, <3>1
    <3>7. EndOf(blocks[k - 1]) = IF k = Len(blocks) + 1 THEN PoolSize ELSE blocks[k].at
      BY <2>1, <3>2, <3>6
    <3>. QED
      BY <3>3, <3>5, <3>7
  <2>. QED
    BY <1>1, <2>2, <2>3, <2>4, <2>5, <2>6
<1>. QED
  BY <1>4, <1>5 DEF new

\* Marks may change.
LEMMA SameShape ==
  ASSUME NEW list, Laid(list), NEW new \in Seq(BlockRecord), Len(new) = Len(list),
         \A k \in DOMAIN list : new[k].at = list[k].at /\ new[k].size = list[k].size
  PROVE  Laid(new) /\ (Tiles(list) => Tiles(new))
<1>1. list \in Seq(BlockRecord) /\ Len(list) \in Nat /\ DOMAIN list = 1 .. Len(list) /\ DOMAIN new = 1 .. Len(list)
  BY DEF Laid
<1>2. \A k \in DOMAIN list : new[k].at = list[k].at /\ EndOf(new[k]) = EndOf(list[k])
  BY DEF EndOf
<1>3. Len(list) >= 1 /\ new # <<>>
  BY <1>1 DEF Laid
<1>4. Laid(new)
  BY <1>1, <1>2, <1>3 DEF Laid
<1>5. Tiles(list) => Tiles(new)
  BY <1>1, <1>2 DEF Tiles
<1>. QED
  BY <1>4, <1>5

-----------------------------------------------------------------------------
(* What was asked for in all.                                               *)

LEMMA WeightsAre ==
  ASSUME NEW list \in Seq(BlockRecord)
  PROVE  /\ Weights(list) \in Seq(Nat) /\ Len(Weights(list)) = Len(list)
         /\ \A i \in 1 .. Len(list) : Weights(list)[i] = Weight(list[i])
         /\ \A i \in 1 .. Len(list) : Weight(list[i]) \in Nat
         /\ Total(list) \in Nat
<1>1. \A i \in 1 .. Len(list) : list[i] \in BlockRecord
  OBVIOUS
<1>2. \A b \in BlockRecord : b.orig \in Nat
  BY Constants DEF BlockRecord
<1>3. \A i \in 1 .. Len(list) : Weight(list[i]) \in Nat
  BY <1>1, <1>2 DEF Weight
<1>4. Len(list) \in Nat
  OBVIOUS
<1>5. Weights(list) \in Seq(Nat)
  BY <1>3, <1>4 DEF Weights
<1>6. Len(Weights(list)) = Len(list)
  BY <1>4 DEF Weights
<1>7. \A i \in 1 .. Len(list) : Weights(list)[i] = Weight(list[i])
  BY DEF Weights
<1>8. Total(list) \in Nat
  <2>1. Len(list) \in 0 .. Len(Weights(list))
    BY <1>4, <1>6
  <2>. QED
    BY <1>5, <2>1, SumsAre DEF Total
<1>. QED
  BY <1>3, <1>5, <1>6, <1>7, <1>8

LEMMA TotalOfMore ==
  ASSUME NEW list \in Seq(BlockRecord), NEW new \in Seq(BlockRecord), Len(new) = Len(list) + 1,
         \A k \in 1 .. Len(list) : new[k] = list[k]
  PROVE  Total(new) = Total(list) + Weight(new[Len(list) + 1])
<1>. DEFINE m == Len(list)
            w == Weights(list)
            v == Weights(new)
<1>1. m \in Nat /\ w \in Seq(Nat) /\ v \in Seq(Nat) /\ Len(w) = m /\ Len(v) = m + 1
  BY WeightsAre
<1>2. \A k \in 1 .. m : v[k] = w[k]
  BY DEF Weights
<1>3. v[m + 1] = Weight(new[m + 1])
  BY <1>1 DEF Weights
<1>4. Total(new) = Sums(v)[m + 1] /\ Total(list) = Sums(w)[m]
  BY DEF Total
<1>. HIDE DEF m, w, v
<1>5. Sums(v)[m] = Sums(w)[m]
  <2>1. m <= Len(w) /\ m <= Len(v)
    BY <1>1
  <2>. QED
    BY <1>1, <1>2, <2>1, SumsAgree
<1>6. Sums(v)[m + 1] = Sums(v)[m] + v[m + 1]
  <2>1. m < Len(v)
    BY <1>1
  <2>. QED
    BY <1>1, <2>1, SumsStep
<1>. QED
  BY <1>3, <1>4, <1>5, <1>6 DEF m

LEMMA TotalOfSame ==
  ASSUME NEW list \in Seq(BlockRecord), NEW new \in Seq(BlockRecord), Len(new) = Len(list),
         \A k \in 1 .. Len(list) : Weight(new[k]) = Weight(list[k])
  PROVE  Total(new) = Total(list)
<1>. DEFINE m == Len(list)
            w == Weights(list)
            v == Weights(new)
<1>1. m \in Nat /\ w \in Seq(Nat) /\ v \in Seq(Nat) /\ Len(w) = m /\ Len(v) = m
  BY WeightsAre
<1>2. \A k \in 1 .. m : v[k] = w[k]
  BY DEF Weights
<1>3. Total(new) = Sums(v)[m] /\ Total(list) = Sums(w)[m]
  BY DEF Total
<1>. HIDE DEF m, w, v
<1>4. m <= Len(w) /\ m <= Len(v)
  BY <1>1
<1>. QED
  BY <1>1, <1>2, <1>3, <1>4, SumsAgree

\* Block i is changed; d more that weigh nothing follow it.
LEMMA TotalOfChanged ==
  ASSUME NEW list \in Seq(BlockRecord), NEW new \in Seq(BlockRecord), NEW d \in 0 .. 1,
         Len(new) = Len(list) + d, NEW i \in 1 .. Len(list),
         \A k \in 1 .. i - 1 : new[k] = list[k],
         \A k \in i + 1 .. Len(list) : new[k + d] = list[k],
         d = 1 => Weight(new[i + 1]) = 0
  PROVE  Total(new) + Weight(list[i]) = Total(list) + Weight(new[i])
<1>. DEFINE N == Len(list)
            w == Weights(list)
            v == Weights(new)
<1>1. N \in Nat /\ w \in Seq(Nat) /\ v \in Seq(Nat) /\ Len(w) = N /\ Len(v) = N + d /\ i \in 1 .. N
  BY WeightsAre
<1>2. /\ \A k \in 1 .. N : w[k] = Weight(list[k]) /\ w[k] \in Nat
      /\ \A k \in 1 .. N + d : v[k] = Weight(new[k]) /\ v[k] \in Nat
  BY WeightsAre
<1>3. Total(new) = Sums(v)[N + d] /\ Total(list) = Sums(w)[N]
  BY DEF Total
<1>4. \A k \in 1 .. i - 1 : new[k] = list[k]
  OBVIOUS
<1>5. \A k \in i + 1 .. N : new[k + d] = list[k]
  OBVIOUS
<1>. HIDE DEF N, w, v
<1>6. Sums(v)[i - 1] = Sums(w)[i - 1]
  <2>1. i - 1 \in Nat /\ i - 1 <= Len(w) /\ i - 1 <= Len(v)
    BY <1>1
  <2>2. \A k \in 1 .. i - 1 : k \in 1 .. N /\ k \in 1 .. N + d
    BY <1>1
  <2>3. \A k \in 1 .. i - 1 : v[k] = w[k]
    BY <1>2, <1>4, <2>2
  <2>. QED
    BY <1>1, <2>1, <2>3, SumsAgree
<1>7. /\ Sums(w)[i] = Sums(w)[i - 1] + w[i] /\ Sums(v)[i] = Sums(v)[i - 1] + v[i]
      /\ Sums(w)[i - 1] \in Nat /\ w[i] \in Nat /\ v[i] \in Nat
  <2>1. i \in 1 .. Len(w) /\ i \in 1 .. Len(v) /\ i - 1 \in 0 .. Len(w) /\ i \in 1 .. N + d
    BY <1>1
  <2>2. Sums(w)[i] = Sums(w)[i - 1] + w[i] /\ Sums(w)[i - 1] \in Nat
    BY <1>1, <2>1, SumsAre
  <2>3. Sums(v)[i] = Sums(v)[i - 1] + v[i]
    BY <1>1, <2>1, SumsAre
  <2>. QED
    BY <1>1, <1>2, <2>1, <2>2, <2>3
<1>8. Sums(v)[i + d] = Sums(v)[i]
  <2>1. CASE d = 0
    <3>1. i + d = i
      BY <1>1, <2>1
    <3>. QED
      BY <3>1
  <2>2. CASE d = 1
    <3>1. i \in Nat /\ i < Len(v) /\ i + 1 \in 1 .. N + d
      BY <1>1, <2>2
    <3>2. Sums(v)[i + 1] = Sums(v)[i] + v[i + 1] /\ Sums(v)[i] \in Nat
      BY <1>1, <3>1, SumsStep
    <3>3. v[i + 1] = 0
      BY <1>2, <2>2, <3>1
    <3>. QED
      BY <2>2, <3>2, <3>3
  <2>. QED
    BY <2>1, <2>2
<1>9. Sums(v)[i + d] + w[i] = Sums(w)[i] + v[i]
  <2>. DEFINE x == Sums(w)[i - 1]
              y == w[i]
              z == v[i]
  <2>1. /\ Sums(v)[i + d] = x + z /\ Sums(w)[i] = x + y /\ x \in Nat /\ y \in Nat /\ z \in Nat
    BY <1>6, <1>7, <1>8
  <2>. HIDE DEF x, y, z
  <2>2. x + z + y = x + y + z
    BY <2>1
  <2>. QED
    BY <2>1, <2>2 DEF y, z
<1>10. Sums(v)[N + d] + w[i] = Sums(w)[N] + v[i]
  <2>1. Len(v) = Len(w) + d /\ i \in 0 .. Len(w) /\ N \in i .. Len(w) /\ d \in Nat
    BY <1>1
  <2>2. \A k \in i + 1 .. Len(w) : v[k + d] = w[k]
    <3>1. \A k \in i + 1 .. N : k \in 1 .. N /\ k + d \in 1 .. N + d
      BY <1>1
    <3>2. ASSUME NEW k \in i + 1 .. N PROVE v[k + d] = w[k]
      <4>1. v[k + d] = Weight(new[k + d]) /\ w[k] = Weight(list[k])
        BY <1>2, <3>1
      <4>2. new[k + d] = list[k]
        BY <1>5
      <4>. QED
        BY <4>1, <4>2
    <3>. QED
      BY <1>1, <3>2
  <2>3. w[i] \in Nat /\ v[i] \in Nat
    BY <1>7
  <2>4. \A n \in i .. Len(w) : Sums(v)[n + d] + w[i] = Sums(w)[n] + v[i]
    <3>. DEFINE a == w[i]
                b == v[i]
    <3>1. a \in Nat /\ b \in Nat /\ Shifted(w, v, d, i, a, b) /\ w \in Seq(Nat) /\ v \in Seq(Nat)
      BY <1>1, <1>9, <2>3 DEF Shifted
    <3>. HIDE DEF a, b
    <3>2. \A n \in i .. Len(w) : Shifted(w, v, d, n, a, b)
      BY <2>1, <2>2, <3>1, SumsShift
    <3>. QED
      BY <3>2 DEF Shifted, a, b
  <2>. QED
    BY <2>1, <2>4
<1>11. i \in 1 .. N + d
  BY <1>1
<1>. QED
  BY <1>1, <1>2, <1>3, <1>10, <1>11

\* Requests that fit their blocks fit in the pool together.
LEMMA TotalFits ==
  ASSUME NEW list, Laid(list), \A i \in DOMAIN list : list[i].used => list[i].orig <= list[i].size
  PROVE  Total(list) \in Nat /\ Total(list) <= PoolSize
<1>. DEFINE N == Len(list)
            w == Weights(list)
            s == Sums(w)
            Bad == {n \in Nat : n \in 1 .. N /\ ~(s[n] <= EndOf(list[n]))}
<1>1. list \in Seq(BlockRecord) /\ DOMAIN list = 1 .. N /\ N \in Nat
  BY DEF Laid
<1>2. N >= 1
  BY <1>1 DEF Laid
<1>3. /\ \A k \in 1 .. N : /\ list[k].at \in Nat /\ list[k].size \in Nat /\ EndOf(list[k]) \in Nat
                           /\ EndOf(list[k]) = list[k].at + Header + list[k].size
                           /\ EndOf(list[k]) <= PoolSize
  <2>1. \A k \in 1 .. N : list[k].at \in Nat /\ list[k].size \in Nat /\ EndOf(list[k]) \in Nat
    BY <1>1, ListOf
  <2>2. \A k \in 1 .. N : EndOf(list[k]) = list[k].at + Header + list[k].size
    BY DEF EndOf
  <2>3. \A k \in 1 .. N : EndOf(list[k]) <= PoolSize
    BY <1>1 DEF Laid
  <2>. QED
    BY <2>1, <2>2, <2>3
<1>4. \A k \in 1 .. N : w[k] \in Nat /\ w[k] <= list[k].size
  <2>1. \A k \in 1 .. N : w[k] = Weight(list[k]) /\ w[k] \in Nat
    BY <1>1, WeightsAre
  <2>2. \A k \in 1 .. N : Weight(list[k]) <= list[k].size
    BY <1>1, <1>3 DEF Weight
  <2>. QED
    BY <2>1, <2>2
<1>5. s[0] = 0 /\ (\A k \in 1 .. N : s[k] = s[k - 1] + w[k]) /\ (\A k \in 0 .. N : s[k] \in Nat)
  <2>1. w \in Seq(Nat) /\ Len(w) = N
    BY <1>1, WeightsAre
  <2>. HIDE DEF w, N
  <2>. QED
    BY <2>1, SumsAre
<1>6. Total(list) = s[N]
  BY DEF Total
<1>7. \A k \in 1 .. N : k # 1 => k - 1 \in 1 .. N /\ EndOf(list[k - 1]) <= list[k].at
  <2>. SUFFICES ASSUME NEW k \in 1 .. N, k # 1
                PROVE  k - 1 \in 1 .. N /\ EndOf(list[k - 1]) <= list[k].at
    OBVIOUS
  <2>0. N \in Nat
    BY <1>1
  <2>1. k - 1 \in 1 .. N /\ k - 1 < k
    BY <2>0
  <2>. QED
    BY <1>1, <2>1 DEF Laid
<1>0. Header \in Nat /\ PoolSize \in Nat /\ N \in Nat
  BY <1>1, Constants
<1>. HIDE DEF N, w, s
<1>8. Bad = {}
  <2>. SUFFICES ASSUME Bad # {} PROVE FALSE
    OBVIOUS
  <2>1. PICK n \in Bad : \A k \in Bad : n <= k
    <3>1. Bad \subseteq Nat
      OBVIOUS
    <3>. HIDE DEF Bad
    <3>. QED
      BY <3>1, SmallestOfNats
  <2>2. n \in 1 .. N /\ ~(s[n] <= EndOf(list[n]))
    BY <2>1
  <2>3. s[n - 1] \in Nat /\ s[n - 1] <= list[n].at
    <3>1. CASE n = 1
      <4>1. s[n - 1] = 0 /\ list[n].at \in Nat
        BY <1>3, <1>5, <2>2, <3>1
      <4>. QED
        BY <4>1
    <3>2. CASE n # 1
      <4>1. n - 1 \in Nat /\ n - 1 \in 1 .. N /\ ~(n <= n - 1) /\ n - 1 \in 0 .. N
        BY <1>0, <2>2, <3>2
      <4>2. s[n - 1] <= EndOf(list[n - 1])
        BY <2>1, <4>1
      <4>3. EndOf(list[n - 1]) <= list[n].at
        BY <1>7, <2>2, <3>2
      <4>4. s[n - 1] \in Nat /\ EndOf(list[n - 1]) \in Nat /\ list[n].at \in Nat
        BY <1>3, <1>5, <2>2, <4>1
      <4>. QED
        BY <4>2, <4>3, <4>4
    <3>. QED
      BY <3>1, <3>2
  <2>4. /\ s[n] = s[n - 1] + w[n] /\ w[n] \in Nat /\ w[n] <= list[n].size
        /\ EndOf(list[n]) = list[n].at + Header + list[n].size
        /\ list[n].at \in Nat /\ list[n].size \in Nat
    BY <1>3, <1>4, <1>5, <2>2
  <2>. DEFINE x == s[n - 1]
              y == w[n]
              at == list[n].at
              size == list[n].size
  <2>5. ~(x + y <= at + Header + size) /\ x <= at /\ y <= size /\ x \in Nat /\ y \in Nat /\ at \in Nat /\ size \in Nat
    BY <2>2, <2>3, <2>4
  <2>. HIDE DEF x, y, at, size
  <2>. QED
    BY <1>0, <2>5
<1>9. N \in 1 .. N /\ N \in 0 .. N
  BY <1>0, <1>2 DEF N
<1>10. s[N] <= EndOf(list[N])
  BY <1>0, <1>8, <1>9
<1>11. s[N] \in Nat /\ EndOf(list[N]) \in Nat /\ EndOf(list[N]) <= PoolSize
  BY <1>3, <1>5, <1>9
<1>. QED
  BY <1>0, <1>6, <1>10, <1>11

-----------------------------------------------------------------------------
(* Merging.                                                                 *)

\* The recursion of MergedFirst is one.
LEMMA MergedFirstIs ==
  ASSUME NEW list, NEW N \in Nat, DOMAIN list = 1 .. N
  PROVE  \A n \in 1 .. N :
           MergedFirst(list)[n] = IF n = 1 THEN <<list[1]>>
                                  ELSE Joined(MergedFirst(list)[n - 1], list[n])
<1>. DEFINE Rec(g, m) == /\ g = [n \in 1 .. m |-> g[n]]
                         /\ \A n \in 1 .. m : g[n] = IF n = 1 THEN <<list[1]>>
                                                     ELSE Joined(g[n - 1], list[n])
            Bad == {m \in Nat : m <= N /\ ~\E g : Rec(g, m)}
<1>1. Bad = {}
  <2>. SUFFICES ASSUME Bad # {} PROVE FALSE
    OBVIOUS
  <2>1. PICK m \in Bad : \A k \in Bad : m <= k
    <3>1. Bad \subseteq Nat
      OBVIOUS
    <3>. HIDE DEF Bad
    <3>. QED
      BY <3>1, SmallestOfNats
  <2>2. m \in Nat /\ m <= N /\ ~\E g : Rec(g, m)
    BY <2>1
  <2>3. m # 0
    <3>1. Rec([n \in 1 .. 0 |-> n], 0)
      OBVIOUS
    <3>. QED
      BY <2>2, <3>1
  <2>4. PICK g : Rec(g, m - 1)
    <3>1. m - 1 \in Nat /\ m - 1 <= N /\ ~(m <= m - 1)
      BY <2>2, <2>3
    <3>2. m - 1 \notin Bad
      BY <2>1, <3>1
    <3>. HIDE DEF Rec
    <3>. QED
      BY <3>1, <3>2
  <2>. DEFINE new == IF m = 1 THEN <<list[1]>> ELSE Joined(g[m - 1], list[m])
              h == [n \in 1 .. m |-> IF n = m THEN new ELSE g[n]]
  <2>5. ASSUME NEW n \in 1 .. m
        PROVE  h[n] = IF n = 1 THEN <<list[1]>> ELSE Joined(h[n - 1], list[n])
    <3>1. n # 1 => n - 1 \in 1 .. m /\ n - 1 # m
      BY <2>2
    <3>2. n # 1 => h[n - 1] = g[n - 1]
      BY <3>1
    <3>3. CASE n = m
      BY <3>2, <3>3
    <3>4. CASE n # m
      <4>1. n \in 1 .. m - 1
        BY <2>2, <3>4
      <4>. QED
        BY <2>4, <3>2, <3>4, <4>1
    <3>. QED
      BY <3>3, <3>4
  <2>6. h = [n \in 1 .. m |-> h[n]]
    OBVIOUS
  <2>. HIDE DEF h
  <2>. QED
    BY <2>2, <2>5, <2>6
<1>2. \E g : Rec(g, N)
  BY <1>1
<1>3. PICK g : g = [n \in DOMAIN list |-> IF n = 1 THEN <<list[1]>> ELSE Joined(g[n - 1], list[n])]
  <2>1. PICK f : Rec(f, N)
    BY <1>2
  <2>2. f = [n \in DOMAIN list |-> f[n]]
    BY <2>1
  <2>3. \A n \in DOMAIN list : f[n] = IF n = 1 THEN <<list[1]>> ELSE Joined(f[n - 1], list[n])
    BY <2>1
  <2>4. f = [n \in DOMAIN list |-> IF n = 1 THEN <<list[1]>> ELSE Joined(f[n - 1], list[n])]
    BY <2>2, <2>3
  <2>. QED
    BY <2>4
<1>4. MergedFirst(list) = CHOOSE f : f = [n \in DOMAIN list |->
                            IF n = 1 THEN <<list[1]>> ELSE Joined(f[n - 1], list[n])]
  BY DEF MergedFirst
<1>5. MergedFirst(list) = [n \in DOMAIN list |->
                            IF n = 1 THEN <<list[1]>> ELSE Joined(MergedFirst(list)[n - 1], list[n])]
  BY <1>3, <1>4
<1>. QED
  BY <1>5

LEMMA JoinedIs ==
  ASSUME NEW D \in Seq(BlockRecord), D # <<>>, NEW b \in BlockRecord,
         EndOf(D[Len(D)]) <= b.at, EndOf(b) <= PoolSize
  PROVE  /\ Joined(D, b) \in Seq(BlockRecord)
         /\ D[Len(D)].used \/ b.used =>
              /\ Len(Joined(D, b)) = Len(D) + 1 /\ Joined(D, b)[Len(D) + 1] = b
              /\ \A k \in 1 .. Len(D) : Joined(D, b)[k] = D[k]
         /\ ~(D[Len(D)].used \/ b.used) =>
              /\ Len(Joined(D, b)) = Len(D)
              /\ \A k \in 1 .. Len(D) - 1 : Joined(D, b)[k] = D[k]
              /\ Joined(D, b)[Len(D)].at = D[Len(D)].at
              /\ ~Joined(D, b)[Len(D)].used
              /\ EndOf(Joined(D, b)[Len(D)]) = EndOf(D[Len(D)]) + b.size + Header
<1>. DEFINE m == Len(D)
<1>1. m \in Nat /\ m >= 1 /\ DOMAIN D = 1 .. m /\ Last(D) = D[m]
  BY DEF Last
<1>2. D[m] \in BlockRecord /\ D[m].at \in Nat /\ D[m].size \in Nat /\ EndOf(D[m]) \in Nat
  BY <1>1, ListOf
<1>3. b.at \in Nat /\ b.size \in Nat /\ b.used \in BOOLEAN
  BY Constants DEF BlockRecord
<1>6. EndOf(b) = b.at + Header + b.size /\ EndOf(D[m]) = D[m].at + Header + D[m].size
  BY DEF EndOf
<1>4. CASE D[m].used \/ b.used
  <2>1. Joined(D, b) = Append(D, b)
    BY <1>1, <1>4 DEF Joined
  <2>2. Append(D, b) \in Seq(BlockRecord) /\ Len(Append(D, b)) = m + 1
    OBVIOUS
  <2>3. Append(D, b)[m + 1] = b
    BY <1>1
  <2>4. \A k \in 1 .. m : Append(D, b)[k] = D[k]
    BY <1>1
  <2>. QED
    BY <1>4, <2>1, <2>2, <2>3, <2>4
<1>5. CASE ~(D[m].used \/ b.used)
  <2>. DEFINE size == D[m].size + b.size + Header
              one == [D[m] EXCEPT !.size = size]
  <2>1. size \in 0 .. PoolSize
    <3>. DEFINE x == D[m].at
                y == D[m].size
    <3>1. x + Header + y <= b.at /\ b.at + Header + b.size <= PoolSize
      BY <1>6
    <3>2. x \in Nat /\ y \in Nat /\ b.at \in Nat /\ b.size \in Nat /\ Header \in Nat /\ PoolSize \in Nat
      BY <1>2, <1>3, Constants
    <3>. HIDE DEF x
    <3>3. y + b.size + Header <= PoolSize
      <4>. HIDE DEF y
      <4>. QED
        BY <3>1, <3>2
    <3>. QED
      BY <3>2, <3>3
  <2>2. size % Word = size
    BY <2>1, Constants, Modulo
  <2>3. Joined(D, b) = [D EXCEPT ![m] = one]
    BY <1>1, <1>5, <2>2 DEF Joined
  <2>4. one \in BlockRecord /\ one.at = D[m].at /\ one.size = size /\ one.used = D[m].used
    <3>1. size \in Addresses
      BY <2>1, Constants
    <3>. HIDE DEF size
    <3>. QED
      BY <1>2, <3>1 DEF BlockRecord
  <2>5. EndOf(one) = EndOf(D[m]) + b.size + Header
    <3>1. EndOf(one) = D[m].at + Header + size
      BY <2>4 DEF EndOf
    <3>2. Header \in Nat
      BY Constants
    <3>3. D[m].at \in Nat /\ D[m].size \in Nat /\ b.size \in Nat /\ EndOf(D[m]) = D[m].at + Header + D[m].size
      BY <1>2, <1>3, <1>6
    <3>. DEFINE x == D[m].at
                y == D[m].size
    <3>4. x \in Nat /\ y \in Nat /\ EndOf(D[m]) = x + Header + y /\ EndOf(one) = x + Header + (y + b.size + Header)
      BY <3>1, <3>3
    <3>. HIDE DEF x, y, one
    <3>. QED
      BY <3>2, <3>3, <3>4
  <2>. HIDE DEF one
  <2>6. /\ Joined(D, b) \in Seq(BlockRecord) /\ Len(Joined(D, b)) = m
        /\ Joined(D, b)[m] = one /\ \A k \in 1 .. m - 1 : Joined(D, b)[k] = D[k]
    <3>1. one \in BlockRecord /\ m \in 1 .. m /\ DOMAIN D = 1 .. m /\ m \in Nat
      BY <1>1, <2>4
    <3>. HIDE DEF m
    <3>2. [D EXCEPT ![m] = one] \in Seq(BlockRecord)
      BY <3>1
    <3>3. Len([D EXCEPT ![m] = one]) = m
      BY <3>1 DEF m
    <3>4. [D EXCEPT ![m] = one][m] = one
      BY <3>1
    <3>5. \A k \in 1 .. m - 1 : [D EXCEPT ![m] = one][k] = D[k]
      BY <3>1
    <3>. QED
      BY <2>3, <3>2, <3>3, <3>4, <3>5
  <2>. QED
    BY <1>5, <2>4, <2>5, <2>6
<1>. QED
  BY <1>4, <1>5

\* What has been merged of a list that ends at e: U are its used blocks, total
\* is what they say was asked for.
Sound(D, e, tiled, U, total) ==
  /\ D \in Seq(BlockRecord) /\ D # <<>> /\ D[1].at = 0
  /\ \A i \in DOMAIN D : EndOf(D[i]) <= e
  /\ \A i, j \in DOMAIN D : i < j => EndOf(D[i]) <= D[j].at
  /\ Mixed(D)
  /\ tiled => EndOf(D[Len(D)]) = e /\ \A i \in 1 .. Len(D) - 1 : EndOf(D[i]) = D[i + 1].at
  /\ \A i \in DOMAIN D : D[i].used => D[i] \in U
  /\ \A x \in U : x.used /\ \E i \in DOMAIN D : D[i] = x
  /\ Total(D) = total

LEMMA JoinedKeeps ==
  ASSUME NEW D, NEW e \in Nat, NEW tiled \in BOOLEAN, NEW U, NEW total,
         Sound(D, e, tiled, U, total),
         NEW b \in BlockRecord, e <= b.at, EndOf(b) <= PoolSize, tiled => e = b.at
  PROVE  Sound(Joined(D, b), EndOf(b), tiled, U \cup {x \in {b} : x.used}, total + Weight(b))
<1>. DEFINE m == Len(D)
            new == Joined(D, b)
            V == U \cup {x \in {b} : x.used}
<1>1. /\ D \in Seq(BlockRecord) /\ m \in Nat /\ m >= 1 /\ DOMAIN D = 1 .. m
      /\ b.at \in Nat /\ b.size \in Nat /\ EndOf(b) \in Nat /\ b.at < EndOf(b)
      /\ EndOf(b) = b.at + Header + b.size
  <2>1. D \in Seq(BlockRecord) /\ m \in Nat /\ m >= 1 /\ DOMAIN D = 1 .. m
    BY DEF Sound
  <2>2. b.at \in Nat /\ b.size \in Nat /\ Header \in Nat \ {0}
    BY Constants DEF BlockRecord
  <2>3. EndOf(b) = b.at + Header + b.size
    BY DEF EndOf
  <2>. QED
    BY <2>1, <2>2, <2>3
<1>0. ASSUME NEW i \in 1 .. m, i # m PROVE i \in 1 .. m - 1 /\ i + 1 \in 1 .. m
  <2>1. m \in Nat /\ i # m
    BY <1>0, <1>1
  <2>. QED
    BY <2>1
<1>2. /\ \A i \in 1 .. m : D[i].at \in Nat /\ EndOf(D[i]) \in Nat /\ EndOf(D[i]) <= e
      /\ \A i \in 1 .. m : EndOf(D[i]) < EndOf(b) /\ EndOf(D[i]) <= b.at
  <2>1. \A i \in 1 .. m : D[i].at \in Nat /\ EndOf(D[i]) \in Nat
    BY <1>1, ListOf
  <2>2. \A i \in 1 .. m : EndOf(D[i]) <= e
    BY <1>1 DEF Sound
  <2>3. b.at \in Nat /\ EndOf(b) \in Nat /\ b.at < EndOf(b)
    BY <1>1
  <2>. DEFINE at == b.at
              end == EndOf(b)
  <2>4. ASSUME NEW i \in 1 .. m
        PROVE  EndOf(D[i]) < end /\ EndOf(D[i]) <= at
    <3>. DEFINE x == EndOf(D[i])
    <3>1. x \in Nat /\ x <= e /\ at \in Nat /\ end \in Nat /\ at < end /\ e <= at
      BY <2>1, <2>2, <2>3
    <3>. HIDE DEF x, at, end
    <3>2. x < end /\ x <= at
      BY <3>1
    <3>. QED
      BY <3>2 DEF x
  <2>. QED
    BY <2>1, <2>2, <2>4
<1>3. EndOf(D[m]) <= b.at /\ D # <<>>
  BY <1>1, <1>2
<1>4. new \in Seq(BlockRecord)
  BY <1>1, <1>3, JoinedIs
<1>7. Total(D) = total /\ Total(D) \in Nat
  BY <1>1, WeightsAre DEF Sound
<1>5. CASE D[m].used \/ b.used
  <2>1. Len(new) = m + 1 /\ new[m + 1] = b
    BY <1>1, <1>3, <1>5, JoinedIs
  <2>2. \A k \in 1 .. m : new[k] = D[k]
    BY <1>1, <1>3, <1>5, JoinedIs
  <2>. HIDE DEF new
  <2>0. DOMAIN new = 1 .. m + 1
    BY <1>4, <2>1
  <2>3. new # <<>> /\ new[1].at = 0
    BY <1>1, <2>1, <2>2 DEF Sound
  <2>4. \A i \in DOMAIN new : EndOf(new[i]) <= EndOf(b)
    BY <1>1, <1>2, <2>0, <2>1, <2>2
  <2>5. ASSUME NEW i \in DOMAIN new, NEW j \in DOMAIN new, i < j PROVE EndOf(new[i]) <= new[j].at
    <3>1. i \in 1 .. m /\ (j \in 1 .. m \/ j = m + 1)
      BY <1>1, <2>0, <2>5
    <3>2. CASE j \in 1 .. m
      BY <1>1, <2>2, <2>5, <3>1, <3>2 DEF Sound
    <3>3. CASE j = m + 1
      BY <1>2, <2>1, <2>2, <3>1, <3>3
    <3>. QED
      BY <3>1, <3>2, <3>3
  <2>6. Mixed(new)
    <3>. SUFFICES ASSUME NEW i \in 1 .. m PROVE new[i].used \/ new[i + 1].used
      BY <1>1, <2>1 DEF Mixed
    <3>1. CASE i = m
      BY <1>1, <1>5, <2>1, <2>2, <3>1
    <3>2. CASE i # m
      <4>1. i \in 1 .. m - 1 /\ i + 1 \in 1 .. m
        BY <1>0, <3>2
      <4>. QED
        BY <2>2, <4>1 DEF Sound, Mixed
    <3>. QED
      BY <3>1, <3>2
  <2>7. tiled => EndOf(new[Len(new)]) = EndOf(b) /\ \A i \in 1 .. Len(new) - 1 : EndOf(new[i]) = new[i + 1].at
    <3>. SUFFICES ASSUME tiled, NEW i \in 1 .. m PROVE EndOf(new[i]) = new[i + 1].at
      BY <1>1, <2>1
    <3>1. CASE i = m
      BY <1>1, <2>1, <2>2, <3>1 DEF Sound
    <3>2. CASE i # m
      <4>1. i \in 1 .. m - 1 /\ i + 1 \in 1 .. m
        BY <1>0, <3>2
      <4>. QED
        BY <2>2, <4>1 DEF Sound
    <3>. QED
      BY <3>1, <3>2
  <2>8. ASSUME NEW i \in DOMAIN new, new[i].used PROVE new[i] \in V
    BY <1>1, <2>0, <2>1, <2>2, <2>8 DEF Sound
  <2>9. ASSUME NEW x \in V PROVE x.used /\ \E i \in DOMAIN new : new[i] = x
    <3>1. CASE x \in U
      <4>1. PICK i \in 1 .. m : x.used /\ D[i] = x
        BY <1>1, <3>1 DEF Sound
      <4>. QED
        BY <1>1, <2>0, <2>2, <4>1
    <3>2. CASE x = b /\ b.used
      BY <1>1, <2>0, <2>1, <3>2
    <3>. QED
      BY <2>9, <3>1, <3>2
  <2>10. Total(new) = total + Weight(b)
    BY <1>1, <1>4, <1>7, <2>1, <2>2, TotalOfMore
  <2>. HIDE DEF V
  <2>. QED
    BY <1>4, <2>10, <2>3, <2>4, <2>5, <2>6, <2>7, <2>8, <2>9 DEF Sound, new, V
<1>6. CASE ~(D[m].used \/ b.used)
  <2>1. Len(new) = m /\ new[m].at = D[m].at /\ ~new[m].used
    BY <1>1, <1>3, <1>6, JoinedIs
  <2>2. \A k \in 1 .. m - 1 : new[k] = D[k]
    BY <1>1, <1>3, <1>6, JoinedIs
  <2>3. EndOf(new[m]) = EndOf(D[m]) + b.size + Header
    BY <1>1, <1>3, <1>6, JoinedIs
  <2>4. EndOf(new[m]) <= EndOf(b) /\ (tiled => EndOf(new[m]) = EndOf(b))
    <3>1. tiled => EndOf(D[m]) = e
      BY DEF Sound
    <3>2. m \in 1 .. m
      BY <1>1
    <3>. DEFINE x == EndOf(D[m])
                y == EndOf(new[m])
                at == b.at
                size == b.size
                end == EndOf(b)
    <3>3. /\ x \in Nat /\ x <= at /\ at \in Nat /\ size \in Nat /\ end = at + Header + size
          /\ y = x + size + Header
      BY <1>1, <1>2, <2>3, <3>2
    <3>4. tiled => x = at
      BY <3>1
    <3>5. Header \in Nat
      BY Constants
    <3>. HIDE DEF x, y, at, size, end
    <3>6. y <= end /\ (x = at => y = end)
      BY <3>3, <3>5
    <3>. QED
      BY <3>4, <3>6 DEF y, end
  <2>. HIDE DEF new
  <2>0. DOMAIN new = 1 .. m /\ new # <<>>
    BY <1>1, <1>4, <2>1
  <2>5. \A k \in 1 .. m : new[k].at = D[k].at
    BY <1>1, <2>1, <2>2
  <2>6. new[1].at = 0
    BY <1>1, <2>5 DEF Sound
  <2>7. \A i \in DOMAIN new : EndOf(new[i]) <= EndOf(b)
    BY <1>1, <1>2, <2>0, <2>2, <2>4
  <2>8. ASSUME NEW i \in DOMAIN new, NEW j \in DOMAIN new, i < j PROVE EndOf(new[i]) <= new[j].at
    <3>1. i \in 1 .. m - 1 /\ i \in 1 .. m /\ j \in 1 .. m
      BY <1>1, <2>0, <2>8
    <3>. QED
      BY <1>1, <2>2, <2>5, <2>8, <3>1 DEF Sound
  <2>9. Mixed(new)
    <3>. SUFFICES ASSUME NEW i \in 1 .. m - 1 PROVE new[i].used \/ new[i + 1].used
      BY <1>1, <2>1 DEF Mixed
    <3>1. D[i].used \/ D[i + 1].used
      BY DEF Sound, Mixed
    <3>2. i + 1 = m \/ i + 1 \in 1 .. m - 1
      <4>1. m \in Nat
        BY <1>1
      <4>. QED
        BY <4>1
    <3>. QED
      BY <1>6, <2>2, <3>1, <3>2
  <2>10. ASSUME tiled, NEW i \in 1 .. m - 1 PROVE EndOf(new[i]) = new[i + 1].at
    <3>1. i + 1 \in 1 .. m
      <4>1. m \in Nat
        BY <1>1
      <4>. QED
        BY <4>1
    <3>. QED
      BY <2>2, <2>5, <2>10, <3>1 DEF Sound
  <2>11. ASSUME NEW i \in DOMAIN new, new[i].used PROVE new[i] \in V
    <3>1. i \in 1 .. m - 1
      BY <1>1, <2>0, <2>1, <2>11
    <3>. QED
      BY <1>1, <2>2, <2>11, <3>1 DEF Sound
  <2>12. ASSUME NEW x \in V PROVE x.used /\ \E i \in DOMAIN new : new[i] = x
    <3>1. x \in U
      BY <1>6
    <3>2. PICK i \in 1 .. m : x.used /\ D[i] = x
      BY <1>1, <3>1 DEF Sound
    <3>3. i \in 1 .. m - 1
      BY <1>1, <1>6, <3>2
    <3>. QED
      BY <2>0, <2>2, <3>2, <3>3
  <2>14. Total(new) = total + Weight(b)
    <3>1. \A k \in 1 .. m : k \in 1 .. m - 1 \/ k = m
      <4>1. m \in Nat
        BY <1>1
      <4>. QED
        BY <4>1
    <3>2. \A k \in 1 .. m : Weight(new[k]) = Weight(D[k])
      BY <1>6, <2>1, <2>2, <3>1 DEF Weight
    <3>3. Total(new) = Total(D)
      BY <1>1, <1>4, <2>1, <3>2, TotalOfSame
    <3>4. Weight(b) = 0
      BY <1>6 DEF Weight
    <3>. QED
      BY <1>7, <3>3, <3>4
  <2>. HIDE DEF V
  <2>13. EndOf(new[Len(new)]) = EndOf(b) \/ ~tiled
    BY <2>1, <2>4
  <2>. QED
    BY <1>4, <2>0, <2>1, <2>6, <2>7, <2>8, <2>9, <2>10, <2>11, <2>12, <2>13, <2>14 DEF Sound, new, V
<1>. QED
  BY <1>5, <1>6

UsedOf(list, n) == {x \in BlockRecord : x.used /\ \E i \in 1 .. n : list[i] = x}

\* Merging leaves no free neighbours and changes nothing else: the blocks lie
\* in the pool without overlap, tile it if they did, and the used ones stay.
LEMMA MergedKeeps ==
  ASSUME NEW list, Laid(list)
  PROVE  /\ Laid(Merged(list)) /\ Mixed(Merged(list)) /\ SameUsed(list, Merged(list))
         /\ Tiles(list) => Tiles(Merged(list))
         /\ Total(Merged(list)) = Total(list)
<1>. DEFINE N == Len(list)
            M == MergedFirst(list)
            tiled == Tiles(list)
            sums == Sums(Weights(list))
            Good(n) == Sound(M[n], EndOf(list[n]), tiled, UsedOf(list, n), sums[n])
            Bad == {n \in Nat : n \in 1 .. N /\ ~Good(n)}
<1>0. N \in Nat
  BY DEF Laid
<1>1. list \in Seq(BlockRecord) /\ N >= 1 /\ DOMAIN list = 1 .. N /\ tiled \in BOOLEAN
  BY DEF Laid, Tiles
<1>2. /\ \A n \in 1 .. N : list[n] \in BlockRecord
      /\ \A n \in 1 .. N : list[n].at \in Nat /\ list[n].size \in Nat
      /\ \A n \in 1 .. N : EndOf(list[n]) \in Nat
      /\ \A n \in 1 .. N : EndOf(list[n]) <= PoolSize
  <2>1. \A n \in 1 .. N : list[n] \in BlockRecord
    BY <1>1
  <2>2. \A n \in 1 .. N : list[n].at \in Nat /\ list[n].size \in Nat
    BY <1>1, ListOf
  <2>3. \A n \in 1 .. N : EndOf(list[n]) \in Nat
    BY <1>1, ListOf
  <2>4. \A n \in 1 .. N : EndOf(list[n]) <= PoolSize
    BY <1>1 DEF Laid
  <2>. QED
    BY <2>1, <2>2, <2>3, <2>4
<1>3. \A n \in 1 .. N : M[n] = IF n = 1 THEN <<list[1]>> ELSE Joined(M[n - 1], list[n])
  BY <1>0, <1>1, MergedFirstIs
<1>15. /\ sums[0] = 0 /\ Total(list) = sums[N]
       /\ \A n \in 1 .. N : sums[n] = sums[n - 1] + Weight(list[n])
       /\ \A n \in 1 .. N : Weight(list[n]) \in Nat
  <2>1. Weights(list) \in Seq(Nat) /\ Len(Weights(list)) = N
    BY <1>1, WeightsAre
  <2>2. \A n \in 1 .. N : Weights(list)[n] = Weight(list[n]) /\ Weight(list[n]) \in Nat
    BY <1>1, WeightsAre
  <2>3. sums[0] = 0 /\ \A n \in 1 .. N : sums[n] = sums[n - 1] + Weights(list)[n]
    BY <2>1, SumsAre
  <2>. QED
    BY <2>2, <2>3 DEF Total
<1>. HIDE DEF M, sums
<1>4. Good(1)
  <2>. DEFINE b == list[1]
  <2>1. 1 \in 1 .. N /\ b \in BlockRecord /\ b.at = 0 /\ M[1] = <<b>>
    BY <1>0, <1>1, <1>2, <1>3 DEF Laid
  <2>2. EndOf(b) \in Nat
    BY <1>2, <2>1
  <2>. DEFINE D == <<b>>
              U == UsedOf(list, 1)
  <2>3. D \in Seq(BlockRecord) /\ Len(D) = 1 /\ DOMAIN D = 1 .. 1 /\ D # <<>> /\ D[1] = b
    BY <2>1
  <2>4. \A x : x \in U <=> x = b /\ b.used
    <3>1. \A i : i \in 1 .. 1 <=> i = 1
      OBVIOUS
    <3>. QED
      BY <2>1, <3>1 DEF UsedOf
  <2>5. M[1] = D /\ UsedOf(list, 1) = U /\ EndOf(list[1]) = EndOf(b)
    BY <2>1
  <2>. HIDE DEF D, U, b
  <2>6. \A i \in DOMAIN D : i = 1
    BY <2>3
  <2>7. Mixed(D)
    BY <2>3 DEF Mixed
  <2>9. Total(D) = sums[1]
    <3>1. D \in Seq(BlockRecord) /\ <<>> \in Seq(BlockRecord) /\ Len(<<>>) = 0
      BY <2>3
    <3>2. Len(D) = Len(<<>>) + 1 /\ \A k \in 1 .. Len(<<>>) : D[k] = <<>>[k]
      BY <2>3
    <3>3. Total(D) = Total(<<>>) + Weight(D[Len(<<>>) + 1])
      BY <3>1, <3>2, TotalOfMore
    <3>4. Total(<<>>) = 0
      <4>1. Weights(<<>>) \in Seq(Nat)
        BY <3>1, WeightsAre
      <4>. QED
        BY <3>1, <4>1, SumsAre DEF Total
    <3>5. Total(D) = 0 + Weight(b)
      BY <2>3, <3>3, <3>4
    <3>6. 1 \in 1 .. N /\ sums[1] = sums[1 - 1] + Weight(list[1])
      BY <1>15, <2>1
    <3>7. sums[1] = 0 + Weight(b)
      BY <1>15, <3>6 DEF b
    <3>. QED
      BY <3>5, <3>7
  <2>8. Sound(D, EndOf(b), tiled, U, sums[1])
    <3>1. \A i \in DOMAIN D : EndOf(D[i]) <= EndOf(b)
      BY <2>2, <2>3, <2>6
    <3>2. \A i, j \in DOMAIN D : ~(i < j)
      BY <2>6
    <3>3. EndOf(D[Len(D)]) = EndOf(b)
      BY <2>3
    <3>4. \A i \in 1 .. Len(D) - 1 : EndOf(D[i]) = D[i + 1].at
      BY <2>3
    <3>5. \A i \in DOMAIN D : D[i].used => D[i] \in U
      BY <2>3, <2>4, <2>6
    <3>6. \A x \in U : x.used /\ \E i \in DOMAIN D : D[i] = x
      BY <2>3, <2>4
    <3>. QED
      BY <2>1, <2>3, <2>7, <2>9, <3>1, <3>2, <3>3, <3>4, <3>5, <3>6 DEF Sound
  <2>. QED
    BY <2>5, <2>8
<1>5. ASSUME NEW n \in 1 .. N, n # 1, Good(n - 1) PROVE Good(n)
  <2>1. n - 1 \in 1 .. N /\ n - 1 < n /\ n - 1 # N /\ n - 1 + 1 = n
    BY <1>0, <1>5
  <2>. DEFINE D == M[n - 1]
              e == EndOf(list[n - 1])
              U == UsedOf(list, n - 1)
              b == list[n]
  <2>2. e \in Nat /\ b \in BlockRecord /\ EndOf(b) <= PoolSize
    BY <1>2, <2>1
  <2>3. e <= b.at
    BY <1>1, <2>1 DEF Laid
  <2>4. tiled => e = b.at
    BY <1>1, <2>1 DEF Tiles
  <2>5. M[n] = Joined(D, b)
    BY <1>3, <1>5
  <2>6. UsedOf(list, n) = U \cup {x \in {b} : x.used}
    <3>1. \A i : i \in 1 .. n <=> i \in 1 .. n - 1 \/ i = n
      BY <1>0
    <3>. QED
      BY <2>2, <3>1 DEF UsedOf
  <2>9. sums[n] = sums[n - 1] + Weight(b)
    BY <1>15
  <2>7. Sound(D, e, tiled, U, sums[n - 1])
    BY <1>5
  <2>. HIDE DEF D, e, U, b, tiled
  <2>8. Sound(Joined(D, b), EndOf(b), tiled, U \cup {x \in {b} : x.used}, sums[n - 1] + Weight(b))
    BY <1>1, <2>2, <2>3, <2>4, <2>7, JoinedKeeps
  <2>. QED
    BY <2>5, <2>6, <2>8, <2>9 DEF b
<1>. HIDE DEF Good
<1>6. Bad = {}
  <2>. SUFFICES ASSUME Bad # {} PROVE FALSE
    OBVIOUS
  <2>1. PICK n \in Bad : \A k \in Bad : n <= k
    <3>1. Bad \subseteq Nat
      OBVIOUS
    <3>. HIDE DEF Bad
    <3>. QED
      BY <3>1, SmallestOfNats
  <2>2. n \in 1 .. N /\ n # 1 /\ ~Good(n)
    BY <1>4, <2>1
  <2>3. n - 1 \in Nat /\ n - 1 \in 1 .. N /\ ~(n <= n - 1)
    BY <1>0, <2>2
  <2>4. Good(n - 1)
    BY <2>1, <2>3
  <2>. QED
    BY <1>5, <2>2, <2>4
<1>7. N \in 1 .. N
  BY <1>0, <1>1
<1>8. Good(N)
  BY <1>6, <1>7, <1>0
<1>9. Sound(Merged(list), EndOf(list[N]), tiled, UsedOf(list, N), Total(list))
  BY <1>8, <1>15 DEF Good, Merged, M
<1>. DEFINE new == Merged(list)
<1>. HIDE DEF new
<1>10. new \in Seq(BlockRecord) /\ DOMAIN new = 1 .. Len(new) /\ Len(new) \in Nat
  BY <1>9 DEF Sound, new
<1>11. Laid(new)
  <2>1. \A i \in DOMAIN new : EndOf(new[i]) \in Nat
    BY <1>10, ListOf
  <2>2. \A i \in DOMAIN new : EndOf(new[i]) <= EndOf(list[N])
    BY <1>9 DEF Sound, new
  <2>3. EndOf(list[N]) \in Nat /\ EndOf(list[N]) <= PoolSize /\ PoolSize \in Nat
    BY <1>2, <1>7, Constants
  <2>4. \A i \in DOMAIN new : EndOf(new[i]) <= PoolSize
    BY <2>1, <2>2, <2>3
  <2>. QED
    BY <1>9, <2>4 DEF Sound, Laid, new
<1>12. Mixed(new)
  BY <1>9 DEF Sound, new
<1>13. SameUsed(list, new)
  <2>1. \A i \in DOMAIN list : list[i].used => list[i] \in UsedOf(list, N)
    BY <1>1, <1>2 DEF UsedOf
  <2>2. \A x \in UsedOf(list, N) : \E i \in DOMAIN list : list[i] = x
    BY <1>1 DEF UsedOf
  <2>3. \A x \in UsedOf(list, N) : \E j \in DOMAIN new : new[j] = x
    BY <1>9 DEF Sound, new
  <2>4. \A j \in DOMAIN new : new[j].used => new[j] \in UsedOf(list, N)
    BY <1>9 DEF Sound, new
  <2>. QED
    BY <2>1, <2>2, <2>3, <2>4 DEF SameUsed
<1>14. ASSUME tiled PROVE Tiles(new)
  <2>1. EndOf(list[N]) = PoolSize
    BY <1>1, <1>7, <1>14 DEF Tiles
  <2>2. /\ EndOf(new[Len(new)]) = EndOf(list[N])
        /\ \A i \in 1 .. Len(new) - 1 : EndOf(new[i]) = new[i + 1].at
    BY <1>9, <1>14 DEF Sound, new
  <2>3. \A i \in 1 .. Len(new) : i # Len(new) => i \in 1 .. Len(new) - 1
    <3>1. Len(new) \in Nat
      BY <1>10
    <3>. QED
      BY <3>1
  <2>. QED
    BY <1>10, <2>1, <2>2, <2>3 DEF Tiles
<1>16. Total(new) = Total(list)
  BY <1>9 DEF Sound, new
<1>. QED
  BY <1>11, <1>12, <1>13, <1>14, <1>16 DEF new

-----------------------------------------------------------------------------
(* Finding a block.                                                         *)

LEMMA BestFitFits ==
  ASSUME blocks \in Seq(BlockRecord), NEW n, FreeFor(n) # {}
  PROVE  BestFit(n) \in FreeFor(n)
<1>. DEFINE sizes == {blocks[i].size : i \in FreeFor(n)}
<1>1. \A i \in FreeFor(n) : i \in Nat /\ blocks[i].size \in Nat
  BY ListOf DEF FreeFor
<1>2. PICK s \in sizes : \A t \in sizes : s <= t
  <2>1. sizes \subseteq Nat /\ sizes # {}
    BY <1>1
  <2>. HIDE DEF sizes
  <2>. QED
    BY <2>1, SmallestOfNats
<1>. DEFINE firsts == {i \in FreeFor(n) : blocks[i].size = s}
<1>3. PICK i \in firsts : \A j \in firsts : i <= j
  <2>1. firsts \subseteq Nat /\ firsts # {}
    BY <1>1, <1>2
  <2>. HIDE DEF firsts
  <2>. QED
    BY <2>1, SmallestOfNats
<1>4. i \in FreeFor(n) /\ blocks[i].size = s
  BY <1>3
<1>5. ASSUME NEW j \in FreeFor(n)
      PROVE  \/ blocks[i].size < blocks[j].size
             \/ blocks[i].size = blocks[j].size /\ i <= j
  <2>1. blocks[i].size <= blocks[j].size
    BY <1>2, <1>4
  <2>2. CASE blocks[j].size = s
    BY <1>3, <1>4, <2>2
  <2>3. CASE blocks[j].size # s
    BY <1>1, <1>4, <2>1, <2>3
  <2>. QED
    BY <2>2, <2>3
<1>. QED
  BY <1>4, <1>5 DEF BestFit

LEMMA FirstFitFits ==
  ASSUME blocks \in Seq(BlockRecord), NEW n, FreeFor(n) # {}
  PROVE  FirstFit(n) \in FreeFor(n)
<1>1. FreeFor(n) \subseteq Nat
  BY ListOf DEF FreeFor
<1>2. \E i \in FreeFor(n) : \A j \in FreeFor(n) : i <= j
  BY <1>1, SmallestOfNats
<1>. QED
  BY <1>2 DEF FirstFit

\* No two blocks begin at one address.
LEMMA Apart ==
  ASSUME NEW list, Laid(list), NEW i \in DOMAIN list, NEW j \in DOMAIN list,
         list[i].at = list[j].at
  PROVE  i = j
<1>1. list \in Seq(BlockRecord) /\ i \in Nat /\ j \in Nat
  BY DEF Laid
<1>2. /\ list[i].at \in Nat /\ list[i].size \in Nat /\ list[j].at \in Nat /\ list[j].size \in Nat
      /\ Header \in Nat \ {0}
  BY <1>1, ListOf, Constants
<1>3. list[i].at < EndOf(list[i]) /\ list[j].at < EndOf(list[j])
  BY <1>2 DEF EndOf
<1>6. EndOf(list[i]) \in Nat /\ EndOf(list[j]) \in Nat
  BY <1>1, ListOf
<1>7. (i < j => EndOf(list[i]) <= list[j].at) /\ (j < i => EndOf(list[j]) <= list[i].at)
  BY DEF Laid
<1>4. ~(i < j)
  BY <1>2, <1>3, <1>6, <1>7
<1>5. ~(j < i)
  BY <1>2, <1>3, <1>6, <1>7
<1>. QED
  BY <1>1, <1>4, <1>5

\* An allocation leads back to its block.
LEMMA HeaderFound ==
  ASSUME Laid(blocks), OwnedBy(blocks, live), NEW ptr \in DOMAIN live
  PROVE  /\ HeaderOf(ptr) \in DOMAIN blocks
         /\ blocks[HeaderOf(ptr)].at + Header = ptr
         /\ blocks[HeaderOf(ptr)].used /\ blocks[HeaderOf(ptr)].size >= live[ptr]
<1>1. PICK i \in DOMAIN blocks :
        blocks[i].at + Header = ptr /\ blocks[i].used /\ blocks[i].size >= live[ptr]
  BY DEF OwnedBy
<1>2. \A j \in DOMAIN blocks : blocks[j].at \in Nat
  BY ListOf DEF Laid
<1>3. Header \in Nat
  BY Constants
<1>4. blocks[i].at = ptr - Header
  BY <1>1, <1>2, <1>3
<1>5. HeaderOf(ptr) \in DOMAIN blocks /\ blocks[HeaderOf(ptr)].at = ptr - Header
  BY <1>4 DEF HeaderOf
<1>6. HeaderOf(ptr) = i
  BY <1>4, <1>5, Apart
<1>. QED
  BY <1>1, <1>6

-----------------------------------------------------------------------------
(* Who holds what.                                                          *)

LEMMA SameUsedOwned ==
  ASSUME NEW list, NEW other, NEW held, SameUsed(list, other), OwnedBy(list, held)
  PROVE  OwnedBy(other, held)
<1>1. ASSUME NEW p \in DOMAIN held
      PROVE  \E j \in DOMAIN other :
               other[j].at + Header = p /\ other[j].used /\ other[j].size >= held[p]
  <2>1. PICK i \in DOMAIN list : list[i].at + Header = p /\ list[i].used /\ list[i].size >= held[p]
    BY DEF OwnedBy
  <2>2. PICK j \in DOMAIN other : other[j] = list[i]
    BY <2>1 DEF SameUsed
  <2>. QED
    BY <2>1, <2>2
<1>2. ASSUME NEW j \in DOMAIN other, other[j].used PROVE other[j].at + Header \in DOMAIN held
  <2>1. PICK i \in DOMAIN list : list[i] = other[j]
    BY <1>2 DEF SameUsed
  <2>. QED
    BY <1>2, <2>1 DEF OwnedBy
<1>. QED
  BY <1>1, <1>2 DEF OwnedBy

\* Block i is given back.
LEMMA GivenBack ==
  ASSUME NEW list, Laid(list), NEW held, OwnedBy(list, held),
         NEW i \in DOMAIN list, NEW new \in Seq(BlockRecord), Len(new) = Len(list),
         \A k \in DOMAIN list : k # i => new[k] = list[k], ~new[i].used
  PROVE  OwnedBy(new, [p \in DOMAIN held \ {list[i].at + Header} |-> held[p]])
<1>. DEFINE rest == [p \in DOMAIN held \ {list[i].at + Header} |-> held[p]]
<1>1. DOMAIN new = DOMAIN list /\ list \in Seq(BlockRecord)
  BY DEF Laid
<1>2. ASSUME NEW p \in DOMAIN rest
      PROVE  \E k \in DOMAIN new :
               new[k].at + Header = p /\ new[k].used /\ new[k].size >= rest[p]
  <2>1. PICK k \in DOMAIN list : list[k].at + Header = p /\ list[k].used /\ list[k].size >= held[p]
    BY <1>2 DEF OwnedBy
  <2>2. k # i
    BY <1>2, <2>1
  <2>. QED
    BY <1>1, <1>2, <2>1, <2>2
<1>3. ASSUME NEW k \in DOMAIN new, new[k].used PROVE new[k].at + Header \in DOMAIN rest
  <2>1. k \in DOMAIN list /\ k # i /\ new[k] = list[k]
    BY <1>1, <1>3
  <2>2. list[k].at # list[i].at
    BY <2>1, Apart
  <2>3. list[k].at \in Nat /\ list[i].at \in Nat /\ Header \in Nat
    BY <1>1, <2>1, ListOf, Constants
  <2>4. list[k].at + Header # list[i].at + Header
    BY <2>2, <2>3
  <2>5. list[k].at + Header \in DOMAIN held
    BY <1>3, <2>1 DEF OwnedBy
  <2>. QED
    BY <2>1, <2>4, <2>5
<1>. HIDE DEF rest
<1>4. OwnedBy(new, rest)
  BY <1>2, <1>3 DEF OwnedBy
<1>. QED
  BY <1>4 DEF rest

\* A free block, or its first part, is taken as block j.
Gains(q, size) == [p \in DOMAIN live \cup {q} |-> IF p = q THEN size ELSE live[p]]

LEMMA TakenOwned ==
  ASSUME OwnedBy(blocks, live), NEW i \in DOMAIN blocks, ~blocks[i].used,
         NEW new, NEW size, NEW j \in DOMAIN new,
         new[j].used, new[j].at = blocks[i].at, new[j].size >= size,
         \A k \in DOMAIN blocks : blocks[k].used => \E n \in DOMAIN new : new[n] = blocks[k],
         \A n \in DOMAIN new : n # j /\ new[n].used => \E k \in DOMAIN blocks : new[n] = blocks[k]
  PROVE  OwnedBy(new, Gains(blocks[i].at + Header, size))
<1>. DEFINE q == blocks[i].at + Header
            held == Gains(q, size)
<1>1. DOMAIN held = DOMAIN live \cup {q} /\ held[q] = size
  BY DEF Gains
<1>2. \A p \in DOMAIN live : p # q => held[p] = live[p]
  BY DEF Gains
<1>. HIDE DEF held
<1>3. ASSUME NEW p \in DOMAIN held
      PROVE  \E n \in DOMAIN new : new[n].at + Header = p /\ new[n].used /\ new[n].size >= held[p]
  <2>1. CASE p = q
    BY <1>1, <2>1
  <2>2. CASE p # q
    <3>1. p \in DOMAIN live /\ held[p] = live[p]
      BY <1>1, <1>2, <2>2
    <3>2. PICK k \in DOMAIN blocks :
            blocks[k].at + Header = p /\ blocks[k].used /\ blocks[k].size >= live[p]
      BY <3>1 DEF OwnedBy
    <3>3. PICK n \in DOMAIN new : new[n] = blocks[k]
      BY <3>2
    <3>. QED
      BY <3>1, <3>2, <3>3
  <2>. QED
    BY <2>1, <2>2
<1>4. ASSUME NEW n \in DOMAIN new, new[n].used PROVE new[n].at + Header \in DOMAIN held
  <2>1. CASE n = j
    BY <1>1, <2>1
  <2>2. CASE n # j
    <3>1. PICK k \in DOMAIN blocks : new[n] = blocks[k]
      BY <1>4, <2>2
    <3>. QED
      BY <1>1, <1>4, <3>1 DEF OwnedBy
  <2>. QED
    BY <2>1, <2>2
<1>. QED
  BY <1>3, <1>4 DEF OwnedBy, held

\* Block i is split in two, b and rest, and b is taken.
LEMMA SplitTakes ==
  ASSUME Laid(blocks), OwnedBy(blocks, live), NEW i \in DOMAIN blocks, ~blocks[i].used,
         NEW b \in BlockRecord, NEW rest \in BlockRecord, NEW size,
         b.used, ~rest.used, b.at = blocks[i].at, b.size >= size,
         EndOf(b) = rest.at, EndOf(rest) = EndOf(blocks[i])
  PROVE  /\ Laid(Split(i, b, rest))
         /\ Tiles(blocks) => Tiles(Split(i, b, rest))
         /\ Mixed(blocks) => Mixed(Split(i, b, rest))
         /\ OwnedBy(Split(i, b, rest), Gains(blocks[i].at + Header, size))
         /\ \E k \in DOMAIN Split(i, b, rest) : Split(i, b, rest)[k].used
<1>. DEFINE new == Split(i, b, rest)
            N == Len(blocks)
<1>1. blocks \in Seq(BlockRecord) /\ i \in 1 .. N /\ N \in Nat /\ DOMAIN blocks = 1 .. N
  BY DEF Laid
<1>2. EndOf(b) <= rest.at /\ EndOf(rest) <= EndOf(blocks[i])
  <2>1. rest.at \in Nat /\ EndOf(blocks[i]) \in Nat
    BY <1>1, ListOf, Constants DEF BlockRecord
  <2>. QED
    BY <2>1
<1>3. Laid(new) /\ (Tiles(blocks) => Tiles(new))
  BY <1>2, SplitStaysLaid
<1>4. /\ new \in Seq(BlockRecord) /\ Len(new) = N + 1 /\ new[i] = b /\ new[i + 1] = rest
      /\ \A k \in 1 .. i - 1 : new[k] = blocks[k]
      /\ \A k \in i + 1 .. N : new[k + 1] = blocks[k]
  <2>1. new \in Seq(BlockRecord) /\ Len(new) = N + 1
    BY <1>1, Splits
  <2>2. new[i] = b /\ new[i + 1] = rest
    BY <1>1, Splits
  <2>3. \A k \in 1 .. i - 1 : new[k] = blocks[k]
    BY <1>1, Splits
  <2>4. \A k \in i + 1 .. N : new[k + 1] = blocks[k]
    BY <1>1, Splits
  <2>. QED
    BY <2>1, <2>2, <2>3, <2>4
<1>. HIDE DEF new
<1>0. N \in Nat /\ i \in 1 .. N
  BY <1>1
<1>5. DOMAIN new = 1 .. N + 1
  BY <1>4
<1>. HIDE DEF N
\* Where the other blocks come from.
<1>6. ASSUME NEW k \in 1 .. N + 1, k # i, k # i + 1
      PROVE  \E n \in 1 .. N : /\ new[k] = blocks[n]
                               /\ n = IF k < i THEN k ELSE k - 1
  <2>1. CASE k < i
    <3>1. k \in 1 .. i - 1 /\ k \in 1 .. N
      BY <1>0, <2>1
    <3>. QED
      BY <1>4, <2>1, <3>1
  <2>2. CASE ~(k < i)
    <3>1. k - 1 \in i + 1 .. N /\ k - 1 + 1 = k /\ k - 1 \in 1 .. N
      BY <1>0, <1>6, <2>2
    <3>2. new[k - 1 + 1] = blocks[k - 1]
      BY <1>4, <3>1
    <3>. QED
      BY <2>2, <3>1, <3>2
  <2>. QED
    BY <2>1, <2>2
<1>7. ASSUME Mixed(blocks) PROVE Mixed(new)
  <2>. SUFFICES ASSUME NEW k \in 1 .. N PROVE new[k].used \/ new[k + 1].used
    <3>1. Len(new) - 1 = N
      BY <1>0, <1>4
    <3>. QED
      BY <3>1 DEF Mixed
  <2>0. \A n \in 1 .. N - 1 : blocks[n].used \/ blocks[n + 1].used
    BY <1>7 DEF Mixed, N
  <2>1. CASE k = i \/ k + 1 = i
    BY <1>4, <2>1
  <2>2. CASE k + 1 < i
    <3>1. k \in 1 .. i - 1 /\ k + 1 \in 1 .. i - 1 /\ k \in 1 .. N - 1
      BY <1>0, <2>2
    <3>. QED
      BY <1>4, <2>0, <3>1
  <2>3. CASE k = i + 1
    <3>1. i + 1 \in i + 1 .. N /\ i \in 1 .. N - 1
      BY <1>0, <2>3
    <3>2. blocks[i + 1].used
      BY <2>0, <3>1
    <3>3. new[i + 1 + 1] = blocks[i + 1]
      BY <1>4, <3>1
    <3>. QED
      BY <2>3, <3>2, <3>3
  <2>4. CASE k > i + 1
    <3>1. k - 1 \in i + 1 .. N /\ k \in i + 1 .. N /\ k - 1 \in 1 .. N - 1 /\ k - 1 + 1 = k
      BY <1>0, <2>4
    <3>2. new[k - 1 + 1] = blocks[k - 1]
      BY <1>4, <3>1
    <3>3. new[k + 1] = blocks[k]
      BY <1>4, <3>1
    <3>4. blocks[k - 1].used \/ blocks[k - 1 + 1].used
      BY <2>0, <3>1
    <3>. QED
      BY <3>1, <3>2, <3>3, <3>4
  <2>. QED
    BY <1>0, <2>1, <2>2, <2>3, <2>4
<1>8. i \in DOMAIN new /\ i + 1 \in DOMAIN new
  BY <1>0, <1>5
<1>9. ASSUME NEW k \in DOMAIN blocks, blocks[k].used
      PROVE  \E n \in DOMAIN new : new[n] = blocks[k]
  <2>1. k \in 1 .. N /\ k # i
    BY <1>1, <1>9
  <2>2. CASE k < i
    <3>1. k \in 1 .. i - 1 /\ k \in DOMAIN new
      BY <1>0, <1>5, <2>1, <2>2
    <3>. QED
      BY <1>4, <3>1
  <2>3. CASE k > i
    <3>1. k \in i + 1 .. N /\ k + 1 \in DOMAIN new
      BY <1>0, <1>5, <2>1, <2>3
    <3>. QED
      BY <1>4, <3>1
  <2>. QED
    BY <1>0, <2>1, <2>2, <2>3
<1>10. ASSUME NEW n \in DOMAIN new, n # i, new[n].used
       PROVE  \E k \in DOMAIN blocks : new[n] = blocks[k]
  <2>1. n # i + 1
    BY <1>4, <1>10
  <2>. QED
    BY <1>1, <1>5, <1>6, <1>10, <2>1
<1>11. OwnedBy(new, Gains(blocks[i].at + Header, size))
  <2>1. new[i].used /\ new[i].at = blocks[i].at /\ new[i].size >= size
    BY <1>4
  <2>. QED
    BY <1>8, <1>9, <1>10, <2>1, TakenOwned
<1>. QED
  BY <1>3, <1>4, <1>7, <1>8, <1>11 DEF new

\* Block i is taken whole, as b.
LEMMA WholeTakes ==
  ASSUME Laid(blocks), OwnedBy(blocks, live), NEW i \in DOMAIN blocks, ~blocks[i].used,
         NEW b \in BlockRecord, NEW size,
         b.used, b.at = blocks[i].at, b.size = blocks[i].size, b.size >= size
  PROVE  /\ Laid([blocks EXCEPT ![i] = b])
         /\ Tiles(blocks) => Tiles([blocks EXCEPT ![i] = b])
         /\ Mixed(blocks) => Mixed([blocks EXCEPT ![i] = b])
         /\ OwnedBy([blocks EXCEPT ![i] = b], Gains(blocks[i].at + Header, size))
         /\ [blocks EXCEPT ![i] = b][i].used
<1>. DEFINE new == [blocks EXCEPT ![i] = b]
<1>1. /\ blocks \in Seq(BlockRecord) /\ Len(blocks) \in Nat /\ DOMAIN blocks = 1 .. Len(blocks)
  BY DEF Laid
<1>2. new \in Seq(BlockRecord) /\ Len(new) = Len(blocks)
  BY <1>1
<1>3. new[i] = b /\ \A k \in DOMAIN blocks : k # i => new[k] = blocks[k]
  BY <1>1
<1>. HIDE DEF new
<1>4. DOMAIN new = DOMAIN blocks
  BY <1>1, <1>2
<1>5. \A k \in DOMAIN blocks : new[k].at = blocks[k].at /\ new[k].size = blocks[k].size
  BY <1>3
<1>6. Laid(new) /\ (Tiles(blocks) => Tiles(new))
  BY <1>2, <1>5, SameShape
<1>7. \A k \in DOMAIN blocks : blocks[k].used => new[k].used
  BY <1>3
<1>8. Mixed(blocks) => Mixed(new)
  <2>1. \A k \in 1 .. Len(blocks) - 1 : k \in DOMAIN blocks /\ k + 1 \in DOMAIN blocks
    BY <1>1
  <2>. QED
    BY <1>2, <1>7, <2>1 DEF Mixed
<1>9. OwnedBy(new, Gains(blocks[i].at + Header, size))
  <2>1. \A k \in DOMAIN blocks : blocks[k].used => \E n \in DOMAIN new : new[n] = blocks[k]
    BY <1>3, <1>4
  <2>2. \A n \in DOMAIN new : n # i /\ new[n].used => \E k \in DOMAIN blocks : new[n] = blocks[k]
    BY <1>3, <1>4
  <2>3. i \in DOMAIN new /\ new[i].used /\ new[i].at = blocks[i].at /\ new[i].size >= size
    BY <1>3, <1>4
  <2>. QED
    BY <2>1, <2>2, <2>3, TakenOwned
<1>. QED
  BY <1>3, <1>6, <1>8, <1>9 DEF new

-----------------------------------------------------------------------------
(* The calls.                                                               *)

\* A merged list whose blocks are all free is one block.
LEMMA OneWhenFree ==
  ASSUME NEW list \in Seq(BlockRecord), list # <<>>, Mixed(list),
         \A i \in DOMAIN list : ~list[i].used
  PROVE  Len(list) = 1
<1>1. Len(list) \in Nat /\ DOMAIN list = 1 .. Len(list) /\ Len(list) >= 1
  OBVIOUS
<1>2. CASE Len(list) > 1
  <2>1. 1 \in 1 .. Len(list) - 1 /\ 1 \in 1 .. Len(list) /\ 1 + 1 \in 1 .. Len(list)
    BY <1>1, <1>2
  <2>. QED
    BY <1>1, <2>1 DEF Mixed
<1>. QED
  BY <1>1, <1>2

\* What a block says of the numbers in it.
LEMMA BlockNumbers ==
  ASSUME Laid(blocks), NEW i \in DOMAIN blocks
  PROVE  /\ blocks[i] \in BlockRecord
         /\ blocks[i].at \in Nat /\ blocks[i].size \in Nat /\ blocks[i].orig \in Addresses
         /\ EndOf(blocks[i]) = blocks[i].at + Header + blocks[i].size
         /\ EndOf(blocks[i]) \in Nat /\ EndOf(blocks[i]) <= PoolSize
<1>1. blocks \in Seq(BlockRecord)
  BY DEF Laid
<1>2. blocks[i] \in BlockRecord
  BY <1>1
<1>3. blocks[i].at \in Nat /\ blocks[i].size \in Nat /\ EndOf(blocks[i]) \in Nat
  BY <1>1, ListOf
<1>4. EndOf(blocks[i]) = blocks[i].at + Header + blocks[i].size
  BY DEF EndOf
<1>5. EndOf(blocks[i]) <= PoolSize
  BY DEF Laid
<1>6. blocks[i].orig \in Addresses
  BY <1>2 DEF BlockRecord
<1>. QED
  BY <1>2, <1>3, <1>4, <1>5, <1>6

LEMMA MakesUsed ==
  ASSUME NEW at \in 0 .. PoolSize, NEW size \in 0 .. PoolSize, NEW orig \in Addresses
  PROVE  /\ Block(at, size, TRUE, orig) \in BlockRecord
         /\ Block(at, size, TRUE, orig).at = at /\ Block(at, size, TRUE, orig).size = size
         /\ Block(at, size, TRUE, orig).used
         /\ EndOf(Block(at, size, TRUE, orig)) = at + Header + size
<1>. DEFINE b == Block(at, size, TRUE, orig)
<1>1. at \in Addresses /\ size \in Addresses
  BY Constants
<1>2. b \in BlockRecord
  BY <1>1 DEF Block, BlockRecord
<1>3. b.at = at /\ b.size = size /\ b.used
  BY DEF Block
<1>4. EndOf(b) = at + Header + size
  BY <1>3 DEF EndOf
<1>. QED
  BY <1>2, <1>3, <1>4

LEMMA MakesFree ==
  ASSUME NEW at \in 0 .. PoolSize, NEW size \in 0 .. PoolSize, NEW orig \in Addresses
  PROVE  /\ Block(at, size, FALSE, orig) \in BlockRecord
         /\ Block(at, size, FALSE, orig).at = at /\ Block(at, size, FALSE, orig).size = size
         /\ ~Block(at, size, FALSE, orig).used
         /\ EndOf(Block(at, size, FALSE, orig)) = at + Header + size
<1>. DEFINE b == Block(at, size, FALSE, orig)
<1>1. at \in Addresses /\ size \in Addresses
  BY Constants
<1>2. b \in BlockRecord
  BY <1>1 DEF Block, BlockRecord
<1>3. b.at = at /\ b.size = size /\ ~b.used
  BY DEF Block
<1>4. EndOf(b) = at + Header + size
  BY <1>3 DEF EndOf
<1>. QED
  BY <1>2, <1>3, <1>4

LEMMA InitHolds == Init => WholePool
<1>. SUFFICES ASSUME Init PROVE WholePool
  OBVIOUS
<1>. DEFINE b == Block(0, PoolSize - Header, FALSE, 0)
<1>1. PoolSize - Header \in 0 .. PoolSize /\ 0 \in 0 .. PoolSize /\ 0 \in Addresses
  BY MemoryAssumption, Constants
<1>2. b \in BlockRecord /\ b.at = 0 /\ ~b.used /\ EndOf(b) = 0 + Header + (PoolSize - Header)
  BY <1>1, MakesFree, ZenonT(30)
<1>3. EndOf(b) = PoolSize /\ PoolSize \in Nat
  <2>1. Header \in Nat /\ PoolSize \in Nat
    BY Constants
  <2>2. EndOf(b) = 0 + Header + (PoolSize - Header)
    BY <1>2
  <2>. HIDE DEF b
  <2>. QED
    BY <2>1, <2>2
<1>. HIDE DEF b
<1>4. blocks \in Seq(BlockRecord) /\ Len(blocks) = 1 /\ blocks[1] = b /\ DOMAIN blocks = 1 .. 1 /\ blocks # <<>>
  <2>1. blocks = <<b>>
    BY DEF Init, b
  <2>2. b \in BlockRecord
    BY <1>2
  <2>. QED
    BY <2>1, <2>2
<1>5. \A i \in DOMAIN blocks : i = 1
  BY <1>4
<1>6. Laid(blocks)
  <2>1. \A i \in DOMAIN blocks : EndOf(blocks[i]) <= PoolSize
    BY <1>3, <1>4, <1>5
  <2>2. \A i, j \in DOMAIN blocks : ~(i < j)
    BY <1>5
  <2>. QED
    BY <1>2, <1>4, <2>1, <2>2 DEF Laid
<1>7. Tiles(blocks)
  BY <1>3, <1>4, <1>5 DEF Tiles
<1>8. Mixed(blocks)
  BY <1>4 DEF Mixed
<1>9. DOMAIN live = {}
  BY DEF Init
<1>10. OwnedBy(blocks, live)
  BY <1>2, <1>4, <1>5, <1>9 DEF OwnedBy
<1>11. TypeOK /\ "overrun" \notin past
  <2>1. used_size \in Addresses /\ current_usage \in Addresses /\ past = {}
    BY <1>1 DEF Init
  <2>. QED
    BY <1>4, <1>9, <2>1 DEF TypeOK, BlockRecord
<1>. QED
  BY <1>4, <1>6, <1>7, <1>8, <1>10, <1>11 DEF WholePool

\* Malloc takes the first part of a free block, or all of it, as b.
TakesPart(i, b, rest) ==
  /\ ~rest.used /\ EndOf(b) = rest.at /\ EndOf(rest) = EndOf(blocks[i])
  /\ blocks' = Split(i, b, rest)

TakesAll(i, b) == b.size = blocks[i].size /\ blocks' = [blocks EXCEPT ![i] = b]

Takes(i, b, size) ==
  /\ ~blocks[i].used /\ b.used /\ b.at = blocks[i].at /\ b.orig = size /\ b.size >= size
  /\ b.at + Header \in Addresses
  /\ live' = Gains(b.at + Header, size)
  /\ (\E rest \in BlockRecord : TakesPart(i, b, rest)) \/ TakesAll(i, b)

LEMMA MallocTakes ==
  ASSUME WholePool, NEW size \in Sizes, Malloc(size)
  PROVE  /\ \E i \in DOMAIN blocks, b \in BlockRecord : Takes(i, b, size)
         /\ \E need \in Nat : used_size' = (used_size + need) % Word
         /\ current_usage' = (current_usage + size) % Word
         /\ past' = past
<1>. DEFINE need == Aligned(size + Align - 1)
            i == BestFit(need)
            b == blocks[i]
            whole == Block(b.at, b.size, TRUE, size)
            first == Block(b.at, need, TRUE, size)
            rest == Rest(b, need)
            whole_list == [blocks EXCEPT ![i] = whole]
            split_list == Split(i, first, rest)
<1>1. Laid(blocks) /\ OwnedBy(blocks, live) /\ blocks \in Seq(BlockRecord)
  BY DEF WholePool, Laid
<1>2. size \in Nat /\ size <= PoolSize /\ size \in Addresses
  BY MemoryAssumption, Constants
<1>3. need \in Nat /\ need >= size
  <2>1. size + Align - 1 \in Nat /\ size + Align - 1 >= size
    BY <1>2, Constants
  <2>2. need \in Nat /\ need >= size + Align - 1
    BY <2>1, AlignedGrows
  <2>. HIDE DEF need
  <2>. QED
    BY <1>2, <2>1, <2>2
<1>4. i \in DOMAIN blocks /\ ~blocks[i].used /\ blocks[i].size >= need
  <2>1. FreeFor(need) # {}
    BY DEF Malloc
  <2>2. BestFit(need) \in FreeFor(need)
    BY <1>1, <2>1, BestFitFits
  <2>. QED
    BY <2>2 DEF FreeFor
<1>5. /\ b.at \in Nat /\ b.size \in Nat /\ EndOf(b) = b.at + Header + b.size
      /\ EndOf(b) \in Nat /\ EndOf(b) <= PoolSize
  BY <1>1, <1>4, BlockNumbers
<1>6. Header \in Nat \ {0} /\ PoolSize \in Nat
  BY Constants
<1>7. /\ used_size' = (used_size + need) % Word
      /\ current_usage' = (current_usage + size) % Word
      /\ live' = Gains(b.at + Header, size)
      /\ past' = past
  BY DEF Malloc, Gains
<1>8. blocks' = IF b.size > need + Header + Header THEN split_list ELSE whole_list
  BY DEF Malloc
<1>9. b = blocks[i]
  OBVIOUS
<1>. HIDE DEF need, i, b
<1>10. b.at \in 0 .. PoolSize /\ b.size \in 0 .. PoolSize /\ b.size >= need /\ b.size >= size
  BY <1>2, <1>3, <1>4, <1>5, <1>6, <1>9
<1>11. b.at + Header \in Addresses
  <2>1. b.at + Header \in 0 .. PoolSize
    BY <1>5, <1>6
  <2>. QED
    BY <2>1, Constants
<1>12. \E x \in BlockRecord : Takes(i, x, size)
  <2>1. CASE b.size > need + Header + Header
    <3>1. /\ need \in 0 .. PoolSize /\ b.at + Header + need \in 0 .. PoolSize
          /\ b.size - need - Header \in 0 .. PoolSize
      BY <1>3, <1>5, <1>6, <1>10, <2>1
    <3>2. /\ first \in BlockRecord /\ first.at = b.at /\ first.size = need /\ first.used
          /\ EndOf(first) = b.at + Header + need
      <4>1. b.at \in 0 .. PoolSize /\ need \in 0 .. PoolSize /\ size \in Addresses
        BY <1>2, <1>10, <3>1
      <4>. QED
        BY <4>1, MakesUsed, ZenonT(30)
    <3>3. /\ rest \in BlockRecord /\ rest.at = b.at + Header + need /\ ~rest.used
          /\ EndOf(rest) = b.at + Header + need + Header + (b.size - need - Header)
      <4>1. 0 \in Addresses
        BY <1>6, Constants
      <4>. DEFINE x == b.at + Header + need
                  y == b.size - need - Header
      <4>2. x \in 0 .. PoolSize /\ y \in 0 .. PoolSize
        BY <3>1
      <4>3. rest = Block(x, y, FALSE, 0)
        BY DEF Rest
      <4>. HIDE DEF x, y, rest
      <4>4. rest \in BlockRecord /\ rest.at = x /\ ~rest.used /\ EndOf(rest) = x + Header + y
        BY <4>1, <4>2, <4>3, MakesFree, ZenonT(30)
      <4>. QED
        BY <4>4 DEF x, y
    <3>4. EndOf(rest) = EndOf(b)
      BY <1>3, <1>5, <1>6, <3>3
    <3>5. blocks' = split_list
      BY <1>8, <2>1
    <3>6. first.orig = size
      BY DEF Block
    <3>. HIDE DEF first, rest
    <3>7. TakesPart(i, first, rest)
      BY <1>9, <3>2, <3>3, <3>4, <3>5 DEF TakesPart
    <3>8. Takes(i, first, size)
      BY <1>3, <1>4, <1>7, <1>9, <1>11, <3>2, <3>3, <3>6, <3>7 DEF Takes
    <3>. QED
      BY <3>2, <3>8
  <2>2. CASE ~(b.size > need + Header + Header)
    <3>1. /\ whole \in BlockRecord /\ whole.at = b.at /\ whole.size = b.size /\ whole.used
      BY <1>2, <1>10, MakesUsed, ZenonT(30)
    <3>2. blocks' = whole_list
      BY <1>8, <2>2
    <3>3. whole.orig = size
      BY DEF Block
    <3>. HIDE DEF whole
    <3>4. TakesAll(i, whole)
      BY <1>9, <3>1, <3>2 DEF TakesAll
    <3>5. Takes(i, whole, size)
      BY <1>4, <1>7, <1>9, <1>10, <1>11, <3>1, <3>3, <3>4 DEF Takes
    <3>. QED
      BY <3>1, <3>5
  <2>. QED
    BY <2>1, <2>2
<1>. QED
  BY <1>3, <1>4, <1>7, <1>12

LEMMA MallocKeeps ==
  ASSUME WholePool, NEW size \in Sizes, Malloc(size)
  PROVE  WholePool'
<1>1. Laid(blocks) /\ OwnedBy(blocks, live)
  BY DEF WholePool
<1>2. PICK i \in DOMAIN blocks, b \in BlockRecord : Takes(i, b, size)
  BY MallocTakes
<1>3. /\ ~blocks[i].used /\ b.used /\ b.at = blocks[i].at /\ b.size >= size
      /\ live' = Gains(blocks[i].at + Header, size) /\ blocks[i].at + Header \in Addresses
      /\ (\E rest \in BlockRecord : TakesPart(i, b, rest)) \/ TakesAll(i, b)
  BY <1>2 DEF Takes
<1>4. /\ Laid(blocks') /\ (Tiles(blocks) => Tiles(blocks')) /\ (Mixed(blocks) => Mixed(blocks'))
      /\ OwnedBy(blocks', live') /\ \E k \in DOMAIN blocks' : blocks'[k].used
  <2>1. CASE \E rest \in BlockRecord : TakesPart(i, b, rest)
    <3>1. PICK rest \in BlockRecord : TakesPart(i, b, rest)
      BY <2>1
    <3>2. ~rest.used /\ EndOf(b) = rest.at /\ EndOf(rest) = EndOf(blocks[i])
      BY <3>1 DEF TakesPart
    <3>3. blocks' = Split(i, b, rest)
      BY <3>1 DEF TakesPart
    <3>4. /\ Laid(Split(i, b, rest)) /\ (Tiles(blocks) => Tiles(Split(i, b, rest)))
          /\ (Mixed(blocks) => Mixed(Split(i, b, rest)))
          /\ OwnedBy(Split(i, b, rest), Gains(blocks[i].at + Header, size))
          /\ \E k \in DOMAIN Split(i, b, rest) : Split(i, b, rest)[k].used
      BY <1>1, <1>3, <3>2, SplitTakes
    <3>. QED
      BY <1>3, <3>3, <3>4
  <2>2. CASE TakesAll(i, b)
    <3>1. b.size = blocks[i].size /\ blocks' = [blocks EXCEPT ![i] = b]
      BY <2>2 DEF TakesAll
    <3>. DEFINE new == [blocks EXCEPT ![i] = b]
    <3>2. /\ Laid(new) /\ (Tiles(blocks) => Tiles(new)) /\ (Mixed(blocks) => Mixed(new))
          /\ OwnedBy(new, Gains(blocks[i].at + Header, size)) /\ new[i].used
      BY <1>1, <1>3, <3>1, WholeTakes
    <3>3. i \in DOMAIN new /\ blocks' = new
      BY <3>1
    <3>. HIDE DEF new
    <3>. QED
      BY <1>3, <3>2, <3>3
  <2>. QED
    BY <1>3, <2>1, <2>2
<1>5. TypeOK'
  <2>1. PICK need \in Nat : used_size' = (used_size + need) % Word
    BY MallocTakes
  <2>2. used_size + need \in Int /\ current_usage + size \in Int
    BY Constants DEF WholePool, TypeOK
  <2>3. used_size' \in Addresses /\ current_usage' \in Addresses
    BY <2>1, <2>2, MallocTakes, Modulo
  <2>4. DOMAIN live' \subseteq Addresses /\ \A p \in DOMAIN live' : live'[p] \in Sizes
    BY <1>3 DEF Gains, WholePool, TypeOK
  <2>5. past' \subseteq {"shrink", "grow", "overrun"}
    BY MallocTakes DEF WholePool, TypeOK
  <2>6. blocks' \in Seq([at : Addresses, size : Addresses, used : BOOLEAN, orig : Addresses])
    BY <1>4 DEF Laid, BlockRecord
  <2>. QED
    BY <2>3, <2>4, <2>5, <2>6 DEF TypeOK
<1>6. past' = past
  BY MallocTakes
<1>. QED
  BY <1>4, <1>5, <1>6 DEF WholePool

\* What infra_free and a realloc that moves do at their end.
LEMMA ReturnedAndMerged ==
  ASSUME NEW list, Laid(list), NEW held, OwnedBy(list, held),
         NEW i \in DOMAIN list, NEW new \in Seq(BlockRecord), Len(new) = Len(list),
         \A k \in DOMAIN list : k # i => new[k] = list[k],
         ~new[i].used, new[i].at = list[i].at, new[i].size = list[i].size
  PROVE  /\ Laid(Merged(new)) /\ Mixed(Merged(new))
         /\ Tiles(list) => Tiles(Merged(new))
         /\ OwnedBy(Merged(new), [p \in DOMAIN held \ {list[i].at + Header} |-> held[p]])
         /\ (\A k \in DOMAIN Merged(new) : ~Merged(new)[k].used) => Len(Merged(new)) = 1
<1>. DEFINE rest == [p \in DOMAIN held \ {list[i].at + Header} |-> held[p]]
            done == Merged(new)
<1>1. \A k \in DOMAIN list : new[k].at = list[k].at /\ new[k].size = list[k].size
  OBVIOUS
<1>2. Laid(new) /\ (Tiles(list) => Tiles(new))
  BY <1>1, SameShape
<1>3. OwnedBy(new, rest)
  BY GivenBack
<1>4. Laid(done) /\ Mixed(done) /\ SameUsed(new, done) /\ (Tiles(new) => Tiles(done))
  BY <1>2, MergedKeeps
<1>. HIDE DEF done, rest
<1>5. OwnedBy(done, rest)
  BY <1>3, <1>4, SameUsedOwned
<1>6. done \in Seq(BlockRecord) /\ done # <<>>
  BY <1>4 DEF Laid
<1>7. (\A k \in DOMAIN done : ~done[k].used) => Len(done) = 1
  BY <1>4, <1>6, OneWhenFree
<1>. QED
  BY <1>2, <1>4, <1>5, <1>7 DEF done, rest

LEMMA FreeKeeps ==
  ASSUME WholePool, NEW ptr \in DOMAIN live, Free(ptr)
  PROVE  WholePool'
<1>. DEFINE i == HeaderOf(ptr)
            b == blocks[i]
            freed == [blocks EXCEPT ![i].used = FALSE, ![i].orig = 0]
            rest == [p \in DOMAIN live \ {ptr} |-> live[p]]
<1>1. Laid(blocks) /\ OwnedBy(blocks, live) /\ blocks \in Seq(BlockRecord)
  BY DEF WholePool, Laid
<1>2. i \in DOMAIN blocks /\ blocks[i].at + Header = ptr /\ b = blocks[i]
  BY <1>1, HeaderFound
<1>3. /\ blocks' = Merged(freed)
      /\ used_size' = (used_size - b.size) % Word
      /\ current_usage' = (current_usage - b.orig) % Word
      /\ live' = rest
      /\ past' = past
  BY DEF Free
<1>. HIDE DEF i, b
<1>4. b \in BlockRecord /\ b.size \in Nat /\ b.orig \in Nat
  BY <1>1, <1>2, BlockNumbers, Constants
<1>. DEFINE free == [b EXCEPT !.used = FALSE, !.orig = 0]
<1>5. free \in BlockRecord /\ free.at = b.at /\ free.size = b.size /\ ~free.used
  <2>1. 0 \in Addresses
    BY Constants
  <2>. QED
    BY <1>4, <2>1 DEF BlockRecord
<1>6. freed = [blocks EXCEPT ![i] = free]
  BY <1>1, <1>2
<1>. HIDE DEF free, freed
<1>7. freed \in Seq(BlockRecord) /\ Len(freed) = Len(blocks)
  BY <1>1, <1>2, <1>5, <1>6
<1>8. freed[i] = free /\ \A k \in DOMAIN blocks : k # i => freed[k] = blocks[k]
  BY <1>1, <1>2, <1>6
<1>9. /\ Laid(Merged(freed)) /\ Mixed(Merged(freed))
      /\ Tiles(blocks) => Tiles(Merged(freed))
      /\ OwnedBy(Merged(freed), [p \in DOMAIN live \ {blocks[i].at + Header} |-> live[p]])
      /\ (\A k \in DOMAIN Merged(freed) : ~Merged(freed)[k].used) => Len(Merged(freed)) = 1
  <2>1. ~freed[i].used /\ freed[i].at = blocks[i].at /\ freed[i].size = blocks[i].size
    BY <1>2, <1>5, <1>8
  <2>. QED
    BY <1>1, <1>2, <1>7, <1>8, <2>1, ReturnedAndMerged
<1>10. OwnedBy(Merged(freed), rest)
  BY <1>2, <1>9
<1>11. TypeOK'
  <2>1. used_size - b.size \in Int /\ current_usage - b.orig \in Int
    BY <1>4, Constants DEF WholePool, TypeOK
  <2>2. used_size' \in Addresses /\ current_usage' \in Addresses
    BY <1>3, <2>1, Modulo
  <2>3. DOMAIN live' \subseteq Addresses /\ \A p \in DOMAIN live' : live'[p] \in Sizes
    BY <1>3 DEF WholePool, TypeOK
  <2>4. past' \subseteq {"shrink", "grow", "overrun"}
    BY <1>3 DEF WholePool, TypeOK
  <2>5. blocks' \in Seq([at : Addresses, size : Addresses, used : BOOLEAN, orig : Addresses])
    BY <1>3, <1>9 DEF Laid, BlockRecord
  <2>. QED
    BY <2>2, <2>3, <2>4, <2>5 DEF TypeOK
<1>. HIDE DEF rest
<1>. QED
  BY <1>3, <1>9, <1>10, <1>11 DEF WholePool

LEMMA ShrinkKeeps ==
  ASSUME WholePool, NEW ptr \in DOMAIN live, NEW size \in Sizes, ReallocInPlace(ptr, size),
         Header + Aligned(size) <= blocks[HeaderOf(ptr)].size
  PROVE  WholePool'
<1>. DEFINE i == HeaderOf(ptr)
            b == blocks[i]
            need == Aligned(size)
            remaining == Remaining(b, need)
            first == [b EXCEPT !.size = need]
            at == (b.at + Header + need) % Word
            rest == Block(at, remaining - Header, FALSE, 0)
            split_list == Split(i, first, rest)
            held == [live EXCEPT ![ptr] = size]
<1>1. Laid(blocks) /\ OwnedBy(blocks, live) /\ blocks \in Seq(BlockRecord)
  BY DEF WholePool, Laid
<1>2. /\ i \in DOMAIN blocks /\ b.at + Header = ptr /\ b.used /\ b = blocks[i]
  BY <1>1, HeaderFound
<1>3. /\ blocks' = IF remaining >= Header THEN split_list ELSE blocks
      /\ used_size' = (used_size - Aligned(b.size) + need) % Word
      /\ current_usage' = (current_usage - Aligned(b.size) + need) % Word
      /\ live' = held
      /\ past' = past \cup (IF Header + need > b.size THEN {"shrink", "overrun"} ELSE {"shrink"})
      /\ Header + need <= b.size
  BY DEF ReallocInPlace
<1>4. size \in Nat /\ Header \in Nat \ {0} /\ PoolSize \in Nat
  BY Constants
<1>5. need \in Nat /\ need >= size
  BY <1>4, AlignedGrows
<1>. HIDE DEF i, b, need
<1>6. /\ b \in BlockRecord /\ b.at \in Nat /\ b.size \in Nat
      /\ EndOf(b) = b.at + Header + b.size /\ EndOf(b) \in Nat /\ EndOf(b) <= PoolSize
  BY <1>1, <1>2, BlockNumbers
<1>7. Aligned(b.size) \in Nat
  BY <1>6, AlignedGrows
<1>8. remaining = b.size - (Header + need) /\ at = b.at + Header + need
  <2>1. b.size - (Header + need) \in 0 .. PoolSize /\ b.at + Header + need \in 0 .. PoolSize
    BY <1>3, <1>4, <1>5, <1>6
  <2>2. b.size - (Header + need) \in Addresses /\ b.at + Header + need \in Addresses
    BY <2>1, Constants
  <2>. QED
    BY <2>2, Modulo DEF Remaining
<1>9. DOMAIN held = DOMAIN live /\ held[ptr] = size /\ \A p \in DOMAIN live : p # ptr => held[p] = live[p]
  OBVIOUS
<1>. HIDE DEF remaining, at, held
<1>10. \A k \in DOMAIN blocks : blocks[k].at + Header = ptr => k = i
  <2>. SUFFICES ASSUME NEW k \in DOMAIN blocks, blocks[k].at + Header = ptr PROVE k = i
    OBVIOUS
  <2>1. blocks[k].at \in Nat
    BY <1>1, ListOf
  <2>2. blocks[k].at = blocks[i].at
    BY <1>2, <1>4, <1>6, <2>1
  <2>. QED
    BY <1>1, <1>2, <2>2, Apart
<1>11. Laid(blocks') /\ OwnedBy(blocks', live') /\ \E k \in DOMAIN blocks' : blocks'[k].used
  <2>1. CASE remaining >= Header
    <3>1. /\ first \in BlockRecord /\ first.at = b.at /\ first.size = need /\ first.used
      <4>1. need \in Addresses
        <5>1. need \in 0 .. PoolSize
          BY <1>3, <1>4, <1>5, <1>6
        <5>. QED
          BY <5>1, Constants
      <4>. QED
        BY <1>2, <1>6, <4>1 DEF BlockRecord
    <3>2. EndOf(first) = b.at + Header + need
      BY <3>1 DEF EndOf
    <3>3. rest \in BlockRecord /\ rest.at = at /\ ~rest.used /\ EndOf(rest) = at + Header + (remaining - Header)
      <4>. DEFINE y == remaining - Header
      <4>1. at \in 0 .. PoolSize /\ y \in 0 .. PoolSize
        BY <1>3, <1>4, <1>5, <1>6, <1>8, <2>1
      <4>2. 0 \in Addresses
        BY Constants
      <4>3. rest = Block(at, y, FALSE, 0)
        OBVIOUS
      <4>. HIDE DEF y, rest
      <4>4. rest \in BlockRecord /\ rest.at = at /\ ~rest.used /\ EndOf(rest) = at + Header + y
        BY <4>1, <4>2, <4>3, MakesFree, ZenonT(30)
      <4>. QED
        BY <4>4 DEF y
    <3>4. blocks' = split_list
      BY <1>3, <2>1
    <3>. HIDE DEF first, rest
    <3>5. EndOf(rest) = b.at + b.size
      BY <1>4, <1>5, <1>6, <1>8, <3>3
    <3>6. EndOf(first) <= rest.at /\ EndOf(rest) <= EndOf(blocks[i])
      BY <1>2, <1>4, <1>5, <1>6, <1>8, <3>2, <3>3, <3>5
    <3>7. Laid(split_list)
      BY <1>1, <1>2, <3>1, <3>3, <3>6, SplitStaysLaid
    <3>. DEFINE N == Len(blocks)
    <3>8. N \in Nat /\ i \in 1 .. N /\ DOMAIN blocks = 1 .. N
      BY <1>1, <1>2
    <3>9. split_list \in Seq(BlockRecord) /\ Len(split_list) = N + 1
      BY <1>1, <1>2, <3>1, <3>3, Splits
    <3>10. split_list[i] = first /\ split_list[i + 1] = rest
      BY <1>1, <1>2, <3>1, <3>3, Splits
    <3>11. \A k \in 1 .. i - 1 : split_list[k] = blocks[k]
      BY <1>1, <1>2, <3>1, <3>3, Splits
    <3>12. \A k \in i + 1 .. N : split_list[k + 1] = blocks[k]
      BY <1>1, <1>2, <3>1, <3>3, Splits
    <3>. HIDE DEF split_list
    <3>13. DOMAIN split_list = 1 .. N + 1
      BY <3>9
    <3>. HIDE DEF N
    <3>14. i \in DOMAIN split_list
      BY <3>8, <3>13
    <3>15. ASSUME NEW p \in DOMAIN held
           PROVE  \E n \in DOMAIN split_list :
                    /\ split_list[n].at + Header = p /\ split_list[n].used
                    /\ split_list[n].size >= held[p]
      <4>1. CASE p = ptr
        BY <1>2, <1>5, <1>9, <3>1, <3>10, <3>14, <4>1
      <4>2. CASE p # ptr
        <5>1. PICK k \in DOMAIN blocks : blocks[k].at + Header = p /\ blocks[k].used /\ blocks[k].size >= held[p]
          BY <1>1, <1>9, <3>15, <4>2 DEF OwnedBy
        <5>2. k \in 1 .. N /\ k # i
          BY <1>2, <3>8, <4>2, <5>1
        <5>3. k < i => k \in 1 .. i - 1 /\ k \in 1 .. N + 1
          BY <3>8, <5>2
        <5>4. k > i => k \in i + 1 .. N /\ k + 1 \in 1 .. N + 1
          BY <3>8, <5>2
        <5>5. k < i \/ k > i
          BY <3>8, <5>2
        <5>. QED
          BY <3>11, <3>12, <3>13, <5>1, <5>3, <5>4, <5>5
      <4>. QED
        BY <4>1, <4>2
    <3>16. ASSUME NEW n \in DOMAIN split_list, split_list[n].used
           PROVE  split_list[n].at + Header \in DOMAIN held
      <4>1. CASE n = i
        BY <1>2, <1>9, <3>1, <3>10, <4>1
      <4>2. CASE n < i
        <5>1. n \in 1 .. i - 1 /\ n \in 1 .. N
          BY <3>8, <3>13, <4>2
        <5>. QED
          BY <1>1, <1>9, <3>8, <3>11, <3>16, <5>1 DEF OwnedBy
      <4>3. CASE n > i + 1
        <5>1. n - 1 \in i + 1 .. N /\ n - 1 + 1 = n /\ n - 1 \in 1 .. N
          BY <3>8, <3>13, <4>3
        <5>2. split_list[n] = blocks[n - 1]
          BY <3>12, <5>1
        <5>. QED
          BY <1>1, <1>9, <3>8, <3>16, <5>1, <5>2 DEF OwnedBy
      <4>4. n # i + 1
        BY <3>3, <3>10, <3>16
      <4>5. n \in Nat /\ i \in Nat
        BY <3>8, <3>13
      <4>. QED
        BY <4>1, <4>2, <4>3, <4>4, <4>5
    <3>17. OwnedBy(split_list, held)
      BY <3>15, <3>16 DEF OwnedBy
    <3>. QED
      BY <1>3, <3>1, <3>4, <3>7, <3>10, <3>14, <3>17
  <2>2. CASE ~(remaining >= Header)
    <3>1. blocks' = blocks
      BY <1>3, <2>2
    <3>2. b.size >= size
      BY <1>3, <1>4, <1>5, <1>6
    <3>3. OwnedBy(blocks, held)
      <4>1. ASSUME NEW p \in DOMAIN held
            PROVE  \E n \in DOMAIN blocks :
                     blocks[n].at + Header = p /\ blocks[n].used /\ blocks[n].size >= held[p]
        <5>1. CASE p = ptr
          BY <1>2, <1>9, <3>2, <5>1
        <5>2. CASE p # ptr
          BY <1>1, <1>9, <4>1, <5>2 DEF OwnedBy
        <5>. QED
          BY <5>1, <5>2
      <4>. QED
        BY <1>1, <1>9, <4>1 DEF OwnedBy
    <3>. QED
      BY <1>1, <1>2, <1>3, <3>1, <3>3
  <2>. QED
    BY <2>1, <2>2
<1>12. TypeOK'
  <2>1. used_size - Aligned(b.size) + need \in Int /\ current_usage - Aligned(b.size) + need \in Int
    <3>1. used_size \in Nat /\ current_usage \in Nat
      BY Constants DEF WholePool, TypeOK
    <3>. QED
      BY <1>5, <1>7, <3>1
  <2>2. used_size' \in Addresses /\ current_usage' \in Addresses
    BY <1>3, <2>1, Modulo
  <2>3. DOMAIN live' \subseteq Addresses /\ \A p \in DOMAIN live' : live'[p] \in Sizes
    BY <1>3, <1>9 DEF WholePool, TypeOK
  <2>4. past' \subseteq {"shrink", "grow", "overrun"}
    BY <1>3 DEF WholePool, TypeOK
  <2>5. blocks' \in Seq([at : Addresses, size : Addresses, used : BOOLEAN, orig : Addresses])
    BY <1>11 DEF Laid, BlockRecord
  <2>. QED
    BY <2>2, <2>3, <2>4, <2>5 DEF TypeOK
<1>13. "shrink" \in past' /\ "overrun" \notin past'
  <2>1. ~(Header + need > b.size)
    BY <1>3, <1>4, <1>5, <1>6
  <2>2. past' = past \cup {"shrink"}
    BY <1>3, <2>1
  <2>. QED
    BY <2>2 DEF WholePool
<1>. QED
  BY <1>11, <1>12, <1>13 DEF WholePool

\* A split in place that has no room for its header puts a block of nearly the
\* whole address space there.
LEMMA OverrunBreaks ==
  ASSUME WholePool, NEW ptr \in DOMAIN live, NEW size \in Sizes, ReallocInPlace(ptr, size),
         ~(Header + Aligned(size) <= blocks[HeaderOf(ptr)].size)
  PROVE  BrokenPool'
<1>. DEFINE i == HeaderOf(ptr)
            b == blocks[i]
            need == Aligned(size)
            remaining == Remaining(b, need)
            first == [b EXCEPT !.size = need]
            at == (b.at + Header + need) % Word
            rest == Block(at, remaining - Header, FALSE, 0)
            split_list == Split(i, first, rest)
            held == [live EXCEPT ![ptr] = size]
<1>1. Laid(blocks) /\ OwnedBy(blocks, live) /\ blocks \in Seq(BlockRecord)
  BY DEF WholePool, Laid
<1>2. /\ i \in DOMAIN blocks /\ b.at + Header = ptr /\ b.used /\ b = blocks[i]
  BY <1>1, HeaderFound
<1>3. /\ blocks' = IF remaining >= Header THEN split_list ELSE blocks
      /\ used_size' = (used_size - Aligned(b.size) + need) % Word
      /\ current_usage' = (current_usage - Aligned(b.size) + need) % Word
      /\ live' = held
      /\ past' = past \cup (IF Header + need > b.size THEN {"shrink", "overrun"} ELSE {"shrink"})
      /\ need <= b.size /\ ~(Header + need <= b.size)
  BY DEF ReallocInPlace
<1>4. size \in Nat /\ Header \in Nat \ {0} /\ PoolSize \in Nat /\ Word \in Nat
      /\ 2 * (PoolSize + Header) < Word
  BY Constants, MemoryAssumption
<1>5. need \in Nat /\ need >= size
  BY <1>4, AlignedGrows
<1>. HIDE DEF i, b, need
<1>6. /\ b \in BlockRecord /\ b.at \in Nat /\ b.size \in Nat
      /\ EndOf(b) = b.at + Header + b.size /\ EndOf(b) \in Nat /\ EndOf(b) <= PoolSize
  BY <1>1, <1>2, BlockNumbers
<1>7. Aligned(b.size) \in Nat
  BY <1>6, AlignedGrows
<1>8. remaining = b.size - (Header + need) + Word /\ at = b.at + Header + need
  <2>. DEFINE short == b.size - (Header + need)
  <2>1. short \in Int /\ -Word <= short /\ short < 0
    BY <1>3, <1>4, <1>5, <1>6
  <2>. HIDE DEF short
  <2>2. short % Word = short + Word
    BY <1>4, <2>1
  <2>3. b.at + Header + need \in 0 .. PoolSize
    BY <1>3, <1>4, <1>5, <1>6
  <2>4. b.at + Header + need \in Addresses
    BY <2>3, Constants
  <2>. QED
    BY <2>2, <2>4, Modulo DEF Remaining, short
<1>9. /\ at \in Nat /\ at \in Addresses /\ remaining - Header \in Addresses /\ remaining - Header \in Nat
      /\ remaining >= Header
      /\ at + Header + (remaining - Header) > PoolSize
  <2>1. at \in 0 .. PoolSize
    BY <1>3, <1>4, <1>5, <1>6, <1>8
  <2>2. remaining >= Header /\ remaining - Header \in 0 .. Word - 1
    BY <1>3, <1>4, <1>5, <1>6, <1>8
  <2>3. at + Header + (remaining - Header) > PoolSize
    BY <1>4, <1>5, <1>6, <1>8
  <2>. QED
    BY <2>1, <2>2, <2>3, Constants DEF Addresses
<1>10. DOMAIN held = DOMAIN live /\ held[ptr] = size /\ \A p \in DOMAIN live : p # ptr => held[p] = live[p]
  OBVIOUS
<1>. HIDE DEF remaining, at, held
<1>11. first \in BlockRecord
  <2>1. need \in 0 .. PoolSize
    BY <1>3, <1>4, <1>5, <1>6
  <2>2. need \in Addresses
    BY <2>1, Constants
  <2>. QED
    BY <1>2, <1>6, <2>2 DEF BlockRecord
<1>. DEFINE y == remaining - Header
<1>12. rest = [at |-> at, size |-> y, used |-> FALSE, orig |-> 0]
  BY DEF Block
<1>13. 0 \in Addresses /\ y \in Addresses
  BY <1>9, Constants
<1>. HIDE DEF y, rest
<1>14. rest \in BlockRecord /\ EndOf(rest) = at + Header + y
  BY <1>9, <1>12, <1>13 DEF BlockRecord, EndOf
<1>15. EndOf(rest) \in Nat /\ EndOf(rest) > PoolSize
  BY <1>4, <1>9, <1>14 DEF y
<1>. HIDE DEF first
<1>16. blocks' = split_list
  BY <1>3, <1>9
<1>. DEFINE N == Len(blocks)
<1>17. N \in Nat /\ i \in 1 .. N
  BY <1>1, <1>2
<1>18. split_list \in Seq(BlockRecord) /\ Len(split_list) = N + 1
  BY <1>1, <1>2, <1>11, <1>14, Splits
<1>19. split_list[i + 1] = rest
  BY <1>1, <1>2, <1>11, <1>14, Splits
<1>20. \A k \in i + 1 .. N : split_list[k + 1] = blocks[k]
  BY <1>1, <1>2, <1>11, <1>14, Splits
<1>. HIDE DEF split_list, N
<1>21. DOMAIN split_list = 1 .. N + 1 /\ i + 1 \in 1 .. N + 1
  BY <1>17, <1>18
<1>22. ~ListIsSound'
  <2>. SUFFICES ASSUME ListIsSound' PROVE FALSE
    OBVIOUS
  <2>1. EndOf(split_list[i + 1]) <= IF i + 1 = Len(split_list) THEN PoolSize
                                    ELSE split_list[i + 1 + 1].at
    BY <1>16, <1>21 DEF ListIsSound, EndOf
  <2>2. CASE i = N
    BY <1>4, <1>15, <1>17, <1>18, <1>19, <2>1, <2>2
  <2>3. CASE i # N
    <3>1. i + 1 \in i + 1 .. N /\ i + 1 # N + 1 /\ i + 1 \in 1 .. N
      BY <1>17, <2>3
    <3>2. split_list[i + 1 + 1] = blocks[i + 1]
      BY <1>20, <3>1
    <3>3. i + 1 \in DOMAIN blocks
      BY <1>1, <3>1 DEF N
    <3>4. /\ blocks[i + 1].at \in Nat /\ EndOf(blocks[i + 1]) <= PoolSize
          /\ EndOf(blocks[i + 1]) = blocks[i + 1].at + Header + blocks[i + 1].size
          /\ blocks[i + 1].size \in Nat
      BY <1>1, <3>3, BlockNumbers
    <3>5. EndOf(rest) <= blocks[i + 1].at
      BY <1>18, <1>19, <2>1, <3>1, <3>2
    <3>. QED
      BY <1>4, <1>15, <3>4, <3>5
  <2>. QED
    BY <2>2, <2>3
<1>23. TypeOK'
  <2>1. used_size - Aligned(b.size) + need \in Int /\ current_usage - Aligned(b.size) + need \in Int
    <3>1. used_size \in Nat /\ current_usage \in Nat
      BY Constants DEF WholePool, TypeOK
    <3>. QED
      BY <1>5, <1>7, <3>1
  <2>2. used_size' \in Addresses /\ current_usage' \in Addresses
    BY <1>3, <2>1, Modulo
  <2>3. DOMAIN live' \subseteq Addresses /\ \A p \in DOMAIN live' : live'[p] \in Sizes
    BY <1>3, <1>10 DEF WholePool, TypeOK
  <2>4. past' \subseteq {"shrink", "grow", "overrun"}
    BY <1>3 DEF WholePool, TypeOK
  <2>5. blocks' \in Seq([at : Addresses, size : Addresses, used : BOOLEAN, orig : Addresses])
    BY <1>16, <1>18 DEF BlockRecord
  <2>. QED
    BY <2>2, <2>3, <2>4, <2>5 DEF TypeOK
<1>24. {"shrink", "overrun"} \subseteq past'
  <2>1. Header + need > b.size
    BY <1>3, <1>4, <1>5, <1>6
  <2>. QED
    BY <1>3, <2>1
<1>. QED
  BY <1>22, <1>23, <1>24 DEF BrokenPool

LEMMA MoveKeeps ==
  ASSUME WholePool, NEW ptr \in DOMAIN live, NEW size \in Sizes, ReallocMoves(ptr, size)
  PROVE  WholePool'
<1>. DEFINE o == HeaderOf(ptr)
            old == blocks[o]
            need == Aligned(Header + size)
            i == FirstFit(need)
            b == blocks[i]
            q == b.at + Header
            Taken(garbage) ==
              IF b.size >= need + Header
                THEN Split(i, Block(b.at, need - Header, TRUE, garbage),
                           Block(b.at + need, b.size - need, FALSE, 0))
                ELSE [blocks EXCEPT ![i].used = TRUE, ![i].orig = garbage]
            Returned(list) == [k \in DOMAIN list |->
                                 IF list[k].at = old.at
                                   THEN [list[k] EXCEPT !.used = FALSE, !.orig = 0]
                                   ELSE list[k]]
            held == [p \in (DOMAIN live \ {ptr}) \cup {q} |-> IF p = q THEN size ELSE live[p]]
<1>1. Laid(blocks) /\ OwnedBy(blocks, live) /\ blocks \in Seq(BlockRecord)
  BY DEF WholePool, Laid
<1>2. o \in DOMAIN blocks /\ old.at + Header = ptr /\ old.used /\ old = blocks[o]
  BY <1>1, HeaderFound
<1>3. size \in Nat /\ Header \in Nat \ {0} /\ PoolSize \in Nat
  BY Constants
<1>4. need \in Nat /\ need >= Header + size
  BY <1>3, AlignedGrows
<1>5. i \in DOMAIN blocks /\ ~blocks[i].used /\ blocks[i].size >= need /\ b = blocks[i]
  <2>1. FreeFor(need) # {}
    BY DEF ReallocMoves
  <2>2. FirstFit(need) \in FreeFor(need)
    BY <1>1, <2>1, FirstFitFits
  <2>. QED
    BY <2>2 DEF FreeFor
<1>6. PICK garbage \in Garbage : blocks' = Merged(Returned(Taken(garbage)))
  BY DEF ReallocMoves
<1>7. /\ used_size' = (used_size + need - Aligned(old.size)) % Word
      /\ current_usage' = (current_usage + size - Aligned(old.size)) % Word
      /\ live' = held
      /\ past' = past \cup {"grow"}
  BY DEF ReallocMoves
<1>. DEFINE taken == Taken(garbage)
            new == Returned(taken)
            first == Block(b.at, need - Header, TRUE, garbage)
            rest == Block(b.at + need, b.size - need, FALSE, 0)
            whole == [b EXCEPT !.used = TRUE, !.orig = garbage]
            split_list == Split(i, first, rest)
            whole_list == [blocks EXCEPT ![i] = whole]
<1>8. taken = IF b.size >= need + Header THEN split_list ELSE whole_list
  <2>1. whole_list = [blocks EXCEPT ![i].used = TRUE, ![i].orig = garbage]
    BY <1>1, <1>5
  <2>. QED
    BY <2>1
<1>. HIDE DEF o, old, need, i, b
<1>9. /\ b \in BlockRecord /\ b.at \in Nat /\ b.size \in Nat
      /\ EndOf(b) = b.at + Header + b.size /\ EndOf(b) \in Nat /\ EndOf(b) <= PoolSize
  BY <1>1, <1>5, BlockNumbers
<1>10. old.at \in Nat /\ old.size \in Nat
  BY <1>1, <1>2, BlockNumbers
<1>11. old.at # b.at /\ ptr # q
  <2>1. old.at # b.at
    BY <1>1, <1>2, <1>5, Apart
  <2>. QED
    BY <1>2, <1>3, <1>9, <1>10, <2>1
<1>12. garbage \in Addresses /\ 0 \in Addresses
  BY Constants
<1>13. /\ Laid(taken) /\ (Tiles(blocks) => Tiles(taken)) /\ OwnedBy(taken, Gains(q, size))
  <2>1. CASE b.size >= need + Header
    <3>1. first \in BlockRecord /\ first.at = b.at /\ first.size = need - Header /\ first.used /\ EndOf(first) = b.at + Header + (need - Header)
      <4>. DEFINE x == need - Header
      <4>1. b.at \in 0 .. PoolSize /\ x \in 0 .. PoolSize
        BY <1>3, <1>4, <1>9, <2>1
      <4>2. first = Block(b.at, x, TRUE, garbage) /\ garbage \in Addresses
        BY <1>12
      <4>. HIDE DEF x, first, q, Taken, Returned, held, taken, new, rest, whole, split_list, whole_list
      <4>3. first \in BlockRecord /\ first.at = b.at /\ first.size = x /\ first.used
        BY <4>1, <4>2, MakesUsed, ZenonT(30)
      <4>4. EndOf(first) = b.at + Header + x
        BY <4>1, <4>2, MakesUsed, ZenonT(30)
      <4>. QED
        BY <4>3, <4>4 DEF x
    <3>2. rest \in BlockRecord /\ rest.at = b.at + need /\ ~rest.used /\ EndOf(rest) = b.at + need + Header + (b.size - need)
      <4>. DEFINE x == b.at + need
                  y == b.size - need
      <4>1. x \in 0 .. PoolSize /\ y \in 0 .. PoolSize
        BY <1>3, <1>4, <1>9, <2>1
      <4>2. rest = Block(x, y, FALSE, 0) /\ 0 \in Addresses
        BY <1>12
      <4>. HIDE DEF x, y, first, q, Taken, Returned, held, taken, new, rest, whole, split_list, whole_list
      <4>3. rest \in BlockRecord /\ rest.at = x /\ ~rest.used
        BY <4>1, <4>2, MakesFree, ZenonT(30)
      <4>4. EndOf(rest) = x + Header + y
        BY <4>1, <4>2, MakesFree, ZenonT(30)
      <4>. QED
        BY <4>3, <4>4 DEF x, y
    <3>3. taken = split_list
      BY <1>8, <2>1
    <3>. HIDE DEF first, rest
    <3>4. EndOf(first) = rest.at /\ EndOf(rest) = EndOf(b) /\ first.size >= size
      BY <1>3, <1>4, <1>9, <3>1, <3>2
    <3>5. first.at = blocks[i].at /\ EndOf(rest) = EndOf(blocks[i])
      BY <1>5, <3>1, <3>4
    <3>6. /\ Laid(split_list) /\ (Tiles(blocks) => Tiles(split_list))
          /\ OwnedBy(split_list, Gains(blocks[i].at + Header, size))
      BY <1>1, <1>5, <3>1, <3>2, <3>4, <3>5, SplitTakes
    <3>. HIDE DEF split_list, taken
    <3>. QED
      BY <1>5, <3>3, <3>6
  <2>2. CASE ~(b.size >= need + Header)
    <3>1. whole \in BlockRecord /\ whole.at = b.at /\ whole.size = b.size /\ whole.used
      BY <1>9, <1>12 DEF BlockRecord
    <3>2. taken = whole_list
      BY <1>8, <2>2
    <3>. HIDE DEF whole
    <3>3. b.size >= size
      BY <1>3, <1>4, <1>5, <1>9
    <3>4. whole.at = blocks[i].at /\ whole.size = blocks[i].size /\ whole.size >= size
      BY <1>5, <3>1, <3>3
    <3>5. /\ Laid(whole_list) /\ (Tiles(blocks) => Tiles(whole_list))
          /\ OwnedBy(whole_list, Gains(blocks[i].at + Header, size))
      BY <1>1, <1>5, <3>1, <3>4, WholeTakes
    <3>. HIDE DEF whole_list, taken
    <3>. QED
      BY <1>5, <3>2, <3>5
  <2>. QED
    BY <2>1, <2>2
<1>. HIDE DEF Taken, taken
<1>14. taken \in Seq(BlockRecord) /\ Len(taken) \in Nat /\ DOMAIN taken = 1 .. Len(taken)
  BY <1>13 DEF Laid
<1>15. PICK j \in DOMAIN taken : taken[j].at + Header = ptr
  BY <1>2, <1>11, <1>13, ptr \in DOMAIN Gains(q, size) DEF OwnedBy, Gains
<1>16. \A k \in DOMAIN taken : taken[k].at = old.at <=> k = j
  <2>1. taken[j].at = old.at
    <3>1. taken[j].at \in Nat
      BY <1>14, ListOf
    <3>. QED
      BY <1>2, <1>3, <1>10, <1>15, <3>1
  <2>. QED
    BY <1>13, <2>1, Apart
<1>. DEFINE freed == [taken[j] EXCEPT !.used = FALSE, !.orig = 0]
<1>17. freed \in BlockRecord /\ freed.at = taken[j].at /\ freed.size = taken[j].size /\ ~freed.used
  <2>1. taken[j] \in BlockRecord
    BY <1>14
  <2>. QED
    BY <1>12, <2>1 DEF BlockRecord
<1>18. new = [k \in 1 .. Len(taken) |-> IF k = j THEN freed ELSE taken[k]]
  BY <1>14, <1>16
<1>. HIDE DEF freed, new, Returned
<1>19. new \in Seq(BlockRecord) /\ Len(new) = Len(taken)
  <2>1. \A k \in 1 .. Len(taken) : taken[k] \in BlockRecord
    BY <1>14
  <2>. QED
    BY <1>14, <1>17, <1>18, <2>1
<1>20. new[j] = freed /\ \A k \in DOMAIN taken : k # j => new[k] = taken[k]
  BY <1>14, <1>18
<1>21. /\ Laid(Merged(new)) /\ Mixed(Merged(new))
       /\ Tiles(taken) => Tiles(Merged(new))
       /\ OwnedBy(Merged(new), [p \in DOMAIN Gains(q, size) \ {taken[j].at + Header} |-> Gains(q, size)[p]])
       /\ (\A k \in DOMAIN Merged(new) : ~Merged(new)[k].used) => Len(Merged(new)) = 1
  <2>1. ~new[j].used /\ new[j].at = taken[j].at /\ new[j].size = taken[j].size
    BY <1>17, <1>20
  <2>. QED
    BY <1>13, <1>19, <1>20, <2>1, ReturnedAndMerged
<1>22. held = [p \in DOMAIN Gains(q, size) \ {taken[j].at + Header} |-> Gains(q, size)[p]]
  <2>1. DOMAIN Gains(q, size) \ {ptr} = (DOMAIN live \ {ptr}) \cup {q}
    BY <1>11 DEF Gains
  <2>2. \A p \in (DOMAIN live \ {ptr}) \cup {q} : Gains(q, size)[p] = IF p = q THEN size ELSE live[p]
    BY DEF Gains
  <2>. QED
    BY <1>15, <2>1, <2>2
<1>23. blocks' = Merged(new)
  BY <1>6 DEF new, taken
<1>24. TypeOK'
  <2>1. used_size + need - Aligned(old.size) \in Int /\ current_usage + size - Aligned(old.size) \in Int
    <3>1. used_size \in Nat /\ current_usage \in Nat
      BY Constants DEF WholePool, TypeOK
    <3>2. Aligned(old.size) \in Nat
      BY <1>10, AlignedGrows
    <3>. QED
      BY <1>3, <1>4, <3>1, <3>2
  <2>2. used_size' \in Addresses /\ current_usage' \in Addresses
    BY <1>7, <2>1, Modulo
  <2>3. q \in Addresses
    <3>1. q \in 0 .. PoolSize
      BY <1>3, <1>9
    <3>. QED
      BY <3>1, Constants
  <2>4. DOMAIN live' \subseteq Addresses /\ \A p \in DOMAIN live' : live'[p] \in Sizes
    BY <1>7, <2>3 DEF WholePool, TypeOK
  <2>5. past' \subseteq {"shrink", "grow", "overrun"}
    BY <1>7 DEF WholePool, TypeOK
  <2>6. blocks' \in Seq([at : Addresses, size : Addresses, used : BOOLEAN, orig : Addresses])
    BY <1>21, <1>23 DEF Laid, BlockRecord
  <2>. QED
    BY <2>2, <2>4, <2>5, <2>6 DEF TypeOK
<1>25. ("shrink" \notin past' => "shrink" \notin past) /\ "overrun" \notin past'
  BY <1>7 DEF WholePool
<1>. HIDE DEF held
<1>26. OwnedBy(blocks', live')
  BY <1>7, <1>21, <1>22, <1>23
<1>. QED
  BY <1>13, <1>21, <1>23, <1>24, <1>25, <1>26 DEF WholePool

LEMMA NextKeeps == MemoryInv /\ [Next]_vars => MemoryInv'
<1>. SUFFICES ASSUME MemoryInv, [Next]_vars PROVE MemoryInv'
  OBVIOUS
<1>1. CASE WholePool /\ Next
  <2>1. CASE \E size \in Sizes : Malloc(size)
    BY <1>1, <2>1, MallocKeeps DEF MemoryInv
  <2>2. CASE \E ptr \in DOMAIN live : Free(ptr)
    BY <1>1, <2>2, FreeKeeps DEF MemoryInv
  <2>3. CASE \E ptr \in DOMAIN live, size \in Sizes : ReallocInPlace(ptr, size)
    BY <1>1, <2>3, ShrinkKeeps, OverrunBreaks DEF MemoryInv
  <2>4. CASE \E ptr \in DOMAIN live, size \in Sizes : ReallocMoves(ptr, size)
    BY <1>1, <2>4, MoveKeeps DEF MemoryInv
  <2>. QED
    BY <1>1, <2>1, <2>2, <2>3, <2>4 DEF Next
<1>2. ~(BrokenPool /\ Next)
  BY DEF BrokenPool, Next
<1>3. CASE UNCHANGED vars
  <2>1. WholePool => WholePool'
    BY <1>3 DEF vars, WholePool, TypeOK, Laid, OwnedBy, Tiles, Mixed, EndOf
  <2>2. BrokenPool => BrokenPool'
    BY <1>3 DEF vars, BrokenPool, TypeOK, ListIsSound, EndOf
  <2>. QED
    BY <2>1, <2>2 DEF MemoryInv
<1>. QED
  BY <1>1, <1>2, <1>3 DEF MemoryInv

-----------------------------------------------------------------------------
(* The usage.                                                               *)

\* Blocks remember what was asked for.
Honest(list, held) ==
  \A i \in DOMAIN list : list[i].used => list[i].orig = held[list[i].at + Header]

UsageInv == past = {} => Honest(blocks, live) /\ current_usage = Total(blocks)

LEMMA HonestFits ==
  ASSUME NEW list, NEW held, Laid(list), OwnedBy(list, held), Honest(list, held)
  PROVE  Total(list) \in Nat /\ Total(list) <= PoolSize
<1>1. list \in Seq(BlockRecord)
  BY DEF Laid
<1>2. ASSUME NEW i \in DOMAIN list, list[i].used PROVE list[i].orig <= list[i].size
  <2>. DEFINE p == list[i].at + Header
  <2>1. p \in DOMAIN held /\ list[i].orig = held[p]
    BY <1>2 DEF OwnedBy, Honest
  <2>2. PICK k \in DOMAIN list : list[k].at + Header = p /\ list[k].size >= held[p]
    BY <2>1 DEF OwnedBy
  <2>3. list[k].at \in Nat /\ list[i].at \in Nat /\ list[i].size \in Nat /\ Header \in Nat
    BY <1>1, ListOf, Constants
  <2>4. list[k].at = list[i].at
    BY <2>2, <2>3
  <2>5. k = i
    BY <2>4, Apart
  <2>6. list[i].size >= list[i].orig
    BY <2>1, <2>2, <2>5
  <2>7. list[i].orig \in Nat
    <3>1. list[i] \in BlockRecord
      BY <1>1
    <3>. QED
      BY <3>1, Constants DEF BlockRecord
  <2>. QED
    BY <2>3, <2>6, <2>7
<1>. QED
  BY <1>2, TotalFits

\* A block that is taken adds what it is asked for.
LEMMA TakenTotal ==
  ASSUME Laid(blocks), Honest(blocks, live), OwnedBy(blocks, live), NEW size,
         NEW i \in DOMAIN blocks, NEW b \in BlockRecord, Takes(i, b, size)
  PROVE  Total(blocks') = Total(blocks) + size /\ Honest(blocks', live')
<1>. DEFINE N == Len(blocks)
            q == blocks[i].at + Header
            held == Gains(q, size)
<1>1. blocks \in Seq(BlockRecord) /\ i \in 1 .. N /\ N \in Nat /\ DOMAIN blocks = 1 .. N
  BY DEF Laid
<1>2. /\ ~blocks[i].used /\ b.used /\ b.at = blocks[i].at /\ b.orig = size /\ live' = held
      /\ (\E rest \in BlockRecord : TakesPart(i, b, rest)) \/ TakesAll(i, b)
  BY DEF Takes
<1>3. Weight(blocks[i]) = 0 /\ Weight(b) = size
  BY <1>2 DEF Weight
<1>4. Total(blocks) \in Nat /\ size \in Nat
  BY <1>1, <1>2, WeightsAre, Constants DEF BlockRecord
<1>5. held[q] = size /\ \A p \in DOMAIN live : p # q => held[p] = live[p]
  BY DEF Gains
<1>6. ASSUME NEW k \in DOMAIN blocks, blocks[k].used
      PROVE  blocks[k].orig = held[blocks[k].at + Header]
  <2>1. k # i
    BY <1>2, <1>6
  <2>2. blocks[k].at # blocks[i].at
    BY <2>1, Apart
  <2>3. blocks[k].at \in Nat /\ blocks[i].at \in Nat /\ Header \in Nat
    BY <1>1, ListOf, Constants
  <2>4. blocks[k].at + Header # q
    BY <2>2, <2>3
  <2>5. blocks[k].at + Header \in DOMAIN live /\ blocks[k].orig = live[blocks[k].at + Header]
    BY <1>6 DEF Honest, OwnedBy
  <2>. QED
    BY <1>5, <2>4, <2>5
<1>. HIDE DEF held, q, N
<1>7. CASE \E rest \in BlockRecord : TakesPart(i, b, rest)
  <2>1. PICK rest \in BlockRecord : TakesPart(i, b, rest)
    BY <1>7
  <2>2. ~rest.used /\ blocks' = Split(i, b, rest)
    BY <2>1 DEF TakesPart
  <2>. DEFINE new == Split(i, b, rest)
  <2>3. new \in Seq(BlockRecord) /\ Len(new) = N + 1
    BY <1>1, Splits DEF N
  <2>4. new[i] = b /\ new[i + 1] = rest
    BY <1>1, Splits DEF N
  <2>5. \A k \in 1 .. i - 1 : new[k] = blocks[k]
    BY <1>1, Splits DEF N
  <2>6. \A k \in i + 1 .. N : new[k + 1] = blocks[k]
    BY <1>1, Splits DEF N
  <2>. HIDE DEF new
  <2>7. Total(new) + Weight(blocks[i]) = Total(blocks) + Weight(new[i])
    <3>1. Weight(new[i + 1]) = 0
      BY <2>2, <2>4 DEF Weight
    <3>. DEFINE d == 1
    <3>2. d \in 0 .. 1 /\ Len(new) = N + d /\ (\A k \in i + 1 .. N : new[k + d] = blocks[k])
      BY <2>3, <2>6
    <3>. HIDE DEF d
    <3>. QED
      BY <1>1, <2>3, <2>5, <3>1, <3>2, TotalOfChanged DEF N
  <2>8. Total(new) = Total(blocks) + size
    <3>1. Total(new) \in Nat
      BY <2>3, WeightsAre
    <3>. QED
      BY <1>3, <1>4, <2>4, <2>7, <3>1
  <2>9. ASSUME NEW k \in DOMAIN new, new[k].used PROVE new[k].orig = held[new[k].at + Header]
    <3>0. k \in 1 .. N + 1 /\ k # i + 1
      BY <2>2, <2>3, <2>4, <2>9
    <3>1. CASE k = i
      BY <1>2, <1>5, <2>4, <3>1 DEF q
    <3>2. CASE k < i
      <4>1. k \in 1 .. i - 1 /\ k \in 1 .. N
        BY <1>1, <3>0, <3>2
      <4>. QED
        BY <1>1, <1>6, <2>5, <2>9, <4>1
    <3>3. CASE k > i
      <4>1. k - 1 \in i + 1 .. N /\ k - 1 + 1 = k /\ k - 1 \in 1 .. N
        BY <1>1, <3>0, <3>3
      <4>2. new[k] = blocks[k - 1]
        BY <2>6, <4>1
      <4>. QED
        BY <1>1, <1>6, <2>9, <4>1, <4>2
    <3>. QED
      BY <1>1, <3>0, <3>1, <3>2, <3>3
  <2>10. Honest(new, held)
    BY <2>9 DEF Honest
  <2>. QED
    BY <1>2, <2>2, <2>8, <2>10 DEF new
<1>8. CASE TakesAll(i, b)
  <2>. DEFINE new == [blocks EXCEPT ![i] = b]
  <2>1. blocks' = new
    BY <1>8 DEF TakesAll
  <2>2. new \in Seq(BlockRecord) /\ Len(new) = N /\ DOMAIN new = DOMAIN blocks
    BY <1>1 DEF N
  <2>3. new[i] = b /\ \A k \in DOMAIN blocks : k # i => new[k] = blocks[k]
    BY <1>1
  <2>. HIDE DEF new
  <2>4. Total(new) + Weight(blocks[i]) = Total(blocks) + Weight(new[i])
    <3>. DEFINE d == 0
    <3>1. \A k \in 1 .. i - 1 : k \in 1 .. N /\ k # i
      BY <1>1
    <3>2. \A k \in i + 1 .. N : k \in 1 .. N /\ k # i /\ k + d = k
      BY <1>1
    <3>3. d \in 0 .. 1 /\ Len(new) = N + d /\ d # 1
      BY <1>1, <2>2
    <3>. HIDE DEF d
    <3>4. \A k \in 1 .. i - 1 : new[k] = blocks[k]
      BY <1>1, <2>3, <3>1
    <3>5. \A k \in i + 1 .. N : new[k + d] = blocks[k]
      BY <1>1, <2>3, <3>2
    <3>. QED
      BY <1>1, <2>2, <3>3, <3>4, <3>5, TotalOfChanged DEF N
  <2>5. Total(new) = Total(blocks) + size
    <3>1. Total(new) \in Nat
      BY <2>2, WeightsAre
    <3>. QED
      BY <1>3, <1>4, <2>3, <2>4, <3>1
  <2>6. ASSUME NEW k \in DOMAIN new, new[k].used PROVE new[k].orig = held[new[k].at + Header]
    <3>1. CASE k = i
      BY <1>2, <1>5, <2>3, <3>1 DEF q
    <3>2. CASE k # i
      BY <1>6, <2>2, <2>3, <2>6, <3>2
    <3>. QED
      BY <3>1, <3>2
  <2>7. Honest(new, held)
    BY <2>6 DEF Honest
  <2>. QED
    BY <1>2, <2>1, <2>5, <2>7
<1>. QED
  BY <1>2, <1>7, <1>8

LEMMA SmallSums == \A n \in 0 .. PoolSize : n % Word = n
BY Constants, Modulo

LEMMA MallocCounts ==
  ASSUME WholePool, WholePool', UsageInv, NEW size \in Sizes, Malloc(size)
  PROVE  UsageInv'
<1>. SUFFICES ASSUME past = {} PROVE Honest(blocks', live') /\ current_usage' = Total(blocks')
  BY MallocTakes DEF UsageInv
<1>1. /\ Laid(blocks) /\ OwnedBy(blocks, live) /\ Laid(blocks') /\ OwnedBy(blocks', live')
      /\ Honest(blocks, live) /\ current_usage = Total(blocks)
  BY DEF WholePool, UsageInv
<1>2. PICK i \in DOMAIN blocks, b \in BlockRecord : Takes(i, b, size)
  BY MallocTakes
<1>3. Total(blocks') = Total(blocks) + size /\ Honest(blocks', live')
  BY <1>1, <1>2, TakenTotal
<1>4. Total(blocks') \in Nat /\ Total(blocks') <= PoolSize
  BY <1>1, <1>3, HonestFits
<1>5. Total(blocks') % Word = Total(blocks')
  BY <1>4, SmallSums, Constants
<1>6. current_usage' = (current_usage + size) % Word
  BY MallocTakes
<1>. QED
  BY <1>1, <1>3, <1>5, <1>6

LEMMA FreeCounts ==
  ASSUME WholePool, WholePool', UsageInv, NEW ptr \in DOMAIN live, Free(ptr)
  PROVE  UsageInv'
<1>. DEFINE i == HeaderOf(ptr)
            b == blocks[i]
            N == Len(blocks)
            freed == [blocks EXCEPT ![i].used = FALSE, ![i].orig = 0]
            rest == [p \in DOMAIN live \ {ptr} |-> live[p]]
<1>1. /\ blocks' = Merged(freed) /\ current_usage' = (current_usage - b.orig) % Word
      /\ live' = rest /\ past' = past
  BY DEF Free
<1>. SUFFICES ASSUME past = {} PROVE Honest(blocks', live') /\ current_usage' = Total(blocks')
  BY <1>1 DEF UsageInv
<1>2. /\ Laid(blocks) /\ OwnedBy(blocks, live) /\ blocks \in Seq(BlockRecord)
      /\ Laid(blocks') /\ OwnedBy(blocks', live') /\ Honest(blocks, live) /\ current_usage = Total(blocks)
  BY DEF WholePool, UsageInv, Laid
<1>3. /\ i \in DOMAIN blocks /\ blocks[i].at + Header = ptr /\ blocks[i].used /\ b = blocks[i]
      /\ DOMAIN blocks = 1 .. N /\ N \in Nat
  BY <1>2, HeaderFound
<1>. HIDE DEF i, b, N
<1>4. b \in BlockRecord /\ b.size \in Nat /\ b.orig \in Nat
  BY <1>2, <1>3, BlockNumbers, Constants
<1>. DEFINE free == [b EXCEPT !.used = FALSE, !.orig = 0]
<1>5. free \in BlockRecord /\ free.at = b.at /\ free.size = b.size /\ ~free.used
  <2>1. 0 \in Addresses
    BY Constants
  <2>. QED
    BY <1>4, <2>1 DEF BlockRecord
<1>6. freed = [blocks EXCEPT ![i] = free]
  BY <1>2, <1>3
<1>. HIDE DEF free, freed
<1>7. freed \in Seq(BlockRecord) /\ Len(freed) = N /\ DOMAIN freed = DOMAIN blocks
  BY <1>2, <1>3, <1>5, <1>6 DEF N
<1>8. freed[i] = free /\ \A k \in DOMAIN blocks : k # i => freed[k] = blocks[k]
  BY <1>2, <1>3, <1>6
<1>9. Laid(freed)
  <2>1. \A k \in DOMAIN blocks : freed[k].at = blocks[k].at /\ freed[k].size = blocks[k].size
    BY <1>3, <1>5, <1>8
  <2>. QED
    BY <1>2, <1>7, <2>1, SameShape DEF N
<1>10. Total(Merged(freed)) = Total(freed) /\ SameUsed(freed, Merged(freed))
  BY <1>9, MergedKeeps
<1>11. Total(freed) + b.orig = Total(blocks)
  <2>. DEFINE d == 0
  <2>0. i \in 1 .. N /\ N \in Nat
    BY <1>3
  <2>1. \A k \in 1 .. i - 1 : k \in 1 .. N /\ k # i
    BY <2>0
  <2>2. \A k \in i + 1 .. N : k \in 1 .. N /\ k # i /\ k + d = k
    BY <2>0
  <2>3. d \in 0 .. 1 /\ Len(freed) = N + d /\ d # 1
    BY <1>7, <2>0
  <2>. HIDE DEF d
  <2>4. \A k \in 1 .. i - 1 : freed[k] = blocks[k]
    BY <1>3, <1>8, <2>1
  <2>5. \A k \in i + 1 .. N : freed[k + d] = blocks[k]
    BY <1>3, <1>8, <2>2
  <2>6. Total(freed) + Weight(blocks[i]) = Total(blocks) + Weight(freed[i])
    BY <1>2, <1>7, <2>0, <2>3, <2>4, <2>5, TotalOfChanged DEF N
  <2>7. Weight(blocks[i]) = b.orig /\ Weight(freed[i]) = 0
    BY <1>3, <1>5, <1>8 DEF Weight
  <2>8. Total(blocks) \in Nat
    BY <1>2, WeightsAre
  <2>. QED
    BY <2>6, <2>7, <2>8
<1>12. ASSUME NEW j \in DOMAIN blocks', blocks'[j].used
       PROVE  blocks'[j].orig = live'[blocks'[j].at + Header]
  <2>1. PICK k \in DOMAIN freed : freed[k] = blocks'[j]
    BY <1>1, <1>10, <1>12 DEF SameUsed
  <2>2. k # i /\ k \in DOMAIN blocks /\ freed[k] = blocks[k]
    BY <1>5, <1>7, <1>8, <1>12, <2>1
  <2>3. blocks[k].orig = live[blocks[k].at + Header]
    BY <1>2, <1>12, <2>1, <2>2 DEF Honest
  <2>4. blocks'[j].at + Header \in DOMAIN live'
    BY <1>2, <1>12 DEF OwnedBy
  <2>5. \A p \in DOMAIN live' : live'[p] = live[p]
    BY <1>1
  <2>. QED
    BY <2>1, <2>2, <2>3, <2>4, <2>5
<1>13. Honest(blocks', live')
  BY <1>12 DEF Honest
<1>14. Total(blocks') \in Nat /\ Total(blocks') <= PoolSize
  BY <1>2, <1>13, HonestFits
<1>15. Total(blocks') % Word = Total(blocks')
  BY <1>14, SmallSums, Constants
<1>16. current_usage - b.orig = Total(blocks')
  <2>. DEFINE x == Total(blocks')
              y == b.orig
  <2>1. x \in Nat /\ y \in Nat /\ current_usage = x + y
    BY <1>1, <1>2, <1>4, <1>10, <1>11, <1>14
  <2>. HIDE DEF x, y
  <2>2. current_usage - y = x
    BY <2>1
  <2>. QED
    BY <2>2 DEF x, y
<1>. QED
  BY <1>1, <1>13, <1>15, <1>16

LEMMA UsageKeeps == MemoryInv /\ UsageInv /\ [Next]_vars => UsageInv'
<1>. SUFFICES ASSUME MemoryInv, UsageInv, [Next]_vars PROVE UsageInv'
  OBVIOUS
<1>1. Next => WholePool
  BY DEF MemoryInv, BrokenPool, Next
<1>2. CASE Next /\ \E size \in Sizes : Malloc(size)
  BY <1>1, <1>2, MallocKeeps, MallocCounts
<1>3. CASE Next /\ \E ptr \in DOMAIN live : Free(ptr)
  BY <1>1, <1>3, FreeKeeps, FreeCounts
<1>4. CASE \E ptr \in DOMAIN live, size \in Sizes : ReallocInPlace(ptr, size) \/ ReallocMoves(ptr, size)
  <2>1. "shrink" \in past' \/ "grow" \in past'
    BY <1>4, ZenonT(30) DEF ReallocInPlace, ReallocMoves
  <2>. QED
    BY <2>1 DEF UsageInv
<1>5. CASE UNCHANGED vars
  BY <1>5 DEF vars, UsageInv, Honest, Total, Weights
<1>. QED
  BY <1>2, <1>3, <1>4, <1>5 DEF Next

LEMMA InitCounts == Init => UsageInv
<1>. SUFFICES ASSUME Init PROVE Honest(blocks, live) /\ current_usage = Total(blocks)
  BY DEF UsageInv
<1>. DEFINE b == Block(0, PoolSize - Header, FALSE, 0)
<1>1. blocks \in Seq(BlockRecord)
  BY InitHolds DEF WholePool, Laid
<1>2. blocks = <<b>> /\ ~b.used /\ current_usage = 0
  BY DEF Init, Block
<1>. HIDE DEF b
<1>3. Len(blocks) = 1 /\ blocks[1] = b /\ \A i \in DOMAIN blocks : i = 1
  BY <1>2
<1>4. Honest(blocks, live)
  BY <1>2, <1>3 DEF Honest
<1>5. Total(blocks) = 0
  <2>1. Weights(blocks) \in Seq(Nat) /\ Len(Weights(blocks)) = 1
    BY <1>1, <1>3, WeightsAre
  <2>2. Weights(blocks)[1] = Weight(b) /\ Weight(b) = 0
    BY <1>2, <1>3 DEF Weights, Weight
  <2>3. Sums(Weights(blocks))[0] = 0
    BY <2>1, SumsAre
  <2>4. 0 + 1 = 1 /\ 0 \in Nat /\ 0 < 1
    OBVIOUS
  <2>5. Sums(Weights(blocks))[0 + 1] = Sums(Weights(blocks))[0] + Weights(blocks)[0 + 1]
    BY <2>1, <2>4, SumsStep
  <2>. QED
    BY <1>3, <2>2, <2>3, <2>4, <2>5 DEF Total
<1>. QED
  BY <1>2, <1>4, <1>5

-----------------------------------------------------------------------------
(* What it comes to.                                                        *)

\* Until infra_realloc keeps a block with no room for another header, every
\* reachable pool is a list of blocks in address order that do not overlap, whose
\* used blocks are exactly what callers hold; without a split in place it has no
\* gaps and no free neighbours.  From that call on it is no such list.
THEOREM MemoryInvariant == Spec => []MemoryInv
<1>1. Init => MemoryInv
  BY InitHolds DEF MemoryInv
<1>. QED
  BY <1>1, NextKeeps, PTL DEF Spec

\* The counters stay values of a size_t and allocations stay addresses,
\* whatever infra_malloc, infra_free and infra_realloc are asked for.
THEOREM MemoryTypeCorrect == Spec => []TypeOK
<1>1. MemoryInv => TypeOK
  BY DEF MemoryInv, WholePool, BrokenPool
<1>. QED
  BY <1>1, MemoryInvariant, PTL

\* A header lies inside another block or behind the pool exactly when an
\* infra_realloc has kept a block with no room for another header: no other call,
\* and no other infra_realloc, keeps the list from being walked, and that one
\* always does.
THEOREM PoolStaysIntact == Spec => []PoolIntact
<1>1. ASSUME WholePool PROVE ListIsSound
  <2>1. blocks \in Seq(BlockRecord) /\ Laid(blocks)
    BY <1>1 DEF WholePool, Laid
  <2>2. ASSUME NEW i \in DOMAIN blocks, i # Len(blocks)
        PROVE  i + 1 \in DOMAIN blocks /\ i < i + 1
    <3>1. Len(blocks) \in Nat /\ i \in 1 .. Len(blocks)
      BY <2>1
    <3>2. i + 1 \in 1 .. Len(blocks) /\ i < i + 1
      BY <2>2, <3>1
    <3>. QED
      BY <2>1, <3>2
  <2>. QED
    BY <2>1, <2>2 DEF ListIsSound, Laid
<1>2. MemoryInv => PoolIntact
  BY <1>1 DEF MemoryInv, WholePool, BrokenPool, PoolIntact
<1>. QED
  BY <1>2, MemoryInvariant, PTL

\* As long as no infra_realloc has overrun its block, no caller gets memory that
\* is too small, that somebody else holds, or that a free has missed: allocations
\* and used blocks are paired off.
THEOREM AllocationsStayBlocks == Spec => []AllocationsAreBlocks
<1>1. ASSUME WholePool PROVE AllocationsAreBlocks
  <2>. DEFINE S == {i \in DOMAIN blocks : blocks[i].used}
              F == [i \in S |-> blocks[i].at + Header]
  <2>1. Laid(blocks) /\ OwnedBy(blocks, live) /\ blocks \in Seq(BlockRecord)
    BY <1>1 DEF WholePool, Laid
  <2>2. F \in [S -> DOMAIN live]
    BY <2>1 DEF OwnedBy
  <2>3. \A a, b \in S : F[a] = F[b] => a = b
    <3>. SUFFICES ASSUME NEW a \in S, NEW b \in S, F[a] = F[b] PROVE a = b
      OBVIOUS
    <3>1. a \in DOMAIN blocks /\ b \in DOMAIN blocks /\ blocks[a].at + Header = blocks[b].at + Header
      OBVIOUS
    <3>2. blocks[a].at \in Nat /\ blocks[b].at \in Nat /\ Header \in Nat
      BY <2>1, <3>1, ListOf, Constants
    <3>3. blocks[a].at = blocks[b].at
      BY <3>1, <3>2
    <3>. QED
      BY <2>1, <3>1, <3>3, Apart
  <2>4. \A p \in DOMAIN live : \E i \in S : F[i] = p
    BY <2>1 DEF OwnedBy
  <2>5. IsFiniteSet(S)
    <3>1. Len(blocks) \in Nat /\ DOMAIN blocks = 1 .. Len(blocks)
      BY <2>1
    <3>2. IsFiniteSet(1 .. Len(blocks))
      BY <3>1, FS_Interval
    <3>. QED
      BY <3>1, <3>2, FS_Subset
  <2>. HIDE DEF S, F
  <2>6. F \in Bijection(S, DOMAIN live)
    BY <2>2, <2>3, <2>4 DEF Bijection, Injection, IsInjective, Surjection
  <2>7. Cardinality(DOMAIN live) = Cardinality(S)
    BY <2>5, <2>6, FS_Bijection DEF ExistsBijection
  <2>8. Cardinality({i \in DOMAIN blocks : blocks[i].used}) = Cardinality(DOMAIN live)
    BY <2>7 DEF S
  <2>. QED
    BY <2>1, <2>8 DEF AllocationsAreBlocks, OwnedBy
<1>2. MemoryInv => AllocationsAreBlocks
  BY <1>1 DEF MemoryInv, BrokenPool, AllocationsAreBlocks
<1>. QED
  BY <1>2, MemoryInvariant, PTL

\* As long as no block has been split in place the blocks tile the pool.
THEOREM NothingGetsLost == Spec => []NothingLost
<1>1. MemoryInv => NothingLost
  BY DEF MemoryInv, BrokenPool, WholePool, Tiles, NothingLost
<1>. QED
  BY <1>1, MemoryInvariant, PTL

\* When everything has been returned, in whatever order, the pool is one block,
\* as long as no infra_realloc has overrun its block; free neighbours are merged
\* until one has split a block in place.
THEOREM FreeSpaceGrowsTogether == Spec => []FreeSpaceIsWhole
<1>1. ASSUME WholePool PROVE FreeSpaceIsWhole
  <2>1. live = <<>> => Len(blocks) = 1
    <3>. SUFFICES ASSUME live = <<>> PROVE Len(blocks) = 1
      OBVIOUS
    <3>1. DOMAIN live = {}
      OBVIOUS
    <3>2. \A i \in DOMAIN blocks : ~blocks[i].used
      BY <1>1, <3>1 DEF WholePool, OwnedBy
    <3>. QED
      BY <1>1, <3>2 DEF WholePool
  <2>. QED
    BY <1>1, <2>1 DEF WholePool, Mixed, FreeSpaceIsWhole
<1>2. MemoryInv => FreeSpaceIsWhole
  BY <1>1 DEF MemoryInv, BrokenPool, FreeSpaceIsWhole
<1>. QED
  BY <1>2, MemoryInvariant, PTL

\* Until the first realloc the usage infra_memory_get_stats reports is the sum
\* of what callers hold.
THEOREM UsageStaysExact == Spec => []UsageIsExact
<1>1. Spec => []UsageInv
  BY InitCounts, MemoryInvariant, UsageKeeps, PTL DEF Spec
<1>2. ASSUME MemoryInv, UsageInv PROVE UsageIsExact
  <2>. SUFFICES ASSUME past = {}
                PROVE  LET asked == [i \in DOMAIN blocks |->
                                       IF blocks[i].used THEN live[blocks[i].at + Header] ELSE 0]
                       IN  current_usage = Sums(asked)[Len(asked)]
    BY DEF UsageIsExact
  <2>. DEFINE asked == [i \in DOMAIN blocks |->
                          IF blocks[i].used THEN live[blocks[i].at + Header] ELSE 0]
  <2>1. blocks \in Seq(BlockRecord) /\ DOMAIN blocks = 1 .. Len(blocks)
    BY <1>2 DEF MemoryInv, BrokenPool, WholePool, Laid
  <2>2. Honest(blocks, live) /\ current_usage = Total(blocks)
    BY <1>2 DEF UsageInv
  <2>3. \A i \in DOMAIN blocks : Weight(blocks[i]) = asked[i]
    BY <2>2 DEF Honest, Weight
  <2>4. asked = Weights(blocks)
    BY <2>1, <2>3 DEF Weights
  <2>. HIDE DEF asked
  <2>5. Len(asked) = Len(blocks)
    BY <2>1, <2>4, WeightsAre
  <2>6. current_usage = Sums(asked)[Len(asked)]
    BY <2>2, <2>4, <2>5 DEF Total
  <2>. QED
    BY <2>6 DEF asked
<1>. QED
  BY <1>1, <1>2, MemoryInvariant, PTL
=============================================================================
