------------------------------- MODULE Buffer -------------------------------
(* The growing byte buffer of infra_core.c, infra_buffer_*.  size_t has the *)
(* values 0 .. BufferWord - 1 and wraps.  A caller's bytes lie in memory, so *)
(* it writes less than BufferWord / 2 of them at a time, and infra_realloc   *)
(* grants less.                                                              *)
EXTENDS Naturals, Sequences, SequencesExt

CONSTANTS BufferWord, Bytes, MaxWrite

VARIABLES
  data,      \* what `data` points to, a byte or "?" each; <<>> for NULL
  filled,    \* size
  capacity,
  written    \* the bytes that writes have reported as written since a reset

buffer_vars == <<data, filled, capacity, written>>

Lengths == 0 .. BufferWord - 1
Plus(m, n) == (m + n) % BufferWord

BufferTypeOK ==
  /\ data \in Seq(Bytes \cup {"?"})
  /\ filled \in Lengths /\ capacity \in Lengths
  /\ written \in Seq(Bytes)

Repeat(x, n) == [i \in 1 .. n |-> x]

\* infra_buffer_init has succeeded.
BufferInit ==
  /\ capacity \in 1 .. MaxWrite
  /\ data = Repeat("?", capacity)
  /\ filled = 0
  /\ written = <<>>

\* infra_buffer_reserve; the outcome is what it leaves and whether it is OK.
Reserved(n) ==
  IF n <= capacity THEN {[data |-> data, capacity |-> capacity, ok |-> TRUE]}
  ELSE {[data |-> data, capacity |-> capacity, ok |-> FALSE]}
       \cup IF n >= BufferWord \div 2 THEN {}
            ELSE {[data |-> [i \in 1 .. n |-> IF i <= Len(data) THEN data[i] ELSE "?"],
                   capacity |-> n, ok |-> TRUE]}

BufferReserve(n) ==
  /\ \E r \in Reserved(n) : data' = r.data /\ capacity' = r.capacity
  /\ UNCHANGED <<filled, written>>

\* Faulty: doubling is taken to be enough.
DoubledOnly(n) == (capacity * 2) % BufferWord

\* What a write of n bytes asks for when they do not fit.
Grown(n) ==
  LET doubled == (capacity * 2) % BufferWord
  IN  IF doubled < Plus(filled, n) THEN Plus(filled, n) ELSE doubled

\* memcpy of n bytes b behind the first `filled` of d.
Copied(d, b, n) ==
  [i \in 1 .. (IF Len(d) < filled + n THEN filled + n ELSE Len(d)) |->
     IF i \in filled + 1 .. filled + n THEN b ELSE d[i]]

BufferWrite(b, n) ==
  LET room == IF Plus(filled, n) > capacity THEN Reserved(Grown(n))
              ELSE {[data |-> data, capacity |-> capacity, ok |-> TRUE]}
  IN  \E r \in room :
        /\ capacity' = r.capacity
        /\ IF r.ok
             THEN /\ data' = Copied(r.data, b, n)
                  /\ filled' = Plus(filled, n)
                  /\ written' = written \o Repeat(b, n)
             ELSE data' = r.data /\ UNCHANGED <<filled, written>>

BufferReset == filled' = 0 /\ written' = <<>> /\ UNCHANGED <<data, capacity>>

\* A buffer that is destroyed may be written to again.
BufferDestroy ==
  /\ data # <<>>
  /\ data' = <<>> /\ filled' = 0 /\ capacity' = 0 /\ written' = <<>>

BufferNext ==
  \/ \E n \in 1 .. MaxWrite : \E b \in Bytes : BufferWrite(b, n)
  \/ \E n \in 0 .. BufferWord \div 2 : BufferReserve(n)
  \/ BufferReset \/ BufferDestroy

BufferSpec == BufferInit /\ [][BufferNext]_buffer_vars

(* infra_buffer_read and _readable see what was written since the last      *)
(* reset, in order, and nothing lies beyond the memory that was granted:    *)
(* growing by doubling or to fit (416-433), and failing to grow, lose       *)
(* nothing and write nothing out of place.                                  *)
BufferHoldsWrites ==
  /\ Len(data) = capacity
  /\ filled <= capacity
  /\ SubSeq(data, 1, filled) = written
=============================================================================
