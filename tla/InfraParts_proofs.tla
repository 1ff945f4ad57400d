------------------------- MODULE InfraParts_proofs -------------------------
(***************************************************************************)
(* Proofs about four parts that share nothing: Buffer, for a size_t of any *)
(* width; PeerTable, for tables of any size and any number of descriptors  *)
(* and connections, whatever use the rest of the program makes of          *)
(* descriptors; CommandLine, for any number of arguments; and Mux, for any *)
(* number of threads and descriptors, any flags and a buffer of any size.  *)
(***************************************************************************)
EXTENDS Buffer, PeerTable, CommandLine, Mux, SequenceTheorems, TLAPS

-----------------------------------------------------------------------------
(* The buffer, for writes of any length below half of what a size_t holds. *)

Limits == BufferWord \in Nat /\ MaxWrite \in Nat /\ MaxWrite < BufferWord \div 2

\* What was written is at the front, byte by byte.
FrontIsWritten ==
  /\ Len(data) = capacity
  /\ filled <= capacity
  /\ Len(written) = filled
  /\ \A i \in 1 .. filled : data[i] = written[i]

\* Nobody is granted half of all addresses, so that no sum below wraps.
CapacityBounded == capacity < BufferWord \div 2

BufferInv == BufferTypeOK /\ FrontIsWritten /\ CapacityBounded

LEMMA Half ==
  ASSUME Limits
  PROVE  /\ BufferWord \div 2 \in Nat
         /\ 2 * (BufferWord \div 2) <= BufferWord
BY DEF Limits

LEMMA InvMeansHolds ==
  ASSUME BufferInv
  PROVE  BufferHoldsWrites
<1>1. /\ data \in Seq(Bytes \cup {"?"}) /\ written \in Seq(Bytes) /\ filled \in Nat
      /\ Len(data) = capacity /\ filled <= capacity /\ Len(written) = filled
      /\ \A i \in 1 .. filled : data[i] = written[i]
  BY DEF BufferInv, BufferTypeOK, FrontIsWritten, Lengths
<1>2. SubSeq(data, 1, filled) = [i \in 1 .. filled |-> data[i]]
  BY <1>1
<1>3. written = [i \in 1 .. filled |-> written[i]]
  BY <1>1
<1>4. [i \in 1 .. filled |-> data[i]] = [i \in 1 .. filled |-> written[i]]
  BY <1>1
<1>. QED
  BY <1>1, <1>2, <1>3, <1>4 DEF BufferHoldsWrites

\* Whatever infra_buffer_reserve does, the bytes that were there are kept.
LEMMA ReservedKeeps ==
  ASSUME Limits, BufferInv, NEW n \in Nat, NEW r \in Reserved(n)
  PROVE  /\ r.data \in Seq(Bytes \cup {"?"}) /\ Len(r.data) = r.capacity
         /\ r.capacity \in Nat /\ r.capacity < BufferWord \div 2 /\ r.capacity >= capacity
         /\ \A i \in 1 .. capacity : r.data[i] = data[i]
         /\ r.ok \in BOOLEAN /\ (r.ok => r.capacity >= n)
<1>. DEFINE longer == [i \in 1 .. n |-> IF i <= Len(data) THEN data[i] ELSE "?"]
<1>1. \/ r = [data |-> data, capacity |-> capacity, ok |-> TRUE] /\ n <= capacity
      \/ r = [data |-> data, capacity |-> capacity, ok |-> FALSE]
      \/ /\ r = [data |-> longer, capacity |-> n, ok |-> TRUE]
         /\ ~(n <= capacity) /\ ~(n >= BufferWord \div 2)
  <2>1. CASE n <= capacity
    BY <2>1 DEF Reserved
  <2>2. CASE ~(n <= capacity) /\ n >= BufferWord \div 2
    BY <2>2 DEF Reserved
  <2>3. CASE ~(n <= capacity) /\ ~(n >= BufferWord \div 2)
    BY <2>3 DEF Reserved
  <2>. QED
    BY <2>1, <2>2, <2>3
<1>2. /\ data \in Seq(Bytes \cup {"?"}) /\ Len(data) = capacity
      /\ capacity \in Nat /\ capacity < BufferWord \div 2
  BY DEF BufferInv, BufferTypeOK, FrontIsWritten, CapacityBounded, Lengths
<1>3. CASE \/ r = [data |-> data, capacity |-> capacity, ok |-> TRUE] /\ n <= capacity
           \/ r = [data |-> data, capacity |-> capacity, ok |-> FALSE]
  <2>1. r.data = data /\ r.capacity = capacity
    BY <1>3
  <2>2. (r.ok = TRUE /\ n <= capacity) \/ r.ok = FALSE
    BY <1>3
  <2>. HIDE DEF longer
  <2>3. n <= capacity => r.capacity >= n
    BY <1>2, <2>1
  <2>4. r.ok \in BOOLEAN /\ (r.ok => r.capacity >= n)
    BY <2>2, <2>3, Zenon
  <2>5. /\ r.data \in Seq(Bytes \cup {"?"}) /\ Len(r.data) = r.capacity
        /\ r.capacity \in Nat /\ r.capacity < BufferWord \div 2 /\ r.capacity >= capacity
        /\ \A i \in 1 .. capacity : r.data[i] = data[i]
    BY <1>2, <2>1
  <2>. QED
    BY <2>4, <2>5, Zenon
<1>4. CASE r = [data |-> longer, capacity |-> n, ok |-> TRUE] /\ ~(n <= capacity) /\ ~(n >= BufferWord \div 2)
  <2>1. longer \in [1 .. n -> Bytes \cup {"?"}]
    BY <1>2
  <2>2. longer \in Seq(Bytes \cup {"?"}) /\ Len(longer) = n
    BY <2>1
  <2>3. \A i \in 1 .. capacity : longer[i] = data[i]
    BY <1>2, <1>4
  <2>4. n < BufferWord \div 2 /\ n >= capacity
    BY <1>2, <1>4, Half
  <2>. HIDE DEF longer
  <2>. QED
    BY <1>4, <2>2, <2>3, <2>4
<1>. HIDE DEF longer
<1>. QED
  BY <1>1, <1>3, <1>4

LEMMA ReserveKeeps ==
  ASSUME Limits, BufferInv, NEW n \in Nat, BufferReserve(n)
  PROVE  BufferInv'
<1>1. PICK r \in Reserved(n) : data' = r.data /\ capacity' = r.capacity
  BY DEF BufferReserve
<1>2. /\ data' \in Seq(Bytes \cup {"?"}) /\ Len(data') = capacity'
      /\ capacity' \in Nat /\ capacity' < BufferWord \div 2 /\ capacity' >= capacity
      /\ \A i \in 1 .. capacity : data'[i] = data[i]
      /\ UNCHANGED <<filled, written>>
  BY <1>1, ReservedKeeps DEF BufferReserve
<1>3. BufferTypeOK'
  BY <1>2, Half DEF BufferInv, BufferTypeOK, Lengths, Limits
<1>4. FrontIsWritten' /\ CapacityBounded'
  BY <1>2 DEF BufferInv, BufferTypeOK, FrontIsWritten, CapacityBounded, Lengths
<1>. QED
  BY <1>3, <1>4 DEF BufferInv

\* Neither the sum nor the doubled capacity wraps, and the larger is asked for.
LEMMA GrownIsEnough ==
  ASSUME Limits, BufferInv, NEW n \in 1 .. MaxWrite
  PROVE  /\ Plus(filled, n) = filled + n /\ filled + n \in Lengths
         /\ Grown(n) \in Nat /\ Grown(n) >= filled + n
<1>1. /\ filled \in Nat /\ capacity \in Nat /\ filled <= capacity
      /\ capacity < BufferWord \div 2 /\ n < BufferWord \div 2 /\ n \in Nat
      /\ BufferWord \in Nat
  BY Half DEF Limits, BufferInv, BufferTypeOK, FrontIsWritten, CapacityBounded, Lengths
<1>2. filled + n < BufferWord /\ capacity * 2 < BufferWord
  BY <1>1, Half
<1>3. (filled + n) % BufferWord = filled + n /\ (capacity * 2) % BufferWord = capacity * 2
  BY <1>1, <1>2
<1>. QED
  BY <1>1, <1>2, <1>3 DEF Plus, Grown, Lengths

LEMMA WriteKeeps ==
  ASSUME Limits, BufferInv, NEW n \in 1 .. MaxWrite, NEW b \in Bytes, BufferWrite(b, n)
  PROVE  BufferInv'
<1>1. /\ filled \in Nat /\ capacity \in Nat /\ filled <= capacity /\ n \in Nat
      /\ capacity < BufferWord \div 2 /\ Len(written) = filled /\ written \in Seq(Bytes)
      /\ \A i \in 1 .. filled : data[i] = written[i]
      /\ data \in Seq(Bytes \cup {"?"}) /\ Len(data) = capacity
  BY DEF BufferInv, BufferTypeOK, FrontIsWritten, CapacityBounded, Lengths, Limits
<1>2. PICK d \in Seq(Bytes \cup {"?"}), c \in Nat, ok \in BOOLEAN :
        /\ Len(d) = c /\ c < BufferWord \div 2 /\ c >= capacity
        /\ \A i \in 1 .. capacity : d[i] = data[i]
        /\ ok => c >= filled + n
        /\ capacity' = c
        /\ IF ok
             THEN /\ data' = Copied(d, b, n)
                  /\ filled' = filled + n
                  /\ written' = written \o Repeat(b, n)
             ELSE data' = d /\ UNCHANGED <<filled, written>>
  <2>1. CASE Plus(filled, n) > capacity
    <3>1. PICK r \in Reserved(Grown(n)) :
            /\ capacity' = r.capacity
            /\ IF r.ok
                 THEN /\ data' = Copied(r.data, b, n)
                      /\ filled' = Plus(filled, n)
                      /\ written' = written \o Repeat(b, n)
                 ELSE data' = r.data /\ UNCHANGED <<filled, written>>
      BY <2>1 DEF BufferWrite
    <3>2. /\ r.data \in Seq(Bytes \cup {"?"}) /\ Len(r.data) = r.capacity
          /\ r.capacity \in Nat /\ r.capacity < BufferWord \div 2 /\ r.capacity >= capacity
          /\ \A i \in 1 .. capacity : r.data[i] = data[i]
          /\ r.ok \in BOOLEAN /\ (r.ok => r.capacity >= Grown(n))
      BY GrownIsEnough, ReservedKeeps
    <3>3. r.ok => r.capacity >= filled + n
      BY <1>1, <3>2, GrownIsEnough
    <3>. QED
      BY <3>1, <3>2, <3>3, GrownIsEnough
  <2>2. CASE ~(Plus(filled, n) > capacity)
    <3>1. /\ capacity' = capacity /\ data' = Copied(data, b, n)
          /\ filled' = Plus(filled, n) /\ written' = written \o Repeat(b, n)
      BY <2>2 DEF BufferWrite
    <3>2. capacity >= filled + n
      BY <1>1, <2>2, GrownIsEnough
    <3>3. /\ Len(data) = capacity /\ capacity < BufferWord \div 2 /\ capacity >= capacity
          /\ \A i \in 1 .. capacity : data[i] = data[i]
          /\ TRUE => capacity >= filled + n
          /\ capacity' = capacity
          /\ IF TRUE
               THEN /\ data' = Copied(data, b, n)
                    /\ filled' = filled + n
                    /\ written' = written \o Repeat(b, n)
               ELSE data' = data /\ UNCHANGED <<filled, written>>
      BY <1>1, <3>1, <3>2, GrownIsEnough
    <3>. QED
      BY <1>1, <3>3
  <2>. QED
    BY <2>1, <2>2
<1>3. CASE ok
  <2>1. data' = [i \in 1 .. c |-> IF i \in filled + 1 .. filled + n THEN b ELSE d[i]]
    BY <1>1, <1>2, <1>3 DEF Copied
  <2>2. data' \in Seq(Bytes \cup {"?"}) /\ Len(data') = c
    BY <1>2, <2>1
  <2>3. /\ written' \in Seq(Bytes) /\ Len(written') = filled + n
        /\ \A i \in 1 .. filled : written'[i] = written[i]
        /\ \A i \in filled + 1 .. filled + n : written'[i] = b
    <3>1. Repeat(b, n) \in [1 .. n -> Bytes]
      BY DEF Repeat
    <3>2. PICK bs \in Seq(Bytes) : bs = Repeat(b, n) /\ Len(bs) = n
      BY <1>1, <3>1
    <3>3. \A i \in 1 .. n : bs[i] = b
      BY <3>2 DEF Repeat
    <3>4. written' = written \o bs
      BY <1>2, <1>3, <3>2
    <3>5. written \in Seq(Bytes)
      BY <1>1
    <3>6. /\ written \o bs \in Seq(Bytes) /\ Len(written \o bs) = Len(written) + Len(bs)
          /\ \A i \in 1 .. Len(written) + Len(bs) :
               (written \o bs)[i] = IF i <= Len(written) THEN written[i] ELSE bs[i - Len(written)]
      BY <3>5, ConcatProperties
    <3>. QED
      BY <1>1, <3>2, <3>3, <3>4, <3>6
  <2>4. \A i \in 1 .. filled + n : data'[i] = written'[i]
    BY <1>1, <1>2, <1>3, <2>1, <2>3
  <2>5. filled' = filled + n /\ capacity' = c /\ filled + n <= c /\ filled + n \in Lengths
    BY <1>2, <1>3, GrownIsEnough
  <2>6. c \in Lengths
    BY <1>2, Half DEF Lengths, Limits
  <2>. QED
    BY <1>2, <2>2, <2>3, <2>4, <2>5, <2>6 DEF BufferInv, BufferTypeOK, FrontIsWritten, CapacityBounded
<1>4. CASE ~ok
  <2>1. c \in Lengths
    BY <1>2, Half DEF Lengths, Limits
  <2>. QED
    BY <1>1, <1>2, <1>4, <2>1 DEF BufferInv, BufferTypeOK, FrontIsWritten, CapacityBounded
<1>. QED
  BY <1>3, <1>4

(* The invariant from which the other follows.                               *)
THEOREM BufferInvariant ==
  ASSUME Limits
  PROVE  BufferSpec => []BufferInv
<1>1. BufferInit => BufferInv
  <2>. SUFFICES ASSUME BufferInit  PROVE BufferInv
    OBVIOUS
  <2>1. capacity \in Nat /\ capacity < BufferWord \div 2 /\ capacity \in Lengths /\ 0 \in Lengths
    BY Half DEF BufferInit, Limits, Lengths
  <2>2. data \in Seq(Bytes \cup {"?"}) /\ Len(data) = capacity
    BY <2>1 DEF BufferInit, Repeat
  <2>. QED
    BY <2>1, <2>2 DEF BufferInit, BufferInv, BufferTypeOK, FrontIsWritten, CapacityBounded
<1>2. BufferInv /\ [BufferNext]_buffer_vars => BufferInv'
  <2>. SUFFICES ASSUME BufferInv, [BufferNext]_buffer_vars  PROVE BufferInv'
    OBVIOUS
  <2>1. CASE UNCHANGED buffer_vars
    BY <2>1 DEF buffer_vars, BufferInv, BufferTypeOK, FrontIsWritten, CapacityBounded
  <2>2. CASE \E n \in 1 .. MaxWrite : \E b \in Bytes : BufferWrite(b, n)
    BY <2>2, WriteKeeps
  <2>3. CASE \E n \in 0 .. BufferWord \div 2 : BufferReserve(n)
    BY <2>3, ReserveKeeps, Half
  <2>4. CASE BufferReset \/ BufferDestroy
    <3>1. 0 \in Lengths /\ 0 \in Nat /\ 0 <= BufferWord \div 2 /\ 1 .. 0 = {}
      BY Half DEF BufferInv, BufferTypeOK, Lengths, Limits
    <3>2. CASE BufferReset
      BY <3>1, <3>2 DEF BufferReset, BufferInv, BufferTypeOK, FrontIsWritten, CapacityBounded, Lengths
    <3>3. CASE BufferDestroy
      <4>1. 0 < BufferWord \div 2
        BY Half DEF BufferInv, BufferTypeOK, CapacityBounded, Lengths
      <4>. QED
        BY <3>1, <3>3, <4>1 DEF BufferDestroy, BufferInv, BufferTypeOK, FrontIsWritten, CapacityBounded
    <3>. QED
      BY <2>4, <3>2, <3>3
  <2>. QED
    BY <2>1, <2>2, <2>3, <2>4 DEF BufferNext
<1>. QED
  BY <1>1, <1>2, PTL DEF BufferSpec

\* No sequence of writes, reserves that fail or not, resets and destructions makes a
\* buffer forget or misplace a byte, or write beyond what it was granted (400-458).
THEOREM WritesStay ==
  ASSUME Limits
  PROVE  BufferSpec => []BufferHoldsWrites
<1>1. BufferInv => BufferHoldsWrites
  BY InvMeansHolds
<1>. QED
  BY <1>1, BufferInvariant, PTL

-----------------------------------------------------------------------------
(* The peers' table.                                                       *)

\* The table reaches as far as peer_count, and a slot in use has a descriptor of
\* its own that is open for the connection its id was given for.
TableIsSound ==
  /\ DOMAIN theirs = 0 .. peer_count - 1
  /\ \A id \in Ids : slots[id].active => id < peer_count
  /\ \A id \in DOMAIN theirs :
       IF slots[id].active
         THEN /\ slots[id].socket \in DOMAIN connection
              /\ connection[slots[id].socket] = theirs[id]
              /\ theirs[id] \in Connections
         ELSE theirs[id] = Closed
  /\ \A i, j \in Ids :
       slots[i].active /\ slots[j].active /\ slots[i].socket = slots[j].socket => i = j

\* A connection that no slot has has been forgotten.
OpenIsOwned ==
  \A f \in DOMAIN connection :
    connection[f] # Other =>
      f \in forgotten \/ \E id \in Ids : slots[id].active /\ slots[id].socket = f

PeerInv == TableTypeOK /\ TableIsSound /\ OpenIsOwned

Bounds == MaxPeers \in Nat /\ MaxDescriptors \in Nat \ {0} /\ MaxConnections \in Nat

LEMMA InitSound ==
  ASSUME Bounds, TableInit
  PROVE  PeerInv
BY DEF Bounds, TableInit, PeerInv, TableTypeOK, TableIsSound, OpenIsOwned, Zeroed, Ids, Descriptors, Connections

LEMMA PeerInitKeeps ==
  ASSUME Bounds, PeerInv, PeerInit
  PROVE  PeerInv'
<1>1. TableTypeOK'
  <2>1. 0 \in Descriptors /\ 0 \in 0 .. MaxPeers
    BY DEF Descriptors, Bounds
  <2>2. slots' \in [Ids -> [socket : Descriptors, active : BOOLEAN]]
    BY <2>1 DEF PeerInit, Zeroed
  <2>3. forgotten' \subseteq Descriptors
    BY DEF PeerInv, TableTypeOK, PeerInit
  <2>. QED
    BY <2>1, <2>2, <2>3 DEF PeerInv, TableTypeOK, PeerInit
<1>2. TableIsSound'
  BY DEF PeerInv, TableTypeOK, TableIsSound, PeerInit, Zeroed, Ids, Bounds
<1>3. OpenIsOwned'
  BY DEF PeerInv, OpenIsOwned, PeerInit, TableTypeOK
<1>. QED
  BY <1>1, <1>2, <1>3 DEF PeerInv

LEMMA ConnectKeeps ==
  ASSUME Bounds, PeerInv, NEW fd \in Descriptors, NEW ok \in BOOLEAN, PeerConnect(fd, ok)
  PROVE  PeerInv'
<1>1. CASE ~ok
  BY <1>1 DEF PeerConnect, PeerInv, TableTypeOK, TableIsSound, OpenIsOwned, Bounds
<1>2. CASE ok
  <2>1. /\ peer_count \in Ids /\ fd \notin DOMAIN connection /\ made + 1 \in Connections
        /\ slots' = [slots EXCEPT ![peer_count] = [socket |-> fd, active |-> TRUE]]
        /\ peer_count' = peer_count + 1 /\ made' = made + 1
        /\ connection' = Extended(connection, fd, made + 1)
        /\ theirs' = Extended(theirs, peer_count, made + 1)
        /\ forgotten' = forgotten
    BY <1>2 DEF PeerConnect, PeerInv, TableTypeOK, NextFd, FreeDescriptors, Ids, Connections, Bounds
  <2>2. /\ DOMAIN connection' = DOMAIN connection \cup {fd}
        /\ connection'[fd] = made + 1
        /\ \A f \in DOMAIN connection : connection'[f] = connection[f]
    BY <2>1 DEF Extended
  <2>3. /\ DOMAIN theirs' = 0 .. peer_count' - 1
        /\ theirs'[peer_count] = made + 1
        /\ \A id \in DOMAIN theirs : theirs'[id] = theirs[id]
    BY <2>1 DEF Extended, PeerInv, TableTypeOK, TableIsSound, Ids, Bounds
  <2>4. TableTypeOK'
    <3>1. slots' \in [Ids -> [socket : Descriptors, active : BOOLEAN]]
      BY <2>1 DEF PeerInv, TableTypeOK
    <3>2. /\ DOMAIN connection' \subseteq Descriptors
          /\ \A f \in DOMAIN connection' : connection'[f] \in Connections \cup {Other}
      BY <2>1, <2>2 DEF PeerInv, TableTypeOK
    <3>3. /\ DOMAIN theirs' \subseteq Ids
          /\ \A id \in DOMAIN theirs' : theirs'[id] \in Connections \cup {Closed}
      <4>1. DOMAIN theirs' = DOMAIN theirs \cup {peer_count}
        BY <2>1 DEF Extended
      <4>. QED
        BY <4>1, <2>1, <2>3 DEF PeerInv, TableTypeOK
    <3>4. peer_count' \in 0 .. MaxPeers /\ made' \in 0 .. MaxConnections
      BY <2>1 DEF PeerInv, TableTypeOK, Ids, Connections, Bounds
    <3>. QED
      BY <2>1, <3>1, <3>2, <3>3, <3>4 DEF PeerInv, TableTypeOK
  <2>5. \A id \in Ids : id # peer_count => slots'[id] = slots[id]
    BY <2>1 DEF PeerInv, TableTypeOK
  <2>6. slots'[peer_count] = [socket |-> fd, active |-> TRUE]
    BY <2>1 DEF PeerInv, TableTypeOK
  <2>7. TableIsSound'
    <3>1. \A id \in Ids : slots'[id].active => id < peer_count'
      BY <2>1, <2>5, <2>6 DEF PeerInv, TableTypeOK, TableIsSound, Ids, Bounds
    <3>2. ASSUME NEW id \in DOMAIN theirs'
          PROVE  IF slots'[id].active
                   THEN /\ slots'[id].socket \in DOMAIN connection'
                        /\ connection'[slots'[id].socket] = theirs'[id]
                        /\ theirs'[id] \in Connections
                   ELSE theirs'[id] = Closed
      <4>1. CASE id = peer_count
        BY <4>1, <2>1, <2>2, <2>3, <2>6
      <4>2. CASE id # peer_count
        <5>1. id \in DOMAIN theirs /\ id \in Ids
          BY <4>2, <2>1, <2>3 DEF PeerInv, TableTypeOK, TableIsSound, Ids, Bounds
        <5>. QED
          BY <4>2, <5>1, <2>2, <2>3, <2>5 DEF PeerInv, TableIsSound
      <4>. QED
        BY <4>1, <4>2
    <3>3. \A i, j \in Ids :
            slots'[i].active /\ slots'[j].active /\ slots'[i].socket = slots'[j].socket => i = j
      <4>1. \A i \in Ids : slots[i].active => slots[i].socket \in DOMAIN connection
        BY DEF PeerInv, TableTypeOK, TableIsSound, Ids, Bounds
      <4>. QED
        BY <4>1, <2>1, <2>5, <2>6 DEF PeerInv, TableIsSound
    <3>. QED
      BY <2>3, <3>1, <3>2, <3>3 DEF TableIsSound
  <2>8. OpenIsOwned'
    BY <2>1, <2>2, <2>5, <2>6 DEF PeerInv, OpenIsOwned, TableIsSound, Other, Connections, TableTypeOK
  <2>. QED
    BY <2>4, <2>7, <2>8 DEF PeerInv
<1>. QED
  BY <1>1, <1>2

LEMMA CloseKeeps ==
  ASSUME Bounds, PeerInv, NEW id \in -1 .. MaxPeers, PeerClose(id)
  PROVE  PeerInv'
<1>1. /\ id \in Ids /\ id \in DOMAIN theirs /\ slots[id].active
      /\ slots' = [slots EXCEPT ![id].active = FALSE]
      /\ theirs' = [theirs EXCEPT ![id] = Closed]
      /\ peer_count' = peer_count /\ forgotten' = forgotten /\ made' = made
  BY DEF PeerClose, PeerInv, TableTypeOK, TableIsSound, Ids, Bounds
<1>2. /\ DOMAIN connection' = DOMAIN connection \ {slots[id].socket}
      /\ \A f \in DOMAIN connection' : connection'[f] = connection[f]
  BY DEF PeerClose, Restricted
<1>3. \A i \in Ids : /\ slots'[i].socket = slots[i].socket
                     /\ slots'[i].active <=> slots[i].active /\ i # id
  BY <1>1 DEF PeerInv, TableTypeOK
<1>4. TableTypeOK'
  BY <1>1, <1>2 DEF PeerInv, TableTypeOK, Closed, Connections
<1>5. TableIsSound'
  BY <1>1, <1>2, <1>3 DEF PeerInv, TableTypeOK, TableIsSound, Ids, Bounds
<1>6. OpenIsOwned'
  BY <1>1, <1>2, <1>3 DEF PeerInv, OpenIsOwned
<1>. QED
  BY <1>4, <1>5, <1>6 DEF PeerInv

LEMMA CleanupKeeps ==
  ASSUME Bounds, PeerInv, PeerCleanup
  PROVE  PeerInv'
<1>1. \A i \in Ids : slots'[i].socket = slots[i].socket /\ ~slots'[i].active
  BY DEF PeerCleanup, PeerInv, TableTypeOK, TableIsSound, Bounds, Ids
<1>2. \A f \in DOMAIN connection' :
        /\ f \in DOMAIN connection /\ connection'[f] = connection[f]
        /\ \A i \in Ids : slots[i].active => slots[i].socket # f
  BY DEF PeerCleanup, Restricted, PeerInv, TableIsSound
<1>3. TableTypeOK'
  <2>1. slots' \in [Ids -> [socket : Descriptors, active : BOOLEAN]]
    BY DEF PeerCleanup, PeerInv, TableTypeOK
  <2>. QED
    BY <2>1, <1>2 DEF PeerCleanup, PeerInv, TableTypeOK, Bounds
<1>4. TableIsSound'
  BY <1>1 DEF PeerCleanup, TableIsSound
<1>5. OpenIsOwned'
  BY <1>1, <1>2 DEF PeerCleanup, PeerInv, OpenIsOwned
<1>. QED
  BY <1>3, <1>4, <1>5 DEF PeerInv

LEMMA OtherOpensKeeps ==
  ASSUME PeerInv, NEW fd \in Descriptors, OtherOpens(fd)
  PROVE  PeerInv'
<1>1. /\ fd \notin DOMAIN connection
      /\ DOMAIN connection' = DOMAIN connection \cup {fd}
      /\ connection'[fd] = Other
      /\ \A f \in DOMAIN connection : connection'[f] = connection[f]
  BY DEF OtherOpens, NextFd, FreeDescriptors, Extended
<1>2. TableTypeOK'
  BY <1>1 DEF OtherOpens, PeerInv, TableTypeOK
<1>3. TableIsSound'
  BY <1>1 DEF OtherOpens, PeerInv, TableIsSound
<1>4. OpenIsOwned'
  BY <1>1 DEF OtherOpens, PeerInv, OpenIsOwned
<1>. QED
  BY <1>2, <1>3, <1>4 DEF PeerInv

LEMMA OtherClosesKeeps ==
  ASSUME PeerInv, NEW fd \in DOMAIN connection, OtherCloses(fd)
  PROVE  PeerInv'
<1>1. /\ DOMAIN connection' = DOMAIN connection \ {fd}
      /\ \A f \in DOMAIN connection' : connection'[f] = connection[f]
  BY DEF OtherCloses, Restricted
<1>2. \A id \in DOMAIN theirs : slots[id].active => slots[id].socket # fd
  BY DEF OtherCloses, PeerInv, TableIsSound, Connections, Other
<1>3. TableTypeOK'
  BY <1>1 DEF OtherCloses, PeerInv, TableTypeOK
<1>4. TableIsSound'
  BY <1>1, <1>2 DEF OtherCloses, PeerInv, TableIsSound
<1>5. OpenIsOwned'
  BY <1>1 DEF OtherCloses, PeerInv, OpenIsOwned
<1>. QED
  BY <1>3, <1>4, <1>5 DEF PeerInv

LEMMA StepKeeps ==
  ASSUME Bounds, PeerInv, [TableNext]_peer_vars
  PROVE  PeerInv'
<1>1. CASE PeerInit
  BY <1>1, PeerInitKeeps
<1>2. CASE PeerCleanup
  BY <1>2, CleanupKeeps
<1>3. ASSUME NEW fd \in Descriptors, NEW ok \in BOOLEAN, PeerConnect(fd, ok) PROVE PeerInv'
  BY <1>3, ConnectKeeps
<1>4. ASSUME NEW fd \in Descriptors, OtherOpens(fd) PROVE PeerInv'
  BY <1>4, OtherOpensKeeps
<1>5. ASSUME NEW id \in -1 .. MaxPeers, PeerClose(id) PROVE PeerInv'
  BY <1>5, CloseKeeps
<1>6. ASSUME NEW f \in DOMAIN connection, OtherCloses(f) PROVE PeerInv'
  BY <1>6, OtherClosesKeeps
<1>7. CASE UNCHANGED peer_vars
  BY <1>7 DEF peer_vars, PeerInv, TableTypeOK, TableIsSound, OpenIsOwned
<1>. QED
  BY <1>1, <1>2, <1>3, <1>4, <1>5, <1>6, <1>7 DEF TableNext

LEMMA InvMeansTheirs ==
  ASSUME Bounds, PeerInv
  PROVE  PeerIdsStayTheirs
<1>1. ASSUME NEW id \in DOMAIN theirs PROVE Reaches(id) = theirs[id]
  <2>1. id \in Ids /\ id < peer_count
    BY DEF PeerInv, TableTypeOK, TableIsSound, Ids, Bounds
  <2>. QED
    BY <2>1 DEF PeerInv, TableIsSound, Reaches
<1>. QED
  BY <1>1 DEF PeerInv, OpenIsOwned, PeerIdsStayTheirs

-----------------------------------------------------------------------------
(* The invariant from which the others follow.                              *)
THEOREM PeerInvariant ==
  ASSUME Bounds
  PROVE  TableSpec => []PeerInv
<1>1. TableInit => PeerInv
  BY InitSound
<1>2. PeerInv /\ [TableNext]_peer_vars => PeerInv'
  BY StepKeeps
<1>. QED
  BY <1>1, <1>2, PTL DEF TableSpec

(* No sequence of connects, closes, cleanups and second inits, whatever     *)
(* descriptors other modules open and close meanwhile, makes an id reach    *)
(* another connection than its own (infra_peer_send, _recv, _close).        *)
THEOREM IdsStayTheirs ==
  ASSUME Bounds
  PROVE  TableSpec => []PeerIdsStayTheirs
<1>1. PeerInv => PeerIdsStayTheirs
  BY InvMeansTheirs
<1>. QED
  BY <1>1, PeerInvariant, PTL

-----------------------------------------------------------------------------
(* One run of the program.                                                 *)

\* POLY_CMD_MAX_COUNT leaves room for the two commands there are.
RunBounds == MaxArguments \in Nat /\ MaxCommands \in Nat /\ MaxCommands >= 2

Accepted(a) == a.value \notin {"absent", "empty"} /\ IsLogLevel(a.name)

\* main has come to an argument behind options it has taken, and keeps the value
\* of the last one.
OptionsTaken ==
  /\ at \in 1 .. Len(argv) + 1
  /\ \A i \in 1 .. at - 1 : argv[i].dashes /\ Accepted(argv[i])
  /\ text = IF at = 1 THEN "unset" ELSE argv[at - 1].value

OptionsDone == at <= Len(argv) => ~argv[at].dashes
LevelKnown == text \in Levels \cup {"unset"}
LevelSet == LevelKnown /\ level = IF text = "unset" THEN "none" ELSE text
Both == Append(<<"rinetd">>, "help")
Rest == SubSeq(argv, at, Len(argv))

PhaseIsSound ==
  /\ phase \notin {"options", "exited"} => OptionsDone
  /\ phase \in {"infra", "commands", "help", "execute"} => LevelSet
  /\ phase \in {"options", "level", "infra", "commands"} => commands = <<>>
  /\ phase = "help" => commands = <<"rinetd">>
  /\ phase = "execute" => commands = Both
  /\ phase # "exited" => ~failed

\* Why the program has ended as it has.
EndIsSound ==
  phase = "exited" =>
    \/ exit = 0 /\ ~failed /\ OptionsDone /\ LevelSet /\ commands = Both /\ Executes(Rest)
    \/ exit = 1 /\ failed
    \/ exit = 1 /\ at <= Len(argv) /\ argv[at].dashes /\ ~Accepted(argv[at])
    \/ exit = 1 /\ OptionsDone /\ ~LevelKnown
    \/ exit = 1 /\ OptionsDone /\ LevelSet /\ commands = Both /\ ~Executes(Rest)

MainInv == MainTypeOK /\ OptionsTaken /\ PhaseIsSound /\ EndIsSound

LEMMA BothNames ==
  /\ Both \in Seq({"rinetd", "help"}) /\ Len(Both) = 2
  /\ ToSet(Both) = {"rinetd", "help"}
<1>1. /\ Both \in Seq({"rinetd", "help"}) /\ Len(Both) = 2
      /\ Both[1] = "rinetd" /\ Both[2] = "help"
  BY DEF Both
<1>2. DOMAIN Both = {1, 2}
  BY <1>1
<1>. QED
  BY <1>1, <1>2 DEF ToSet

LEMMA MainInitSound == ASSUME RunBounds, MainInit PROVE MainInv
<1>1. PICK n \in 0 .. MaxArguments : argv \in [1 .. n -> Arguments]
  BY DEF MainInit, Argvs
<1>2. argv \in Seq(Arguments) /\ Len(argv) = n /\ n \in Nat
  BY <1>1 DEF RunBounds
<1>3. /\ phase = "options" /\ at = 1 /\ text = "unset" /\ level = "none"
      /\ commands = <<>> /\ exit = 0 /\ failed = FALSE
  BY DEF MainInit
<1>4. MainTypeOK
  <2>1. commands \in Seq({"rinetd", "help"}) /\ Len(commands) <= MaxCommands
    BY <1>3 DEF RunBounds
  <2>2. at \in 1 .. MaxArguments + 1 /\ Len(argv) <= MaxArguments
    BY <1>2, <1>3 DEF RunBounds
  <2>. QED
    <3>1. phase \in Phases /\ text \in Values \cup {"unset"} /\ level \in Levels
      BY <1>3 DEF Phases, Levels
    <3>2. exit \in 0 .. 1
      BY <1>3
    <3>3. failed \in BOOLEAN
      BY <1>3, Zenon
    <3>. QED
      BY <1>2, <2>1, <2>2, <3>1, <3>2, <3>3 DEF MainTypeOK
<1>. QED
  BY <1>2, <1>3, <1>4 DEF MainInv, OptionsTaken, PhaseIsSound, EndIsSound

LEMMA ParseOptionKeeps == ASSUME RunBounds, MainInv, ParseOption PROVE MainInv'
<1>1. /\ argv \in Seq(Arguments) /\ Len(argv) \in Nat /\ Len(argv) <= MaxArguments
      /\ at \in 1 .. Len(argv) /\ phase = "options" /\ argv[at].dashes
      /\ UNCHANGED <<argv, level, commands, failed>>
      /\ commands = <<>> /\ ~failed /\ at \in Nat
  BY DEF MainInv, MainTypeOK, OptionsTaken, ParseOption, PhaseIsSound
<1>2. CASE Accepted(argv[at])
  <2>1. text' = argv[at].value /\ at' = at + 1 /\ UNCHANGED <<phase, exit>>
    BY <1>2 DEF ParseOption, Accepted
  <2>2. argv[at].value \in Values
    BY <1>1 DEF Arguments, Option, Plain, Values, Levels
  <2>3. OptionsTaken'
    <3>1. at' \in 1 .. Len(argv') + 1 /\ at' - 1 = at /\ at' # 1
      BY <1>1, <2>1
    <3>2. \A i \in 1 .. at : argv[i].dashes /\ Accepted(argv[i])
      BY <1>1, <1>2 DEF MainInv, OptionsTaken
    <3>. QED
      BY <3>1, <3>2, <2>1, <1>1 DEF OptionsTaken, Accepted, IsLogLevel
  <2>4. MainTypeOK'
    BY <1>1, <2>1, <2>2 DEF MainInv, MainTypeOK, RunBounds
  <2>. QED
    BY <1>1, <2>1, <2>3, <2>4 DEF MainInv, PhaseIsSound, EndIsSound
<1>3. CASE ~Accepted(argv[at])
  <2>1. phase' = "exited" /\ exit' = 1 /\ UNCHANGED <<at, text>>
    BY <1>3 DEF ParseOption, Accepted, Exit
  <2>2. MainTypeOK'
    BY <1>1, <2>1 DEF MainInv, MainTypeOK, Phases
  <2>3. OptionsTaken'
    BY <1>1, <2>1 DEF MainInv, OptionsTaken, Accepted, IsLogLevel
  <2>4. EndIsSound'
    BY <1>1, <1>3, <2>1 DEF EndIsSound, Accepted, IsLogLevel
  <2>. QED
    BY <2>1, <2>2, <2>3, <2>4 DEF MainInv, PhaseIsSound
<1>. QED
  BY <1>2, <1>3

\* What the other steps leave alone, and what that keeps.
LEMMA OptionsStay ==
  ASSUME MainInv, UNCHANGED <<argv, at, text>>
  PROVE  /\ OptionsTaken'
         /\ OptionsDone => OptionsDone'
         /\ LevelKnown' <=> LevelKnown
         /\ UNCHANGED level /\ LevelSet => LevelSet'
<1>1. OptionsTaken'
  BY DEF MainInv, OptionsTaken, Accepted, IsLogLevel
<1>. QED
  BY <1>1 DEF OptionsDone, LevelKnown, LevelSet, Levels

LEMMA OptionsEndKeeps == ASSUME MainInv, OptionsEnd PROVE MainInv'
<1>1. /\ UNCHANGED <<argv, at, text, level, commands, exit, failed>>
      /\ phase = "options" /\ phase' = "level" /\ OptionsDone
  BY DEF OptionsEnd, OptionsDone
<1>2. MainTypeOK'
  BY <1>1 DEF MainInv, MainTypeOK, Phases
<1>. QED
  BY <1>1, <1>2, OptionsStay DEF MainInv, PhaseIsSound, EndIsSound

LEMMA SetLevelKeeps == ASSUME MainInv, ApplyLevel PROVE MainInv'
<1>1. /\ UNCHANGED <<argv, at, text, commands, failed>> /\ phase = "level"
      /\ OptionsDone /\ commands = <<>> /\ ~failed
  BY DEF ApplyLevel, MainInv, PhaseIsSound
<1>2. CASE LevelKnown
  <2>1. /\ level' = IF text = "unset" THEN "none" ELSE text
        /\ phase' = "infra" /\ UNCHANGED exit
    BY <1>2 DEF ApplyLevel, LevelKnown
  <2>2. LevelSet'
    BY <1>1, <1>2, <2>1 DEF LevelSet, LevelKnown, Levels
  <2>3. MainTypeOK'
    BY <1>1, <1>2, <2>1 DEF MainInv, MainTypeOK, Phases, LevelKnown, Levels
  <2>. QED
    BY <1>1, <2>1, <2>2, <2>3, OptionsStay DEF MainInv, PhaseIsSound, EndIsSound
<1>3. CASE ~LevelKnown
  <2>1. phase' = "exited" /\ exit' = 1 /\ UNCHANGED level
    BY <1>3 DEF ApplyLevel, LevelKnown, Exit
  <2>2. MainTypeOK'
    BY <1>1, <2>1 DEF MainInv, MainTypeOK, Phases
  <2>. QED
    BY <1>1, <1>3, <2>1, <2>2, OptionsStay DEF MainInv, PhaseIsSound, EndIsSound
<1>. QED
  BY <1>2, <1>3

LEMMA InitInfraKeeps == ASSUME MainInv, InitInfra PROVE MainInv'
<1>1. /\ UNCHANGED <<argv, at, text, level, commands>> /\ phase = "infra"
      /\ OptionsDone /\ LevelSet /\ commands = <<>> /\ ~failed
  BY DEF InitInfra, MainInv, PhaseIsSound
<1>2. \/ phase' = "commands" /\ UNCHANGED <<exit, failed>>
      \/ phase' = "exited" /\ exit' = 1 /\ failed' = TRUE
  BY DEF InitInfra, Exit
<1>3. MainTypeOK'
  <2>1. phase' \in Phases /\ exit' \in 0 .. 1
    BY <1>2 DEF MainInv, MainTypeOK, Phases
  <2>2. failed' \in BOOLEAN
    BY <1>2, Zenon DEF MainInv, MainTypeOK
  <2>. QED
    BY <1>1, <2>1, <2>2 DEF MainInv, MainTypeOK
<1>. QED
  BY <1>1, <1>2, <1>3, OptionsStay DEF MainInv, PhaseIsSound, EndIsSound

\* There is room for both commands, and they have different names.
LEMMA RegisterKeeps ==
  ASSUME RunBounds, MainInv, InitCommands \/ RegisterHelp
  PROVE  MainInv'
<1>1. /\ UNCHANGED <<argv, at, text, level, failed>>
      /\ OptionsDone /\ LevelSet /\ ~failed
  BY DEF InitCommands, RegisterHelp, RegisterCommand, MainInv, PhaseIsSound
<1>2. \/ phase' = "help" /\ commands' = <<"rinetd">> /\ UNCHANGED exit
      \/ phase' = "execute" /\ commands' = Both /\ UNCHANGED exit
  <2>1. CASE InitCommands
    <3>1. commands = <<>> /\ RegisterCommand("rinetd", "help")
      BY <2>1 DEF InitCommands, MainInv, PhaseIsSound
    <3>2. Registers("rinetd")
      BY <3>1 DEF Registers, ToSet, RunBounds
    <3>3. commands' = Append(<<>>, "rinetd") /\ phase' = "help" /\ UNCHANGED exit
      BY <3>1, <3>2 DEF RegisterCommand
    <3>. QED
      BY <3>3
  <2>2. CASE RegisterHelp
    <3>1. commands = <<"rinetd">> /\ RegisterCommand("help", "execute")
      BY <2>2 DEF RegisterHelp, MainInv, PhaseIsSound
    <3>2. ToSet(commands) = {"rinetd"} /\ Len(commands) = 1
      BY <3>1 DEF ToSet
    <3>3. Registers("help")
      BY <3>2 DEF Registers, RunBounds
    <3>4. commands' = Append(<<"rinetd">>, "help") /\ phase' = "execute" /\ UNCHANGED exit
      BY <3>1, <3>3 DEF RegisterCommand
    <3>. QED
      BY <3>4 DEF Both
  <2>. QED
    BY <2>1, <2>2
<1>3. MainTypeOK'
  <2>1. commands' \in Seq({"rinetd", "help"}) /\ Len(commands') <= MaxCommands
    <3>1. <<"rinetd">> \in Seq({"rinetd", "help"}) /\ Len(<<"rinetd">>) = 1
      OBVIOUS
    <3>2. CASE commands' = <<"rinetd">>
      BY <3>1, <3>2 DEF RunBounds
    <3>3. CASE commands' = Both
      BY <3>3, BothNames DEF RunBounds
    <3>. QED
      BY <3>2, <3>3, <1>2
  <2>. QED
    BY <1>1, <1>2, <2>1 DEF MainInv, MainTypeOK, Phases
<1>. QED
  BY <1>1, <1>2, <1>3, OptionsStay DEF MainInv, PhaseIsSound, EndIsSound

LEMMA ExecuteKeeps == ASSUME MainInv, Execute PROVE MainInv'
<1>1. /\ UNCHANGED <<argv, at, text, level, commands, failed>> /\ phase = "execute"
      /\ OptionsDone /\ LevelSet /\ commands = Both /\ ~failed
  BY DEF Execute, MainInv, PhaseIsSound
<1>2. phase' = "exited" /\ exit' = IF Executes(Rest) THEN 0 ELSE 1
  BY DEF Execute, Exit, Rest
<1>3. Executes(Rest)' <=> Executes(Rest)
  BY <1>1 DEF Executes, Rest, RinetdReturns, Operation
<1>4. MainTypeOK'
  BY <1>1, <1>2 DEF MainInv, MainTypeOK, Phases
<1>. QED
  BY <1>1, <1>2, <1>3, <1>4, OptionsStay DEF MainInv, PhaseIsSound, EndIsSound, Both

-----------------------------------------------------------------------------
(* What the end says of the arguments.                                     *)

LEMMA ArgumentShapes ==
  ASSUME NEW a \in Arguments
  PROVE  /\ a.value \in Values
         /\ a.dashes => a = Option(a.name, a.value)
         /\ ~a.dashes => a = Plain(a.name)
BY DEF Arguments, Option, Plain, Values, Levels

\* The place of a command the help text describes is where main has come to.
LEMMA CommandIsAt ==
  ASSUME MainInv, NEW n \in DOMAIN argv, CommandAt(n),
         OptionsDone \/ (at <= Len(argv) /\ argv[at].dashes /\ ~Accepted(argv[at]))
  PROVE  n = at
<1>1. argv \in Seq(Arguments) /\ DOMAIN argv = 1 .. Len(argv) /\ at \in 1 .. Len(argv) + 1
      /\ Len(argv) \in Nat
  BY DEF MainInv, MainTypeOK, OptionsTaken
<1>2. ~argv[n].dashes /\ \A i \in 1 .. n - 1 : IsLevel(argv[i])
  BY DEF CommandAt
<1>3. ~(n < at)
  BY <1>1, <1>2 DEF MainInv, OptionsTaken
<1>4. ~(at < n)
  <2>. SUFFICES ASSUME at < n  PROVE FALSE
    OBVIOUS
  <2>1. IsLevel(argv[at]) /\ at <= Len(argv)
    BY <1>1, <1>2
  <2>2. argv[at].dashes /\ Accepted(argv[at])
    BY <2>1 DEF IsLevel, Option, Accepted, IsLogLevel, Levels
  <2>. QED
    BY <2>1, <2>2 DEF OptionsDone
<1>. QED
  BY <1>1, <1>3, <1>4

\* Behind options that were taken, the argument main has come to is the command.
LEMMA CommandIsThere ==
  ASSUME MainInv, OptionsDone, at <= Len(argv)
  PROVE  /\ at \in DOMAIN argv /\ CommandAt(at)
         /\ IF at = 1 THEN text = "unset" /\ Wanted(at) = "none"
                      ELSE text = Wanted(at) /\ text \in Values
<1>1. argv \in Seq(Arguments) /\ DOMAIN argv = 1 .. Len(argv) /\ at \in DOMAIN argv
      /\ Len(argv) \in Nat
  BY DEF MainInv, MainTypeOK, OptionsTaken
<1>2. ASSUME NEW i \in 1 .. at - 1  PROVE IsLevel(argv[i])
  <2>1. i \in DOMAIN argv /\ argv[i] \in Arguments
    BY <1>1
  <2>2. argv[i].dashes /\ Accepted(argv[i])
    BY <2>1 DEF MainInv, OptionsTaken
  <2>3. /\ argv[i] = Option(argv[i].name, argv[i].value)
        /\ argv[i].name \in {"log-level", "log"} /\ argv[i].value \in Values
    BY <2>1, <2>2, ArgumentShapes DEF Accepted, IsLogLevel
  <2>. QED
    BY <2>2, <2>3 DEF IsLevel, Accepted, Values, Levels
<1>3. CommandAt(at)
  BY <1>1, <1>2 DEF CommandAt, OptionsDone
<1>4. CASE at = 1
  BY <1>4, <1>1, <1>3 DEF Wanted, MainInv, OptionsTaken
<1>5. CASE at # 1
  <2>1. text = argv[at - 1].value
    BY <1>5 DEF MainInv, OptionsTaken
  <2>2. argv[at - 1] \in Arguments
    <3>1. at - 1 \in 1 .. Len(argv)
      BY <1>1, <1>5
    <3>. QED
      BY <3>1, <1>1
  <2>. QED
    BY <1>1, <1>3, <1>5, <2>1, <2>2, ArgumentShapes DEF Wanted
<1>. QED
  BY <1>4, <1>5

\* What rinetd and help need of the arguments behind the options.
LEMMA ExecutesKnown ==
  ASSUME MainInv, at <= Len(argv), ~argv[at].dashes, commands = Both
  PROVE  Executes(Rest) <=>
           argv[at] = Plain("help") \/ Asks(at, Option("status", "absent"))
<1>1. /\ argv \in Seq(Arguments) /\ at \in 1 .. Len(argv) /\ argv[at] \in Arguments
      /\ Len(argv) \in Nat
  BY DEF MainInv, MainTypeOK, OptionsTaken
<1>2. /\ Len(Rest) = Len(argv) - at + 1 /\ Rest # <<>> /\ Rest[1] = argv[at]
      /\ at < Len(argv) => Rest[2] = argv[at + 1]
  <2>1. /\ Len(SubSeq(argv, at, Len(argv))) = Len(argv) - at + 1
        /\ \A i \in 1 .. Len(argv) - at + 1 : SubSeq(argv, at, Len(argv))[i] = argv[at + i - 1]
    BY <1>1
  <2>2. 1 \in 1 .. Len(argv) - at + 1 /\ at + 1 - 1 = at /\ at + 2 - 1 = at + 1
    BY <1>1
  <2>3. at < Len(argv) => 2 \in 1 .. Len(argv) - at + 1
    BY <1>1
  <2>4. Len(Rest) = Len(argv) - at + 1 /\ Len(Rest) # 0
    BY <1>1, <2>1 DEF Rest
  <2>. QED
    <3>1. Rest[1] = argv[at]
      BY <2>1, <2>2 DEF Rest
    <3>3. Rest # <<>>
      BY <2>4
    <3>2. at < Len(argv) => Rest[2] = argv[at + 1]
      BY <2>1, <2>2, <2>3 DEF Rest
    <3>. QED
      BY <2>4, <3>1, <3>2, <3>3
<1>3. ToSet(commands) = {"rinetd", "help"}
  BY BothNames
<1>4. \A name : argv[at] = Plain(name) <=> argv[at].name = name
  BY <1>1, ArgumentShapes DEF Plain
<1>5. Len(Rest) > 1 <=> at < Len(argv)
  BY <1>1, <1>2
<1>. QED
  BY <1>2, <1>3, <1>4, <1>5 DEF Executes, RinetdReturns, Operation, Asks

LEMMA InvMeansTold == ASSUME MainInv PROVE ExitTellsWhatHappened
<1>. SUFFICES ASSUME phase = "exited"
              PROVE  /\ exit = 0 <=> Works /\ ~failed
                     /\ exit = 0 => \E n \in DOMAIN argv : CommandAt(n) /\ level = Wanted(n)
                     /\ \A n \in DOMAIN argv, operation \in Offered \ {Option("status", "absent")} :
                          CommandAt(n) /\ Asks(n, operation) => exit = 1
  BY DEF ExitTellsWhatHappened
<1>1. at \in 1 .. Len(argv) + 1 /\ argv \in Seq(Arguments) /\ Len(argv) \in Nat /\ exit \in 0 .. 1
  BY DEF MainInv, MainTypeOK, OptionsTaken
<1>2. ASSUME exit = 0
      PROVE  /\ ~failed /\ OptionsDone /\ at \in DOMAIN argv /\ CommandAt(at)
             /\ Wanted(at) \in Levels /\ level = Wanted(at)
             /\ argv[at] = Plain("help") \/ Asks(at, Option("status", "absent"))
  <2>1. ~failed /\ OptionsDone /\ LevelSet /\ commands = Both /\ Executes(Rest)
    BY <1>2 DEF MainInv, EndIsSound
  <2>2. at <= Len(argv)
    <3>1. Rest # <<>>
      BY <2>1 DEF Executes
    <3>. QED
      BY <3>1, <1>1 DEF Rest
  <2>3. /\ at \in DOMAIN argv /\ CommandAt(at)
        /\ IF at = 1 THEN text = "unset" /\ Wanted(at) = "none"
                     ELSE text = Wanted(at) /\ text \in Values
    BY <2>1, <2>2, CommandIsThere
  <2>4. Wanted(at) \in Levels /\ level = Wanted(at)
    BY <2>1, <2>3 DEF LevelSet, LevelKnown, Levels, Values
  <2>5. argv[at] = Plain("help") \/ Asks(at, Option("status", "absent"))
    BY <2>1, <2>2, ExecutesKnown DEF OptionsDone
  <2>. QED
    BY <2>1, <2>3, <2>4, <2>5
<1>3. ASSUME exit = 0
      PROVE  /\ Works /\ ~failed
             /\ \E n \in DOMAIN argv : CommandAt(n) /\ level = Wanted(n)
  BY <1>2, <1>3 DEF Works
<1>4. ASSUME Works, ~failed  PROVE exit = 0
  <2>. SUFFICES ASSUME exit # 0  PROVE FALSE
    OBVIOUS
  <2>1. PICK n \in DOMAIN argv :
          /\ CommandAt(n) /\ Wanted(n) \in Levels
          /\ argv[n] = Plain("help") \/ Asks(n, Option("status", "absent"))
    BY <1>4 DEF Works
  <2>2. \/ at <= Len(argv) /\ argv[at].dashes /\ ~Accepted(argv[at])
        \/ OptionsDone /\ ~LevelKnown
        \/ OptionsDone /\ LevelSet /\ commands = Both /\ ~Executes(Rest)
    BY <1>4 DEF MainInv, EndIsSound
  <2>3. n = at
    BY <2>1, <2>2, CommandIsAt
  <2>4. ~argv[at].dashes /\ at <= Len(argv)
    BY <1>1, <2>1, <2>3 DEF CommandAt
  <2>5. OptionsDone
    BY <2>2, <2>4
  <2>6. LevelKnown
    BY <2>1, <2>3, <2>4, <2>5, CommandIsThere DEF LevelKnown
  <2>7. commands = Both /\ ~Executes(Rest)
    BY <2>2, <2>4, <2>6
  <2>. QED
    BY <2>1, <2>3, <2>4, <2>7, ExecutesKnown
<1>5. ASSUME NEW n \in DOMAIN argv, NEW operation \in Offered \ {Option("status", "absent")},
             CommandAt(n), Asks(n, operation)
      PROVE  exit = 1
  <2>. SUFFICES ASSUME exit = 0  PROVE FALSE
    BY <1>1
  <2>1. n = at
    BY <1>2, <1>5, CommandIsAt
  <2>2. argv[n] # Plain("help")
    BY <1>5 DEF Asks, Plain
  <2>. QED
    BY <1>2, <1>5, <2>1, <2>2 DEF Asks
<1>. QED
  BY <1>3, <1>4, <1>5

\* The inductive invariant of a run of the program: types, the options that were
\* taken, what each phase has established, and why the run ended (ppdb.c main).
THEOREM MainInvariant == RunBounds => (MainSpec => []MainInv)
<1>. SUFFICES ASSUME RunBounds  PROVE MainSpec => []MainInv
  OBVIOUS
<1>1. MainInit => MainInv
  BY MainInitSound
<1>2. MainInv /\ [MainNext]_main_vars => MainInv'
  <2>. SUFFICES ASSUME MainInv, [MainNext]_main_vars  PROVE MainInv'
    OBVIOUS
  <2>1. CASE MainNext
    BY <2>1, ParseOptionKeeps, OptionsEndKeeps, SetLevelKeeps, InitInfraKeeps, RegisterKeeps,
       ExecuteKeeps DEF MainNext
  <2>2. CASE UNCHANGED main_vars
    <3>1. UNCHANGED <<argv, phase, at, text, level, commands, exit, failed>>
      BY <2>2 DEF main_vars
    <3>2. Executes(Rest)' <=> Executes(Rest)
      BY <3>1 DEF Executes, Rest, RinetdReturns, Operation
    <3>3. MainTypeOK'
      BY <3>1 DEF MainInv, MainTypeOK
    <3>. QED
      BY <3>1, <3>2, <3>3, OptionsStay DEF MainInv, PhaseIsSound, EndIsSound, Accepted, IsLogLevel, Both
  <2>. QED
    BY <2>1, <2>2
<1>. QED
  BY <1>1, <1>2, PTL DEF MainSpec

\* For any number of arguments, the program exits with 0 exactly when they were
\* help or rinetd --status behind good options and nothing failed, and has then
\* run with the level of the last option; --start, --stop and --config=<value>,
\* which the help text offers as well, always end with 1.
THEOREM ExitTells == RunBounds => (MainSpec => []ExitTellsWhatHappened)
BY MainInvariant, InvMeansTold, PTL

-----------------------------------------------------------------------------
(* The multiplexer, whatever the kernel reports.                            *)

MuxBounds == MaxEvents \in Nat /\ MaxRoom \in Nat

\* The name with which the kernel reports a descriptor is its own.
NamesAreTrue == \A f \in DOMAIN registered : registered[f].data = f

At(w) == wait[w].at

\* Where infra_mux_create is, it has what it asked for before, and no handle.
CreateHas == [mux |-> {}, impl |-> {"mux"}, epoll |-> {"mux", "impl"},
              events |-> {"mux", "impl", "epoll"}]
PiecesAreCounted ==
  /\ MuxIsWhole
  /\ wanted # "nothing" => ~handle /\ pieces = CreateHas[wanted]

\* What the kernel meant for w, or said to another before w has copied.
Meant(w, i) == {told[w][i]} \cup wait[w].others

\* Between epoll_wait and the copy the buffer holds what the thread is to copy,
\* or what has been written over it.
BufferIsKept ==
  \A w \in Waiters :
    At(w) = "copying" =>
      /\ Len(told[w]) <= wait[w].room /\ Len(told[w]) <= Len(buffer)
      /\ \A i \in 1 .. Len(told[w]) : buffer[i] \in Meant(w, i)

BufferBounded == Len(buffer) <= MaxEvents

MuxInv ==
  /\ MuxTypeOK /\ PiecesAreCounted /\ NamesAreTrue
  /\ BufferBounded /\ BufferIsKept

-----------------------------------------------------------------------------
(* The calls that register, and descriptors that come and go.              *)

\* What leaves the waits alone has only the registrations to answer for.
LEMMA RegistrationsOnly ==
  ASSUME MuxInv, Waiting,
         pieces' \subseteq Pieces /\ wanted' \in Pieces \cup {"nothing"} /\ handle' \in BOOLEAN,
         PiecesAreCounted',
         opened' \subseteq MuxFds /\ DOMAIN registered' \subseteq opened',
         \A f \in DOMAIN registered' :
           /\ registered'[f] \in [interest : Interests, data : MuxFds \cup {NoFd}]
           /\ registered'[f].data = f
  PROVE  MuxInv'
<1>1. UNCHANGED <<buffer, wait, told>>
  BY DEF Waiting
<1>2. MuxTypeOK'
  BY <1>1 DEF MuxInv, MuxTypeOK
<1>3. NamesAreTrue'
  BY DEF NamesAreTrue
<1>4. BufferBounded' /\ BufferIsKept'
  BY <1>1 DEF MuxInv, BufferBounded, BufferIsKept, Meant, At
<1>. QED
  BY <1>2, <1>3, <1>4 DEF MuxInv

LEMMA CreateKeeps ==
  ASSUME MuxInv, MuxCreate \/ MuxGets \/ MuxGetsNone
  PROVE  MuxInv'
<1>1. Waiting /\ UNCHANGED <<opened, registered>>
  BY DEF MuxCreate, MuxGets, MuxGetsNone
<1>2. CASE MuxCreate
  <2>1. pieces = {} /\ wanted' = "mux" /\ UNCHANGED <<pieces, handle>> /\ ~handle
    BY <1>2 DEF MuxCreate, MuxInv, PiecesAreCounted, MuxIsWhole
  <2>2. PiecesAreCounted'
    BY <2>1 DEF PiecesAreCounted, MuxIsWhole, CreateHas
  <2>. QED
    BY <1>1, <2>1, <2>2, RegistrationsOnly DEF MuxInv, MuxTypeOK, NamesAreTrue, Pieces
<1>3. CASE MuxGets
  <2>1. /\ wanted \in Pieces /\ pieces = CreateHas[wanted]
        /\ pieces' = pieces \cup {wanted} /\ wanted' = Following[wanted]
        /\ handle' = (wanted = "events")
    BY <1>3 DEF MuxGets, MuxInv, MuxTypeOK, PiecesAreCounted
  <2>2. PiecesAreCounted' /\ wanted' \in Pieces \cup {"nothing"} /\ handle' \in BOOLEAN
    <3>1. CASE wanted = "mux"
      BY <2>1, <3>1 DEF PiecesAreCounted, MuxIsWhole, CreateHas, Following, Pieces
    <3>2. CASE wanted = "impl"
      BY <2>1, <3>2 DEF PiecesAreCounted, MuxIsWhole, CreateHas, Following, Pieces
    <3>3. CASE wanted = "epoll"
      BY <2>1, <3>3 DEF PiecesAreCounted, MuxIsWhole, CreateHas, Following, Pieces
    <3>4. CASE wanted = "events"
      BY <2>1, <3>4 DEF PiecesAreCounted, MuxIsWhole, CreateHas, Following, Pieces
    <3>. QED
      BY <2>1, <3>1, <3>2, <3>3, <3>4 DEF Pieces
  <2>. QED
    BY <1>1, <2>1, <2>2, RegistrationsOnly DEF MuxInv, MuxTypeOK, NamesAreTrue
<1>4. CASE MuxGetsNone
  <2>1. /\ wanted \in Pieces /\ pieces = CreateHas[wanted] /\ ~handle
        /\ pieces' = pieces \ Undone(wanted) /\ wanted' = "nothing" /\ handle' = handle
    BY <1>4 DEF MuxGetsNone, MuxInv, MuxTypeOK, PiecesAreCounted
  <2>2. pieces' = {}
    BY <2>1 DEF CreateHas, Undone, Pieces
  <2>3. PiecesAreCounted'
    BY <2>1, <2>2 DEF PiecesAreCounted, MuxIsWhole
  <2>. QED
    BY <1>1, <2>1, <2>2, <2>3, RegistrationsOnly DEF MuxInv, MuxTypeOK, NamesAreTrue
<1>. QED
  BY <1>2, <1>3, <1>4

LEMMA RegisterFdKeeps ==
  ASSUME MuxInv, NEW f \in MuxFds, NEW interest \in Interests,
         MuxAdd(f, interest) \/ MuxModify(f, interest)
  PROVE  MuxInv'
<1>1. /\ Waiting /\ UNCHANGED <<pieces, wanted, handle, opened>> /\ f \in opened
      /\ Register(f, interest, f)
  BY DEF MuxAdd, MuxModify, MuxInv, MuxTypeOK
<1>2. /\ DOMAIN registered' = DOMAIN registered \cup {f}
      /\ registered'[f] = [interest |-> interest, data |-> f]
      /\ \A g \in DOMAIN registered : g # f => registered'[g] = registered[g]
  BY <1>1 DEF Register
<1>3. \A g \in DOMAIN registered' :
        /\ registered'[g] \in [interest : Interests, data : MuxFds \cup {NoFd}]
        /\ registered'[g].data = g
  BY <1>2 DEF MuxInv, MuxTypeOK, NamesAreTrue
<1>. QED
  BY <1>1, <1>2, <1>3, RegistrationsOnly DEF MuxInv, MuxTypeOK, PiecesAreCounted, MuxIsWhole

LEMMA LeavesKeep ==
  ASSUME MuxInv, NEW f \in MuxFds, MuxRemove(f) \/ FdOpens(f) \/ FdCloses(f)
  PROVE  MuxInv'
<1>1. /\ Waiting /\ UNCHANGED <<pieces, wanted, handle>>
      /\ opened' \subseteq MuxFds /\ DOMAIN registered' \subseteq opened'
      /\ DOMAIN registered' \subseteq DOMAIN registered
      /\ \A g \in DOMAIN registered' : registered'[g] = registered[g]
  BY DEF MuxRemove, FdOpens, FdCloses, Only, MuxInv, MuxTypeOK
<1>. QED
  BY <1>1, RegistrationsOnly DEF MuxInv, MuxTypeOK, PiecesAreCounted, MuxIsWhole, NamesAreTrue

LEMMA DestroyKeeps == ASSUME MuxBounds, MuxInv, MuxDestroy PROVE MuxInv'
<1>1. /\ pieces' = {} /\ handle' = FALSE /\ registered' = <<>> /\ buffer' = <<>>
      /\ UNCHANGED <<wanted, opened, wait, told>> /\ wanted = "nothing"
      /\ \A w \in Waiters : At(w) \in {"idle", "done"}
  BY DEF MuxDestroy, MuxInv, MuxTypeOK, PiecesAreCounted, At
<1>2. MuxTypeOK'
  <2>1. DOMAIN registered' = {} /\ buffer' \in Seq(Reports)
    BY <1>1
  <2>2. pieces' \subseteq Pieces /\ handle' \in BOOLEAN
    BY <1>1
  <2>. QED
    BY <1>1, <2>1, <2>2 DEF MuxInv, MuxTypeOK
<1>3. PiecesAreCounted' /\ NamesAreTrue'
  BY <1>1 DEF PiecesAreCounted, MuxIsWhole, NamesAreTrue
<1>4. BufferIsKept'
  BY <1>1 DEF MuxInv, BufferIsKept, At
<1>. QED
  BY <1>1, <1>2, <1>3, <1>4 DEF MuxInv, BufferBounded, MuxBounds

-----------------------------------------------------------------------------
(* The waits.                                                              *)

WaitState ==
  [at : {"idle", "waiting", "copying", "done"}, room : 0 .. MaxRoom,
   others : SUBSET Reports, report : Seq(Reports)]

LEMMA WaitCallKeeps ==
  ASSUME MuxBounds, MuxInv, NEW w \in Waiters, NEW room \in 1 .. MaxRoom, WaitCall(w, room)
  PROVE  MuxInv'
<1>1. /\ wait \in [Waiters -> WaitState] /\ told \in [Waiters -> Seq(Reports)]
      /\ UNCHANGED <<pieces, wanted, handle, opened, registered, buffer>>
      /\ told' = [told EXCEPT ![w] = <<>>]
      /\ wait' = [wait EXCEPT ![w] = [at |-> "waiting", room |-> room, others |-> {}, report |-> <<>>]]
  BY DEF MuxInv, MuxTypeOK, WaitState, WaitCall
<1>2. wait' \in [Waiters -> WaitState] /\ wait'[w].at = "waiting"
  BY <1>1 DEF WaitState
<1>3. told' \in [Waiters -> Seq(Reports)]
  BY <1>1
<1>4. MuxTypeOK'
  BY <1>1, <1>2, <1>3 DEF MuxInv, MuxTypeOK, WaitState
<1>5. \A v \in Waiters : v # w => wait'[v] = wait[v] /\ told'[v] = told[v]
  BY <1>1
<1>6. BufferIsKept'
  BY <1>1, <1>2, <1>5 DEF MuxInv, BufferIsKept, Meant, At
<1>7. PiecesAreCounted' /\ NamesAreTrue' /\ BufferBounded'
  BY <1>1 DEF MuxInv, PiecesAreCounted, MuxIsWhole, NamesAreTrue, BufferBounded
<1>. QED
  BY <1>4, <1>6, <1>7 DEF MuxInv

\* At most so many as fit into the array of the caller and into the buffer.
LEMMA LimitBounds ==
  ASSUME MuxBounds, NEW room \in 0 .. MaxRoom
  PROVE  Limit(room) \in Nat /\ Limit(room) <= room /\ Limit(room) <= MaxEvents
BY DEF Limit, MuxBounds

LEMMA KernelReportsKeeps ==
  ASSUME MuxBounds, MuxInv, NEW w \in Waiters, KernelReports(w)
  PROVE  MuxInv'
<1>1. /\ wait \in [Waiters -> WaitState] /\ told \in [Waiters -> Seq(Reports)]
      /\ wait[w].at = "waiting" /\ wait[w] \in WaitState /\ wait[w].room \in 0 .. MaxRoom
      /\ UNCHANGED <<pieces, wanted, handle, opened, registered>>
      /\ wait' = [v \in Waiters |->
                    IF v = w THEN [wait[v] EXCEPT !.at = "copying"]
                    ELSE IF wait[v].at = "copying"
                         THEN [wait[v] EXCEPT !.others = @ \cup Said(told'[w])]
                         ELSE wait[v]]
      /\ buffer \in Seq(Reports) /\ Len(buffer) <= MaxEvents
  BY DEF MuxInv, MuxTypeOK, WaitState, KernelReports, BufferBounded
<1>0. PICK fds \in Lists(Limit(wait[w].room)) :
        \E raw \in [DOMAIN fds -> Raw] :
          /\ \A i \in DOMAIN fds :
               raw[i] \subseteq registered[fds[i]].interest \cup {"error", "hangup"}
          /\ buffer' = [i \in 1 .. Len(buffer) \cup DOMAIN fds |->
               IF i \in DOMAIN fds THEN [fd |-> registered[fds[i]].data, events |-> raw[i]]
               ELSE buffer[i]]
          /\ told' = [told EXCEPT ![w] = [i \in DOMAIN fds |-> [fd |-> fds[i], events |-> raw[i]]]]
  BY DEF KernelReports
<1>2. PICK raw \in [DOMAIN fds -> Raw] :
        /\ \A i \in DOMAIN fds :
             raw[i] \subseteq registered[fds[i]].interest \cup {"error", "hangup"}
        /\ buffer' = [i \in 1 .. Len(buffer) \cup DOMAIN fds |->
             IF i \in DOMAIN fds THEN [fd |-> registered[fds[i]].data, events |-> raw[i]]
             ELSE buffer[i]]
        /\ told' = [told EXCEPT ![w] = [i \in DOMAIN fds |-> [fd |-> fds[i], events |-> raw[i]]]]
  BY <1>0
<1>3. PICK k \in 0 .. Limit(wait[w].room) : fds \in [1 .. k -> DOMAIN registered]
  BY <1>0 DEF Lists
<1>4. k \in Nat /\ k <= wait[w].room /\ k <= MaxEvents /\ DOMAIN fds = 1 .. k
  BY <1>1, <1>3, LimitBounds DEF MuxBounds
<1>. DEFINE report == [i \in 1 .. k |-> [fd |-> fds[i], events |-> raw[i]]]
<1>5. \A i \in 1 .. k : /\ [fd |-> fds[i], events |-> raw[i]] \in Reports
                        /\ registered[fds[i]].data = fds[i]
  <2>. SUFFICES ASSUME NEW i \in 1 .. k
                PROVE  /\ [fd |-> fds[i], events |-> raw[i]] \in Reports
                       /\ registered[fds[i]].data = fds[i]
    OBVIOUS
  <2>1. fds[i] \in DOMAIN registered /\ DOMAIN registered \subseteq MuxFds
    BY <1>3 DEF MuxInv, MuxTypeOK
  <2>2. raw[i] \in Raw
    BY <1>4
  <2>. QED
    BY <2>1, <2>2 DEF MuxInv, NamesAreTrue, Raw, Reports
<1>6. report \in Seq(Reports) /\ Len(report) = k /\ \A i \in 1 .. k : report[i] \in Reports
  BY <1>4, <1>5
<1>7. /\ told'[w] = report
      /\ \A v \in Waiters \ {w} : told'[v] = told[v]
  BY <1>1, <1>2, <1>4
<1>8. PICK L \in Nat : L = Len(buffer)
  <2>1. buffer \in Seq(Reports)
    BY <1>1
  <2>2. Len(buffer) \in Nat
    BY <2>1
  <2>. QED
    BY <2>2
<1>9. PICK m \in Nat : 1 .. m = 1 .. L \cup 1 .. k /\ m >= L /\ m >= k /\ m <= MaxEvents
  <2>1. CASE L <= k
    <3>1. 1 .. k = 1 .. L \cup 1 .. k
      BY <2>1, <1>4
    <3>. QED
      BY <2>1, <3>1, <1>4
  <2>2. CASE ~(L <= k)
    <3>1. 1 .. L = 1 .. L \cup 1 .. k
      BY <2>2, <1>4
    <3>. QED
      <4>1. L <= MaxEvents /\ L >= k
        BY <2>2, <1>1, <1>4, <1>8
      <4>. QED
        BY <3>1, <4>1
  <2>. QED
    BY <2>1, <2>2
<1>10. buffer' = [i \in 1 .. m |-> IF i \in 1 .. k THEN report[i] ELSE buffer[i]]
  <2>1. \A i \in 1 .. k : [fd |-> registered[fds[i]].data, events |-> raw[i]] = report[i]
    BY <1>5
  <2>2. buffer' = [i \in 1 .. m |->
                     IF i \in 1 .. k THEN [fd |-> registered[fds[i]].data, events |-> raw[i]]
                     ELSE buffer[i]]
    BY <1>2, <1>4, <1>8, <1>9
  <2>. HIDE DEF report
  <2>. QED
    BY <2>1, <2>2
<1>. HIDE DEF report
<1>11. /\ buffer' \in Seq(Reports) /\ Len(buffer') = m
       /\ \A i \in 1 .. k : buffer'[i] = report[i]
  <2>1. \A i \in 1 .. m : (IF i \in 1 .. k THEN report[i] ELSE buffer[i]) \in Reports
    BY <1>1, <1>6, <1>8, <1>9
  <2>2. 1 .. k \subseteq 1 .. m
    BY <1>9
  <2>. QED
    BY <2>1, <2>2, <1>10
<1>12. Said(told'[w]) = {report[i] : i \in 1 .. k} /\ Said(told'[w]) \subseteq Reports
  BY <1>4, <1>6, <1>7 DEF Said
<1>13. /\ wait'[w] = [wait[w] EXCEPT !.at = "copying"] /\ wait'[w] \in WaitState
       /\ wait'[w].room = wait[w].room
  BY <1>1 DEF WaitState
<1>14. ASSUME NEW v \in Waiters, v # w
       PROVE  /\ wait'[v] \in WaitState /\ At(v)' = At(v) /\ wait'[v].room = wait[v].room
              /\ At(v) = "copying" => wait'[v].others = wait[v].others \cup Said(told'[w])
  BY <1>1, <1>12, <1>14 DEF WaitState, At
<1>15. MuxTypeOK'
  <2>1. told' \in [Waiters -> Seq(Reports)]
    BY <1>1, <1>2, <1>4, <1>6 DEF report
  <2>2. wait' \in [Waiters -> WaitState]
    BY <1>1, <1>13, <1>14
  <2>. QED
    BY <2>1, <2>2, <1>1, <1>11 DEF MuxInv, MuxTypeOK, WaitState
<1>17. ASSUME NEW v \in Waiters, At(v)' = "copying"
       PROVE  /\ Len(told'[v]) <= wait'[v].room /\ Len(told'[v]) <= Len(buffer')
              /\ \A i \in 1 .. Len(told'[v]) : buffer'[i] \in Meant(v, i)'
  <2>1. CASE v = w
    BY <2>1, <1>4, <1>6, <1>7, <1>9, <1>11, <1>13 DEF Meant
  <2>2. CASE v # w
    <3>1. /\ At(v) = "copying" /\ told'[v] = told[v] /\ told[v] \in Seq(Reports)
          /\ wait'[v].room = wait[v].room
          /\ wait'[v].others = wait[v].others \cup Said(told'[w])
      BY <1>1, <1>7, <1>14, <1>17, <2>2
    <3>2. /\ Len(told[v]) <= wait[v].room /\ Len(told[v]) <= L
          /\ \A i \in 1 .. Len(told[v]) : buffer[i] \in Meant(v, i)
      BY <3>1, <1>8 DEF MuxInv, BufferIsKept
    <3>3. ASSUME NEW i \in 1 .. Len(told[v])  PROVE buffer'[i] \in Meant(v, i)'
      <4>1. i \in 1 .. m
        BY <3>1, <3>2, <1>9
      <4>2. CASE i \in 1 .. k
        BY <4>2, <3>1, <1>11, <1>12 DEF Meant
      <4>3. CASE i \notin 1 .. k
        <5>1. buffer'[i] = buffer[i]
          BY <4>1, <4>3, <1>10
        <5>. QED
          BY <5>1, <3>1, <3>2 DEF Meant
      <4>. QED
        BY <4>2, <4>3
    <3>4. Len(told[v]) <= m
      <4>1. Len(told[v]) \in Nat
        BY <3>1
      <4>. QED
        BY <4>1, <3>2, <1>9
    <3>. QED
      BY <3>1, <3>2, <3>3, <3>4, <1>11
  <2>. QED
    BY <2>1, <2>2
<1>19. BufferBounded' /\ PiecesAreCounted' /\ NamesAreTrue'
  BY <1>1, <1>9, <1>11 DEF MuxInv, BufferBounded, PiecesAreCounted, MuxIsWhole, NamesAreTrue
<1>. QED
  BY <1>15, <1>17, <1>19 DEF MuxInv, BufferIsKept

\* The copy: each event that a thread gets was meant for it, or written over
\* what was.
LEMMA WaitReturnsCopies ==
  ASSUME MuxBounds, MuxInv, NEW w \in Waiters, WaitReturns(w)
  PROVE  /\ wait'[w].report \in Seq(Reports)
         /\ Len(wait'[w].report) = Len(told[w])
         /\ Len(wait'[w].report) <= wait[w].room /\ Len(wait'[w].report) <= MaxEvents
         /\ \A i \in 1 .. Len(wait'[w].report) :
              \E meant \in Meant(w, i) : wait'[w].report[i] = Converted(meant)
<1>. DEFINE report == [i \in 1 .. Len(told[w]) |-> Converted(buffer[i])]
<1>1. /\ wait \in [Waiters -> WaitState] /\ wait[w].at = "copying"
      /\ buffer \in Seq(Reports) /\ told[w] \in Seq(Reports)
      /\ wait'[w].report = report
      /\ Len(buffer) <= MaxEvents
  BY DEF MuxInv, MuxTypeOK, WaitState, WaitReturns, BufferBounded
<1>2. /\ Len(told[w]) <= wait[w].room /\ Len(told[w]) <= Len(buffer)
      /\ \A i \in 1 .. Len(told[w]) : buffer[i] \in Meant(w, i)
  BY <1>1 DEF MuxInv, BufferIsKept, At
<1>3. Len(told[w]) \in Nat /\ Len(buffer) \in Nat
  BY <1>1
<1>4. \A i \in 1 .. Len(told[w]) : Converted(buffer[i]) \in Reports
  <2>1. \A i \in 1 .. Len(told[w]) : buffer[i] \in Reports
    BY <1>1, <1>2, <1>3
  <2>2. \A e \in Reports : Converted(e) \in Reports
    BY DEF Converted, Reports
  <2>. QED
    BY <2>1, <2>2
<1>5. report \in Seq(Reports) /\ Len(report) = Len(told[w])
  BY <1>3, <1>4
<1>6. Len(told[w]) <= MaxEvents
  BY <1>1, <1>2, <1>3 DEF MuxBounds
<1>. QED
  BY <1>1, <1>2, <1>5, <1>6

LEMMA WaitReturnsKeeps ==
  ASSUME MuxBounds, MuxInv, NEW w \in Waiters, WaitReturns(w)
  PROVE  MuxInv'
<1>. DEFINE report == [i \in 1 .. Len(told[w]) |-> Converted(buffer[i])]
<1>1. /\ wait \in [Waiters -> WaitState]
      /\ UNCHANGED <<pieces, wanted, handle, opened, registered, buffer, told>>
      /\ wait' = [wait EXCEPT ![w].at = "done", ![w].report = report]
  BY DEF MuxInv, MuxTypeOK, WaitState, WaitReturns
<1>2. report \in Seq(Reports)
  <2>1. wait'[w].report = report
    BY <1>1 DEF WaitState
  <2>. QED
    BY <2>1, WaitReturnsCopies
<1>. HIDE DEF report
<1>3. /\ wait' \in [Waiters -> WaitState] /\ wait'[w].at = "done"
      /\ \A v \in Waiters : v # w => wait'[v] = wait[v]
  BY <1>1, <1>2 DEF WaitState
<1>4. MuxTypeOK'
  BY <1>1, <1>3 DEF MuxInv, MuxTypeOK, WaitState
<1>5. BufferIsKept'
  BY <1>1, <1>3 DEF MuxInv, BufferIsKept, Meant, At
<1>6. BufferBounded' /\ PiecesAreCounted' /\ NamesAreTrue'
  BY <1>1 DEF MuxInv, BufferBounded, PiecesAreCounted, MuxIsWhole, NamesAreTrue
<1>. QED
  BY <1>4, <1>5, <1>6 DEF MuxInv

\* The inductive invariant of the multiplexer: types, in infra_mux_create what
\* it has asked for so far and otherwise a whole multiplexer or none, true names,
\* and a buffer that keeps a report from epoll_wait to the copy, but for what
\* another thread's report writes over it (infra_mux_epoll.c 70-149).
THEOREM MuxInvariant == MuxBounds => (MuxSpec => []MuxInv)
<1>. SUFFICES ASSUME MuxBounds  PROVE MuxSpec => []MuxInv
  OBVIOUS
<1>1. MuxInit => MuxInv
  <2>. SUFFICES ASSUME MuxInit  PROVE MuxInv
    OBVIOUS
  <2>1. /\ pieces = {} /\ wanted = "nothing" /\ handle = FALSE
        /\ opened = {} /\ registered = <<>> /\ buffer = <<>>
        /\ told = [w \in Waiters |-> <<>>]
        /\ wait = [w \in Waiters |-> Away]
    BY DEF MuxInit
  <2>2. Away \in WaitState /\ Away.at = "idle"
    BY DEF Away, WaitState, MuxBounds
  <2>3. MuxTypeOK
    <3>1. wait \in [Waiters -> WaitState] /\ told \in [Waiters -> Seq(Reports)]
      BY <2>1, <2>2
    <3>2. DOMAIN registered = {} /\ buffer \in Seq(Reports)
      BY <2>1
    <3>. QED
      BY <2>1, <3>1, <3>2 DEF MuxTypeOK, WaitState
  <2>4. \A w \in Waiters : At(w) = "idle"
    BY <2>1, <2>2 DEF At
  <2>5. BufferBounded /\ PiecesAreCounted /\ NamesAreTrue
    BY <2>1 DEF BufferBounded, PiecesAreCounted, MuxIsWhole, NamesAreTrue, MuxBounds
  <2>. QED
    BY <2>3, <2>4, <2>5 DEF MuxInv, BufferIsKept
<1>2. MuxInv /\ [MuxNext]_mux_vars => MuxInv'
  <2>. SUFFICES ASSUME MuxInv, [MuxNext]_mux_vars  PROVE MuxInv'
    OBVIOUS
  <2>1. CASE MuxCreate \/ MuxGets \/ MuxGetsNone \/ MuxDestroy
    BY <2>1, CreateKeeps, DestroyKeeps
  <2>2. CASE \E f \in MuxFds : \E interest \in Interests : MuxAdd(f, interest) \/ MuxModify(f, interest)
    BY <2>2, RegisterFdKeeps
  <2>3. CASE \E f \in MuxFds : FdOpens(f) \/ FdCloses(f) \/ MuxRemove(f)
    BY <2>3, LeavesKeep
  <2>4. CASE \E w \in Waiters : \/ \E room \in 1 .. MaxRoom : WaitCall(w, room)
                                \/ KernelReports(w) \/ WaitReturns(w)
    BY <2>4, WaitCallKeeps, KernelReportsKeeps, WaitReturnsKeeps
  <2>5. CASE UNCHANGED mux_vars
    <3>1. UNCHANGED <<pieces, wanted, handle, opened, registered, buffer, wait, told>>
      BY <2>5 DEF mux_vars
    <3>. QED
      BY <3>1 DEF MuxInv, MuxTypeOK, PiecesAreCounted, MuxIsWhole, NamesAreTrue, BufferBounded,
                  BufferIsKept, Meant, At
  <2>. QED
    BY <2>1, <2>2, <2>3, <2>4, <2>5 DEF MuxNext
<1>. QED
  BY <1>1, <1>2, PTL DEF MuxSpec

\* Wherever infra_mux_create is refused something, all that it had is given back.
THEOREM MuxStaysWhole == MuxBounds => (MuxSpec => []MuxIsWhole)
<1>1. MuxInv => MuxIsWhole
  BY DEF MuxInv, PiecesAreCounted
<1>. QED
  BY <1>1, MuxInvariant, PTL

\* For any number of threads, whatever others register or close meanwhile, a
\* thread is told what the kernel meant for it, under true names and in the room
\* it has, or at most what the kernel said to another thread in between.
THEOREM MuxTellsTheirs == MuxBounds => (MuxSpec => MuxReportsAreTheirs)
<1>. SUFFICES ASSUME MuxBounds  PROVE MuxSpec => MuxReportsAreTheirs
  OBVIOUS
<1>. DEFINE Told(w) ==
       wait[w].at = "copying" /\ wait'[w].at = "done" =>
         LET report == wait'[w].report
         IN  /\ Len(report) = Len(told[w])
             /\ Len(report) <= wait[w].room /\ Len(report) <= MaxEvents
             /\ \A i \in 1 .. Len(report) :
                  \E meant \in {told[w][i]} \cup wait[w].others : report[i] = Converted(meant)
<1>1. MuxInv /\ [MuxNext]_mux_vars => [\A w \in Waiters : Told(w)]_mux_vars
  <2>. SUFFICES ASSUME MuxInv, MuxNext, NEW w \in Waiters,
                       wait[w].at = "copying", wait'[w].at = "done"
                PROVE  Told(w)
    OBVIOUS
  <2>1. wait \in [Waiters -> WaitState] /\ wait' # wait
    BY DEF MuxInv, MuxTypeOK, WaitState
  <2>2. PICK v \in Waiters : \/ \E room \in 1 .. MaxRoom : WaitCall(v, room)
                             \/ KernelReports(v) \/ WaitReturns(v)
    BY <2>1 DEF MuxNext, MuxCreate, MuxGets, MuxGetsNone, MuxDestroy, MuxAdd, MuxModify,
                MuxRemove, FdOpens, FdCloses, Waiting
  <2>3. WaitReturns(w)
    <3>1. ASSUME NEW room \in 1 .. MaxRoom, WaitCall(v, room)  PROVE FALSE
      BY <2>1, <3>1 DEF WaitCall, WaitState
    <3>2. CASE KernelReports(v)
      BY <2>1, <3>2 DEF KernelReports, WaitState
    <3>3. CASE WaitReturns(v)
      BY <2>1, <3>3 DEF WaitReturns, WaitState
    <3>. QED
      BY <2>2, <3>1, <3>2, <3>3
  <2>. QED
    BY <2>3, WaitReturnsCopies DEF Meant
<1>. QED
  BY <1>1, MuxInvariant, PTL DEF MuxSpec, MuxReportsAreTheirs
=============================================================================
