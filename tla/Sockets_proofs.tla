--------------------------- MODULE Sockets_proofs ---------------------------
(* Proofs about Sockets, for any number of callers, any limit of            *)
(* descriptors and any width of a word of an fd_set.                        *)
EXTENDS Sockets, FiniteSetTheorems, TLAPS

Limits ==
  /\ IsFiniteSet(Callers)
  /\ MaxFds \in Nat /\ Bits \in Nat \ {0} /\ MaxHosts \in Nat

\* SocketsAreOwned in two parts.
StructsAreOwned ==
  /\ DOMAIN heap = {pointer[c] : c \in Holders}
  /\ DOMAIN open = {heap[a].fd : a \in DOMAIN heap} \ {NoDescriptor}
  /\ \A c, d \in Holders : pointer[c] = pointer[d] => c = d
  /\ \A a, b \in DOMAIN heap : heap[a].fd = heap[b].fd /\ heap[a].fd # NoDescriptor => a = b
  /\ \A c \in Holders : FdOf(c) = NoDescriptor <=> call[c].at \in Bare
StringsAreOwned == strings = hosts + Cardinality(Naming)

\* The socket that a connection is taken from has an owner who leaves it alone.
Rests(d) == call[d].at = "idle" \/ call[d].op = "resolve"
ServerStands(a) == a # Null /\ \E d \in Callers : pointer[d] = a /\ Rests(d)

\* A call keeps to its places, has a struct at most of them, and in select a
\* descriptor that has begun to connect.
Connecting == {"target", "connect", "again", "select"}
CallOK(c) ==
  /\ call[c].at \in {"idle", "dangling"} => call[c].op = "none"
  /\ call[c].at \in {"socket", "option"} => call[c].op \in {"create", "udp_bind", "connect"}
  /\ call[c].at \in {"accept", "inherit", "address"} => call[c].op = "accept"
  /\ call[c].at \in Connecting => call[c].op = "connect"
  /\ call[c].at = "bind" => call[c].op = "udp_bind"
  /\ call[c].at = "name" => call[c].op \in {"accept", "resolve"}
  /\ call[c].op = "resolve" => call[c].at = "name"
  /\ call[c].at \in Bare \cup Whole \/ call[c].op = "accept" => pointer[c] # Null
  /\ call[c].at = "select" => open[FdOf(c)].net \in {"connecting", "connected", "failed"}
  /\ call[c].op = "accept" => ServerStands(call[c].server)
CallsAreSound == \A c \in Callers : CallOK(c)

SocketInv == SocketTypeOK /\ StructsAreOwned /\ StringsAreOwned /\ CallsAreSound

LEMMA InvMeansOwned == ASSUME SocketInv PROVE SocketsAreOwned
BY DEF SocketInv, StructsAreOwned, StringsAreOwned, SocketsAreOwned

LEMMA NullIsNoAddress ==
  ASSUME Limits
  PROVE  Null \notin Structs /\ Structs \subseteq Nat /\ NoDescriptor \notin Fds
BY FS_CardinalityType DEF Limits, Structs, Null, Fds, NoDescriptor

\* What a holder's variable leads to is there, and is led to by nobody else.
LEMMA HoldersAlone ==
  ASSUME Limits, SocketInv, NEW c \in Holders
  PROVE  /\ c \in Callers /\ pointer[c] \in DOMAIN heap /\ pointer[c] # Null
         /\ call[c].at \notin Bare => FdOf(c) \in DOMAIN open /\ FdOf(c) \in Fds
         /\ call[c].at \in Bare => FdOf(c) = NoDescriptor
         /\ \A d \in Holders : d # c =>
              pointer[d] # pointer[c] /\ (FdOf(d) # FdOf(c) \/ FdOf(c) = NoDescriptor)
<1>1. pointer[c] \in DOMAIN heap /\ \A d \in Holders : pointer[d] \in DOMAIN heap
  BY DEF SocketInv, StructsAreOwned
<1>2. call[c].at \notin Bare => FdOf(c) \in DOMAIN open /\ FdOf(c) \in Fds
  BY <1>1 DEF SocketInv, StructsAreOwned, SocketTypeOK, FdOf
<1>3. \A d \in Holders : d # c => pointer[d] # pointer[c]
  BY DEF SocketInv, StructsAreOwned
<1>. QED
  BY <1>1, <1>2, <1>3 DEF SocketInv, StructsAreOwned, FdOf, Holders

\* In the middle of a call a caller holds a struct.
LEMMA CallersHold ==
  ASSUME SocketInv, NEW c \in Callers,
         call[c].at \in Bare \cup Whole \/ call[c].op = "accept"
  PROVE  c \in Holders /\ ~Rests(c)
BY DEF SocketInv, CallsAreSound, CallOK, Holders, Rests, Bare, Whole

-----------------------------------------------------------------------------
(* Strings.                                                                *)

LEMMA NamingIsFinite == ASSUME Limits PROVE IsFiniteSet(Naming) /\ Cardinality(Naming) \in Nat
<1>1. Naming \subseteq Callers
  BY DEF Naming
<1>. QED
  BY <1>1, FS_Subset, FS_CardinalityType DEF Limits

\* Whoever had a string that is being written still has it.
LEMMA SameStrings ==
  ASSUME SocketInv, NoHost, \A d \in Callers : call'[d].at = "name" <=> call[d].at = "name"
  PROVE  StringsAreOwned' /\ strings' \in 0 .. MaxHosts /\ hosts' \in 0 .. MaxHosts
<1>1. Naming' = Naming
  BY DEF Naming
<1>. QED
  BY <1>1 DEF SocketInv, SocketTypeOK, StringsAreOwned, NoHost

\* A string is allocated.
LEMMA MoreStrings ==
  ASSUME Limits, SocketInv, NEW c \in Callers, NEW now \in Calls,
         call' = [call EXCEPT ![c] = now], call[c].at # "name", now.at = "name",
         strings < MaxHosts, strings' = strings + 1, hosts' = hosts
  PROVE  StringsAreOwned' /\ strings' \in 0 .. MaxHosts /\ hosts' \in 0 .. MaxHosts
<1>1. Naming' = Naming \cup {c} /\ c \notin Naming
  BY DEF Naming, SocketInv, SocketTypeOK
<1>2. Cardinality(Naming') = Cardinality(Naming) + 1
  BY <1>1, NamingIsFinite, FS_AddElement
<1>3. strings \in Nat /\ hosts \in Nat /\ strings = hosts + Cardinality(Naming)
      /\ strings \in 0 .. MaxHosts /\ hosts \in 0 .. MaxHosts
  BY DEF SocketInv, SocketTypeOK, StringsAreOwned
<1>4. strings' = hosts' + Cardinality(Naming')
  BY <1>2, <1>3, NamingIsFinite
<1>. QED
  BY <1>3, <1>4 DEF StringsAreOwned, Limits

\* The string of a call is handed over, or freed.
LEMMA LessStrings ==
  ASSUME Limits, SocketInv, NEW c \in Callers, NEW now \in Calls,
         call' = [call EXCEPT ![c] = now], call[c].at = "name", now.at # "name",
         \/ strings' = strings /\ hosts' = hosts + 1
         \/ strings' = strings - 1 /\ hosts' = hosts
  PROVE  StringsAreOwned' /\ strings' \in 0 .. MaxHosts /\ hosts' \in 0 .. MaxHosts
<1>1. Naming' = Naming \ {c} /\ c \in Naming
  BY DEF Naming, SocketInv, SocketTypeOK
<1>2. Cardinality(Naming') = Cardinality(Naming) - 1
  BY <1>1, NamingIsFinite, FS_RemoveElement
<1>3. Cardinality(Naming') \in Nat
  BY <1>1, NamingIsFinite, FS_RemoveElement, FS_CardinalityType
<1>4. strings \in Nat /\ hosts \in Nat /\ strings = hosts + Cardinality(Naming)
      /\ strings <= MaxHosts
  BY DEF SocketInv, SocketTypeOK, StringsAreOwned
<1>5. strings' = hosts' + Cardinality(Naming') /\ strings' \in Nat /\ hosts' \in Nat /\ strings' <= MaxHosts
  BY <1>2, <1>3, <1>4, NamingIsFinite DEF Limits
<1>6. hosts' <= MaxHosts
  BY <1>3, <1>5 DEF Limits
<1>. QED
  BY <1>5, <1>6 DEF StringsAreOwned, Limits

-----------------------------------------------------------------------------
(* Calls that stay sound.                                                  *)

\* A step of c takes no server away from the others.
Unbroken(c) ==
  \/ pointer[c] = Null
  \/ ~Rests(c)
  \/ pointer'[c] = pointer[c] /\ Rests(c)'
  \/ ~Serving(c) /\ call'[c].op # "accept"

LEMMA ServersStand ==
  ASSUME SocketInv, NEW c \in Callers, Unbroken(c),
         \A d \in Callers : d # c => pointer'[d] = pointer[d] /\ call'[d] = call[d],
         NEW a, ServerStands(a),
         call'[c].op # "accept" => \E e \in Callers : call[e].server = a
  PROVE  ServerStands(a)'
<1>1. PICK d \in Callers : pointer[d] = a /\ Rests(d)
  BY DEF ServerStands
<1>2. a # Null
  BY DEF ServerStands
<1>3. CASE d # c
  BY <1>1, <1>2, <1>3 DEF ServerStands, Rests
<1>4. CASE d = c
  <2>1. pointer'[c] = pointer[c] /\ Rests(c)'
    BY <1>1, <1>2, <1>4 DEF Unbroken, Serving
  <2>. QED
    BY <1>1, <1>2, <1>4, <2>1 DEF ServerStands
<1>. QED
  BY <1>3, <1>4

\* c goes on, and takes from nobody what he holds.
LEMMA CallsStaySound ==
  ASSUME Limits, SocketInv, NEW c \in Callers, NEW now \in Calls,
         call' = [call EXCEPT ![c] = now], Unbroken(c),
         pointer' \in [Callers -> Structs \cup {Null}],
         \A d \in Callers : d # c => pointer'[d] = pointer[d],
         \A d \in Holders : d # c => heap'[pointer[d]] = heap[pointer[d]],
         \A f \in DOMAIN open :
           open[f].net \in {"connecting", "connected", "failed"} /\ (c \in Holders => f # FdOf(c)) =>
             open'[f].net \in {"connecting", "connected", "failed"},
         now.at \in {"idle", "dangling"} => now.op = "none",
         now.at \in {"socket", "option"} => now.op \in {"create", "udp_bind", "connect"},
         now.at \in {"accept", "inherit", "address"} => now.op = "accept",
         now.at \in Connecting => now.op = "connect",
         now.at = "bind" => now.op = "udp_bind",
         now.at = "name" => now.op \in {"accept", "resolve"},
         now.op = "resolve" => now.at = "name",
         now.at \in Bare \cup Whole \/ now.op = "accept" => pointer'[c] # Null,
         now.at = "select" => open'[heap'[pointer'[c]].fd].net \in {"connecting", "connected", "failed"},
         now.op = "accept" =>
           \/ call[c].op = "accept" /\ now.server = call[c].server
           \/ ServerStands(now.server)
  PROVE  CallsAreSound'
<1>1. call'[c] = now /\ \A d \in Callers : d # c => call'[d] = call[d]
  BY DEF SocketInv, SocketTypeOK
<1>2. ASSUME now.op = "accept"  PROVE ServerStands(now.server)'
  <2>1. ServerStands(now.server)
    BY <1>2 DEF SocketInv, CallsAreSound, CallOK
  <2>. QED
    BY <1>1, <1>2, <2>1, ServersStand
<1>3. CallOK(c)'
  BY <1>1, <1>2 DEF CallOK, FdOf
<1>4. ASSUME NEW d \in Callers, d # c  PROVE CallOK(d)'
  <2>1. CallOK(d) /\ call'[d] = call[d] /\ pointer'[d] = pointer[d]
    BY <1>1, <1>4 DEF SocketInv, CallsAreSound
  <2>2. ASSUME call[d].at = "select"
        PROVE  open'[FdOf(d)'].net \in {"connecting", "connected", "failed"}
    <3>1. d \in Holders /\ call[d].at \notin Bare
      BY <2>2, CallersHold DEF Whole, Bare
    <3>2. FdOf(d)' = FdOf(d)
      BY <1>4, <2>1, <3>1 DEF FdOf
    <3>3. FdOf(d) \in DOMAIN open /\ FdOf(d) \in Fds /\ (c \in Holders => FdOf(d) # FdOf(c))
      BY <1>4, <3>1, HoldersAlone, NullIsNoAddress
    <3>. QED
      BY <2>1, <2>2, <3>2, <3>3 DEF CallOK
  <2>3. PICK a : a = call[d].server
    OBVIOUS
  <2>4. ASSUME call[d].op = "accept"  PROVE ServerStands(a)'
    <3>1. ServerStands(a) /\ \E e \in Callers : call[e].server = a
      BY <2>1, <2>3, <2>4 DEF CallOK
    <3>. QED
      BY <1>1, <3>1, ServersStand
  <2>5. call[d].op = "accept" => ServerStands(call[d].server)'
    BY <2>1, <2>3, <2>4
  <2>. QED
    BY <2>1, <2>2, <2>5 DEF CallOK
<1>. QED
  BY <1>3, <1>4 DEF CallsAreSound

-----------------------------------------------------------------------------
(* The ways in which a step leaves what a caller holds.                     *)

\* A call begins: a struct that was free.
LEMMA BeginKeeps ==
  ASSUME Limits, SocketInv, NEW c \in Callers,
         NEW op \in {"create", "udp_bind", "connect", "accept"}, NEW place \in {"socket", "accept"},
         NEW udp \in BOOLEAN, NEW blocking \in BOOLEAN, NEW server \in Structs \cup {Null},
         Begin(c, op, place, udp, blocking, server),
         op = "accept" <=> place = "accept", op = "accept" => ServerStands(server)
  PROVE  SocketInv'
<1>. DEFINE now == [at |-> place, op |-> op, blocking |-> blocking, server |-> server]
<1>1. PICK a \in FreeAddresses :
        /\ heap' = With(heap, a, [fd |-> NoDescriptor, udp |-> udp])
        /\ pointer' = [pointer EXCEPT ![c] = a]
  BY DEF Begin, Allocated
<1>2. /\ a \in Structs /\ a \notin DOMAIN heap /\ a # Null
      /\ open' = open /\ NoHost /\ pointer[c] = Null /\ call[c].at = "idle"
      /\ call' = [call EXCEPT ![c] = now] /\ now \in Calls
  BY <1>1, NullIsNoAddress DEF FreeAddresses, Begin, Allocated, HasNot, Calls, CallPlaces, Bare
<1>3. /\ DOMAIN heap' = DOMAIN heap \cup {a} /\ heap'[a] = [fd |-> NoDescriptor, udp |-> udp]
      /\ \A b \in DOMAIN heap : heap'[b] = heap[b]
  BY <1>1, <1>2 DEF With
<1>4. /\ pointer' \in [Callers -> Structs \cup {Null}]
      /\ pointer'[c] = a /\ \A d \in Callers : d # c => pointer'[d] = pointer[d]
      /\ call'[c] = now /\ \A d \in Callers : d # c => call'[d] = call[d]
  BY <1>1, <1>2 DEF SocketInv, SocketTypeOK
<1>. HIDE DEF now
<1>5. now.at = place /\ now.op = op /\ now.server = server
  BY DEF now
<1>6. StringsAreOwned' /\ strings' \in 0 .. MaxHosts /\ hosts' \in 0 .. MaxHosts
  BY <1>2, <1>4, <1>5, SameStrings
<1>7. SocketTypeOK'
  <2>1. DOMAIN heap' \subseteq Structs /\ \A b \in DOMAIN heap' : heap'[b] \in [fd : Fds \cup {NoDescriptor}, udp : BOOLEAN]
    BY <1>2, <1>3 DEF SocketInv, SocketTypeOK
  <2>2. call' \in [Callers -> Calls]
    BY <1>2 DEF SocketInv, SocketTypeOK
  <2>. QED
    BY <2>1, <2>2, <1>2, <1>4, <1>6 DEF SocketInv, SocketTypeOK
<1>8. Holders' = Holders \cup {c} /\ c \notin Holders
  BY <1>2, <1>4, <1>5 DEF Holders
<1>9. StructsAreOwned'
  <2>1. DOMAIN heap' = {pointer'[d] : d \in Holders'}
    BY <1>3, <1>4, <1>8 DEF SocketInv, StructsAreOwned, Holders
  <2>2. DOMAIN open' = {heap'[b].fd : b \in DOMAIN heap'} \ {NoDescriptor}
    <3>1. {heap'[b].fd : b \in DOMAIN heap'} = {heap[b].fd : b \in DOMAIN heap} \cup {NoDescriptor}
      BY <1>2, <1>3
    <3>. QED
      BY <1>2, <3>1 DEF SocketInv, StructsAreOwned
  <2>3. \A d, e \in Holders' : pointer'[d] = pointer'[e] => d = e
    BY <1>2, <1>4, <1>8 DEF SocketInv, StructsAreOwned, Holders
  <2>4. \A b, d \in DOMAIN heap' : heap'[b].fd = heap'[d].fd /\ heap'[b].fd # NoDescriptor => b = d
    BY <1>2, <1>3 DEF SocketInv, StructsAreOwned
  <2>5. \A d \in Holders : d # c /\ FdOf(d)' = FdOf(d) /\ call'[d] = call[d]
    BY <1>3, <1>4, <1>8, HoldersAlone DEF FdOf
  <2>6. FdOf(c)' = NoDescriptor /\ call'[c].at \in Bare
    BY <1>3, <1>4, <1>5 DEF FdOf, Bare
  <2>7. \A d \in Holders' : FdOf(d)' = NoDescriptor <=> call'[d].at \in Bare
    BY <1>8, <2>5, <2>6 DEF SocketInv, StructsAreOwned
  <2>. QED
    BY <2>1, <2>2, <2>3, <2>4, <2>7 DEF StructsAreOwned
<1>10. CallsAreSound'
  <2>1. \A d \in Holders : d # c => heap'[pointer[d]] = heap[pointer[d]]
    BY <1>3, HoldersAlone
  <2>2. Unbroken(c)
    BY <1>2 DEF Unbroken
  <2>. QED
    BY <1>2, <1>4, <1>5, <2>1, <2>2, CallsStaySound DEF Bare, Connecting
<1>. QED
  BY <1>6, <1>7, <1>9, <1>10 DEF SocketInv

\* The kernel gives a descriptor for the struct.
LEMMA OpenedKeeps ==
  ASSUME Limits, SocketInv, NEW c \in Callers, call[c].at \in Bare, NEW net \in Streams,
         Opened(c, net), NoHost, NEW now \in Calls, call' = [call EXCEPT ![c] = now],
         now.at \in {"idle", "option", "bind", "target", "inherit"},
         now.at = "idle" => now.op = "none",
         now.at = "option" => now.op \in {"create", "udp_bind", "connect"},
         now.at = "inherit" => now.op = "accept",
         now.at = "target" => now.op = "connect",
         now.at = "bind" => now.op = "udp_bind",
         now.op # "resolve",
         now.op = "accept" => call[c].op = "accept" /\ now.server = call[c].server
  PROVE  SocketInv'
<1>1. PICK fd \in FreeFds :
        /\ heap' = [heap EXCEPT ![pointer[c]].fd = fd]
        /\ open' = With(open, fd, [net |-> net, nonblock |-> FALSE, timed |-> FALSE])
  BY DEF Opened
<1>2. c \in Holders /\ ~Rests(c) /\ pointer' = pointer /\ pointer[c] \in DOMAIN heap
      /\ pointer[c] # Null
  BY CallersHold, HoldersAlone DEF Opened
<1>3. fd \in Fds /\ fd \notin DOMAIN open /\ fd # NoDescriptor
  BY <1>1, NullIsNoAddress DEF FreeFds
<1>4. /\ DOMAIN heap' = DOMAIN heap
      /\ heap'[pointer[c]] = [heap[pointer[c]] EXCEPT !.fd = fd]
      /\ \A b \in DOMAIN heap : b # pointer[c] => heap'[b] = heap[b]
  BY <1>1, <1>2
<1>5. heap[pointer[c]] \in [fd : Fds \cup {NoDescriptor}, udp : BOOLEAN] /\ FdOf(c) = NoDescriptor
  BY <1>2, HoldersAlone DEF SocketInv, SocketTypeOK
<1>6. /\ heap'[pointer[c]] \in [fd : Fds \cup {NoDescriptor}, udp : BOOLEAN]
      /\ heap'[pointer[c]].fd = fd
  BY <1>3, <1>4, <1>5
<1>7. /\ DOMAIN open' = DOMAIN open \cup {fd}
      /\ open'[fd] \in Status
      /\ \A f \in DOMAIN open : open'[f] = open[f]
  BY <1>1, <1>3 DEF With, Status
<1>8. call'[c] = now /\ \A d \in Callers : d # c => call'[d] = call[d]
  BY DEF SocketInv, SocketTypeOK
<1>9. StringsAreOwned' /\ strings' \in 0 .. MaxHosts /\ hosts' \in 0 .. MaxHosts
  BY <1>8, SameStrings DEF Bare
<1>10. SocketTypeOK'
  <2>1. \A b \in DOMAIN heap' : heap'[b] \in [fd : Fds \cup {NoDescriptor}, udp : BOOLEAN]
    BY <1>4, <1>6 DEF SocketInv, SocketTypeOK
  <2>2. \A f \in DOMAIN open' : open'[f] \in Status
    BY <1>7 DEF SocketInv, SocketTypeOK
  <2>. QED
    BY <2>1, <2>2, <1>2, <1>3, <1>4, <1>7, <1>9 DEF SocketInv, SocketTypeOK
<1>11. Holders' = Holders
  BY <1>2, <1>8 DEF Holders, Bare
<1>12. StructsAreOwned'
  <2>1. DOMAIN heap' = {pointer'[d] : d \in Holders'}
    BY <1>2, <1>4, <1>11 DEF SocketInv, StructsAreOwned
  <2>2. DOMAIN open' = {heap'[b].fd : b \in DOMAIN heap'} \ {NoDescriptor}
    <3>1. {heap'[b].fd : b \in DOMAIN heap'} =
            {heap[b].fd : b \in DOMAIN heap \ {pointer[c]}} \cup {fd}
      BY <1>2, <1>4, <1>6
    <3>2. {heap[b].fd : b \in DOMAIN heap} =
            {heap[b].fd : b \in DOMAIN heap \ {pointer[c]}} \cup {NoDescriptor}
      BY <1>2, <1>5 DEF FdOf
    <3>3. DOMAIN open = {heap[b].fd : b \in DOMAIN heap} \ {NoDescriptor}
      BY DEF SocketInv, StructsAreOwned
    <3>. QED
      BY <1>3, <1>7, <3>1, <3>2, <3>3
  <2>3. \A d, e \in Holders' : pointer'[d] = pointer'[e] => d = e
    BY <1>2, <1>11 DEF SocketInv, StructsAreOwned
  <2>4. \A b \in DOMAIN heap : b # pointer[c] => heap'[b].fd # fd
    BY <1>3, <1>4 DEF SocketInv, StructsAreOwned
  <2>5. \A b, d \in DOMAIN heap' : heap'[b].fd = heap'[d].fd /\ heap'[b].fd # NoDescriptor => b = d
    BY <1>4, <1>6, <2>4 DEF SocketInv, StructsAreOwned
  <2>6. ASSUME NEW d \in Holders  PROVE FdOf(d)' = NoDescriptor <=> call'[d].at \in Bare
    <3>1. CASE d = c
      BY <3>1, <1>2, <1>3, <1>6, <1>8 DEF FdOf, Bare
    <3>2. CASE d # c
      <4>1. d \in Callers /\ pointer[d] \in DOMAIN heap /\ pointer[d] # pointer[c]
        BY <3>2, <1>2, HoldersAlone
      <4>2. FdOf(d)' = FdOf(d)
        BY <4>1, <1>2, <1>4 DEF FdOf
      <4>. QED
        BY <3>2, <4>1, <4>2, <1>8 DEF SocketInv, StructsAreOwned
    <3>. QED
      BY <3>1, <3>2
  <2>. QED
    BY <2>1, <2>2, <2>3, <2>5, <2>6, <1>11 DEF StructsAreOwned
<1>13. CallsAreSound'
  <2>1. \A d \in Holders : d # c => heap'[pointer[d]] = heap[pointer[d]]
    BY <1>2, <1>4, HoldersAlone
  <2>2. Unbroken(c)
    BY <1>2 DEF Unbroken
  <2>3. pointer' \in [Callers -> Structs \cup {Null}]
    BY <1>2 DEF SocketInv, SocketTypeOK
  <2>. QED
    BY <1>2, <1>7, <2>1, <2>2, <2>3, CallsStaySound DEF Connecting
<1>. QED
  BY <1>9, <1>10, <1>12, <1>13 DEF SocketInv

\* c's struct is freed, and its descriptor closed if there is one.
GivenUp(c) ==
  /\ heap' = Without(heap, pointer[c])
  /\ DOMAIN open' = DOMAIN open \ {FdOf(c)}
  /\ \A f \in DOMAIN open' : open'[f] = open[f]

LEMMA GivesUp ==
  ASSUME Limits, SocketInv, NEW c \in Holders, Dropped(c) \/ (call[c].at \in Bare /\ Freed(c))
  PROVE  GivenUp(c) /\ pointer' = [pointer EXCEPT ![c] = Null]
<1>1. CASE Dropped(c)
  BY <1>1 DEF Dropped, GivenUp, Without
<1>2. CASE call[c].at \in Bare /\ Freed(c)
  <2>1. FdOf(c) \notin DOMAIN open
    BY <1>2, HoldersAlone, NullIsNoAddress DEF SocketInv, SocketTypeOK
  <2>. QED
    BY <1>2, <2>1 DEF Freed, GivenUp
<1>. QED
  BY <1>1, <1>2

LEMMA GivenUpKeeps ==
  ASSUME Limits, SocketInv, NEW c \in Holders, GivenUp(c), Unbroken(c),
         NEW now \in Calls, call' = [call EXCEPT ![c] = now], now.op = "none",
         \/ now.at = "idle" /\ pointer' = [pointer EXCEPT ![c] = Null]
         \/ now.at = "dangling" /\ pointer' = pointer,
         StringsAreOwned', strings' \in 0 .. MaxHosts /\ hosts' \in 0 .. MaxHosts
  PROVE  SocketInv'
<1>1. /\ c \in Callers /\ pointer' \in [Callers -> Structs \cup {Null}]
      /\ now.at = "idle" => pointer'[c] = Null
      /\ \A d \in Callers : d # c => pointer'[d] = pointer[d]
      /\ call'[c] = now /\ \A d \in Callers : d # c => call'[d] = call[d]
  BY DEF SocketInv, SocketTypeOK, Holders
<1>2. now.at \in {"idle", "dangling"}
  OBVIOUS
<1>4. /\ DOMAIN heap' = DOMAIN heap \ {pointer[c]}
      /\ \A b \in DOMAIN heap' : heap'[b] = heap[b]
      /\ DOMAIN open' = DOMAIN open \ {FdOf(c)}
      /\ \A f \in DOMAIN open' : open'[f] = open[f]
  BY DEF GivenUp, Without
<1>5. SocketTypeOK'
  <2>1. call' \in [Callers -> Calls]
    BY DEF SocketInv, SocketTypeOK
  <2>. QED
    BY <2>1, <1>1, <1>4 DEF SocketInv, SocketTypeOK
<1>6. Holders' = Holders \ {c}
  BY <1>1, <1>2 DEF Holders
<1>7. StructsAreOwned'
  <2>1. DOMAIN heap' = {pointer'[d] : d \in Holders'}
    <3>1. {pointer'[d] : d \in Holders'} = {pointer[d] : d \in Holders \ {c}}
      BY <1>1, <1>6 DEF Holders
    <3>2. {pointer[d] : d \in Holders \ {c}} = {pointer[d] : d \in Holders} \ {pointer[c]}
      BY HoldersAlone
    <3>. QED
      BY <1>4, <3>1, <3>2 DEF SocketInv, StructsAreOwned
  <2>2. DOMAIN open' = {heap'[b].fd : b \in DOMAIN heap'} \ {NoDescriptor}
    <3>1. {heap'[b].fd : b \in DOMAIN heap'} = {heap[b].fd : b \in DOMAIN heap \ {pointer[c]}}
      BY <1>4
    <3>2. \A b \in DOMAIN heap \ {pointer[c]} : heap[b].fd # FdOf(c) \/ heap[b].fd = NoDescriptor
      BY HoldersAlone DEF SocketInv, StructsAreOwned, FdOf
    <3>3. DOMAIN open = {heap[b].fd : b \in DOMAIN heap} \ {NoDescriptor}
      BY DEF SocketInv, StructsAreOwned
    <3>4. \A b \in DOMAIN heap : b # pointer[c] \/ heap[b].fd = FdOf(c)
      BY DEF FdOf
    <3>. QED
      BY <1>4, <3>1, <3>2, <3>3, <3>4
  <2>3. \A d, e \in Holders' : pointer'[d] = pointer'[e] => d = e
    BY <1>1, <1>6 DEF SocketInv, StructsAreOwned, Holders
  <2>4. \A b, d \in DOMAIN heap' : heap'[b].fd = heap'[d].fd /\ heap'[b].fd # NoDescriptor => b = d
    BY <1>4 DEF SocketInv, StructsAreOwned
  <2>5. ASSUME NEW d \in Holders'  PROVE FdOf(d)' = NoDescriptor <=> call'[d].at \in Bare
    <3>1. /\ d \in Holders /\ d # c /\ d \in Callers /\ pointer[d] \in DOMAIN heap
          /\ pointer[d] # pointer[c]
      BY <1>6, HoldersAlone
    <3>2. FdOf(d)' = FdOf(d) /\ call'[d] = call[d]
      BY <1>1, <1>4, <3>1 DEF FdOf
    <3>. QED
      BY <3>1, <3>2 DEF SocketInv, StructsAreOwned
  <2>. QED
    BY <2>1, <2>2, <2>3, <2>4, <2>5 DEF StructsAreOwned
<1>8. CallsAreSound'
  <2>1. \A d \in Holders : d # c => heap'[pointer[d]] = heap[pointer[d]]
    BY <1>4, HoldersAlone
  <2>2. \A f \in DOMAIN open : f # FdOf(c) => open'[f] = open[f]
    BY <1>4
  <2>3. now.at \notin Bare \cup Whole
    BY <1>2 DEF Bare, Whole
  <2>. QED
    BY <1>1, <1>2, <2>1, <2>2, <2>3, CallsStaySound DEF Connecting
<1>. QED
  BY <1>5, <1>7, <1>8 DEF SocketInv

LEMMA NothingCalls == NoCall \in Calls /\ NoCall.at = "idle" /\ NoCall.op = "none"
BY DEF NoCall, Calls, CallPlaces

\* c returns with nothing in its hands.
LEMMA DroppedKeeps ==
  ASSUME Limits, SocketInv, NEW c \in Holders, Dropped(c) \/ (call[c].at \in Bare /\ Freed(c)),
         Return(c), ~Rests(c) \/ ~Serving(c),
         \/ NoHost /\ call[c].at # "name"
         \/ strings' = strings - 1 /\ hosts' = hosts /\ call[c].at = "name"
  PROVE  SocketInv'
<1>1. c \in Callers /\ call' = [call EXCEPT ![c] = NoCall]
      /\ NoCall \in Calls /\ NoCall.at = "idle" /\ NoCall.op = "none"
  BY NothingCalls DEF Holders, Return
<1>2. call'[c] = NoCall /\ \A d \in Callers : d # c => call'[d] = call[d]
  BY <1>1 DEF SocketInv, SocketTypeOK
<1>3. Unbroken(c)
  BY <1>1, <1>2 DEF Unbroken
<1>4. StringsAreOwned' /\ strings' \in 0 .. MaxHosts /\ hosts' \in 0 .. MaxHosts
  <2>1. CASE NoHost /\ call[c].at # "name"
    BY <2>1, <1>1, <1>2, SameStrings
  <2>2. CASE strings' = strings - 1 /\ hosts' = hosts /\ call[c].at = "name"
    BY <2>2, <1>1, LessStrings
  <2>. QED
    BY <2>1, <2>2
<1>5. GivenUp(c) /\ pointer' = [pointer EXCEPT ![c] = Null]
  BY GivesUp
<1>. QED
  BY <1>1, <1>3, <1>4, <1>5, GivenUpKeeps

\* Nothing is made or given up, but c goes on.
LEMMA KeptKeeps ==
  ASSUME Limits, SocketInv, NEW c \in Callers, NEW now \in Calls,
         UNCHANGED <<heap, pointer>>, call' = [call EXCEPT ![c] = now],
         DOMAIN open' = DOMAIN open, \A f \in DOMAIN open : open'[f] \in Status,
         \A f \in DOMAIN open : open[f].net \in {"connecting", "connected", "failed"} =>
           open'[f].net \in {"connecting", "connected", "failed"},
         StringsAreOwned', strings' \in 0 .. MaxHosts /\ hosts' \in 0 .. MaxHosts,
         call[c].at \notin Bare \cup {"dangling"}, now.at \notin Bare \cup {"dangling"},
         ~Rests(c) \/ now.at = "idle" \/ now.op = "resolve" \/ (~Serving(c) /\ now.op # "accept"),
         now.at = "idle" => now.op = "none",
         now.at = "option" => now.op \in {"create", "udp_bind", "connect"},
         now.at \in {"inherit", "address"} => now.op = "accept",
         now.at \in Connecting => now.op = "connect",
         now.at = "bind" => now.op = "udp_bind",
         now.at = "name" => now.op \in {"accept", "resolve"},
         now.op = "resolve" => now.at = "name",
         now.at \in Whole => pointer[c] # Null,
         now.at = "select" => open[FdOf(c)].net \in {"connecting", "connected", "failed"},
         now.op = "accept" => call[c].op = "accept" /\ now.server = call[c].server
  PROVE  SocketInv'
<1>1. call'[c] = now /\ \A d \in Callers : d # c => call'[d] = call[d]
  BY DEF SocketInv, SocketTypeOK
<1>2. SocketTypeOK'
  BY DEF SocketInv, SocketTypeOK
<1>3. Holders' = Holders
  BY <1>1 DEF Holders
<1>4. StructsAreOwned'
  <2>1. \A d \in Holders : call'[d].at \in Bare <=> call[d].at \in Bare
    BY <1>1 DEF Holders
  <2>. QED
    BY <1>3, <2>1 DEF SocketInv, StructsAreOwned, FdOf
<1>5. CallsAreSound'
  <2>1. Unbroken(c)
    BY <1>1 DEF Unbroken, Rests
  <2>2. pointer' \in [Callers -> Structs \cup {Null}] /\ heap' = heap /\ pointer' = pointer
    BY DEF SocketInv, SocketTypeOK
  <2>3. now.op = "accept" => pointer'[c] # Null
    BY <2>2 DEF SocketInv, CallsAreSound, CallOK
  <2>4. now.at \notin {"socket", "accept", "dangling"}
    BY DEF Bare
  <2>5. now.at = "select" => open'[heap'[pointer'[c]].fd].net \in {"connecting", "connected", "failed"}
    <3>. SUFFICES ASSUME now.at = "select"
                  PROVE  open'[FdOf(c)].net \in {"connecting", "connected", "failed"}
      BY <2>2 DEF FdOf
    <3>1. c \in Holders
      BY DEF Holders, Whole
    <3>2. FdOf(c) \in DOMAIN open
      BY <3>1, HoldersAlone
    <3>. QED
      BY <3>2
  <2>. QED
    BY <2>1, <2>2, <2>3, <2>4, <2>5, CallsStaySound
<1>. QED
  BY <1>2, <1>4, <1>5 DEF SocketInv

\* Nobody's call moves.
LEMMA QuietKeeps ==
  ASSUME Limits, SocketInv, UNCHANGED <<heap, pointer, call>>,
         DOMAIN open' = DOMAIN open, \A f \in DOMAIN open : open'[f] \in Status,
         \A f \in DOMAIN open : open[f].net \in {"connecting", "connected", "failed"} =>
           open'[f].net \in {"connecting", "connected", "failed"},
         StringsAreOwned', strings' \in 0 .. MaxHosts /\ hosts' \in 0 .. MaxHosts
  PROVE  SocketInv'
<1>1. SocketTypeOK'
  BY DEF SocketInv, SocketTypeOK
<1>2. StructsAreOwned'
  BY DEF SocketInv, StructsAreOwned, Holders, FdOf
<1>3. CallsAreSound'
  <2>1. ASSUME NEW d \in Callers, call[d].at = "select"
        PROVE  open'[FdOf(d)].net \in {"connecting", "connected", "failed"}
    <3>1. d \in Holders /\ call[d].at \notin Bare
      BY <2>1, CallersHold DEF Whole, Bare
    <3>2. FdOf(d) \in DOMAIN open
      BY <3>1, HoldersAlone
    <3>. QED
      BY <2>1, <3>2 DEF SocketInv, CallsAreSound, CallOK
  <2>. QED
    BY <2>1 DEF SocketInv, CallsAreSound, CallOK, ServerStands, Rests, FdOf
<1>. QED
  BY <1>1, <1>2, <1>3 DEF SocketInv

-----------------------------------------------------------------------------
(* The actions.                                                            *)

LEMMA OldIsTyped ==
  ASSUME SocketInv
  PROVE  /\ \A f \in DOMAIN open : open[f] \in Status
         /\ \A c \in Callers : call[c] \in Calls
         /\ strings \in 0 .. MaxHosts /\ hosts \in 0 .. MaxHosts
BY DEF SocketInv, SocketTypeOK

\* A place of c's call that leaves the rest of it.
LEMMA Going ==
  ASSUME SocketInv, NEW c \in Callers, NEW place \in CallPlaces, GoesTo(c, place)
  PROVE  \E now \in Calls :
           /\ call' = [call EXCEPT ![c] = now] /\ call'[c] = now
           /\ now.at = place /\ now.op = call[c].op
           /\ now.server = call[c].server /\ now.blocking = call[c].blocking
<1>. DEFINE now == [call[c] EXCEPT !.at = place]
<1>1. call[c] \in Calls
  BY OldIsTyped
<1>2. now \in Calls /\ now.at = place /\ now.op = call[c].op /\ now.server = call[c].server
      /\ now.blocking = call[c].blocking
  BY <1>1 DEF Calls
<1>3. call' = [call EXCEPT ![c] = now] /\ call'[c] = now
  BY DEF GoesTo, SocketInv, SocketTypeOK
<1>. QED
  BY <1>2, <1>3

LEMMA CreateCallsKeep ==
  ASSUME Limits, SocketInv, NEW c \in Callers, NEW b \in BOOLEAN,
         \/ \E udp \in BOOLEAN : Create(c, udp, b)
         \/ UdpBind(c)
  PROVE  SocketInv'
<1>1. ASSUME NEW udp \in BOOLEAN, Create(c, udp, b)  PROVE SocketInv'
  <2>1. Begin(c, "create", "socket", udp, ~b, Null)
    BY <1>1 DEF Create
  <2>2. PICK blocking \in BOOLEAN : blocking = ~b
    OBVIOUS
  <2>. QED
    BY <2>1, <2>2, BeginKeeps
<1>2. CASE UdpBind(c)
  BY <1>2, BeginKeeps DEF UdpBind
<1>. QED
  BY <1>1, <1>2

LEMMA AcceptKeeps ==
  ASSUME Limits, SocketInv, NEW c \in Callers, NEW d \in Callers, Accept(c, d)
  PROVE  SocketInv'
<1>1. pointer[d] \in Structs \cup {Null} /\ ServerStands(pointer[d])
  BY DEF Accept, Has, ServerStands, Rests, SocketInv, SocketTypeOK
<1>2. Begin(c, "accept", "accept", FALSE, FALSE, pointer[d])
  BY DEF Accept
<1>. QED
  BY <1>1, <1>2, BeginKeeps

\* Where create_socket goes on to.
LEMMA CreatedGoes ==
  ASSUME SocketInv, NEW c \in Callers, call[c].at \in {"socket", "option"}, Created(c)
  PROVE  \E now \in Calls :
           /\ call' = [call EXCEPT ![c] = now] /\ call'[c] = now
           /\ now.at \in {"idle", "bind", "target"}
           /\ now.at = "idle" => now.op = "none"
           /\ (now.at = "target" => now.op = "connect") /\ (now.at = "bind" => now.op = "udp_bind")
           /\ now.op \notin {"accept", "resolve"}
<1>1. call[c].op \in {"create", "udp_bind", "connect"}
  BY DEF SocketInv, CallsAreSound, CallOK
<1>2. CASE call[c].op = "create"
  <2>1. Return(c)
    BY <1>2 DEF Created
  <2>. QED
    BY <2>1, NothingCalls DEF Return, SocketInv, SocketTypeOK
<1>3. CASE call[c].op = "udp_bind"
  <2>1. GoesTo(c, "bind")
    BY <1>3 DEF Created
  <2>. QED
    BY <1>3, <2>1, Going DEF CallPlaces, Whole
<1>4. CASE call[c].op = "connect"
  <2>1. GoesTo(c, "target")
    BY <1>4 DEF Created
  <2>. QED
    BY <1>4, <2>1, Going DEF CallPlaces, Whole
<1>. QED
  BY <1>1, <1>2, <1>3, <1>4

LEMMA SocketKeeps ==
  ASSUME Limits, SocketInv, NEW c \in Callers, MakeSocket(c) \/ TakeConnection(c)
  PROVE  SocketInv'
<1>1. CASE MakeSocket(c) /\ call[c].blocking
  <2>1. call[c].at = "socket" /\ Opened(c, "new") /\ NoHost /\ Created(c)
    BY <1>1 DEF MakeSocket
  <2>2. PICK now \in Calls : /\ call' = [call EXCEPT ![c] = now]
                             /\ now.at \in {"idle", "bind", "target"}
                             /\ now.at = "idle" => now.op = "none"
                             /\ (now.at = "target" => now.op = "connect") /\ (now.at = "bind" => now.op = "udp_bind")
                             /\ now.op \notin {"accept", "resolve"}
    BY <2>1, CreatedGoes
  <2>. QED
    BY <2>1, <2>2, OpenedKeeps DEF Bare, Streams
<1>2. CASE MakeSocket(c) /\ ~call[c].blocking
  <2>1. call[c].at = "socket" /\ Opened(c, "new") /\ NoHost /\ GoesTo(c, "option")
    BY <1>2 DEF MakeSocket
  <2>2. call[c].op \in {"create", "udp_bind", "connect"}
    BY <2>1 DEF SocketInv, CallsAreSound, CallOK
  <2>3. PICK now \in Calls : call' = [call EXCEPT ![c] = now] /\ now.at = "option" /\ now.op = call[c].op
    BY <2>1, Going DEF CallPlaces, Whole
  <2>. QED
    BY <2>1, <2>2, <2>3, OpenedKeeps DEF Bare, Streams
<1>3. CASE TakeConnection(c)
  <2>1. call[c].at = "accept" /\ Opened(c, "connected") /\ NoHost /\ GoesTo(c, "inherit")
    BY <1>3 DEF TakeConnection
  <2>2. call[c].op = "accept"
    BY <2>1 DEF SocketInv, CallsAreSound, CallOK
  <2>3. PICK now \in Calls : /\ call' = [call EXCEPT ![c] = now] /\ now.at = "inherit"
                             /\ now.op = call[c].op /\ now.server = call[c].server
    BY <2>1, Going DEF CallPlaces, Whole
  <2>. QED
    BY <2>1, <2>2, <2>3, OpenedKeeps DEF Bare, Streams
<1>. QED
  BY <1>1, <1>2, <1>3

\* Every failure that gives up the struct.
LEMMA FailuresKeep ==
  ASSUME Limits, SocketInv, NEW c \in Callers,
         \/ NoSocket(c) \/ OptionFails(c) \/ NoConnection(c) \/ InheritFails(c)
         \/ AcceptFindsNone(c) \/ ConnectBadAddress(c) \/ ConnectRefused(c) \/ SelectFails(c)
  PROVE  SocketInv'
<1>1. /\ call[c].at \in Bare \cup Whole /\ call[c].at # "name" /\ NoHost /\ Return(c)
      /\ Dropped(c) \/ (call[c].at \in Bare /\ Freed(c))
  BY DEF NoSocket, OptionFails, NoConnection, InheritFails, AcceptFindsNone, ConnectBadAddress,
         ConnectRefused, SelectFails, Bare, Whole
<1>2. c \in Holders /\ ~Rests(c)
  BY <1>1, CallersHold
<1>3. (~Rests(c) \/ ~Serving(c)) /\ (NoHost /\ call[c].at # "name")
  BY <1>1, <1>2
<1>4. CASE Dropped(c)
  BY <1>1, <1>2, <1>3, <1>4, DroppedKeeps
<1>5. CASE call[c].at \in Bare /\ Freed(c)
  BY <1>1, <1>2, <1>3, <1>5, DroppedKeeps
<1>. QED
  BY <1>1, <1>4, <1>5

LEMMA CloseKeeps ==
  ASSUME Limits, SocketInv, NEW c \in Callers, Close(c)
  PROVE  SocketInv'
<1>1. c \in Holders /\ call[c].at = "idle" /\ NoHost /\ ~Serving(c) /\ Dropped(c) /\ call' = call
  BY DEF Close, Has, Holders
<1>2. GivenUp(c) /\ pointer' = [pointer EXCEPT ![c] = Null]
  BY <1>1, GivesUp
<1>3. call[c].op = "none" /\ call[c] \in Calls /\ call' = [call EXCEPT ![c] = call[c]]
  BY <1>1 DEF SocketInv, SocketTypeOK, CallsAreSound, CallOK
<1>4. Unbroken(c)
  BY <1>1, <1>3 DEF Unbroken
<1>5. StringsAreOwned' /\ strings' \in 0 .. MaxHosts /\ hosts' \in 0 .. MaxHosts
  BY <1>1, SameStrings
<1>. QED
  BY <1>1, <1>2, <1>3, <1>4, <1>5, GivenUpKeeps

LEMMA BindFailsKeeps ==
  ASSUME Limits, SocketInv, NEW c \in Callers, BindFails(c)
  PROVE  SocketInv'
<1>. DEFINE now == [NoCall EXCEPT !.at = "dangling"]
<1>1. call[c].at = "bind" /\ NoHost /\ pointer' = pointer /\ call' = [call EXCEPT ![c] = now]
      /\ heap' = Without(heap, pointer[c]) /\ open' = Without(open, FdOf(c))
  BY DEF BindFails
<1>2. now \in Calls /\ now.at = "dangling" /\ now.op = "none"
  BY DEF NoCall, Calls, CallPlaces
<1>. HIDE DEF now
<1>3. c \in Holders /\ ~Rests(c)
  BY <1>1, CallersHold DEF Whole
<1>4. GivenUp(c)
  BY <1>1 DEF GivenUp, Without
<1>5. Unbroken(c)
  BY <1>3 DEF Unbroken
<1>6. StringsAreOwned' /\ strings' \in 0 .. MaxHosts /\ hosts' \in 0 .. MaxHosts
  <2>1. \A d \in Callers : call'[d].at = "name" <=> call[d].at = "name"
    BY <1>1, <1>2 DEF SocketInv, SocketTypeOK
  <2>. QED
    BY <1>1, <2>1, SameStrings
<1>. QED
  BY <1>1, <1>2, <1>3, <1>4, <1>5, <1>6, GivenUpKeeps

LEMMA ForgetKeeps ==
  ASSUME Limits, SocketInv, NEW c \in Callers, Forget(c)
  PROVE  SocketInv'
<1>1. /\ call[c].at = "dangling" /\ NoHost /\ UNCHANGED <<heap, open>>
      /\ pointer' = [pointer EXCEPT ![c] = Null] /\ call' = [call EXCEPT ![c] = NoCall]
  BY DEF Forget, Return
<1>2. /\ pointer' \in [Callers -> Structs \cup {Null}] /\ call' \in [Callers -> Calls]
      /\ pointer'[c] = Null /\ \A d \in Callers : d # c => pointer'[d] = pointer[d]
      /\ call'[c] = NoCall /\ \A d \in Callers : d # c => call'[d] = call[d]
  BY <1>1, NothingCalls DEF SocketInv, SocketTypeOK
<1>3. StringsAreOwned' /\ strings' \in 0 .. MaxHosts /\ hosts' \in 0 .. MaxHosts
  BY <1>1, <1>2, NothingCalls, SameStrings
<1>4. SocketTypeOK'
  BY <1>1, <1>2, <1>3 DEF SocketInv, SocketTypeOK
<1>5. Holders' = Holders /\ c \notin Holders
  BY <1>1, <1>2 DEF Holders
<1>6. StructsAreOwned'
  <2>1. \A d \in Holders : d \in Callers /\ pointer'[d] = pointer[d] /\ call'[d] = call[d]
    BY <1>2, <1>5 DEF Holders
  <2>2. \A d \in Holders : FdOf(d)' = FdOf(d)
    BY <1>1, <2>1 DEF FdOf
  <2>3. {pointer'[d] : d \in Holders} = {pointer[d] : d \in Holders}
    BY <2>1
  <2>. QED
    BY <1>1, <1>5, <2>1, <2>2, <2>3 DEF SocketInv, StructsAreOwned
<1>7. CallsAreSound'
  <2>1. call[c].op # "resolve" /\ ~Rests(c)
    BY <1>1 DEF SocketInv, CallsAreSound, CallOK, Rests
  <2>2. Unbroken(c)
    BY <2>1 DEF Unbroken
  <2>. QED
    BY <1>1, <1>2, <2>2, NothingCalls, CallsStaySound DEF Bare, Whole, Connecting
<1>. QED
  BY <1>3, <1>4, <1>6, <1>7 DEF SocketInv

\* A step that leaves the descriptors alone.
LEMMA NoneChanges ==
  ASSUME SocketInv, open' = open
  PROVE  /\ DOMAIN open' = DOMAIN open /\ \A f \in DOMAIN open : open'[f] \in Status
         /\ \A f \in DOMAIN open : open[f].net \in {"connecting", "connected", "failed"} =>
              open'[f].net \in {"connecting", "connected", "failed"}
BY OldIsTyped

\* One that sets an option of a descriptor.
LEMMA OptionChanges ==
  ASSUME SocketInv, NEW fd, NEW b \in BOOLEAN,
         \/ open' = [open EXCEPT ![fd].nonblock = b]
         \/ open' = [open EXCEPT ![fd].timed = b]
  PROVE  /\ DOMAIN open' = DOMAIN open /\ \A f \in DOMAIN open : open'[f] \in Status
         /\ \A f \in DOMAIN open : open[f].net \in {"connecting", "connected", "failed"} =>
              open'[f].net \in {"connecting", "connected", "failed"}
BY OldIsTyped DEF Status

LEMMA OneStepKeeps ==
  ASSUME Limits, SocketInv, NEW c \in Callers, NEW b \in BOOLEAN,
         Listen(c) \/ SetNonblock(c, b) \/ SetTimeout(c, b)
  PROVE  SocketInv'
<1>1. NoHost /\ UNCHANGED <<heap, pointer, call>>
  BY DEF Listen, SetNonblock, SetTimeout
<1>2. StringsAreOwned' /\ strings' \in 0 .. MaxHosts /\ hosts' \in 0 .. MaxHosts
  BY <1>1, SameStrings
<1>3. CASE SetNonblock(c, b) \/ SetTimeout(c, b)
  BY <1>1, <1>2, <1>3, OptionChanges, QuietKeeps DEF SetNonblock, SetTimeout
<1>4. CASE Listen(c)
  <2>1. open[FdOf(c)].net = "new" /\ open' = [open EXCEPT ![FdOf(c)].net = "listening"]
    BY <1>4 DEF Listen
  <2>2. /\ DOMAIN open' = DOMAIN open /\ \A f \in DOMAIN open : open'[f] \in Status
        /\ \A f \in DOMAIN open : open[f].net \in {"connecting", "connected", "failed"} =>
             open'[f].net \in {"connecting", "connected", "failed"}
    BY <2>1, OldIsTyped DEF Status, Streams
  <2>. QED
    BY <1>1, <1>2, <2>2, QuietKeeps
<1>. QED
  BY <1>3, <1>4

LEMMA OutsideKeeps ==
  ASSUME Limits, SocketInv, FreeHost \/ (\E fd \in DOMAIN open : NetAnswers(fd))
  PROVE  SocketInv'
<1>1. CASE FreeHost
  <2>1. Kept /\ call' = call /\ hosts > 0 /\ strings' = strings - 1 /\ hosts' = hosts - 1
    BY <1>1 DEF FreeHost
  <2>2. Naming' = Naming
    BY <2>1 DEF Naming
  <2>3. StringsAreOwned' /\ strings' \in 0 .. MaxHosts /\ hosts' \in 0 .. MaxHosts
    <3>1. strings \in 0 .. MaxHosts /\ hosts \in 0 .. MaxHosts /\ strings = hosts + Cardinality(Naming)
      BY OldIsTyped DEF SocketInv, StringsAreOwned
    <3>. QED
      BY <2>1, <2>2, <3>1, NamingIsFinite DEF StringsAreOwned, Limits
  <2>. QED
    BY <2>1, <2>3, NoneChanges, QuietKeeps DEF Kept
<1>2. ASSUME NEW fd \in DOMAIN open, NetAnswers(fd)  PROVE SocketInv'
  <2>1. PICK net \in {"connected", "failed"} : open' = [open EXCEPT ![fd].net = net]
    BY <1>2 DEF NetAnswers
  <2>2. NoHost /\ UNCHANGED <<heap, pointer, call>>
    BY <1>2 DEF NetAnswers
  <2>3. StringsAreOwned' /\ strings' \in 0 .. MaxHosts /\ hosts' \in 0 .. MaxHosts
    BY <2>2, SameStrings
  <2>4. /\ DOMAIN open' = DOMAIN open /\ \A f \in DOMAIN open : open'[f] \in Status
        /\ \A f \in DOMAIN open : open[f].net \in {"connecting", "connected", "failed"} =>
             open'[f].net \in {"connecting", "connected", "failed"}
    BY <2>1, OldIsTyped DEF Status, Streams
  <2>. QED
    BY <2>2, <2>3, <2>4, QuietKeeps
<1>. QED
  BY <1>1, <1>2

\* c returns, or goes on to another place, and leaves structs and strings alone.
LEMMA MovesKeep ==
  ASSUME Limits, SocketInv, NEW c \in Callers, NEW now \in Calls,
         UNCHANGED <<heap, pointer>>, NoHost, call' = [call EXCEPT ![c] = now],
         DOMAIN open' = DOMAIN open, \A f \in DOMAIN open : open'[f] \in Status,
         \A f \in DOMAIN open : open[f].net \in {"connecting", "connected", "failed"} =>
           open'[f].net \in {"connecting", "connected", "failed"},
         call[c].at \in Whole,
         \/ now = NoCall
         \/ now.at \in {"connect", "again"} /\ now.op = "connect"
         \/ now.at = "address" /\ now.op = "accept" /\ call[c].op = "accept" /\ now.server = call[c].server
         \/ /\ now.at = "select" /\ now.op = "connect"
            /\ open[FdOf(c)].net \in {"connecting", "connected", "failed"}
  PROVE  SocketInv'
<1>1. pointer[c] # Null /\ ~Rests(c) /\ call[c].at \notin Bare \cup {"dangling", "name"}
  BY CallersHold DEF Holders, Whole, Bare
<1>2. now.at \in {"idle", "bind", "target", "connect", "again", "address", "select"}
  BY NothingCalls DEF Connecting
<1>3. StringsAreOwned' /\ strings' \in 0 .. MaxHosts /\ hosts' \in 0 .. MaxHosts
  <2>1. \A d \in Callers : call'[d].at = "name" <=> call[d].at = "name"
    BY <1>1, <1>2 DEF SocketInv, SocketTypeOK
  <2>. QED
    BY <2>1, SameStrings
<1>4. now.at \notin Bare \cup {"dangling"}
  BY <1>2 DEF Bare
<1>. QED
  <2>1. CASE now = NoCall
    BY <1>1, <1>2, <1>3, <1>4, <2>1, NothingCalls, KeptKeeps DEF Connecting, Whole
  <2>2. CASE now.at \in {"connect", "again"} /\ now.op = "connect"
    BY <1>1, <1>2, <1>3, <1>4, <2>2, KeptKeeps
  <2>3. CASE now.at = "address" /\ now.op = "accept" /\ call[c].op = "accept" /\ now.server = call[c].server
    <3>1. /\ now.at \notin Connecting \cup {"bind", "name", "idle", "option", "select"}
          /\ now.op # "resolve"
      BY <2>3 DEF Connecting
    <3>. QED
      BY <1>1, <1>3, <1>4, <2>3, <3>1, KeptKeeps
  <2>4. CASE /\ now.at = "select" /\ now.op = "connect"
             /\ open[FdOf(c)].net \in {"connecting", "connected", "failed"}
    BY <1>1, <1>2, <1>3, <1>4, <2>4, KeptKeeps
  <2>. QED
    BY <2>1, <2>2, <2>3, <2>4

LEMMA CallsMove ==
  ASSUME Limits, SocketInv, NEW c \in Callers,
         \/ MakeNonblocking(c) \/ Bind(c) \/ Inherit(c) \/ AcceptUnnamed(c)
         \/ ConnectInProgress(c)
  PROVE  SocketInv'
<1>1. call[c].at \in Whole /\ UNCHANGED <<heap, pointer>> /\ NoHost
  BY DEF MakeNonblocking, Bind, Inherit, AcceptUnnamed, ConnectInProgress, Whole, Kept
<1>2. CASE MakeNonblocking(c)
  <2>1. call[c].at \in {"socket", "option"} /\ Created(c) /\ open' = [open EXCEPT ![FdOf(c)].nonblock = TRUE]
    BY <1>2 DEF MakeNonblocking
  <2>2. PICK now \in Calls :
          /\ call' = [call EXCEPT ![c] = now] /\ now.at \in {"idle", "bind", "target"}
          /\ now.at = "idle" => now.op = "none"
          /\ (now.at = "target" => now.op = "connect") /\ (now.at = "bind" => now.op = "udp_bind")
          /\ now.op \notin {"accept", "resolve"}
    BY <2>1, CreatedGoes
  <2>3. pointer[c] # Null /\ ~Rests(c) /\ call[c].at \notin Bare \cup {"dangling", "name"}
    BY <1>2, CallersHold DEF Holders, Whole, Bare, MakeNonblocking
  <2>4. StringsAreOwned' /\ strings' \in 0 .. MaxHosts /\ hosts' \in 0 .. MaxHosts
    <3>1. \A d \in Callers : call'[d].at = "name" <=> call[d].at = "name"
      BY <2>2, <2>3 DEF SocketInv, SocketTypeOK
    <3>. QED
      BY <1>1, <3>1, SameStrings
  <2>5. now.at \notin Bare \cup {"dangling"}
    BY <2>2 DEF Bare
  <2>6. TRUE \in BOOLEAN
    OBVIOUS
  <2>. QED
    BY <1>1, <2>1, <2>2, <2>3, <2>4, <2>5, <2>6, OptionChanges, KeptKeeps DEF Connecting
<1>3. CASE Inherit(c)
  <2>1. call[c].at = "inherit" /\ call[c].op = "accept" /\ GoesTo(c, "address")
        /\ open' = [open EXCEPT ![FdOf(c)].nonblock = ServerIsNonblocking(c)]
    BY <1>3 DEF Inherit, SocketInv, CallsAreSound, CallOK
  <2>2. ServerIsNonblocking(c) \in BOOLEAN
    <3>1. PICK d \in Callers : pointer[d] = call[c].server /\ Rests(d) /\ pointer[d] # Null
      BY <2>1 DEF SocketInv, CallsAreSound, CallOK, ServerStands
    <3>2. call[d].at \in {"idle", "name"}
      BY <3>1 DEF Rests, SocketInv, CallsAreSound, CallOK
    <3>3. d \in Holders /\ call[d].at \notin Bare
      BY <3>1, <3>2 DEF Holders, Bare
    <3>4. FdOf(d) \in DOMAIN open
      BY <3>3, HoldersAlone
    <3>. QED
      BY <3>1, <3>4, OldIsTyped DEF ServerIsNonblocking, FdOf, Status
  <2>3. PICK now \in Calls : /\ call' = [call EXCEPT ![c] = now] /\ now.at = "address"
                             /\ now.op = call[c].op /\ now.server = call[c].server
    BY <2>1, Going DEF CallPlaces, Whole
  <2>. QED
    BY <1>1, <2>1, <2>2, <2>3, OptionChanges, MovesKeep
<1>4. CASE Bind(c) \/ AcceptUnnamed(c)
  <2>1. Return(c) /\ open' = open
    BY <1>4 DEF Bind, AcceptUnnamed, Kept
  <2>. QED
    BY <1>1, <2>1, NothingCalls, NoneChanges, MovesKeep DEF Return
<1>5. CASE ConnectInProgress(c)
  <2>1. /\ call[c].at = "connect" /\ open[FdOf(c)].net = "connecting" /\ open' = open
        /\ Return(c) \/ GoesTo(c, "select")
    BY <1>5 DEF ConnectInProgress, Kept
  <2>2. CASE Return(c)
    BY <1>1, <2>1, <2>2, NothingCalls, NoneChanges, MovesKeep DEF Return
  <2>3. CASE GoesTo(c, "select")
    <3>1. PICK now \in Calls : /\ call' = [call EXCEPT ![c] = now] /\ now.at = "select"
                               /\ now.op = call[c].op /\ now.server = call[c].server
      BY <2>3, Going DEF CallPlaces, Whole
    <3>2. call[c].op # "resolve"
      BY <2>1 DEF SocketInv, CallsAreSound, CallOK
    <3>3. call[c].op = "connect"
      BY <2>1 DEF SocketInv, CallsAreSound, CallOK, Connecting
    <3>. QED
      BY <1>1, <2>1, <3>1, <3>2, <3>3, NoneChanges, MovesKeep
  <2>. QED
    BY <2>1, <2>2, <2>3
<1>. QED
  BY <1>2, <1>3, <1>4, <1>5

LEMMA HostsKeep ==
  ASSUME Limits, SocketInv, NEW c \in Callers,
         AcceptFinds(c) \/ Resolve(c) \/ Name(c) \/ NameFails(c)
  PROVE  SocketInv'
<1>1. CASE AcceptFinds(c)
  <2>1. /\ call[c].at = "address" /\ call[c].op = "accept" /\ strings < MaxHosts
        /\ strings' = strings + 1 /\ hosts' = hosts /\ GoesTo(c, "name") /\ Kept
    BY <1>1 DEF AcceptFinds, SocketInv, CallsAreSound, CallOK
  <2>2. PICK now \in Calls : /\ call' = [call EXCEPT ![c] = now] /\ now.at = "name"
                             /\ now.op = call[c].op /\ now.server = call[c].server
    BY <2>1, Going DEF CallPlaces
  <2>3. StringsAreOwned' /\ strings' \in 0 .. MaxHosts /\ hosts' \in 0 .. MaxHosts
    BY <2>1, <2>2, MoreStrings
  <2>4. pointer[c] # Null /\ ~Rests(c) /\ call[c].at \notin Bare \cup {"dangling"}
    BY <2>1, CallersHold DEF Holders, Bare
  <2>5. now.at \notin Bare \cup {"dangling"} \cup Whole
    BY <2>2 DEF Bare, Whole
  <2>. QED
    BY <2>1, <2>2, <2>3, <2>4, <2>5, NoneChanges, KeptKeeps DEF Kept, Connecting
<1>2. CASE Resolve(c)
  <2>. DEFINE now == [NoCall EXCEPT !.at = "name", !.op = "resolve"]
  <2>1. /\ call[c].at = "idle" /\ strings < MaxHosts /\ strings' = strings + 1 /\ hosts' = hosts
        /\ call' = [call EXCEPT ![c] = now] /\ Kept
    BY <1>2 DEF Resolve
  <2>2. now \in Calls /\ now.at = "name" /\ now.op = "resolve"
    BY DEF NoCall, Calls, CallPlaces
  <2>. HIDE DEF now
  <2>3. StringsAreOwned' /\ strings' \in 0 .. MaxHosts /\ hosts' \in 0 .. MaxHosts
    BY <2>1, <2>2, MoreStrings
  <2>4. /\ call[c].at \notin Bare \cup {"dangling"}
        /\ now.at \notin Bare \cup {"dangling"} /\ now.at \notin Whole /\ now.at \notin Connecting
        /\ now.at # "select" /\ now.op # "accept" /\ now.at \notin {"idle", "option", "inherit", "address", "bind"}
    BY <2>1, <2>2 DEF Bare, Whole, Connecting
  <2>. QED
    <3>1. UNCHANGED <<heap, pointer, open>>
      BY <2>1 DEF Kept
    <3>. QED
      BY <2>1, <2>2, <2>3, <2>4, <3>1, NoneChanges, KeptKeeps
<1>3. ASSUME call[c].at = "name", Return(c), Kept,
             \/ strings' = strings /\ hosts' = hosts + 1
             \/ strings' = strings - 1 /\ hosts' = hosts
      PROVE  SocketInv'
  <2>1. call' = [call EXCEPT ![c] = NoCall]
    BY <1>3 DEF Return
  <2>2. StringsAreOwned' /\ strings' \in 0 .. MaxHosts /\ hosts' \in 0 .. MaxHosts
    BY <1>3, <2>1, NothingCalls, LessStrings
  <2>3. call[c].at \notin Bare \cup {"dangling"} /\ NoCall.at \notin Bare \cup {"dangling"} \cup Whole
    BY <1>3, NothingCalls DEF Bare, Whole
  <2>. QED
    BY <1>3, <2>1, <2>2, <2>3, NothingCalls, NoneChanges, KeptKeeps DEF Kept, Connecting
<1>4. CASE Name(c)
  BY <1>3, <1>4 DEF Name
<1>5. CASE NameFails(c)
  <2>1. /\ call[c].at = "name" /\ Return(c) /\ strings' = strings - 1 /\ hosts' = hosts
        /\ IF call[c].op = "accept" THEN Dropped(c) ELSE Kept
    BY <1>5 DEF NameFails
  <2>2. CASE call[c].op = "accept"
    <3>1. c \in Holders /\ ~Rests(c)
      BY <2>2, CallersHold
    <3>2. Dropped(c)
      BY <2>1, <2>2
    <3>. QED
      BY <2>1, <3>1, <3>2, DroppedKeeps
  <2>3. CASE call[c].op # "accept"
    BY <1>3, <2>1, <2>3
  <2>. QED
    BY <2>2, <2>3
<1>. QED
  BY <1>1, <1>2, <1>4, <1>5

LEMMA ConnectKeeps ==
  ASSUME Limits, SocketInv, NEW c \in Callers, NEW b \in BOOLEAN, Connect(c, b)
  PROVE  SocketInv'
<1>1. CASE Begin(c, "connect", "socket", FALSE, b, Null)
  BY <1>1, BeginKeeps
<1>2. CASE Has(c) /\ ~Serving(c) /\ Kept /\ NoHost
           /\ call' = [call EXCEPT ![c] = [at |-> "target", op |-> "connect", blocking |-> b,
                                          server |-> Null]]
  <2>. DEFINE now == [at |-> "target", op |-> "connect", blocking |-> b, server |-> Null]
  <2>1. now \in Calls /\ now.at = "target" /\ now.op = "connect"
    BY DEF Calls, CallPlaces, Whole
  <2>2. call' = [call EXCEPT ![c] = now]
    BY <1>2
  <2>. HIDE DEF now
  <2>3. call[c].at = "idle" /\ pointer[c] # Null
    BY <1>2 DEF Has
  <2>4. StringsAreOwned' /\ strings' \in 0 .. MaxHosts /\ hosts' \in 0 .. MaxHosts
    <3>1. \A d \in Callers : call'[d].at = "name" <=> call[d].at = "name"
      BY <2>1, <2>2, <2>3 DEF SocketInv, SocketTypeOK
    <3>. QED
      BY <1>2, <3>1, SameStrings
  <2>5. call[c].at \notin Bare \cup {"dangling"} /\ now.at \notin Bare \cup {"dangling"}
    BY <2>1, <2>3 DEF Bare
  <2>. QED
    BY <1>2, <2>1, <2>2, <2>3, <2>4, <2>5, NoneChanges, KeptKeeps DEF Kept, Connecting
<1>. QED
  BY <1>1, <1>2 DEF Connect

LEMMA ConnectBeginsKeeps ==
  ASSUME Limits, SocketInv, NEW c \in Callers, ConnectBegins(c)
  PROVE  SocketInv'
<1>1. /\ call[c].at = "target" /\ call[c].op = "connect" /\ call[c].at \in Whole
      /\ NoHost /\ UNCHANGED <<heap, pointer>>
      /\ GoesTo(c, "connect") \/ GoesTo(c, "again")
  BY DEF ConnectBegins, Whole, SocketInv, CallsAreSound, CallOK, Connecting
<1>2. \E net \in {"connecting", "connected", open[FdOf(c)].net} :
        /\ open' = [open EXCEPT ![FdOf(c)].net = net]
        /\ net = open[FdOf(c)].net \/ net \in {"connecting", "connected"}
  BY DEF ConnectBegins
<1>3. /\ DOMAIN open' = DOMAIN open /\ \A f \in DOMAIN open : open'[f] \in Status
      /\ \A f \in DOMAIN open : open[f].net \in {"connecting", "connected", "failed"} =>
           open'[f].net \in {"connecting", "connected", "failed"}
  BY <1>2, OldIsTyped DEF Status, Streams
<1>4. PICK now \in Calls : /\ call' = [call EXCEPT ![c] = now] /\ now.at \in {"connect", "again"}
                           /\ now.op = call[c].op
  BY <1>1, Going DEF CallPlaces, Whole
<1>. QED
  BY <1>1, <1>3, <1>4, MovesKeep

LEMMA ConnectedKeeps ==
  ASSUME Limits, SocketInv, NEW c \in Callers, ConnectSucceeds(c) \/ SelectReady(c)
  PROVE  SocketInv'
<1>1. /\ call[c].at \in Whole /\ call[c].at # "name" /\ NoHost /\ Return(c)
      /\ Kept \/ Dropped(c)
  BY DEF ConnectSucceeds, SelectReady, Connected, Whole
<1>2. c \in Holders /\ ~Rests(c)
  BY <1>1, CallersHold
<1>3. CASE Kept
  BY <1>1, <1>3, NothingCalls, NoneChanges, MovesKeep DEF Return, Kept
<1>4. CASE Dropped(c)
  BY <1>1, <1>2, <1>4, DroppedKeeps
<1>. QED
  BY <1>1, <1>3, <1>4

-----------------------------------------------------------------------------
(* The theorems.                                                           *)

\* The inductive invariant of the sockets: types, ownership of structs,
\* descriptors and strings in every step of every call, and what a call has at
\* each of its places (infra_net.c 13-336, 541-609).
THEOREM SocketInvariant ==
  ASSUME Limits
  PROVE  SocketSpec => []SocketInv
<1>1. SocketInit => SocketInv
  <2>. SUFFICES ASSUME SocketInit  PROVE SocketInv
    OBVIOUS
  <2>1. /\ heap = <<>> /\ open = <<>> /\ pointer = [c \in Callers |-> Null]
        /\ call = [c \in Callers |-> NoCall] /\ strings = 0 /\ hosts = 0
    BY DEF SocketInit
  <2>2. SocketTypeOK
    BY <2>1, NothingCalls DEF SocketTypeOK, Limits
  <2>3. Holders = {} /\ Naming = {}
    BY <2>1, NothingCalls DEF Holders, Naming
  <2>4. StructsAreOwned
    BY <2>1, <2>3 DEF StructsAreOwned
  <2>5. StringsAreOwned
    BY <2>1, <2>3, FS_EmptySet DEF StringsAreOwned
  <2>6. CallsAreSound
    BY <2>1, NothingCalls DEF CallsAreSound, CallOK, Bare, Whole, Connecting
  <2>. QED
    BY <2>2, <2>4, <2>5, <2>6 DEF SocketInv
<1>2. SocketInv /\ [SocketNext]_socket_vars => SocketInv'
  <2>. SUFFICES ASSUME SocketInv, [SocketNext]_socket_vars  PROVE SocketInv'
    OBVIOUS
  <2>1. CASE UNCHANGED socket_vars
    <3>1. NoHost /\ UNCHANGED <<heap, pointer, call, open>>
      BY <2>1 DEF socket_vars, NoHost
    <3>. QED
      BY <3>1, SameStrings, NoneChanges, QuietKeeps
  <2>2. ASSUME NEW c \in Callers, NEW b \in BOOLEAN,
               \/ \E udp \in BOOLEAN : Create(c, udp, b)
               \/ SetNonblock(c, b) \/ SetTimeout(c, b) \/ Connect(c, b)
        PROVE  SocketInv'
    BY <2>2, CreateCallsKeep, OneStepKeeps, ConnectKeeps
  <2>3. ASSUME NEW c \in Callers,
               \/ UdpBind(c) \/ MakeSocket(c) \/ TakeConnection(c)
               \/ Forget(c) \/ Listen(c) \/ Close(c) \/ BindFails(c)
               \/ \E d \in Callers : Accept(c, d)
        PROVE  SocketInv'
    <3>1. TRUE \in BOOLEAN
      OBVIOUS
    <3>. QED
      BY <2>3, <3>1, CreateCallsKeep, SocketKeeps, ForgetKeeps, OneStepKeeps, CloseKeeps, BindFailsKeeps, AcceptKeeps
  <2>4. ASSUME NEW c \in Callers,
               \/ NoSocket(c) \/ OptionFails(c) \/ NoConnection(c) \/ InheritFails(c)
               \/ AcceptFindsNone(c) \/ ConnectBadAddress(c) \/ ConnectRefused(c) \/ SelectFails(c)
        PROVE  SocketInv'
    BY <2>4, FailuresKeep
  <2>5. ASSUME NEW c \in Callers,
               \/ MakeNonblocking(c) \/ Bind(c) \/ Inherit(c) \/ AcceptUnnamed(c)
               \/ ConnectInProgress(c)
        PROVE  SocketInv'
    BY <2>5, CallsMove
  <2>6. ASSUME NEW c \in Callers,
               \/ AcceptFinds(c) \/ Resolve(c) \/ Name(c) \/ NameFails(c)
               \/ ConnectBegins(c) \/ ConnectSucceeds(c) \/ SelectReady(c)
        PROVE  SocketInv'
    BY <2>6, HostsKeep, ConnectBeginsKeeps, ConnectedKeeps
  <2>7. CASE FreeHost \/ \E fd \in DOMAIN open : NetAnswers(fd)
    BY <2>7, OutsideKeeps
  <2>8. CASE SocketNext
    BY <2>2, <2>3, <2>4, <2>5, <2>6, <2>7, <2>8 DEF SocketNext
  <2>. QED
    BY <2>1, <2>8
<1>. QED
  BY <1>1, <1>2, PTL DEF SocketSpec

\* Whichever request of create, udp_bind, accept, connect or resolve is refused,
\* and whoever else is at work, what was done before is undone: no struct,
\* descriptor or string is lost or given up twice.
THEOREM SocketsStayOwned ==
  ASSUME Limits
  PROVE  SocketSpec => []SocketsAreOwned
<1>1. SocketInv => SocketsAreOwned
  BY InvMeansOwned
<1>. QED
  BY <1>1, SocketInvariant, PTL

\* A blocking infra_net_connect that returns and leaves the socket has connected
\* it, for every width of the word that line 239 sets a bit in, as long as the
\* descriptor fits that word.
THEOREM ConnectMeansConnected ==
  ASSUME Limits
  PROVE  SocketSpec => ConnectedWhenOk
<1>. DEFINE OkStep ==
       \A c \in Callers :
         call[c].op = "connect" /\ call[c].blocking /\ call'[c].at = "idle" /\ pointer'[c] # Null =>
           LET fd == heap[pointer[c]].fd
           IN  fd >= Bits \/ open'[fd].net = "connected"
<1>1. SocketInv /\ [SocketNext]_socket_vars => [OkStep]_socket_vars
  <2>. SUFFICES ASSUME SocketInv, SocketNext, NEW c \in Callers, call[c].op = "connect",
                       call[c].blocking, call'[c].at = "idle", pointer'[c] # Null
                PROVE  FdOf(c) >= Bits \/ open'[FdOf(c)].net = "connected"
    BY DEF FdOf
  <2>1. /\ call[c].at \in {"socket", "option"} \cup Connecting
        /\ call'[c] # call[c]
        /\ pointer \in [Callers -> Structs \cup {Null}]
    BY DEF SocketInv, SocketTypeOK, CallsAreSound, CallOK, Calls, CallPlaces, Bare, Whole, Connecting
  <2>2. ~Dropped(c) /\ ~Freed(c)
    BY <2>1 DEF Dropped, Freed
  <2>3. ASSUME NEW d \in Callers, NEW now, call' = [call EXCEPT ![d] = now]  PROVE d = c
    BY <2>1, <2>3 DEF SocketInv, SocketTypeOK
  <2>4. ASSUME NEW d \in Callers, Return(d) \/ \E place \in CallPlaces : GoesTo(d, place)  PROVE d = c
    BY <2>3, <2>4 DEF Return, GoesTo
  <2>5. ~ \E place \in CallPlaces \ {"idle"} : GoesTo(c, place)
    BY Going
  <2>6. ASSUME NEW d \in Callers, NEW op, NEW place, NEW udp, NEW blocking, NEW server,
               Begin(d, op, place, udp, blocking, server)
        PROVE  FALSE
    <3>1. d = c /\ call[d].at = "idle"
      BY <2>3, <2>6 DEF Begin, HasNot
    <3>. QED
      BY <2>1, <3>1 DEF Connecting
  <2>7. ASSUME NEW d \in Callers, NEW b \in BOOLEAN
        PROVE  /\ \A udp \in BOOLEAN : ~Create(d, udp, b)
               /\ ~UdpBind(d) /\ ~Connect(d, b) /\ \A e \in Callers : ~Accept(d, e)
    <3>1. ASSUME Has(d), call' = [call EXCEPT ![d] = [at |-> "target", op |-> "connect", blocking |-> b,
                                                     server |-> Null]]
          PROVE  FALSE
      <4>1. d = c
        BY <2>3, <3>1
      <4>. QED
        BY <2>1, <3>1, <4>1 DEF Has, Connecting
    <3>. QED
      BY <2>6, <3>1 DEF Create, UdpBind, Connect, Accept
  <2>8. ASSUME NEW d \in Callers, NEW b \in BOOLEAN
        PROVE  /\ ~SetNonblock(d, b) /\ ~SetTimeout(d, b) /\ ~Listen(d) /\ ~Close(d) /\ ~FreeHost
               /\ \A fd \in DOMAIN open : ~NetAnswers(fd)
    BY <2>1 DEF SetNonblock, SetTimeout, Listen, Close, FreeHost, NetAnswers
  <2>9. ASSUME NEW d \in Callers
        PROVE  /\ ~NoSocket(d) /\ ~OptionFails(d) /\ ~NoConnection(d) /\ ~InheritFails(d)
               /\ ~AcceptFindsNone(d) /\ ~ConnectBadAddress(d) /\ ~ConnectRefused(d) /\ ~SelectFails(d)
    BY <2>2, <2>4 DEF NoSocket, OptionFails, NoConnection, InheritFails, AcceptFindsNone,
       ConnectBadAddress, ConnectRefused, SelectFails
  <2>10. ASSUME NEW d \in Callers
         PROVE  /\ ~Bind(d) /\ ~BindFails(d) /\ ~Forget(d) /\ ~Inherit(d) /\ ~AcceptUnnamed(d)
                /\ ~AcceptFinds(d) /\ ~Resolve(d) /\ ~Name(d) /\ ~NameFails(d) /\ ~TakeConnection(d)
    <3>1. call[d].at \in {"idle", "bind", "dangling", "inherit", "address", "name", "accept"} => d # c
      BY <2>1 DEF Connecting
    <3>2. {"address", "name", "inherit"} \subseteq CallPlaces
      BY DEF CallPlaces, Whole
    <3>3. ASSUME GoesTo(d, "address") \/ GoesTo(d, "name") \/ GoesTo(d, "inherit")  PROVE d = c
      BY <2>4, <3>2, <3>3
    <3>. QED
      BY <2>3, <2>4, <3>1, <3>3 DEF Bind, BindFails, Forget, Inherit, AcceptUnnamed, AcceptFinds, Resolve,
         Name, NameFails, TakeConnection
  <2>11. {"bind", "target", "option", "connect", "again", "select"} \subseteq CallPlaces \ {"idle"}
    BY DEF CallPlaces, Whole
  <2>12. ASSUME NEW d \in Callers, Created(d), call[d].at \in {"socket", "option"}  PROVE FALSE
    <3>1. PICK now \in Calls : call' = [call EXCEPT ![d] = now]
      BY <2>12, CreatedGoes
    <3>2. d = c
      BY <2>3, <3>1
    <3>3. GoesTo(c, "target")
      BY <2>12, <3>2 DEF Created
    <3>. QED
      BY <2>5, <2>11, <3>3
  <2>13. ASSUME NEW d \in Callers, NEW place \in {"option", "connect", "again", "select"}
         PROVE  ~GoesTo(d, place)
    BY <2>4, <2>5, <2>11
  <2>14. ASSUME NEW d \in Callers  PROVE ~MakeSocket(d) /\ ~MakeNonblocking(d) /\ ~ConnectBegins(d)
    BY <2>12, <2>13 DEF MakeSocket, MakeNonblocking, ConnectBegins
  <2>15. ASSUME NEW d \in Callers, ConnectInProgress(d)  PROVE FALSE
    <3>1. Return(d) /\ ~call[d].blocking
      BY <2>13, <2>15 DEF ConnectInProgress
    <3>2. d = c
      BY <2>4, <3>1
    <3>. QED
      BY <3>1, <3>2
  <2>16. PICK d \in Callers : ConnectSucceeds(d) \/ SelectReady(d)
    BY <2>7, <2>8, <2>9, <2>10, <2>14, <2>15 DEF SocketNext
  <2>17. d = c
    BY <2>4, <2>16 DEF ConnectSucceeds, SelectReady, Connected
  <2>18. CASE ConnectSucceeds(c)
    BY <2>2, <2>18 DEF ConnectSucceeds, Connected, Kept
  <2>19. CASE SelectReady(c)
    <3>1. open[FdOf(c)].net \in {"connecting", "connected", "failed"} /\ FdOf(c) \in Nat
      <4>1. call[c].at = "select" /\ call[c].at \in Whole /\ call[c].at \notin Bare
        BY <2>19 DEF SelectReady, Whole, Bare
      <4>2. c \in Holders
        BY <4>1, CallersHold
      <4>. QED
        BY <4>1, <4>2, HoldersAlone DEF SocketInv, CallsAreSound, CallOK, Fds
    <3>2. CASE FdOf(c) < Bits
      <4>1. Watched(FdOf(c)) = FdOf(c)
        BY <3>1, <3>2 DEF Watched, Limits
      <4>. QED
        BY <2>2, <2>19, <3>1, <4>1 DEF SelectReady, Connected, Kept, Writable
    <3>. QED
      BY <3>1, <3>2 DEF Limits
  <2>. QED
    BY <2>16, <2>17, <2>18, <2>19
<1>. QED
  BY <1>1, SocketInvariant, PTL DEF SocketSpec, ConnectedWhenOk
=============================================================================
