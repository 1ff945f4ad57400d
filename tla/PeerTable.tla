------------------------------ MODULE PeerTable ------------------------------
(* The table of connections of infra_peer.c.  A connection is known by its  *)
(* peer_id, the index of its slot; descriptors come from the kernel, which  *)
(* gives the same ones to the rest of the program.                          *)
EXTENDS Integers

CONSTANTS
  MaxPeers,        \* MAX_PEERS: 128 in the code
  MaxDescriptors,  \* the kernel's limit of descriptors
  MaxConnections   \* bound: connections over time

VARIABLES
  slots,        \* peer_pool: socket and is_active
  peer_count,
  connection,   \* the kernel: open descriptor |-> its connection, or Other
  theirs,       \* id |-> the connection it was given for, or Closed when given back
  forgotten,    \* descriptors that a second infra_peer_init has forgotten
  made          \* how many connections there have been

peer_vars == <<slots, peer_count, connection, theirs, forgotten, made>>

Ids == 0 .. MaxPeers - 1
Descriptors == 0 .. MaxDescriptors - 1
Connections == 1 .. MaxConnections
Other == 0     \* a descriptor of the rest of the program
Closed == -1   \* no connection
Gone == -2     \* a descriptor that is not open

TableTypeOK ==
  /\ slots \in [Ids -> [socket : Descriptors, active : BOOLEAN]]
  /\ peer_count \in 0 .. MaxPeers
  /\ DOMAIN connection \subseteq Descriptors
  /\ \A f \in DOMAIN connection : connection[f] \in Connections \cup {Other}
  /\ DOMAIN theirs \subseteq Ids
  /\ \A id \in DOMAIN theirs : theirs[id] \in Connections \cup {Closed}
  /\ forgotten \subseteq Descriptors
  /\ made \in 0 .. MaxConnections

Zeroed == [id \in Ids |-> [socket |-> 0, active |-> FALSE]]

\* Static variables are zero before infra_peer_init as they are after it.
TableInit ==
  /\ slots = Zeroed /\ peer_count = 0
  /\ connection = <<>> /\ theirs = <<>>
  /\ forgotten = {} /\ made = 0

FreeDescriptors == Descriptors \ DOMAIN connection
NextFd(f) == f \in FreeDescriptors /\ \A g \in FreeDescriptors : f <= g   \* the one the kernel gives
Extended(f, x, y) == [z \in DOMAIN f \cup {x} |-> IF z = x THEN y ELSE f[z]]
Restricted(f, S) == [z \in S |-> f[z]]

\* The ids that callers hold mean nothing after infra_peer_init or _cleanup.
PeerInit ==
  /\ slots' = Zeroed /\ peer_count' = 0 /\ theirs' = <<>>
  /\ forgotten' = forgotten \cup {slots[id].socket : id \in {i \in Ids : slots[i].active}}
  /\ UNCHANGED <<connection, made>>

\* Faulty: takes a slot that has been closed, whose id its owner still has.
ConnectReuses(fd, ok) ==
  LET idle == {id \in Ids : ~slots[id].active}
      id == CHOOSE i \in idle : \A j \in idle : i <= j
  IN  /\ idle # {} /\ NextFd(fd) /\ made < MaxConnections /\ ok
      /\ slots' = [slots EXCEPT ![id] = [socket |-> fd, active |-> TRUE]]
      /\ peer_count' = IF id = peer_count THEN peer_count + 1 ELSE peer_count
      /\ connection' = Extended(connection, fd, made + 1)
      /\ theirs' = IF id \in DOMAIN theirs THEN theirs ELSE Extended(theirs, id, made + 1)
      /\ made' = made + 1
      /\ UNCHANGED forgotten

\* infra_peer_connect: the descriptor is closed if the connection fails.
PeerConnect(fd, ok) ==
  /\ peer_count < MaxPeers /\ NextFd(fd) /\ made < MaxConnections
  /\ made' = made + 1
  /\ IF ok
       THEN /\ slots' = [slots EXCEPT ![peer_count] = [socket |-> fd, active |-> TRUE]]
            /\ peer_count' = peer_count + 1
            /\ connection' = Extended(connection, fd, made + 1)
            /\ theirs' = Extended(theirs, peer_count, made + 1)
       ELSE UNCHANGED <<slots, peer_count, connection, theirs>>
  /\ UNCHANGED forgotten

\* infra_peer_close, of any id whatever; otherwise it does nothing.
PeerClose(id) ==
  /\ id \in 0 .. peer_count - 1 /\ slots[id].active
  /\ connection' = Restricted(connection, DOMAIN connection \ {slots[id].socket})
  /\ slots' = [slots EXCEPT ![id].active = FALSE]
  /\ theirs' = [theirs EXCEPT ![id] = Closed]
  /\ UNCHANGED <<peer_count, forgotten, made>>

\* infra_peer_cleanup closes what is active; the slots keep their sockets.
PeerCleanup ==
  /\ connection' = Restricted(connection, DOMAIN connection \
       {slots[id].socket : id \in {i \in Ids : i < peer_count /\ slots[i].active}})
  /\ slots' = [id \in Ids |-> IF id < peer_count THEN [slots[id] EXCEPT !.active = FALSE]
                              ELSE slots[id]]
  /\ peer_count' = 0 /\ theirs' = <<>>
  /\ UNCHANGED <<forgotten, made>>

\* The rest of the program.
OtherOpens(fd) ==
  /\ NextFd(fd)
  /\ connection' = Extended(connection, fd, Other)
  /\ UNCHANGED <<slots, peer_count, theirs, forgotten, made>>

OtherCloses(f) ==
  /\ connection[f] = Other
  /\ connection' = Restricted(connection, DOMAIN connection \ {f})
  /\ UNCHANGED <<slots, peer_count, theirs, forgotten, made>>

TableNext ==
  \/ PeerInit \/ PeerCleanup
  \/ \E fd \in Descriptors : OtherOpens(fd) \/ \E ok \in BOOLEAN : PeerConnect(fd, ok)
  \/ \E id \in -1 .. MaxPeers : PeerClose(id)
  \/ \E f \in DOMAIN connection : OtherCloses(f)

TableSpec == TableInit /\ [][TableNext]_peer_vars

\* Where infra_peer_send and _recv of an id go, or Closed when they refuse.
Reaches(id) ==
  IF id < peer_count /\ slots[id].active
    THEN IF slots[id].socket \in DOMAIN connection THEN connection[slots[id].socket] ELSE Gone
    ELSE Closed

(* An id goes on meaning the connection it was given for, and once closed   *)
(* is refused, whatever has become of its descriptor since: send, recv and  *)
(* a second close never meet another module's descriptor, nor the next      *)
(* peer's (58-85).  No connection but those forgotten is open without an    *)
(* active slot.                                                             *)
PeerIdsStayTheirs ==
  /\ \A id \in DOMAIN theirs : Reaches(id) = theirs[id]
  /\ \A f \in DOMAIN connection :
       connection[f] # Other =>
         f \in forgotten \/ \E id \in Ids : slots[id].active /\ slots[id].socket = f
=============================================================================
