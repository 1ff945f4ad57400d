------------------------------- MODULE Sockets -------------------------------
(***************************************************************************)
(* The sockets of infra_net.c.  Every caller is a thread with a variable   *)
(* for one socket, which it hands to the operations; it points to a struct *)
(* of infra_malloc, and that names a descriptor of the kernel.  An         *)
(* operation either leaves all three or undoes what it had done.           *)
(*                                                                         *)
(* A call that makes a socket or a string takes a step for each thing that *)
(* it asks the allocator or the kernel for, and undoes in another what it  *)
(* has when it is refused; infra_net_connect also waits in connect() or in *)
(* select().  A caller closes only its own socket, not during a call and   *)
(* not while another accepts from it; it uses no variable again that an    *)
(* error has left dangling, and hands in NULL where a socket is to be made.*)
(*                                                                         *)
(* Left out: the bytes that are sent and received, ports, and the options  *)
(* that do no more than fail or succeed.                                   *)
(***************************************************************************)
EXTENDS Integers, FiniteSets

CONSTANTS
  Callers,
  MaxFds,    \* the kernel's limit of descriptors
  Bits,      \* bits in a word of an fd_set: 64 in the code
  MaxHosts   \* bound: address strings that are allocated at a time

VARIABLES
  heap,      \* the structs: address |-> descriptor and is_udp
  open,      \* the kernel's sockets: descriptor |-> status
  pointer,   \* the callers' variables
  call,      \* where each caller is: "dangling" after an error of udp_bind
  strings,   \* address strings allocated
  hosts      \* address strings that callers have been given

socket_vars == <<heap, open, pointer, call, strings, hosts>>

Null == 0
NoDescriptor == -1
Structs == 1 .. Cardinality(Callers) + 1
Fds == 0 .. MaxFds - 1
Streams == {"new", "listening", "connecting", "connected", "failed"}
Status == [net : Streams, nonblock : BOOLEAN, timed : BOOLEAN]

\* Where a call has a struct and no descriptor yet, and where it has both.
Bare == {"socket", "accept"}
Whole == {"option", "bind", "target", "connect", "again", "select", "inherit", "address"}
CallPlaces == {"idle", "dangling", "name"} \cup Bare \cup Whole

\* `blocking` is the config's, `server` the struct that a connection is taken from.
Calls == [at : CallPlaces, op : {"none", "create", "udp_bind", "connect", "accept", "resolve"},
          blocking : BOOLEAN, server : Structs \cup {Null}]
NoCall == [at |-> "idle", op |-> "none", blocking |-> FALSE, server |-> Null]

SocketTypeOK ==
  /\ DOMAIN heap \subseteq Structs
  /\ \A a \in DOMAIN heap : heap[a] \in [fd : Fds \cup {NoDescriptor}, udp : BOOLEAN]
  /\ DOMAIN open \subseteq Fds
  /\ \A f \in DOMAIN open : open[f] \in Status
  /\ pointer \in [Callers -> Structs \cup {Null}]
  /\ call \in [Callers -> Calls]
  /\ strings \in 0 .. MaxHosts /\ hosts \in 0 .. MaxHosts

SocketInit ==
  /\ heap = <<>> /\ open = <<>>
  /\ pointer = [c \in Callers |-> Null]
  /\ call = [c \in Callers |-> NoCall]
  /\ strings = 0 /\ hosts = 0

-----------------------------------------------------------------------------
(* What malloc and the kernel give and take.                               *)

Lowest(n, S) == n \in S /\ \A m \in S : n <= m
FreeAddresses == Structs \ DOMAIN heap
FreeFds == Fds \ DOMAIN open
With(f, x, y) == [z \in DOMAIN f \cup {x} |-> IF z = x THEN y ELSE f[z]]
Without(f, x) == [z \in DOMAIN f \ {x} |-> f[z]]

FdOf(c) == heap[pointer[c]].fd
Has(c) == call[c].at = "idle" /\ pointer[c] # Null
HasNot(c) == call[c].at = "idle" /\ pointer[c] = Null

\* Somebody is taking a connection of c's socket.
Serving(c) == \E d \in Callers : call[d].server = pointer[c]

\* A struct for c, whose descriptor is not there yet.
Allocated(c, udp) ==
  /\ \E a \in FreeAddresses :
       /\ Lowest(a, FreeAddresses)
       /\ heap' = With(heap, a, [fd |-> NoDescriptor, udp |-> udp])
       /\ pointer' = [pointer EXCEPT ![c] = a]
  /\ UNCHANGED open

\* A descriptor for the struct that c has.
Opened(c, net) ==
  /\ \E fd \in FreeFds :
       /\ Lowest(fd, FreeFds)
       /\ heap' = [heap EXCEPT ![pointer[c]].fd = fd]
       /\ open' = With(open, fd, [net |-> net, nonblock |-> FALSE, timed |-> FALSE])
  /\ UNCHANGED pointer

\* The struct is freed, and the variable set to NULL.
Freed(c) ==
  /\ heap' = Without(heap, pointer[c])
  /\ pointer' = [pointer EXCEPT ![c] = Null]
  /\ UNCHANGED open

\* infra_net_close, and the variable set to NULL.
Dropped(c) ==
  /\ heap' = Without(heap, pointer[c])
  /\ open' = Without(open, FdOf(c))
  /\ pointer' = [pointer EXCEPT ![c] = Null]

Kept == UNCHANGED <<heap, open, pointer>>
NoHost == UNCHANGED <<strings, hosts>>

GoesTo(c, place) == call' = [call EXCEPT ![c].at = place]
Return(c) == call' = [call EXCEPT ![c] = NoCall]

-----------------------------------------------------------------------------
(* create_socket, for infra_net_create and _udp_socket, infra_net_udp_bind *)
(* and infra_net_connect.  Without memory for the struct nothing happens.  *)

Begin(c, op, place, udp, blocking, server) ==
  /\ HasNot(c) /\ Allocated(c, udp)
  /\ call' = [call EXCEPT ![c] = [at |-> place, op |-> op, blocking |-> blocking, server |-> server]]
  /\ NoHost

Create(c, udp, nonblock) == Begin(c, "create", "socket", udp, ~nonblock, Null)
UdpBind(c) == Begin(c, "udp_bind", "socket", TRUE, TRUE, Null)

\* create_socket returns to its caller.
Created(c) ==
  CASE call[c].op = "create" -> Return(c)
    [] call[c].op = "udp_bind" -> GoesTo(c, "bind")
    [] call[c].op = "connect" -> GoesTo(c, "target")

MakeSocket(c) ==
  /\ call[c].at = "socket" /\ Opened(c, "new")
  /\ IF call[c].blocking THEN Created(c) ELSE GoesTo(c, "option")
  /\ NoHost

NoSocket(c) ==
  /\ call[c].at = "socket"
  /\ Freed(c) /\ Return(c) /\ NoHost

MakeNonblocking(c) ==
  /\ call[c].at = "option"
  /\ open' = [open EXCEPT ![FdOf(c)].nonblock = TRUE]
  /\ Created(c) /\ NoHost /\ UNCHANGED <<heap, pointer>>

\* Faulty: the struct is freed, but its descriptor stays open.
OptionFailsForgets(c) ==
  /\ call[c].at = "option"
  /\ Freed(c) /\ Return(c) /\ NoHost

OptionFails(c) ==
  /\ call[c].at = "option"
  /\ Dropped(c) /\ Return(c) /\ NoHost

Bind(c) ==
  /\ call[c].at = "bind"
  /\ Kept /\ Return(c) /\ NoHost

\* infra_net_udp_bind closes the socket, but the variable still points there.
BindFails(c) ==
  /\ call[c].at = "bind"
  /\ heap' = Without(heap, pointer[c]) /\ open' = Without(open, FdOf(c))
  /\ call' = [call EXCEPT ![c] = [NoCall EXCEPT !.at = "dangling"]]
  /\ NoHost /\ UNCHANGED pointer

Forget(c) ==
  /\ call[c].at = "dangling"
  /\ pointer' = [pointer EXCEPT ![c] = Null] /\ Return(c)
  /\ NoHost /\ UNCHANGED <<heap, open>>

-----------------------------------------------------------------------------
(* infra_net_accept.                                                       *)

\* c is about to take a connection of d's socket.
Accept(c, d) ==
  /\ Has(d) /\ open[FdOf(d)].net = "listening"
  /\ Begin(c, "accept", "accept", FALSE, FALSE, pointer[d])

TakeConnection(c) ==
  /\ call[c].at = "accept"
  /\ Opened(c, "connected") /\ GoesTo(c, "inherit") /\ NoHost

NoConnection(c) ==
  /\ call[c].at = "accept"
  /\ Freed(c) /\ Return(c) /\ NoHost

ServerIsNonblocking(c) == open[heap[call[c].server].fd].nonblock

\* A connection becomes nonblocking like the socket it is taken from.
Inherit(c) ==
  /\ call[c].at = "inherit"
  /\ open' = [open EXCEPT ![FdOf(c)].nonblock = ServerIsNonblocking(c)]
  /\ GoesTo(c, "address") /\ NoHost /\ UNCHANGED <<heap, pointer>>

InheritFails(c) ==
  /\ call[c].at = "inherit" /\ ServerIsNonblocking(c)
  /\ Dropped(c) /\ Return(c) /\ NoHost

\* The caller has not asked for the other side's address.
AcceptUnnamed(c) ==
  /\ call[c].at = "address"
  /\ Kept /\ Return(c) /\ NoHost

AcceptFinds(c) ==
  /\ call[c].at = "address" /\ strings < MaxHosts
  /\ strings' = strings + 1 /\ GoesTo(c, "name")
  /\ Kept /\ UNCHANGED hosts

\* No memory for the address.
AcceptFindsNone(c) ==
  /\ call[c].at = "address"
  /\ Dropped(c) /\ Return(c) /\ NoHost

\* infra_net_resolve and infra_net_recvfrom.
Resolve(c) ==
  /\ call[c].at = "idle" /\ strings < MaxHosts
  /\ strings' = strings + 1
  /\ call' = [call EXCEPT ![c] = [NoCall EXCEPT !.at = "name", !.op = "resolve"]]
  /\ Kept /\ UNCHANGED hosts

\* inet_ntop writes into the string, and the caller has it.
Name(c) ==
  /\ call[c].at = "name"
  /\ hosts' = hosts + 1 /\ Return(c)
  /\ Kept /\ UNCHANGED strings

NameFails(c) ==
  /\ call[c].at = "name"
  /\ IF call[c].op = "accept" THEN Dropped(c) ELSE Kept
  /\ strings' = strings - 1 /\ Return(c)
  /\ UNCHANGED hosts

\* A caller frees a string that it was given.
FreeHost ==
  /\ hosts > 0
  /\ strings' = strings - 1 /\ hosts' = hosts - 1
  /\ Kept /\ UNCHANGED call

-----------------------------------------------------------------------------
(* Operations of one step, on a socket that the caller has.                *)

Listen(c) ==
  /\ Has(c) /\ ~heap[pointer[c]].udp /\ open[FdOf(c)].net = "new"
  /\ open' = [open EXCEPT ![FdOf(c)].net = "listening"]
  /\ NoHost /\ UNCHANGED <<heap, pointer, call>>

SetNonblock(c, enable) ==
  /\ Has(c)
  /\ open' = [open EXCEPT ![FdOf(c)].nonblock = enable]
  /\ NoHost /\ UNCHANGED <<heap, pointer, call>>

\* Zero milliseconds mean no timeout.
SetTimeout(c, timed) ==
  /\ Has(c)
  /\ open' = [open EXCEPT ![FdOf(c)].timed = timed]
  /\ NoHost /\ UNCHANGED <<heap, pointer, call>>

Close(c) ==
  /\ Has(c) /\ ~Serving(c)
  /\ Dropped(c)
  /\ NoHost /\ UNCHANGED call

-----------------------------------------------------------------------------
(* infra_net_connect.                                                      *)

\* A socket is made if there is none.
Connect(c, blocking) ==
  \/ Begin(c, "connect", "socket", FALSE, blocking, Null)
  \/ /\ Has(c) /\ ~Serving(c)
     /\ call' = [call EXCEPT ![c] = [at |-> "target", op |-> "connect", blocking |-> blocking,
                                    server |-> Null]]
     /\ Kept /\ NoHost

\* The socket goes when the address is bad.
ConnectBadAddress(c) ==
  /\ call[c].at = "target"
  /\ Dropped(c) /\ Return(c) /\ NoHost

\* connect() begins; "again" is one of a socket that is connecting or has been
\* connected.
ConnectBegins(c) ==
  /\ call[c].at = "target"
  /\ LET net == open[FdOf(c)].net
         fresh == net \in {"new", "failed"}
     IN  /\ open' = [open EXCEPT ![FdOf(c)].net =
                        IF heap[pointer[c]].udp THEN "connected"
                        ELSE IF fresh THEN "connecting" ELSE net]
         /\ GoesTo(c, IF fresh THEN "connect" ELSE "again")
  /\ NoHost /\ UNCHANGED <<heap, pointer>>

\* connect() succeeds, or select() has said so; then the options are set.
Connected(c) == Return(c) /\ (Kept \/ Dropped(c))

ConnectSucceeds(c) ==
  /\ call[c].at \in {"connect", "again"} /\ open[FdOf(c)].net = "connected"
  /\ Connected(c)
  /\ NoHost

\* EALREADY and EISCONN are errors as well.
ConnectRefused(c) ==
  /\ call[c].at \in {"connect", "again"}
  /\ Dropped(c) /\ Return(c)
  /\ NoHost

\* EINPROGRESS comes from a nonblocking socket, or one whose timeout is over.
ConnectInProgress(c) ==
  /\ call[c].at = "connect" /\ open[FdOf(c)].net = "connecting"
  /\ open[FdOf(c)].nonblock \/ open[FdOf(c)].timed
  /\ IF call[c].blocking THEN GoesTo(c, "select") ELSE Return(c)
  /\ NoHost /\ Kept

\* 1UL << fd shifts by fd % 64 on the machines it is built for.
Watched(fd) == fd % Bits

\* The time is over, or select fails, as it does for a closed descriptor.
SelectFails(c) ==
  /\ call[c].at = "select"
  /\ Dropped(c) /\ Return(c)
  /\ NoHost

Writable(fd) == fd \in DOMAIN open /\ open[fd].net \notin {"listening", "connecting"}

\* Faulty: SO_ERROR is not asked for.
SelectTrusts(c) ==
  /\ call[c].at = "select" /\ Writable(Watched(FdOf(c)))
  /\ Connected(c)
  /\ NoHost

\* SO_ERROR tells whether the connection has failed.
SelectReady(c) ==
  /\ call[c].at = "select" /\ Writable(Watched(FdOf(c)))
  /\ IF open[FdOf(c)].net = "failed" THEN Return(c) /\ Dropped(c) ELSE Connected(c)
  /\ NoHost

\* The other side, or the way to it.
NetAnswers(fd) ==
  /\ open[fd].net = "connecting"
  /\ \E net \in {"connected", "failed"} : open' = [open EXCEPT ![fd].net = net]
  /\ NoHost /\ UNCHANGED <<heap, pointer, call>>

SocketNext ==
  \/ \E c \in Callers :
       \/ \E b \in BOOLEAN :
            \/ \E udp \in BOOLEAN : Create(c, udp, b)
            \/ SetNonblock(c, b) \/ SetTimeout(c, b) \/ Connect(c, b)
       \/ UdpBind(c) \/ MakeSocket(c) \/ NoSocket(c) \/ MakeNonblocking(c) \/ OptionFails(c)
       \/ Bind(c) \/ BindFails(c) \/ Forget(c) \/ Listen(c) \/ Close(c)
       \/ \E d \in Callers : Accept(c, d)
       \/ TakeConnection(c) \/ NoConnection(c) \/ Inherit(c) \/ InheritFails(c)
       \/ AcceptUnnamed(c) \/ AcceptFinds(c) \/ AcceptFindsNone(c)
       \/ Resolve(c) \/ Name(c) \/ NameFails(c)
       \/ ConnectBadAddress(c) \/ ConnectBegins(c) \/ ConnectSucceeds(c) \/ ConnectRefused(c)
       \/ ConnectInProgress(c) \/ SelectFails(c) \/ SelectReady(c)
  \/ FreeHost
  \/ \E fd \in DOMAIN open : NetAnswers(fd)

SocketSpec == SocketInit /\ [][SocketNext]_socket_vars

-----------------------------------------------------------------------------
\* Callers whose variable leads to a struct, and the strings in the hands of
\* calls.
Holders == {c \in Callers : pointer[c] # Null /\ call[c].at # "dangling"}
Naming == {c \in Callers : call[c].at = "name"}

\* Wherever a call fails, each step of create, udp_bind, accept, connect and
\* resolve has undone exactly what was done before it: structs, descriptors and
\* address strings belong to callers one to one, no struct is without a
\* descriptor except while its call has yet to ask for one, and so none leaks
\* or is given up twice (13-54, 135-195, 197-326).  The variable that udp_bind
\* leaves dangling (474, 480) is excepted.
SocketsAreOwned ==
  /\ DOMAIN heap = {pointer[c] : c \in Holders}
  /\ DOMAIN open = {heap[a].fd : a \in DOMAIN heap} \ {NoDescriptor}
  /\ \A c, d \in Holders : pointer[c] = pointer[d] => c = d
  /\ \A a, b \in DOMAIN heap : heap[a].fd = heap[b].fd /\ heap[a].fd # NoDescriptor => a = b
  /\ \A c \in Holders : FdOf(c) = NoDescriptor <=> call[c].at \in Bare
  /\ strings = hosts + Cardinality(Naming)

\* When infra_net_connect with a blocking config returns and leaves the
\* socket, the socket is connected: neither a time that is over nor an answer
\* for another socket passes for success (234-273).  Only from descriptor Bits
\* on it may be, for select watches another one (239).
ConnectedWhenOk ==
  [][\A c \in Callers :
       call[c].op = "connect" /\ call[c].blocking /\ call'[c].at = "idle" /\ pointer'[c] # Null =>
         LET fd == heap[pointer[c]].fd
         IN  fd >= Bits \/ open'[fd].net = "connected"]_socket_vars
=============================================================================
