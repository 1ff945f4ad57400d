--------------------------------- MODULE Mux ---------------------------------
(***************************************************************************)
(* The event multiplexer: infra_mux_epoll.c on the epoll calls of          *)
(* infra_platform.c.  Threads wait for events while others add, modify and *)
(* remove descriptors, and descriptors are opened and closed.              *)
(*                                                                         *)
(* epoll_wait writes what it reports into a buffer of the multiplexer, and *)
(* infra_mux_wait copies it from there to its caller afterwards: these are *)
(* two steps, and all threads that wait share the buffer.  infra_mux_create *)
(* takes a step for each thing it needs, and one to undo what it has.      *)
(*                                                                         *)
(* Which events the kernel reports is its own choice, level or edge        *)
(* triggered, among those asked for, errors and hang-ups.                  *)
(***************************************************************************)
EXTENDS Naturals, Sequences, FiniteSets

CONSTANTS
  Waiters,    \* threads that wait for events
  MuxFds,     \* descriptors, positive numbers
  Flags,      \* "read", "write" and "error", or some of them
  MaxEvents,  \* config.mux.max_events
  MaxRoom     \* bound: the array of a caller

VARIABLES
  pieces,      \* what is allocated for the multiplexer
  wanted,      \* what infra_mux_create is about to ask for, or "nothing"
  handle,      \* whether the caller has one
  opened,      \* the kernel: descriptors that are open
  registered,  \* the kernel: descriptor |-> what was asked for, and data.fd
  buffer,      \* impl->events
  wait,        \* the threads in infra_mux_wait
  told         \* what the kernel had written for each, under true names

mux_vars == <<pieces, wanted, handle, opened, registered, buffer, wait, told>>

Pieces == {"mux", "impl", "epoll", "events"}
Interests == SUBSET Flags
Raw == SUBSET (Flags \cup {"hangup"}) \ {{}}
NoFd == 0
Reports == [fd : MuxFds \cup {NoFd}, events : SUBSET (Flags \cup {"hangup"})]

\* "waiting" in epoll_wait; "copying" after it; "done" with its report.
MuxTypeOK ==
  /\ pieces \subseteq Pieces /\ wanted \in Pieces \cup {"nothing"} /\ handle \in BOOLEAN
  /\ opened \subseteq MuxFds /\ DOMAIN registered \subseteq opened
  /\ \A f \in DOMAIN registered :
       registered[f] \in [interest : Interests, data : MuxFds \cup {NoFd}]
  /\ buffer \in Seq(Reports)
  /\ wait \in [Waiters -> [at : {"idle", "waiting", "copying", "done"}, room : 0 .. MaxRoom,
                           others : SUBSET Reports, report : Seq(Reports)]]
  /\ told \in [Waiters -> Seq(Reports)]

Away == [at |-> "idle", room |-> 0, others |-> {}, report |-> <<>>]

MuxInit ==
  /\ pieces = {} /\ wanted = "nothing" /\ handle = FALSE
  /\ opened = {} /\ registered = <<>>
  /\ buffer = <<>>
  /\ wait = [w \in Waiters |-> Away]
  /\ told = [w \in Waiters |-> <<>>]

Waiting == UNCHANGED <<buffer, wait, told>>

-----------------------------------------------------------------------------

\* infra_mux_create gets mux, impl, epoll and events in this order.
Following == [mux |-> "impl", impl |-> "epoll", epoll |-> "events", events |-> "nothing"]

MuxCreate ==
  /\ ~handle /\ wanted = "nothing"
  /\ wanted' = "mux"
  /\ UNCHANGED <<pieces, handle, opened, registered>> /\ Waiting

MuxGets ==
  /\ wanted # "nothing"
  /\ pieces' = pieces \cup {wanted}
  /\ wanted' = Following[wanted]
  /\ handle' = (wanted = "events")
  /\ UNCHANGED <<opened, registered>> /\ Waiting

\* Faulty: the epoll descriptor stays open when there is no memory for events.
UndoneLeaves(piece) ==
  CASE piece = "mux"    -> {}
    [] piece = "impl"   -> {"mux"}
    [] piece = "epoll"  -> {"impl", "mux"}
    [] piece = "events" -> {"impl", "mux"}

\* What it gives back when there is no such piece for it.
Undone(piece) ==
  CASE piece = "mux"    -> {}
    [] piece = "impl"   -> {"mux"}
    [] piece = "epoll"  -> {"impl", "mux"}
    [] piece = "events" -> {"epoll", "impl", "mux"}

MuxGetsNone ==
  /\ wanted # "nothing"
  /\ pieces' = pieces \ Undone(wanted)
  /\ wanted' = "nothing"
  /\ UNCHANGED <<handle, opened, registered>> /\ Waiting

\* infra_mux_destroy, when nobody waits.
MuxDestroy ==
  /\ handle /\ \A w \in Waiters : wait[w].at \in {"idle", "done"}
  /\ pieces' = pieces \ Pieces /\ handle' = FALSE
  /\ registered' = <<>> /\ buffer' = <<>>
  /\ UNCHANGED <<wanted, opened, wait, told>>

Register(f, interest, data) ==
  registered' = [g \in DOMAIN registered \cup {f} |->
                   IF g = f THEN [interest |-> interest, data |-> data] ELSE registered[g]]

\* The kernel refuses what is not open or there already, and for the next two,
\* what is not there.  user_data is ignored.
MuxAdd(f, interest) ==
  /\ handle /\ f \in opened \ DOMAIN registered
  /\ Register(f, interest, f)
  /\ UNCHANGED <<pieces, wanted, handle, opened>> /\ Waiting

\* Faulty: data.fd is not filled in.
MuxModifyWithoutFd(f, interest) ==
  /\ handle /\ f \in DOMAIN registered
  /\ Register(f, interest, NoFd)
  /\ UNCHANGED <<pieces, wanted, handle, opened>> /\ Waiting

MuxModify(f, interest) ==
  /\ handle /\ f \in DOMAIN registered
  /\ Register(f, interest, f)
  /\ UNCHANGED <<pieces, wanted, handle, opened>> /\ Waiting

Only(S) == [f \in S |-> registered[f]]

MuxRemove(f) ==
  /\ handle /\ f \in DOMAIN registered
  /\ registered' = Only(DOMAIN registered \ {f})
  /\ UNCHANGED <<pieces, wanted, handle, opened>> /\ Waiting

\* Other modules open and close descriptors; epoll forgets a closed one.
FdOpens(f) ==
  /\ opened' = opened \cup {f}
  /\ UNCHANGED <<pieces, wanted, handle, registered>> /\ Waiting

FdCloses(f) ==
  /\ opened' = opened \ {f} /\ registered' = Only(DOMAIN registered \ {f})
  /\ UNCHANGED <<pieces, wanted, handle>> /\ Waiting

-----------------------------------------------------------------------------

WaitCall(w, room) ==
  /\ handle /\ wait[w].at \in {"idle", "done"}
  /\ wait' = [wait EXCEPT ![w] = [at |-> "waiting", room |-> room, others |-> {}, report |-> <<>>]]
  /\ told' = [told EXCEPT ![w] = <<>>]
  /\ UNCHANGED <<pieces, wanted, handle, opened, registered, buffer>>

\* num_events.
Limit(room) == IF room < MaxEvents THEN room ELSE MaxEvents

Lists(n) == UNION {{q \in [1 .. k -> DOMAIN registered] :
                      \A i, j \in 1 .. k : q[i] = q[j] => i = j} : k \in 0 .. n}

Said(reports) == {reports[i] : i \in DOMAIN reports}

\* EINTR makes the thread wait again, which is no step; nothing to report is a
\* timeout, or an error.
KernelReports(w) ==
  /\ wait[w].at = "waiting"
  /\ \E fds \in Lists(Limit(wait[w].room)) :
       \E raw \in [DOMAIN fds -> Raw] :
         /\ \A i \in DOMAIN fds :
              raw[i] \subseteq registered[fds[i]].interest \cup {"error", "hangup"}
         /\ buffer' = [i \in 1 .. Len(buffer) \cup DOMAIN fds |->
              IF i \in DOMAIN fds THEN [fd |-> registered[fds[i]].data, events |-> raw[i]]
              ELSE buffer[i]]
         /\ told' = [told EXCEPT ![w] = [i \in DOMAIN fds |-> [fd |-> fds[i], events |-> raw[i]]]]
  /\ wait' = [v \in Waiters |->
                IF v = w THEN [wait[v] EXCEPT !.at = "copying"]
                ELSE IF wait[v].at = "copying" THEN [wait[v] EXCEPT !.others = @ \cup Said(told'[w])]
                ELSE wait[v]]
  /\ UNCHANGED <<pieces, wanted, handle, opened, registered>>

\* A hang-up has no flag of its own and is not passed on.
Converted(e) == [e EXCEPT !.events = @ \ {"hangup"}]

WaitReturns(w) ==
  /\ wait[w].at = "copying"
  /\ wait' = [wait EXCEPT ![w].at = "done",
                          ![w].report = [i \in 1 .. Len(told[w]) |-> Converted(buffer[i])]]
  /\ UNCHANGED <<pieces, wanted, handle, opened, registered, buffer, told>>

MuxNext ==
  \/ MuxCreate \/ MuxGets \/ MuxGetsNone \/ MuxDestroy
  \/ \E f \in MuxFds :
       \/ \E interest \in Interests : MuxAdd(f, interest) \/ MuxModify(f, interest)
       \/ f \notin opened /\ FdOpens(f)
       \/ f \in opened /\ FdCloses(f)
       \/ MuxRemove(f)
  \/ \E w \in Waiters :
       \/ \E room \in 1 .. MaxRoom : WaitCall(w, room)
       \/ KernelReports(w) \/ WaitReturns(w)

MuxSpec == MuxInit /\ [][MuxNext]_mux_vars

-----------------------------------------------------------------------------
(* infra_mux_create, wherever it fails, has given back all that it had, and *)
(* leaves a whole multiplexer otherwise (106-149); infra_mux_destroy leaves *)
(* nothing.                                                                 *)
MuxIsWhole == wanted = "nothing" => pieces = IF handle THEN Pieces ELSE {}

(* A thread that waits gets as many events as the kernel has for it, no     *)
(* more than its array and the shared buffer hold.  Each is the one that    *)
(* the kernel meant, about the descriptor it meant, whatever others         *)
(* register, modify and close meanwhile; or, at most, one that the kernel   *)
(* wrote over it for another thread before it was copied (70-94).           *)
MuxReportsAreTheirs ==
  [][\A w \in Waiters :
       wait[w].at = "copying" /\ wait'[w].at = "done" =>
         LET report == wait'[w].report
         IN  /\ Len(report) = Len(told[w])
             /\ Len(report) <= wait[w].room /\ Len(report) <= MaxEvents
             /\ \A i \in 1 .. Len(report) :
                  \E meant \in {told[w][i]} \cup wait[w].others : report[i] = Converted(meant)
    ]_mux_vars
=============================================================================
