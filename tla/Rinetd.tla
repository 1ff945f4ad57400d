------------------------------- MODULE Rinetd -------------------------------
(***************************************************************************)
(* The TCP forwarding service of ppdb/src/internal/peer/peer_rinetd.c on   *)
(* the sockets of infra_net.c.  Three kinds of threads share g_context:    *)
(*   - the control thread, which calls rinetd_init, _cleanup, _add_rule,   *)
(*     _remove_rule and the --start and --stop commands, one at a time;    *)
(*   - one listener_thread for each enabled rule, which accepts clients    *)
(*     and creates a session for each;                                     *)
(*   - for each session a forward and a backward thread, which copy until  *)
(*     an end of the connection fails.                                     *)
(* Nothing but show_status and the configuration check takes the mutex, so *)
(* each access to g_context that another thread can see is a step.         *)
(*                                                                         *)
(* A connection is one client that a listener accepts; its two sockets and *)
(* two threads bear its name.  The bytes copied are left out, and so is    *)
(* the config file, which the code does not read.  The one mutex is only   *)
(* modelled as "the service is initialised".                               *)
(***************************************************************************)
EXTENDS Naturals, Sequences, FiniteSets

CONSTANTS
  MaxRules,     \* RINETD_MAX_RULES as the number of rules and of listeners
  MaxSessions,  \* RINETD_MAX_RULES as the number of sessions
  Sources,      \* what rules listen on: src_addr with src_port
  Listeners,    \* identities of listener threads
  Connections,  \* the clients that ever connect
  Enabled,      \* what the `enabled` of a rule to add may be
  MuxCreated,   \* whether infra_mux_create(NULL, ...) succeeds
  None

\* MuxCreated is FALSE with infra_mux.c as it is, which refuses a NULL
\* config: rinetd_init then ends the process.  With TRUE the module describes
\* the service that rinetd_init is there to set up and that
\* test_peer_rinetd.c drives.
ASSUME RinetdAssumption ==
  /\ MaxRules \in Nat \ {0} /\ MaxSessions \in Nat \ {0}
  /\ MuxCreated \in BOOLEAN /\ Enabled \subseteq BOOLEAN
  /\ IsFiniteSet(Listeners) /\ IsFiniteSet(Connections)
  /\ None \notin Listeners \cup Connections

VARIABLES
  inited,            \* g_context.mutex is not NULL
  running,           \* g_context.running
  rules,             \* rules[0 .. rule_count - 1]
  listener_threads,  \* g_context.listener_threads
  session,           \* g_context.active_sessions
  counted,           \* session_count is not zero
  ctl,               \* where the control thread is
  listener,          \* where each listener thread is, with its locals
  thread,            \* where each forward and backward thread is
  sock,              \* the two sockets of a connection
  shared,            \* sessions that were set up while another used them
  failed             \* start_service has failed and left listeners behind

context == <<inited, running, rules, listener_threads>>
history == <<shared, failed>>
vars == <<context, session, counted, ctl, listener, thread, sock, history>>

Handles == 1 .. MaxRules
Slots == 1 .. MaxSessions
Threads == Connections \X {"forward", "backward"}
Forward(c) == <<c, "forward">>
Backward(c) == <<c, "backward">>

\* "setup": before the first test of g_context.running.  "test": before a later
\* one.  "accept": in that call.  In create_forward_session, "server": before
\* the creation of the server's socket.  "connect": in that call.  "scan":
\* looking at session `slot`.  "fill": has found it free.  "forward",
\* "backward": before the creation of that thread.  "refuse": has got NULL from
\* create_forward_session.  "done": has returned from the loop; "broken":
\* without having come to it.
ListenerStates == {"none", "setup", "test", "accept", "server", "connect", "scan",
                   "fill", "forward", "backward", "refuse", "done", "broken"}
Returned == {"done", "broken"}

\* "start": has not yet read its sockets from the session.  "test": at
\* while (session->active).  "recv": in infra_net_recv, or the send that
\* follows.  "ending": has found active false and will write it again.
ThreadStates == {"none", "failed", "start", "test", "recv", "ending", "done"}

\* "start": in the loop of start_service.  "listeners", "sessions": in the
\* loops of stop_service.  "forward", "backward": joining the threads of
\* session i there.  "aborted": the process has ended in rinetd_init.
ControlStates == {"idle", "start", "listeners", "sessions", "forward", "backward",
                  "aborted"}

NoListener == [pc |-> "none", rule |-> 0, conn |-> None, slot |-> 0]
NoThread == [pc |-> "none", slot |-> 0, conn |-> None]
NoSession == [active |-> FALSE, conn |-> None, forward |-> None, backward |-> None]

AliveListener(l) == listener[l].pc \notin Returned \cup {"none"}
AliveThread(t) == thread[t].pc \notin {"none", "failed", "done"}

TypeOK ==
  /\ inited \in BOOLEAN /\ running \in BOOLEAN /\ counted \in BOOLEAN
  /\ rules \in Seq([src : Sources, enabled : BOOLEAN]) /\ Len(rules) <= MaxRules
  /\ listener_threads \in [Handles -> Listeners \cup {None}]
  /\ session \in [Slots -> [active : BOOLEAN, conn : Connections \cup {None},
                            forward : Connections \cup {None},
                            backward : Connections \cup {None}]]
  /\ ctl \in [pc : ControlStates, i : Nat]
  /\ listener \in [Listeners -> [pc : ListenerStates, rule : 0 .. MaxRules,
                                 conn : Connections \cup {None},
                                 slot : 0 .. MaxSessions + 1]]
  /\ thread \in [Threads -> [pc : ThreadStates, slot : 0 .. MaxSessions,
                             conn : Connections \cup {None}]]
  /\ sock \in [Connections -> [client : {"none", "open", "closed"},
                               server : {"none", "open", "closed"}]]
  /\ shared \subseteq Slots /\ failed \in BOOLEAN

Init ==
  /\ inited = FALSE /\ running = FALSE /\ counted = FALSE
  /\ rules = <<>>
  /\ listener_threads = [h \in Handles |-> None]
  /\ session = [s \in Slots |-> NoSession]
  /\ ctl = [pc |-> "idle", i |-> 0]
  /\ listener = [l \in Listeners |-> NoListener]
  /\ thread = [t \in Threads |-> NoThread]
  /\ sock = [c \in Connections |-> [client |-> "none", server |-> "none"]]
  /\ shared = {} /\ failed = FALSE

-----------------------------------------------------------------------------
(* The control thread between commands: init, cleanup and the rules.  A    *)
(* call that is refused changes nothing and is left out.                   *)

Idle == ctl.pc = "idle"

\* memset of g_context.  Threads that have returned and were not joined are
\* forgotten.
ClearContext ==
  /\ running' = FALSE /\ counted' = FALSE
  /\ rules' = <<>>
  /\ listener_threads' = [h \in Handles |-> None]
  /\ session' = [s \in Slots |-> NoSession]
  /\ listener' = [l \in Listeners |-> NoListener]
  /\ failed' = FALSE
  /\ UNCHANGED <<ctl, thread, sock, shared>>

\* Without a multiplexer infra_mutex_destroy gets the address of g_context.mutex
\* for the mutex, and frees it: free() of static storage aborts.
RinetdInit ==
  /\ Idle /\ ~inited
  /\ IF MuxCreated
       THEN inited' = TRUE /\ ClearContext
       ELSE /\ ctl' = [pc |-> "aborted", i |-> 0]
            /\ UNCHANGED <<context, session, counted, listener, thread, sock, history>>

\* The loop that cleans up sessions runs while session_count > 0; that it
\* finds none is part of StoppedServiceIsQuiet.  Bound: no cleanup while a
\* listener lives that a failed start has left behind.
RinetdCleanup ==
  /\ Idle /\ ~running /\ ~counted /\ \A l \in Listeners : ~AliveListener(l)
  /\ inited' = FALSE
  /\ ClearContext

\* Faulty: the last rule is not compared.
SameSourceButLast(src) ==
  \E i \in 1 .. Len(rules) - 1 : rules[i].enabled /\ rules[i].src = src

SameSource(src) ==
  \E i \in DOMAIN rules : rules[i].enabled /\ rules[i].src = src

\* Bound: the rules change only until the first client is connected.  Sessions
\* do not look at the rules, and listeners meet every change before that.
NobodyYet == \A c \in Connections : sock[c].client = "none"

\* Faulty: the limit on the number of rules is off by one.
AddRuleUpTo(src, enabled) ==
  /\ Idle /\ NobodyYet
  /\ Len(rules) <= MaxRules /\ ~SameSource(src)
  /\ rules' = Append(rules, [src |-> src, enabled |-> enabled])
  /\ UNCHANGED <<inited, running, listener_threads, session, counted, ctl,
                 listener, thread, sock, history>>

\* rinetd_add_rule, also while the service is running.
AddRule(src, enabled) ==
  /\ Idle /\ NobodyYet
  /\ Len(rules) < MaxRules /\ ~SameSource(src)
  /\ rules' = Append(rules, [src |-> src, enabled |-> enabled])
  /\ UNCHANGED <<inited, running, listener_threads, session, counted, ctl,
                 listener, thread, sock, history>>

\* Faulty: a rule may be removed while its listener runs.
RemoveRuleAnytime(i) ==
  /\ Idle /\ NobodyYet
  /\ rules' = IF i = Len(rules) THEN SubSeq(rules, 1, i - 1)
                                ELSE [rules EXCEPT ![i].enabled = FALSE]
  /\ UNCHANGED <<inited, running, listener_threads, session, counted, ctl,
                 listener, thread, sock, history>>

\* rinetd_remove_rule: the last rule goes, any other is only disabled.
RemoveRule(i) ==
  /\ Idle /\ NobodyYet /\ ~running
  /\ rules' = IF i = Len(rules) THEN SubSeq(rules, 1, i - 1)
                                ELSE [rules EXCEPT ![i].enabled = FALSE]
  /\ UNCHANGED <<inited, running, listener_threads, session, counted, ctl,
                 listener, thread, sock, history>>

-----------------------------------------------------------------------------
(* start_service.  running is set when all listeners have been created.    *)

StartBegin ==
  /\ Idle /\ inited /\ ~running /\ rules # <<>>
  /\ ctl' = [pc |-> "start", i |-> 1]
  /\ UNCHANGED <<context, session, counted, listener, thread, sock, history>>

FreeHandles == {h \in Handles : listener_threads[h] = None}

\* create_listener puts the thread into the first free handle.
StartListener ==
  /\ ctl.pc = "start" /\ ctl.i \in DOMAIN rules
  /\ rules[ctl.i].enabled /\ FreeHandles # {}
  /\ \E l \in Listeners :
       /\ listener[l].pc = "none"
       /\ listener' = [listener EXCEPT ![l] = [NoListener EXCEPT !.pc = "setup", !.rule = ctl.i]]
       /\ listener_threads' =
            [listener_threads EXCEPT
               ![CHOOSE h \in FreeHandles : \A k \in FreeHandles : h <= k] = l]
  /\ ctl' = [ctl EXCEPT !.i = @ + 1]
  /\ UNCHANGED <<inited, running, rules, session, counted, thread, sock, history>>

\* A disabled rule, or no free handle: create_listener then returns INFRA_OK
\* without a thread.
StartSkips ==
  /\ ctl.pc = "start" /\ ctl.i \in DOMAIN rules
  /\ ~rules[ctl.i].enabled \/ FreeHandles = {}
  /\ ctl' = [ctl EXCEPT !.i = @ + 1]
  /\ UNCHANGED <<context, session, counted, listener, thread, sock, history>>

\* The thread cannot be created.  stop_service is called, which does nothing
\* since running is still false: listeners already created stay.  Bound: not
\* again before a stop has joined what the first left behind.
StartFails ==
  /\ ctl.pc = "start" /\ ctl.i \in DOMAIN rules /\ ~failed
  /\ rules[ctl.i].enabled /\ FreeHandles # {}
  /\ ctl' = [pc |-> "idle", i |-> 0]
  /\ failed' = TRUE
  /\ UNCHANGED <<context, session, counted, listener, thread, sock, shared>>

StartReturns ==
  /\ ctl.pc = "start" /\ ctl.i \notin DOMAIN rules
  /\ running' = TRUE
  /\ ctl' = [pc |-> "idle", i |-> 0]
  /\ UNCHANGED <<inited, rules, listener_threads, session, counted, listener,
                 thread, sock, history>>

-----------------------------------------------------------------------------
(* stop_service.                                                           *)

\* Faulty: running is not cleared before the listeners are joined.
StopBeginLate ==
  /\ Idle /\ inited /\ running
  /\ ctl' = [pc |-> "listeners", i |-> 1]
  /\ UNCHANGED <<context, session, counted, listener, thread, sock, history>>

StopBegin ==
  /\ Idle /\ inited /\ running
  /\ running' = FALSE
  /\ ctl' = [pc |-> "listeners", i |-> 1]
  /\ UNCHANGED <<inited, rules, listener_threads, session, counted, listener,
                 thread, sock, history>>

\* Faulty: the last handle is not looked at.
JoinListenerButLast ==
  /\ ctl.pc = "listeners"
  /\ IF ctl.i < MaxRules
       THEN /\ ctl' = [ctl EXCEPT !.i = @ + 1]
            /\ LET l == listener_threads[ctl.i]
               IN  \/ l = None /\ UNCHANGED <<listener, listener_threads>>
                   \/ /\ l # None /\ listener[l].pc \in Returned
                      /\ listener' = [listener EXCEPT ![l] = NoListener]
                      /\ listener_threads' = [listener_threads EXCEPT ![ctl.i] = None]
       ELSE ctl' = [pc |-> "sessions", i |-> 1] /\ UNCHANGED <<listener, listener_threads>>
  /\ UNCHANGED <<inited, running, rules, session, counted, thread, sock, history>>

JoinListener ==
  /\ ctl.pc = "listeners"
  /\ IF ctl.i <= MaxRules
       THEN /\ ctl' = [ctl EXCEPT !.i = @ + 1]
            /\ LET l == listener_threads[ctl.i]
               IN  \/ l = None /\ UNCHANGED <<listener, listener_threads>>
                   \/ /\ l # None /\ listener[l].pc \in Returned
                      /\ listener' = [listener EXCEPT ![l] = NoListener]
                      /\ listener_threads' = [listener_threads EXCEPT ![ctl.i] = None]
       ELSE ctl' = [pc |-> "sessions", i |-> 1] /\ UNCHANGED <<listener, listener_threads>>
  /\ UNCHANGED <<inited, running, rules, session, counted, thread, sock, history>>

\* A session that is not active any more is passed over, with its sockets and
\* with its threads, one of which may still be in recv.
StopSession ==
  /\ ctl.pc = "sessions" /\ ctl.i <= MaxSessions
  /\ IF session[ctl.i].active
       THEN /\ session' = [session EXCEPT ![ctl.i].active = FALSE]
            /\ ctl' = [ctl EXCEPT !.pc = "forward"]
       ELSE /\ ctl' = [ctl EXCEPT !.i = @ + 1]
            /\ UNCHANGED session
  /\ UNCHANGED <<context, counted, listener, thread, sock, history>>

\* infra_thread_join of a handle that the session has.
Joinable(c, t) == c # None => thread[t].pc = "done"

JoinForward ==
  /\ ctl.pc = "forward"
  /\ LET c == session[ctl.i].forward IN Joinable(c, Forward(c))
  /\ session' = [session EXCEPT ![ctl.i].forward = None]
  /\ ctl' = [ctl EXCEPT !.pc = "backward"]
  /\ UNCHANGED <<context, counted, listener, thread, sock, history>>

\* Faulty: the sockets are closed without waiting for the backward thread.
CloseSessionEarly ==
  /\ ctl.pc = "backward"
  /\ LET c == session[ctl.i].conn
     IN  sock' = IF c = None THEN sock
                 ELSE [sock EXCEPT ![c] = [client |-> "closed", server |-> "closed"]]
  /\ session' = [session EXCEPT ![ctl.i].backward = None, ![ctl.i].conn = None]
  /\ ctl' = [pc |-> "sessions", i |-> ctl.i + 1]
  /\ UNCHANGED <<context, counted, listener, thread, history>>

\* The backward thread is joined and the session's sockets are closed.
CloseSession ==
  /\ ctl.pc = "backward"
  /\ LET c == session[ctl.i].backward IN Joinable(c, Backward(c))
  /\ LET c == session[ctl.i].conn
     IN  sock' = IF c = None THEN sock
                 ELSE [sock EXCEPT ![c] = [client |-> "closed", server |-> "closed"]]
  /\ session' = [session EXCEPT ![ctl.i].backward = None, ![ctl.i].conn = None]
  /\ ctl' = [pc |-> "sessions", i |-> ctl.i + 1]
  /\ UNCHANGED <<context, counted, listener, thread, history>>

StopReturns ==
  /\ ctl.pc = "sessions" /\ ctl.i > MaxSessions
  /\ counted' = FALSE
  /\ ctl' = [pc |-> "idle", i |-> 0]
  /\ failed' = FALSE
  /\ UNCHANGED <<context, session, listener, thread, sock, shared>>

-----------------------------------------------------------------------------
(* listener_thread.                                                        *)

Goes(l, pc) == listener' = [listener EXCEPT ![l].pc = pc]

\* Back to the loop, with the connection it was busy with given up or served.
LoopsAgain(l) ==
  listener' = [listener EXCEPT ![l].pc = "test", ![l].conn = None, ![l].slot = 0]

ListenerTests(l) ==
  /\ listener[l].pc \in {"setup", "test"}
  /\ Goes(l, IF running THEN "accept" ELSE "done")
  /\ UNCHANGED <<context, session, counted, ctl, thread, sock, history>>

\* Creating the socket, bind or listen fails, and the thread returns.
ListenerFails(l) ==
  /\ listener[l].pc = "setup"
  /\ Goes(l, "broken")
  /\ UNCHANGED <<context, session, counted, ctl, thread, sock, history>>

\* A client is accepted; create_forward_session is called for it.
Accepts(l) ==
  /\ listener[l].pc = "accept"
  /\ \E c \in Connections :
       /\ sock[c].client = "none"
       /\ sock' = [sock EXCEPT ![c].client = "open"]
       /\ listener' = [listener EXCEPT ![l].pc = "server", ![l].conn = c]
  /\ UNCHANGED <<context, session, counted, ctl, thread, history>>

AcceptFails(l) ==
  /\ listener[l].pc = "accept"
  /\ Goes(l, "test")
  /\ UNCHANGED <<context, session, counted, ctl, thread, sock, history>>

\* create_forward_session returns NULL, before it has a socket for the server.
Refused(l) == listener' = [listener EXCEPT ![l].pc = "refuse", ![l].slot = 0]

\* The same after it has closed that socket.
GivesUp(l) ==
  /\ sock' = [sock EXCEPT ![listener[l].conn].server = "closed"]
  /\ Refused(l)

CreatesServer(l) ==
  /\ listener[l].pc = "server"
  /\ sock' = [sock EXCEPT ![listener[l].conn].server = "open"]
  /\ Goes(l, "connect")
  /\ UNCHANGED <<context, session, counted, ctl, thread, history>>

ServerFails(l) ==
  /\ listener[l].pc = "server"
  /\ Refused(l)
  /\ UNCHANGED <<context, session, counted, ctl, thread, sock, history>>

Connects(l) ==
  /\ listener[l].pc = "connect"
  /\ listener' = [listener EXCEPT ![l].pc = "scan", ![l].slot = 1]
  /\ UNCHANGED <<context, session, counted, ctl, thread, sock, history>>

\* The socket is closed here or in infra_net_connect already.
ConnectFails(l) ==
  /\ listener[l].pc = "connect"
  /\ GivesUp(l)
  /\ UNCHANGED <<context, session, counted, ctl, thread, history>>

\* listener_thread closes the client that it has got no session for.
ClosesClient(l) ==
  /\ listener[l].pc = "refuse"
  /\ sock' = [sock EXCEPT ![listener[l].conn].client = "closed"]
  /\ LoopsAgain(l)
  /\ UNCHANGED <<context, session, counted, ctl, thread, history>>

\* One look at one session's active flag.
Scans(l) ==
  /\ listener[l].pc = "scan" /\ listener[l].slot <= MaxSessions
  /\ IF session[listener[l].slot].active
       THEN listener' = [listener EXCEPT ![l].slot = @ + 1]
       ELSE Goes(l, "fill")
  /\ UNCHANGED <<context, session, counted, ctl, thread, sock, history>>

\* Faulty: without a free session the server's socket is not closed.
NoSlotForgets(l) ==
  /\ listener[l].pc = "scan" /\ listener[l].slot > MaxSessions
  /\ Refused(l)
  /\ UNCHANGED <<context, session, counted, ctl, thread, sock, history>>

NoSlot(l) ==
  /\ listener[l].pc = "scan" /\ listener[l].slot > MaxSessions
  /\ GivesUp(l)
  /\ UNCHANGED <<context, session, counted, ctl, thread, history>>

\* Others at work in a session: threads that have not returned, and listeners
\* that are about to create some.
Users(s) ==
  {t \in Threads : AliveThread(t) /\ thread[t].slot = s} \cup
  {l \in Listeners : listener[l].pc \in {"forward", "backward"} /\ listener[l].slot = s}

Fills(l) ==
  LET s == listener[l].slot
  IN  /\ listener[l].pc = "fill"
      /\ session' = [session EXCEPT ![s].conn = listener[l].conn, ![s].active = TRUE]
      /\ shared' = IF Users(s) = {} THEN shared ELSE shared \cup {s}
      /\ Goes(l, "forward")
      /\ UNCHANGED <<context, counted, ctl, thread, sock, failed>>

NewThread(s) == [NoThread EXCEPT !.pc = "start", !.slot = s]

CreatesForward(l) ==
  LET c == listener[l].conn
      s == listener[l].slot
  IN  /\ listener[l].pc = "forward"
      /\ thread' = [thread EXCEPT ![Forward(c)] = NewThread(s)]
      /\ session' = [session EXCEPT ![s].forward = c]
      /\ Goes(l, "backward")
      /\ UNCHANGED <<context, counted, ctl, sock, history>>

CreatesBackward(l) ==
  LET c == listener[l].conn
      s == listener[l].slot
  IN  /\ listener[l].pc = "backward"
      /\ thread' = [thread EXCEPT ![Backward(c)] = NewThread(s)]
      /\ session' = [session EXCEPT ![s].backward = c]
      /\ counted' = TRUE
      /\ LoopsAgain(l)
      /\ UNCHANGED <<context, ctl, sock, history>>

ForwardFails(l) ==
  /\ listener[l].pc = "forward"
  /\ session' = [session EXCEPT ![listener[l].slot].active = FALSE]
  /\ GivesUp(l)
  /\ UNCHANGED <<context, counted, ctl, thread, history>>

\* infra_thread_join gets the address of the handle for the handle.  Of what
\* that can do, the model takes an error: the forward thread is not waited for.
BackwardFails(l) ==
  /\ listener[l].pc = "backward"
  /\ thread' = [thread EXCEPT ![Backward(listener[l].conn)].pc = "failed"]
  /\ session' = [session EXCEPT ![listener[l].slot].active = FALSE]
  /\ GivesUp(l)
  /\ UNCHANGED <<context, counted, ctl, history>>

-----------------------------------------------------------------------------
(* forward_thread and backward_thread, which differ only in direction.     *)

ThreadStarts(t) ==
  /\ thread[t].pc = "start"
  /\ thread' = [thread EXCEPT ![t].pc = "test", ![t].conn = session[thread[t].slot].conn]
  /\ UNCHANGED <<context, session, counted, ctl, listener, sock, history>>

\* Without a socket (cleared by a cleanup) the loop only tests again.
ThreadTests(t) ==
  /\ thread[t].pc = "test"
  /\ session[thread[t].slot].active => thread[t].conn # None
  /\ thread' = [thread EXCEPT ![t].pc =
                  IF session[thread[t].slot].active THEN "recv" ELSE "ending"]
  /\ UNCHANGED <<context, session, counted, ctl, listener, sock, history>>

\* Data received and sent on.
ThreadCopies(t) ==
  /\ thread[t].pc = "recv"
  /\ thread' = [thread EXCEPT ![t].pc = "test"]
  /\ UNCHANGED <<context, session, counted, ctl, listener, sock, history>>

\* session->active = false, "Signal other thread to stop".
ThreadEnds(t) ==
  /\ session' = [session EXCEPT ![thread[t].slot].active = FALSE]
  /\ thread' = [thread EXCEPT ![t] = [NoThread EXCEPT !.pc = "done"]]
  /\ UNCHANGED <<context, counted, ctl, listener, sock, history>>

ThreadStops(t) == thread[t].pc = "ending" /\ ThreadEnds(t)

\* An error, the end of the stream, or less sent than received.
ThreadBreaks(t) == thread[t].pc = "recv" /\ ThreadEnds(t)

-----------------------------------------------------------------------------
Command ==
  \/ RinetdInit \/ RinetdCleanup \/ StartBegin \/ StopBegin
  \/ \E src \in Sources, enabled \in Enabled : AddRule(src, enabled)
  \/ \E i \in DOMAIN rules : RemoveRule(i)

CommandStep ==
  \/ StartListener \/ StartSkips \/ StartFails \/ StartReturns
  \/ JoinListener \/ StopSession \/ JoinForward \/ CloseSession \/ StopReturns

ListenerStep(l) ==
  \/ ListenerTests(l) \/ ListenerFails(l) \/ Scans(l) \/ NoSlot(l) \/ Fills(l)
  \/ CreatesForward(l) \/ ForwardFails(l) \/ CreatesBackward(l) \/ BackwardFails(l)
  \/ CreatesServer(l) \/ ServerFails(l) \/ ClosesClient(l)

ThreadStep(t) == ThreadStarts(t) \/ ThreadTests(t) \/ ThreadStops(t)

\* Calls that return when somebody outside does something.
Outside ==
  \/ \E l \in Listeners : Accepts(l) \/ AcceptFails(l) \/ Connects(l) \/ ConnectFails(l)
  \/ \E t \in Threads : ThreadCopies(t) \/ ThreadBreaks(t)

Next ==
  \/ Command \/ CommandStep \/ Outside
  \/ \E l \in Listeners : ListenerStep(l)
  \/ \E t \in Threads : ThreadStep(t)

Spec == Init /\ [][Next]_vars

\* Threads are scheduled; commands need not be given, and nothing is assumed
\* of accept, connect and recv.
Fairness ==
  /\ WF_vars(CommandStep)
  /\ \A l \in Listeners : WF_vars(ListenerStep(l))
  /\ \A t \in Threads : WF_vars(ThreadStep(t))

FairSpec == Spec /\ Fairness

-----------------------------------------------------------------------------
\* However rules are added, disabled and removed, no two enabled ones listen
\* on the same source (rinetd_add_rule, rinetd_remove_rule).
UniqueSource ==
  \A i, j \in DOMAIN rules :
    i # j /\ rules[i].enabled /\ rules[j].enabled => rules[i].src # rules[j].src

\* A listener points into the table of rules: as long as it lives, the rule
\* is there and enabled, unless start_service has failed and left it behind.
ListenersKeepTheirRules ==
  ~failed =>
    \A l \in Listeners :
      AliveListener(l) =>
        listener[l].rule \in DOMAIN rules /\ rules[listener[l].rule].enabled

\* A connection is over as soon as one of its threads has cleared the active
\* flag, "Signal other thread to stop", or its second one could not be created.
Over(c) == \E t \in {Forward(c), Backward(c)} : thread[t].pc \in {"done", "failed"}

\* When no command is running and the service is stopped, no listener lives,
\* rinetd_cleanup has no session to clean up, and the only threads left are
\* the second halves of connections that were over before.  Excepted are
\* sessions that two connections have used at a time, and what listeners do
\* that a failed start has left.
StoppedServiceIsQuiet ==
  Idle /\ ~running /\ ~failed =>
    /\ ~counted
    /\ \A l \in Listeners : ~AliveListener(l)
    /\ \A t \in Threads : AliveThread(t) => Over(t[1]) \/ thread[t].slot \in shared

\* No thread is in recv or send on a socket that has been closed, and freed
\* (infra_net_close), unless two connections have used the session at a time
\* or the backward thread could not be created.
SocketsOpenInUse ==
  \A t \in Threads :
    LET c == t[1]
    IN  /\ thread[t].pc = "recv" /\ thread[t].slot \notin shared
        /\ thread[Backward(c)].pc # "failed"
        => thread[t].conn = c /\ sock[c] = [client |-> "open", server |-> "open"]

\* A client's socket that is open belongs to the listener that has accepted it
\* or to a connection both of whose threads were created, and a server's to a
\* listener in create_forward_session or to such a connection: whichever of
\* the five failures makes create_forward_session return NULL, it has closed
\* the server's socket, and listener_thread closes the client's.
NoLostSocket ==
  \A c \in Connections :
    thread[Backward(c)].pc \in {"none", "failed"} =>
      /\ sock[c].client = "open" => \E l \in Listeners : listener[l].conn = c
      /\ sock[c].server = "open" =>
           \E l \in Listeners : listener[l].conn = c /\ listener[l].pc # "refuse"

\* stop_service returns, provided that no listener stays in accept or connect
\* and no thread in recv for ever; nothing else it waits for can hold it up.
\* (Without a client nobody returns from accept, and then it does not.)
StopTerminates ==
  /\ \A l \in Listeners : []<>(listener[l].pc \notin {"accept", "connect"})
  /\ \A t \in Threads : []<>(thread[t].pc # "recv")
  => (ctl.pc = "listeners" ~> Idle)

-----------------------------------------------------------------------------
\* What start_service is for ("Start listeners for each rule"): while the
\* service runs no listener has left its accept loop.
StartedListenersListen ==
  running /\ Idle => \A l \in Listeners : listener[l].pc # "done"

\* "Signal other thread to stop": once a thread of a connection has cleared
\* the flag, the connection's other thread does not pass its test again.
SignalStopsTheOther ==
  [][\A t \in Threads :
       thread[t].pc = "test" /\ thread'[t].pc = "recv"
       => \A u \in {Forward(t[1]), Backward(t[1])} : thread[u].pc # "done"]_vars
=============================================================================
