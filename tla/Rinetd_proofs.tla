---------------------------- MODULE Rinetd_proofs ----------------------------
(* Proofs about Rinetd, for any number of rules, sessions, listeners and    *)
(* connections.                                                             *)
EXTENDS Rinetd, SequenceTheorems, WellFoundedInduction, TLAPS

Serving(l) == listener[l].pc \in {"forward", "backward"}
AtWork(l) == listener[l].pc \in {"server", "connect", "scan", "fill", "forward", "backward", "refuse"}

\* stop_service is past its listeners.
Draining == ctl.pc \in {"sessions", "forward", "backward"}
\* It joins the threads of session s.
Closing(s) == ctl.pc \in {"forward", "backward"} /\ ctl.i = s

Open == [client |-> "open", server |-> "open"]

\* A listener has a connection of its own from accept to the second thread.
ListenersWork ==
  \A l \in Listeners :
    /\ AtWork(l) <=> listener[l].conn # None
    /\ listener[l].pc = "scan" => listener[l].slot \in 1 .. MaxSessions + 1
    /\ listener[l].pc = "fill" \/ Serving(l) => listener[l].slot \in Slots
    /\ \A m \in Listeners :
         listener[l].conn # None /\ listener[l].conn = listener[m].conn => l = m

\* Listener l has client c.  The server's socket is open from its creation until
\* create_forward_session has failed.  Only the threads that the listener has
\* created are there, and the one session that holds c is the one it sets up.
HasTaken(l, c) ==
  /\ sock[c].client = "open"
  /\ sock[c].server = "open"
       <=> listener[l].pc \in {"connect", "scan", "fill", "forward", "backward"}
  /\ listener[l].pc # "refuse" =>
       /\ thread[Backward(c)].pc = "none"
       /\ thread[Forward(c)].pc = "none" <=> listener[l].pc # "backward"
       /\ \A s \in Slots : session[s].conn = c => Serving(l) /\ listener[l].slot = s

\* Before a listener has accepted it, a connection is nowhere.
ConnectionsAreTaken ==
  \A c \in Connections :
    /\ sock[c].client = "none" =>
         /\ sock[c].server = "none"
         /\ thread[Forward(c)].pc = "none" /\ thread[Backward(c)].pc = "none"
         /\ \A l \in Listeners : listener[l].conn # c
         /\ \A s \in Slots : session[s].conn # c
    /\ \A l \in Listeners : listener[l].conn = c => HasTaken(l, c)

\* Each listener thread is behind a handle until it is joined.  Commands come
\* one at a time, and each of them leaves running, the handles and the count of
\* sessions as the next one expects them.
CommandsAreSound ==
  /\ ctl.pc \notin {"idle", "aborted"} => inited /\ ~running
  /\ ctl.pc = "aborted" => ~inited
  /\ ~inited => ~running /\ \A l \in Listeners : listener[l].pc = "none"
  /\ ctl.pc = "listeners" \/ Draining => ctl.i # 0
  /\ ctl.pc \in {"forward", "backward"} => ctl.i \in Slots
  /\ \A l \in Listeners :
       listener[l].pc # "none" => \E h \in Handles : listener_threads[h] = l
  /\ ctl.pc = "listeners" => \A h \in Handles : h < ctl.i => listener_threads[h] = None
  /\ Draining => \A h \in Handles : listener_threads[h] = None
  /\ Idle /\ ~running /\ ~failed => \A h \in Handles : listener_threads[h] = None
  /\ counted => running \/ ctl.pc = "listeners" \/ Draining

\* A service that is not running sets up no session, and one that has been
\* stopped has none that is active.
StoppedSessionsAreInactive ==
  /\ ~running /\ ctl.pc \in {"idle", "start"} =>
       /\ \A l \in Listeners : listener[l].pc \in {"none", "setup"} \cup Returned
       /\ \A s \in Slots : ~session[s].active
  /\ Draining => \A s \in Slots : s < ctl.i \/ Closing(s) => ~session[s].active

\* The session of a connection that no other has used knows its threads.
\* Until one of them ends it is active, or about to be joined and closed.
SessionIsTheirs(t) ==
  LET c == t[1]
      s == thread[t].slot
  IN  /\ thread[t].pc = "start" => session[s].conn \in {c, None}
      /\ thread[t].conn \in {c, None}
      /\ thread[t].pc = "recv" => thread[t].conn = c
      /\ session[s].active \/ Closing(s) =>
           /\ session[s].conn = c
           /\ t = Forward(c) => session[s].forward = c /\ ~(ctl.pc = "backward" /\ ctl.i = s)
           /\ t = Backward(c) => session[s].backward = c
      /\ Over(c) \/ session[s].active \/ Closing(s)
      /\ thread[Backward(c)].pc # "failed" => sock[c] = Open
      /\ \A u \in Threads : AliveThread(u) /\ thread[u].slot = s => u[1] = c
      /\ \A l \in Listeners : Serving(l) /\ listener[l].slot = s => listener[l].conn = c

ThreadsAreSound ==
  \A t \in Threads :
    AliveThread(t) =>
      /\ thread[t].slot \in Slots
      /\ \A s \in Slots : session[s].conn = t[1] => thread[t].slot = s
      /\ thread[t].slot \notin shared => SessionIsTheirs(t)

\* A session that a listener sets up is its own unless it is shared.
SetupIsTheirs ==
  \A l \in Listeners :
    LET s == listener[l].slot
    IN  Serving(l) /\ s \notin shared =>
          /\ session[s].conn = listener[l].conn
          /\ listener[l].pc = "forward" => session[s].active
          /\ listener[l].pc = "backward" => session[s].forward = listener[l].conn
          /\ \A m \in Listeners : Serving(m) /\ listener[m].slot = s => m = l

RinetdInv ==
  /\ TypeOK /\ ListenersWork /\ ConnectionsAreTaken /\ CommandsAreSound
  /\ StoppedSessionsAreInactive /\ ThreadsAreSound /\ SetupIsTheirs
  /\ UniqueSource /\ ListenersKeepTheirRules /\ NoLostSocket

-----------------------------------------------------------------------------
LEMMA SmallestOfNats ==
  ASSUME NEW S, S \subseteq Nat, S # {}
  PROVE  \E x \in S : \A y \in S : x <= y
<1>1. PICK R : IsWellFoundedOn(R, Nat) /\ \A x, y \in Nat : y < x => <<y, x>> \in R
  <2>1. \A x, y \in Nat : y < x => <<y, x>> \in OpToRel(<, Nat)
    BY DEF OpToRel
  <2>. QED
    BY <2>1, NatLessThanWellFounded, Zenon
<1>2. PICK x \in S : \A y \in S : <<y, x>> \notin R
  BY <1>1, WFMin
<1>3. \A y \in S : ~(y < x)
  BY <1>1, <1>2
<1>. QED
  BY <1>3

LEMMA ThreadNames ==
  /\ \A c \in Connections : /\ Forward(c) \in Threads /\ Forward(c)[1] = c
                            /\ Backward(c) \in Threads /\ Backward(c)[1] = c
  /\ \A c, d : /\ Forward(c) # Backward(d)
               /\ Forward(c) = Forward(d) => c = d
               /\ Backward(c) = Backward(d) => c = d
  /\ \A t \in Threads : t[1] \in Connections /\ (t = Forward(t[1]) \/ t = Backward(t[1]))
<1>1. \A c \in Connections : /\ Forward(c) \in Threads /\ Forward(c)[1] = c
                            /\ Backward(c) \in Threads /\ Backward(c)[1] = c
  BY DEF Forward, Backward, Threads
<1>2. ASSUME NEW c, NEW d
      PROVE  /\ Forward(c) # Backward(d)
             /\ Forward(c) = Forward(d) => c = d
             /\ Backward(c) = Backward(d) => c = d
  BY DEF Forward, Backward
<1>3. ASSUME NEW t \in Threads
      PROVE  t[1] \in Connections /\ (t = Forward(t[1]) \/ t = Backward(t[1]))
  BY DEF Forward, Backward, Threads
<1>. QED
  BY <1>1, <1>2, <1>3

LEMMA InitHolds == Init => RinetdInv
<1>. SUFFICES ASSUME Init PROVE RinetdInv
  OBVIOUS
<1>1. TypeOK
  <2>1. rules \in Seq([src : Sources, enabled : BOOLEAN]) /\ Len(rules) <= MaxRules
    BY RinetdAssumption DEF Init
  <2>2. NoSession \in [active : BOOLEAN, conn : Connections \cup {None},
                      forward : Connections \cup {None}, backward : Connections \cup {None}]
    BY DEF NoSession
  <2>3. NoListener \in [pc : ListenerStates, rule : 0 .. MaxRules,
                       conn : Connections \cup {None}, slot : 0 .. MaxSessions + 1]
    BY RinetdAssumption DEF NoListener, ListenerStates
  <2>4. NoThread \in [pc : ThreadStates, slot : 0 .. MaxSessions, conn : Connections \cup {None}]
    BY RinetdAssumption DEF NoThread, ThreadStates
  <2>. QED
    BY <2>1, <2>2, <2>3, <2>4 DEF Init, TypeOK, ControlStates
<1>2. ListenersWork
  BY DEF Init, ListenersWork, AtWork, Serving, NoListener
<1>3. ConnectionsAreTaken
  <2>1. /\ \A l \in Listeners : listener[l].conn = None /\ listener[l].pc = "none"
        /\ \A s \in Slots : session[s].conn = None
        /\ \A t \in Threads : thread[t].pc = "none"
    BY DEF Init, NoListener, NoThread, NoSession
  <2>2. \A c \in Connections : sock[c].client = "none" /\ sock[c].server = "none" /\ c # None
    BY RinetdAssumption DEF Init
  <2>. QED
    BY <2>1, <2>2, ThreadNames DEF ConnectionsAreTaken
<1>4. CommandsAreSound
  BY DEF Init, CommandsAreSound, Draining, NoListener, Idle
<1>5. StoppedSessionsAreInactive
  BY DEF Init, StoppedSessionsAreInactive, NoListener, NoSession, Draining
<1>6. ThreadsAreSound
  BY DEF Init, ThreadsAreSound, AliveThread, NoThread
<1>7. SetupIsTheirs
  BY DEF Init, SetupIsTheirs, Serving, NoListener
<1>8. UniqueSource /\ ListenersKeepTheirRules
  BY DEF Init, UniqueSource, ListenersKeepTheirRules, AliveListener, NoListener
<1>9. NoLostSocket
  BY DEF Init, NoLostSocket
<1>. QED
  BY <1>1, <1>2, <1>3, <1>4, <1>5, <1>6, <1>7, <1>8, <1>9 DEF RinetdInv

-----------------------------------------------------------------------------
(* What does not depend on the rules, and what only depends on where the    *)
(* control thread is.                                                       *)

LEMMA RulesLeaveRest ==
  ASSUME RinetdInv,
         UNCHANGED <<inited, running, listener_threads, session, counted, ctl, listener,
                     thread, sock, history>>
  PROVE  /\ ListenersWork' /\ ConnectionsAreTaken' /\ CommandsAreSound'
         /\ StoppedSessionsAreInactive' /\ ThreadsAreSound' /\ SetupIsTheirs' /\ NoLostSocket'
<1>1. ListenersWork' /\ ConnectionsAreTaken'
  BY DEF RinetdInv, ListenersWork, ConnectionsAreTaken, HasTaken, AtWork, Serving
<1>2. CommandsAreSound' /\ StoppedSessionsAreInactive'
  BY DEF RinetdInv, CommandsAreSound, StoppedSessionsAreInactive, Draining, Closing, Idle, history
<1>3. ThreadsAreSound'
  BY DEF RinetdInv, ThreadsAreSound, SessionIsTheirs, AliveThread, Closing, Serving, Over, history
<1>4. SetupIsTheirs' /\ NoLostSocket'
  BY DEF RinetdInv, SetupIsTheirs, NoLostSocket, Serving, history
<1>. QED
  BY <1>1, <1>2, <1>3, <1>4

LEMMA ControlLeavesConnections ==
  ASSUME RinetdInv, UNCHANGED <<session, listener, thread, sock, shared>>,
         \A s \in Slots : Closing(s)' = Closing(s) /\ (ctl.pc = "backward")' = (ctl.pc = "backward")
  PROVE  /\ ListenersWork' /\ ConnectionsAreTaken' /\ ThreadsAreSound' /\ SetupIsTheirs'
         /\ NoLostSocket'
<1>1. ListenersWork' /\ ConnectionsAreTaken'
  BY DEF RinetdInv, ListenersWork, ConnectionsAreTaken, HasTaken, AtWork, Serving
<1>2. ThreadsAreSound'
  BY DEF RinetdInv, ThreadsAreSound, SessionIsTheirs, AliveThread, Closing, Serving, Over
<1>3. SetupIsTheirs' /\ NoLostSocket'
  BY DEF RinetdInv, SetupIsTheirs, NoLostSocket, Serving
<1>. QED
  BY <1>1, <1>2, <1>3

\* The same when listeners that have no connection go their way.
LEMMA IdleListenersLeaveConnections ==
  ASSUME RinetdInv, UNCHANGED <<session, thread, sock, shared>>,
         \A s \in Slots : Closing(s)' = Closing(s) /\ (ctl.pc = "backward")' = (ctl.pc = "backward"),
         \A l \in Listeners : IF AtWork(l) THEN listener'[l] = listener[l]
                              ELSE listener'[l].conn = None /\ ~AtWork(l)'
  PROVE  /\ ListenersWork' /\ ConnectionsAreTaken' /\ ThreadsAreSound' /\ SetupIsTheirs'
         /\ NoLostSocket'
<1>1. \A l \in Listeners : /\ listener'[l].conn = listener[l].conn
                           /\ listener'[l].conn # None => listener'[l] = listener[l]
                           /\ Serving(l)' => listener'[l] = listener[l]
  BY DEF RinetdInv, ListenersWork, AtWork, Serving
<1>2. ListenersWork'
  BY <1>1 DEF RinetdInv, ListenersWork, AtWork, Serving
<1>3. ConnectionsAreTaken'
  <2>1. ASSUME NEW c \in Connections, sock[c].client = "none"
        PROVE  \A l \in Listeners : listener'[l].conn # c
    BY <1>1, <2>1 DEF RinetdInv, ConnectionsAreTaken
  <2>2. ASSUME NEW c \in Connections, NEW l \in Listeners, listener'[l].conn = c
        PROVE  listener[l].conn = c /\ listener'[l] = listener[l]
    BY <1>1, <2>2, RinetdAssumption
  <2>. QED
    BY <2>1, <2>2 DEF RinetdInv, ConnectionsAreTaken, HasTaken, Serving
<1>4. ThreadsAreSound'
  BY <1>1 DEF RinetdInv, ThreadsAreSound, SessionIsTheirs, AliveThread, Closing, Serving, Over
<1>5. SetupIsTheirs'
  BY <1>1 DEF RinetdInv, SetupIsTheirs, Serving
<1>6. NoLostSocket'
  BY <1>1, RinetdAssumption DEF RinetdInv, NoLostSocket
<1>. QED
  BY <1>2, <1>3, <1>4, <1>5, <1>6

-----------------------------------------------------------------------------
(* The commands that change the rules.                                      *)

LEMMA AddRuleKeeps ==
  ASSUME RinetdInv, NEW src \in Sources, NEW enabled \in Enabled, AddRule(src, enabled)
  PROVE  RinetdInv'
<1>. DEFINE new == [src |-> src, enabled |-> enabled]
<1>1. /\ rules \in Seq([src : Sources, enabled : BOOLEAN])
      /\ new \in [src : Sources, enabled : BOOLEAN]
      /\ rules' = Append(rules, new)
  BY RinetdAssumption DEF RinetdInv, TypeOK, AddRule
<1>2. /\ Len(rules') = Len(rules) + 1 /\ rules'[Len(rules) + 1] = new
      /\ \A i \in DOMAIN rules : i \in DOMAIN rules' /\ rules'[i] = rules[i]
      /\ DOMAIN rules = 1 .. Len(rules) /\ DOMAIN rules' = 1 .. Len(rules) + 1
  BY <1>1
<1>3. TypeOK'
  <2>1. rules' \in Seq([src : Sources, enabled : BOOLEAN])
    BY <1>1
  <2>2. Len(rules') <= MaxRules
    BY <1>1, <1>2, RinetdAssumption DEF AddRule
  <2>. QED
    BY <2>1, <2>2 DEF RinetdInv, TypeOK, AddRule, history
<1>4. UniqueSource'
  BY <1>1, <1>2 DEF RinetdInv, UniqueSource, AddRule, SameSource
<1>5. ListenersKeepTheirRules'
  BY <1>2 DEF RinetdInv, ListenersKeepTheirRules, AliveListener, AddRule, history
<1>. QED
  BY <1>3, <1>4, <1>5, RulesLeaveRest DEF RinetdInv, AddRule

\* A listener whose rule goes or is disabled has been joined before.
LEMMA RemoveRuleKeeps ==
  ASSUME RinetdInv, NEW i \in DOMAIN rules, RemoveRule(i)
  PROVE  RinetdInv'
<1>1. rules \in Seq([src : Sources, enabled : BOOLEAN]) /\ DOMAIN rules = 1 .. Len(rules)
  BY DEF RinetdInv, TypeOK
<1>2. /\ rules' \in Seq([src : Sources, enabled : BOOLEAN]) /\ Len(rules') <= Len(rules)
      /\ \A j \in DOMAIN rules' :
           j \in DOMAIN rules /\ rules'[j].src = rules[j].src
           /\ (rules'[j].enabled => rules[j].enabled)
  <2>1. CASE i = Len(rules)
    <3>1. rules' = SubSeq(rules, 1, i - 1)
      BY <2>1 DEF RemoveRule
    <3>2. Len(rules) \in Nat /\ \A j \in 1 .. i - 1 : rules[j] \in [src : Sources, enabled : BOOLEAN]
      <4>1. Len(rules) \in Nat
        BY <1>1
      <4>2. ASSUME NEW j \in 1 .. Len(rules)
            PROVE  rules[j] \in [src : Sources, enabled : BOOLEAN]
        BY <1>1, ElementOfSeq
      <4>. QED
        BY <2>1, <4>1, <4>2
    <3>3. /\ rules' \in Seq([src : Sources, enabled : BOOLEAN]) /\ Len(rules') = i - 1
          /\ \A j \in 1 .. i - 1 : rules'[j] = rules[j]
      BY <1>1, <2>1, <3>1, <3>2, SubSeqProperties
    <3>. QED
      BY <1>1, <2>1, <3>2, <3>3
  <2>2. CASE i # Len(rules)
    <3>1. rules' = [rules EXCEPT ![i].enabled = FALSE]
      BY <2>2 DEF RemoveRule
    <3>2. rules[i] \in [src : Sources, enabled : BOOLEAN]
      BY <1>1, ElementOfSeq
    <3>3. [rules[i] EXCEPT !.enabled = FALSE] \in [src : Sources, enabled : BOOLEAN]
      BY <3>2
    <3>. QED
      BY <1>1, <3>1, <3>2, <3>3, ExceptSeq
  <2>. QED
    BY <2>1, <2>2
<1>3. TypeOK'
  BY <1>1, <1>2, RinetdAssumption DEF RinetdInv, TypeOK, RemoveRule, history
<1>4. UniqueSource'
  BY <1>2 DEF RinetdInv, UniqueSource
<1>5. ListenersKeepTheirRules'
  <2>. SUFFICES ASSUME ~failed PROVE \A l \in Listeners : ~AliveListener(l)
    BY DEF ListenersKeepTheirRules, AliveListener, RemoveRule, history
  <2>1. \A l \in Listeners : listener[l].pc = "none"
    BY RinetdAssumption DEF RinetdInv, CommandsAreSound, RemoveRule
  <2>. QED
    BY <2>1 DEF AliveListener
<1>. QED
  BY <1>3, <1>4, <1>5, RulesLeaveRest DEF RinetdInv, RemoveRule

-----------------------------------------------------------------------------
(* rinetd_init and rinetd_cleanup: g_context is cleared, and threads of     *)
(* connections that are over may still be there.                            *)

LEMMA ClearKeeps ==
  ASSUME RinetdInv, Idle, ~running, \A l \in Listeners : ~AliveListener(l),
         inited' \in BOOLEAN, ClearContext
  PROVE  RinetdInv'
<1>1. \A l \in Listeners : ~AtWork(l) /\ ~Serving(l) /\ listener[l].conn = None
  BY DEF RinetdInv, ListenersWork, AliveListener, AtWork, Serving, Returned
<1>2. /\ \A l \in Listeners : listener'[l] = NoListener
      /\ \A s \in Slots : session'[s] = NoSession
      /\ \A h \in Handles : listener_threads'[h] = None
      /\ UNCHANGED <<ctl, thread, sock, shared>>
  BY DEF ClearContext
<1>3. TypeOK'
  <2>1. rules' \in Seq([src : Sources, enabled : BOOLEAN]) /\ Len(rules') <= MaxRules
    BY RinetdAssumption DEF ClearContext
  <2>2. NoSession \in [active : BOOLEAN, conn : Connections \cup {None},
                      forward : Connections \cup {None}, backward : Connections \cup {None}]
    BY DEF NoSession
  <2>3. NoListener \in [pc : ListenerStates, rule : 0 .. MaxRules,
                       conn : Connections \cup {None}, slot : 0 .. MaxSessions + 1]
    BY RinetdAssumption DEF NoListener, ListenerStates
  <2>. QED
    BY <2>1, <2>2, <2>3 DEF RinetdInv, TypeOK, ClearContext
<1>4. ListenersWork'
  BY <1>2 DEF ListenersWork, AtWork, Serving, NoListener
<1>5. ConnectionsAreTaken'
  <2>1. ASSUME NEW c \in Connections
        PROVE  /\ \A l \in Listeners : listener'[l].conn # c
               /\ \A s \in Slots : session'[s].conn # c
    BY <1>2, <2>1, RinetdAssumption DEF NoListener, NoSession
  <2>. QED
    BY <1>2, <2>1 DEF RinetdInv, ConnectionsAreTaken
<1>6. CommandsAreSound'
  BY <1>2 DEF CommandsAreSound, ClearContext, Idle, Draining, NoListener
<1>7. StoppedSessionsAreInactive'
  BY <1>2 DEF StoppedSessionsAreInactive, Idle, Draining, NoListener, NoSession
<1>8. ThreadsAreSound'
  <2>. SUFFICES ASSUME NEW t \in Threads, AliveThread(t), thread[t].slot \notin shared
                PROVE  SessionIsTheirs(t)'
    BY <1>2, RinetdAssumption DEF RinetdInv, ThreadsAreSound, AliveThread, NoSession, Threads
  <2>1. SessionIsTheirs(t) /\ thread[t].slot \in Slots
    BY DEF RinetdInv, ThreadsAreSound
  <2>2. Over(t[1])
    BY <2>1 DEF SessionIsTheirs, RinetdInv, StoppedSessionsAreInactive, Idle, Closing
  <2>. QED
    BY <1>2, <2>1, <2>2
    DEF SessionIsTheirs, Over, Closing, Idle, AliveThread, NoSession, NoListener, Serving
<1>9. SetupIsTheirs'
  BY <1>2 DEF SetupIsTheirs, Serving, NoListener
<1>10. UniqueSource' /\ ListenersKeepTheirRules'
  BY <1>2 DEF UniqueSource, ListenersKeepTheirRules, AliveListener, NoListener, ClearContext
<1>11. NoLostSocket'
  BY <1>1, <1>2, RinetdAssumption DEF RinetdInv, NoLostSocket
<1>. QED
  BY <1>3, <1>4, <1>5, <1>6, <1>7, <1>8, <1>9, <1>10, <1>11 DEF RinetdInv

LEMMA InitAndCleanupKeep ==
  ASSUME RinetdInv, RinetdInit \/ RinetdCleanup
  PROVE  RinetdInv'
<1>1. Idle /\ ~running /\ \A l \in Listeners : ~AliveListener(l)
  BY DEF RinetdInv, CommandsAreSound, RinetdInit, RinetdCleanup, AliveListener
<1>2. CASE RinetdCleanup \/ MuxCreated
  <2>1. inited' \in BOOLEAN /\ ClearContext
    BY <1>2 DEF RinetdInit, RinetdCleanup
  <2>. QED
    BY <1>1, <2>1, ClearKeeps
<1>3. CASE RinetdInit /\ ~MuxCreated
  <2>1. /\ ctl' = [pc |-> "aborted", i |-> 0] /\ Idle /\ ~inited
        /\ UNCHANGED <<context, session, counted, listener, thread, sock, history>>
    BY <1>3 DEF RinetdInit
  <2>2. TypeOK'
    BY <2>1 DEF RinetdInv, TypeOK, ControlStates, context, history
  <2>3. /\ ListenersWork' /\ ConnectionsAreTaken' /\ ThreadsAreSound' /\ SetupIsTheirs'
        /\ NoLostSocket'
    BY <2>1, ControlLeavesConnections DEF Closing, Idle, history
  <2>4. CommandsAreSound' /\ StoppedSessionsAreInactive'
    BY <2>1 DEF RinetdInv, CommandsAreSound, StoppedSessionsAreInactive, Idle, Draining, context
  <2>5. UniqueSource' /\ ListenersKeepTheirRules'
    BY <2>1 DEF RinetdInv, UniqueSource, ListenersKeepTheirRules, AliveListener, context, history
  <2>. QED
    BY <2>2, <2>3, <2>4, <2>5 DEF RinetdInv
<1>. QED
  BY <1>2, <1>3

-----------------------------------------------------------------------------
(* start_service and the beginning and end of stop_service.                 *)

LEMMA StartStepsKeep ==
  ASSUME RinetdInv, StartBegin \/ StartSkips \/ StartFails \/ StartReturns
  PROVE  RinetdInv'
<1>1. /\ UNCHANGED <<inited, rules, listener_threads, session, counted, listener, thread, sock, shared>>
      /\ ctl.pc \in {"idle", "start"} /\ ctl'.pc \in {"idle", "start"} /\ ctl'.i \in Nat
  BY DEF StartBegin, StartSkips, StartFails, StartReturns, Idle, context, history, RinetdInv, TypeOK
<1>2. TypeOK'
  BY <1>1 DEF StartBegin, StartSkips, StartFails, StartReturns, context, history, RinetdInv,
    TypeOK, ControlStates
<1>3. ListenersWork' /\ ConnectionsAreTaken' /\ ThreadsAreSound' /\ SetupIsTheirs' /\ NoLostSocket'
  BY <1>1, ControlLeavesConnections DEF Closing
<1>4. CommandsAreSound'
  <2>1. CASE StartBegin
    BY <1>1, <2>1 DEF RinetdInv, CommandsAreSound, StartBegin, Idle, Draining, context, history
  <2>2. CASE StartSkips
    BY <1>1, <2>2 DEF RinetdInv, CommandsAreSound, StartSkips, Idle, Draining, context, history,
      TypeOK
  <2>3. CASE StartFails
    BY <1>1, <2>3 DEF RinetdInv, CommandsAreSound, StartFails, Idle, Draining, context, history
  <2>4. CASE StartReturns
    BY <1>1, <2>4 DEF RinetdInv, CommandsAreSound, StartReturns, Idle, Draining, context, history
  <2>. QED
    BY <2>1, <2>2, <2>3, <2>4
<1>5. StoppedSessionsAreInactive'
  BY <1>1 DEF RinetdInv, StoppedSessionsAreInactive, StartBegin, StartSkips, StartFails,
    StartReturns, Idle, Draining, context, history
<1>6. UniqueSource' /\ ListenersKeepTheirRules'
  BY <1>1 DEF RinetdInv, UniqueSource, ListenersKeepTheirRules, AliveListener, StartBegin,
    StartSkips, StartFails, StartReturns, history
<1>. QED
  BY <1>2, <1>3, <1>4, <1>5, <1>6 DEF RinetdInv

LEMMA StopBeginKeeps ==
  ASSUME RinetdInv, StopBegin
  PROVE  RinetdInv'
<1>1. /\ UNCHANGED <<inited, rules, listener_threads, session, counted, listener, thread, sock, history>>
      /\ Idle /\ inited /\ running /\ ~running' /\ ctl'.pc = "listeners" /\ ctl'.i = 1
      /\ ctl' \in [pc : ControlStates, i : Nat]
  BY DEF StopBegin, ControlStates
<1>2. TypeOK'
  BY <1>1 DEF StopBegin, history, RinetdInv, TypeOK
<1>3. ListenersWork' /\ ConnectionsAreTaken' /\ ThreadsAreSound' /\ SetupIsTheirs' /\ NoLostSocket'
  BY <1>1, ControlLeavesConnections DEF Closing, Idle, history
<1>4. CommandsAreSound'
  BY <1>1 DEF RinetdInv, CommandsAreSound, Idle, Draining, Handles
<1>5. StoppedSessionsAreInactive'
  BY <1>1 DEF StoppedSessionsAreInactive, Draining
<1>6. UniqueSource' /\ ListenersKeepTheirRules'
  BY <1>1 DEF RinetdInv, UniqueSource, ListenersKeepTheirRules, AliveListener, history
<1>. QED
  BY <1>2, <1>3, <1>4, <1>5, <1>6 DEF RinetdInv

LEMMA AllJoined ==
  ASSUME RinetdInv, Draining
  PROVE  \A l \in Listeners : /\ listener[l].pc = "none" /\ listener[l].conn = None
                              /\ ~AtWork(l) /\ ~Serving(l) /\ ~AliveListener(l)
<1>1. \A l \in Listeners : listener[l].pc = "none"
  BY RinetdAssumption DEF RinetdInv, CommandsAreSound
<1>. QED
  BY <1>1 DEF RinetdInv, ListenersWork, AtWork, Serving, AliveListener

LEMMA StopReturnsKeeps ==
  ASSUME RinetdInv, StopReturns
  PROVE  RinetdInv'
<1>1. /\ UNCHANGED <<context, session, listener, thread, sock, shared>>
      /\ ctl.pc = "sessions" /\ ctl.i > MaxSessions /\ Draining
      /\ ctl' = [pc |-> "idle", i |-> 0] /\ counted' = FALSE /\ failed' = FALSE
  BY DEF StopReturns, Draining
<1>2. TypeOK'
  BY <1>1 DEF context, RinetdInv, TypeOK, ControlStates
<1>3. ListenersWork' /\ ConnectionsAreTaken' /\ ThreadsAreSound' /\ SetupIsTheirs' /\ NoLostSocket'
  BY <1>1, ControlLeavesConnections DEF Closing
<1>4. CommandsAreSound'
  BY <1>1 DEF RinetdInv, CommandsAreSound, Draining, context
<1>5. StoppedSessionsAreInactive'
  <2>1. \A s \in Slots : s < ctl.i
    BY <1>1, RinetdAssumption DEF Slots, RinetdInv, TypeOK
  <2>. QED
    BY <1>1, <2>1, AllJoined DEF RinetdInv, StoppedSessionsAreInactive, Draining, context
<1>6. UniqueSource' /\ ListenersKeepTheirRules'
  BY <1>1, AllJoined DEF RinetdInv, UniqueSource, ListenersKeepTheirRules, AliveListener, context
<1>. QED
  BY <1>2, <1>3, <1>4, <1>5, <1>6 DEF RinetdInv

\* A listener thread before it has accepted anybody, or after its loop.
LEMMA StartListenerKeeps ==
  ASSUME RinetdInv, StartListener
  PROVE  RinetdInv'
<1>. DEFINE h == CHOOSE x \in FreeHandles : \A k \in FreeHandles : x <= k
<1>1. PICK l \in Listeners :
        /\ listener[l].pc = "none"
        /\ listener' = [listener EXCEPT ![l] = [NoListener EXCEPT !.pc = "setup", !.rule = ctl.i]]
        /\ listener_threads' = [listener_threads EXCEPT ![h] = l]
  BY DEF StartListener
<1>2. /\ ctl.pc = "start" /\ ctl.i \in DOMAIN rules /\ rules[ctl.i].enabled /\ FreeHandles # {}
      /\ UNCHANGED <<inited, running, rules, session, counted, thread, sock, history>>
      /\ ctl' = [ctl EXCEPT !.i = @ + 1]
  BY DEF StartListener
<1>3. /\ ctl' \in [pc : ControlStates, i : Nat] /\ ctl'.pc = "start"
      /\ inited /\ ~running
  <2>1. ctl \in [pc : ControlStates, i : Nat]
    BY DEF RinetdInv, TypeOK
  <2>2. inited /\ ~running
    BY <1>2 DEF RinetdInv, CommandsAreSound
  <2>. QED
    BY <1>2, <2>1, <2>2
<1>4. /\ listener[l].pc = "none"
      /\ listener'[l].pc = "setup" /\ listener'[l].rule = ctl.i /\ listener'[l].conn = None
      /\ listener'[l].slot = 0
      /\ \A m \in Listeners : m # l => listener'[m] = listener[m]
  BY <1>1 DEF RinetdInv, TypeOK, NoListener
<1>5. h \in FreeHandles
  <2>1. FreeHandles \subseteq Nat
    BY DEF FreeHandles, Handles
  <2>2. \E x \in FreeHandles : \A k \in FreeHandles : x <= k
    BY <1>2, <2>1, SmallestOfNats
  <2>. QED
    BY <2>2
<1>6. /\ h \in Handles /\ listener_threads[h] = None /\ listener_threads'[h] = l
      /\ \A k \in Handles : k # h => listener_threads'[k] = listener_threads[k]
  BY <1>1, <1>5 DEF FreeHandles, RinetdInv, TypeOK
<1>. HIDE DEF h
<1>7. \A m \in Listeners : IF AtWork(m) THEN listener'[m] = listener[m]
                            ELSE listener'[m].conn = None /\ ~AtWork(m)'
  <2>1. ~AtWork(l) /\ ~AtWork(l)' /\ listener'[l].conn = None
    BY <1>4 DEF AtWork
  <2>2. ASSUME NEW m \in Listeners, m # l
        PROVE  listener'[m] = listener[m] /\ AtWork(m)' = AtWork(m)
    BY <1>4, <2>2 DEF AtWork
  <2>. QED
    BY <2>1, <2>2 DEF RinetdInv, ListenersWork
<1>8. TypeOK'
  <2>1. ctl.i \in 0 .. MaxRules
    <3>1. rules \in Seq([src : Sources, enabled : BOOLEAN]) /\ Len(rules) <= MaxRules
      BY DEF RinetdInv, TypeOK
    <3>. QED
      BY <1>2, <3>1, RinetdAssumption
  <2>2. listener'[l] \in [pc : ListenerStates, rule : 0 .. MaxRules,
                         conn : Connections \cup {None}, slot : 0 .. MaxSessions + 1]
    <3>1. listener'[l] = [pc |-> "setup", rule |-> ctl.i, conn |-> None, slot |-> 0]
      BY <1>1 DEF RinetdInv, TypeOK, NoListener
    <3>. QED
      BY <2>1, <3>1, RinetdAssumption DEF ListenerStates
  <2>3. listener' \in [Listeners -> [pc : ListenerStates, rule : 0 .. MaxRules,
                         conn : Connections \cup {None}, slot : 0 .. MaxSessions + 1]]
    BY <1>1, <1>4, <2>2 DEF RinetdInv, TypeOK
  <2>4. listener_threads' \in [Handles -> Listeners \cup {None}]
    BY <1>1, <1>6 DEF RinetdInv, TypeOK
  <2>. QED
    BY <1>2, <1>3, <2>3, <2>4 DEF RinetdInv, TypeOK, history
<1>9. ListenersWork' /\ ConnectionsAreTaken' /\ ThreadsAreSound' /\ SetupIsTheirs' /\ NoLostSocket'
  BY <1>2, <1>3, <1>7, IdleListenersLeaveConnections DEF Closing, history
<1>10. CommandsAreSound'
  BY <1>1, <1>2, <1>3, <1>4, <1>6, RinetdAssumption DEF RinetdInv, CommandsAreSound, Idle, Draining, history
<1>11. StoppedSessionsAreInactive'
  BY <1>2, <1>3, <1>4 DEF RinetdInv, StoppedSessionsAreInactive, Draining
<1>12. UniqueSource' /\ ListenersKeepTheirRules'
  BY <1>2, <1>4 DEF RinetdInv, UniqueSource, ListenersKeepTheirRules, AliveListener, history
<1>. QED
  BY <1>8, <1>9, <1>10, <1>11, <1>12 DEF RinetdInv

LEMMA JoinListenerKeeps ==
  ASSUME RinetdInv, JoinListener
  PROVE  RinetdInv'
<1>1. /\ UNCHANGED <<inited, running, rules, session, counted, thread, sock, history>>
      /\ ctl.pc = "listeners"
  BY DEF JoinListener
<1>2. ctl' \in [pc : ControlStates, i : Nat] /\ ctl'.pc \in {"listeners", "sessions"}
  BY DEF JoinListener, RinetdInv, TypeOK, ControlStates
<1>. DEFINE l == listener_threads[ctl.i]
<1>3. \/ UNCHANGED <<listener, listener_threads>>
      \/ /\ ctl.i \in Handles /\ l \in Listeners /\ listener[l].pc \in Returned
         /\ listener' = [listener EXCEPT ![l] = NoListener]
         /\ listener_threads' = [listener_threads EXCEPT ![ctl.i] = None]
  <2>1. ctl.i \in Nat \ {0} /\ listener_threads \in [Handles -> Listeners \cup {None}]
    BY <1>1 DEF RinetdInv, TypeOK, CommandsAreSound
  <2>2. ctl.i <= MaxRules => ctl.i \in Handles /\ l \in Listeners \cup {None}
    BY <2>1, RinetdAssumption DEF Handles
  <2>. QED
    BY <2>2 DEF JoinListener
<1>4. \A m \in Listeners :
        \/ listener'[m] = listener[m]
        \/ m = l /\ listener[m].pc \in Returned /\ listener'[m] = NoListener
  BY <1>3 DEF RinetdInv, TypeOK
<1>. HIDE DEF l
<1>5. TypeOK'
  <2>1. NoListener \in [pc : ListenerStates, rule : 0 .. MaxRules,
                       conn : Connections \cup {None}, slot : 0 .. MaxSessions + 1]
    BY RinetdAssumption DEF NoListener, ListenerStates
  <2>2. listener' \in [Listeners -> [pc : ListenerStates, rule : 0 .. MaxRules,
                         conn : Connections \cup {None}, slot : 0 .. MaxSessions + 1]]
    BY <1>3, <2>1 DEF RinetdInv, TypeOK
  <2>3. listener_threads' \in [Handles -> Listeners \cup {None}]
    BY <1>3 DEF RinetdInv, TypeOK
  <2>. QED
    BY <1>1, <1>2, <2>2, <2>3 DEF RinetdInv, TypeOK, history
<1>6. ListenersWork' /\ ConnectionsAreTaken' /\ ThreadsAreSound' /\ SetupIsTheirs' /\ NoLostSocket'
  <2>1. \A m \in Listeners : IF AtWork(m) THEN listener'[m] = listener[m]
                             ELSE listener'[m].conn = None /\ ~AtWork(m)'
    BY <1>4 DEF RinetdInv, ListenersWork, AtWork, Returned, NoListener
  <2>. QED
    BY <1>1, <1>2, <2>1, IdleListenersLeaveConnections DEF Closing, history
<1>8. CommandsAreSound'
  <2>1. ~running /\ inited
    BY <1>1 DEF RinetdInv, CommandsAreSound
  <2>2. CASE ctl.i <= MaxRules
    <3>1. ctl'.pc = "listeners" /\ ctl'.i = ctl.i + 1
      BY <1>1, <2>2 DEF JoinListener, RinetdInv, TypeOK
    <3>2. \A m \in Listeners : listener'[m].pc # "none" => \E h \in Handles : listener_threads'[h] = m
      <4>. SUFFICES ASSUME NEW m \in Listeners, listener'[m].pc # "none"
                    PROVE  \E h \in Handles : listener_threads'[h] = m
        OBVIOUS
      <4>1. listener[m].pc # "none" /\ (m = l => UNCHANGED listener_threads)
        BY <1>3, <1>4 DEF NoListener, RinetdInv, TypeOK
      <4>2. PICK h \in Handles : listener_threads[h] = m
        BY <4>1 DEF RinetdInv, CommandsAreSound
      <4>3. listener_threads'[h] = m
        BY <1>3, <4>1, <4>2 DEF RinetdInv, TypeOK, l
      <4>. QED
        BY <4>3
    <3>3. \A h \in Handles : h < ctl.i + 1 => listener_threads'[h] = None
      <4>1. ctl.i \in Handles => listener_threads'[ctl.i] = None
        BY <1>1, <1>3, <2>2 DEF JoinListener, RinetdInv, TypeOK, l
      <4>. QED
        <5>1. ctl.i \in Nat /\ \A h \in Handles : h < ctl.i => listener_threads[h] = None
          BY <1>1 DEF RinetdInv, TypeOK, CommandsAreSound
        <5>2. \A h \in Handles : h # ctl.i => listener_threads'[h] = listener_threads[h]
          BY <1>3 DEF RinetdInv, TypeOK
        <5>. QED
          BY <4>1, <5>1, <5>2 DEF Handles
    <3>. QED
      BY <1>1, <2>1, <3>1, <3>2, <3>3 DEF CommandsAreSound, Draining, Idle, history, RinetdInv, TypeOK
  <2>3. CASE ~(ctl.i <= MaxRules)
    <3>1. ctl'.pc = "sessions" /\ ctl'.i = 1 /\ UNCHANGED <<listener, listener_threads>>
      BY <2>3 DEF JoinListener
    <3>2. \A h \in Handles : listener_threads[h] = None
      BY <1>1, <2>3, RinetdAssumption DEF RinetdInv, TypeOK, CommandsAreSound, Handles
    <3>. QED
      BY <1>1, <2>1, <3>1, <3>2 DEF RinetdInv, CommandsAreSound, Draining, Idle, history
  <2>. QED
    BY <2>2, <2>3
<1>9. StoppedSessionsAreInactive'
  BY <1>1, <1>2 DEF StoppedSessionsAreInactive, JoinListener, Draining, Closing, Slots
<1>10. UniqueSource' /\ ListenersKeepTheirRules'
  BY <1>1, <1>4 DEF RinetdInv, UniqueSource, ListenersKeepTheirRules, AliveListener, history,
    NoListener
<1>. QED
  BY <1>5, <1>6, <1>8, <1>9, <1>10 DEF RinetdInv

-----------------------------------------------------------------------------
(* stop_service drains the sessions: no listener is left.                   *)

LEMMA DrainingLeavesListeners ==
  ASSUME RinetdInv, Draining, Draining', ctl'.i # 0,
         ctl'.pc \in {"forward", "backward"} => ctl'.i \in Slots,
         UNCHANGED <<context, counted, listener, history>>
  PROVE  /\ ListenersWork' /\ CommandsAreSound' /\ SetupIsTheirs'
         /\ UniqueSource' /\ ListenersKeepTheirRules'
<1>1. ListenersWork'
  BY DEF RinetdInv, ListenersWork, AtWork, Serving
<1>2. CommandsAreSound'
  BY DEF RinetdInv, CommandsAreSound, Draining, Idle, context, history
<1>3. SetupIsTheirs'
  BY AllJoined DEF SetupIsTheirs, Serving
<1>4. UniqueSource' /\ ListenersKeepTheirRules'
  BY DEF RinetdInv, UniqueSource, ListenersKeepTheirRules, AliveListener, context, history
<1>. QED
  BY <1>1, <1>2, <1>3, <1>4

LEMMA StopSessionKeeps ==
  ASSUME RinetdInv, StopSession
  PROVE  RinetdInv'
<1>. DEFINE i == ctl.i
<1>1. /\ UNCHANGED <<context, counted, listener, thread, sock, history>>
      /\ ctl.pc = "sessions" /\ i \in Slots /\ ctl \in [pc : ControlStates, i : Nat]
      /\ ctl' \in [pc : ControlStates, i : Nat] /\ ctl'.i # 0
  BY DEF StopSession, RinetdInv, TypeOK, CommandsAreSound, Draining, ControlStates, Slots
<1>2. \/ /\ session[i].active /\ ctl'.pc = "forward" /\ ctl'.i = i
         /\ session' = [session EXCEPT ![i].active = FALSE]
      \/ /\ ~session[i].active /\ ctl'.pc = "sessions" /\ ctl'.i = i + 1
         /\ session' = session
  BY <1>1 DEF StopSession
<1>3. /\ \A s \in Slots : /\ session'[s].conn = session[s].conn
                          /\ session'[s].forward = session[s].forward
                          /\ session'[s].backward = session[s].backward
                          /\ session'[s].active => session[s].active
                          /\ session'[s].active \/ Closing(s)' <=> session[s].active
      /\ ~session'[i].active
      /\ session' \in [Slots -> [active : BOOLEAN, conn : Connections \cup {None},
                                 forward : Connections \cup {None},
                                 backward : Connections \cup {None}]]
  <2>. DEFINE S == [active : BOOLEAN, conn : Connections \cup {None},
                   forward : Connections \cup {None}, backward : Connections \cup {None}]
  <2>1. session \in [Slots -> S]
    BY DEF RinetdInv, TypeOK
  <2>2. CASE session' = session /\ ~session[i].active /\ ctl'.pc = "sessions"
    BY <1>1, <2>1, <2>2 DEF Closing
  <2>3. CASE /\ session' = [session EXCEPT ![i].active = FALSE]
             /\ session[i].active /\ ctl'.pc = "forward" /\ ctl'.i = i
    <3>1. [session[i] EXCEPT !.active = FALSE] \in S
      BY <1>1, <2>1, ZenonT(30)
    <3>2. session' = [session EXCEPT ![i] = [session[i] EXCEPT !.active = FALSE]]
      BY <2>3
    <3>3. session' \in [Slots -> S]
      BY <1>1, <2>1, <3>1, <3>2
    <3>. QED
      BY <1>1, <2>1, <2>3, <3>3 DEF Closing
  <2>. QED
    BY <1>2, <2>2, <2>3
<1>4. TypeOK'
  BY <1>1, <1>3 DEF RinetdInv, TypeOK, context, history
<1>5. /\ ListenersWork' /\ CommandsAreSound' /\ SetupIsTheirs'
      /\ UniqueSource' /\ ListenersKeepTheirRules'
  BY <1>1, <1>2, DrainingLeavesListeners DEF Draining
<1>6. ConnectionsAreTaken' /\ NoLostSocket'
  BY <1>1, <1>3 DEF RinetdInv, ConnectionsAreTaken, HasTaken, NoLostSocket, Serving
<1>7. StoppedSessionsAreInactive'
  BY <1>1, <1>2, <1>3 DEF RinetdInv, StoppedSessionsAreInactive, Draining, Closing, Slots
<1>8. ThreadsAreSound'
  <2>. SUFFICES ASSUME NEW t \in Threads, AliveThread(t), thread[t].slot \notin shared,
                       SessionIsTheirs(t), thread[t].slot \in Slots
                PROVE  SessionIsTheirs(t)'
    BY <1>1, <1>3 DEF RinetdInv, ThreadsAreSound, AliveThread, history
  <2>1. ctl'.pc # "backward" /\ ~Closing(thread[t].slot)
    BY <1>1, <1>2 DEF Closing
  <2>. QED
    BY <1>1, <1>3, <2>1 DEF SessionIsTheirs, AliveThread, Over, Serving
<1>. QED
  BY <1>4, <1>5, <1>6, <1>7, <1>8 DEF RinetdInv

LEMMA JoinForwardKeeps ==
  ASSUME RinetdInv, JoinForward
  PROVE  RinetdInv'
<1>. DEFINE i == ctl.i
<1>1. /\ UNCHANGED <<context, counted, listener, thread, sock, history>>
      /\ ctl.pc = "forward" /\ i \in Slots /\ ctl \in [pc : ControlStates, i : Nat]
      /\ ctl' \in [pc : ControlStates, i : Nat] /\ ctl'.i = i /\ ctl'.pc = "backward"
      /\ session' = [session EXCEPT ![i].forward = None]
      /\ session[i].forward # None => thread[Forward(session[i].forward)].pc = "done"
  BY DEF JoinForward, Joinable, RinetdInv, TypeOK, CommandsAreSound, ControlStates
<1>2. /\ \A s \in Slots : /\ session'[s].conn = session[s].conn
                          /\ s # i => session'[s].forward = session[s].forward
                          /\ session'[s].backward = session[s].backward
                          /\ session'[s].active = session[s].active
                          /\ Closing(s)' <=> Closing(s)
      /\ session' \in [Slots -> [active : BOOLEAN, conn : Connections \cup {None},
                                 forward : Connections \cup {None},
                                 backward : Connections \cup {None}]]
  BY <1>1 DEF RinetdInv, TypeOK, Closing
<1>3. TypeOK'
  BY <1>1, <1>2 DEF RinetdInv, TypeOK, context, history
<1>4. /\ ListenersWork' /\ CommandsAreSound' /\ SetupIsTheirs'
      /\ UniqueSource' /\ ListenersKeepTheirRules'
  BY <1>1, DrainingLeavesListeners, RinetdAssumption DEF Draining, Slots
<1>5. ConnectionsAreTaken' /\ NoLostSocket'
  BY <1>1, <1>2 DEF RinetdInv, ConnectionsAreTaken, HasTaken, NoLostSocket, Serving
<1>6. StoppedSessionsAreInactive'
  BY <1>1, <1>2 DEF RinetdInv, StoppedSessionsAreInactive, Draining
<1>7. ThreadsAreSound'
  <2>. SUFFICES ASSUME NEW t \in Threads, AliveThread(t), thread[t].slot \notin shared,
                       SessionIsTheirs(t), thread[t].slot \in Slots
                PROVE  SessionIsTheirs(t)'
    BY <1>1, <1>2 DEF RinetdInv, ThreadsAreSound, AliveThread, history
  <2>1. ASSUME thread[t].slot = i PROVE t # Forward(t[1])
    <3>1. t = Forward(t[1]) => session[i].forward = t[1]
      BY <1>1, <2>1 DEF SessionIsTheirs, Closing
    <3>. QED
      BY <1>1, <3>1, ThreadNames, RinetdAssumption DEF AliveThread
  <2>. QED
    BY <1>1, <1>2, <2>1 DEF SessionIsTheirs, AliveThread, Over, Serving
<1>. QED
  BY <1>3, <1>4, <1>5, <1>6, <1>7 DEF RinetdInv

LEMMA CloseSessionKeeps ==
  ASSUME RinetdInv, CloseSession
  PROVE  RinetdInv'
<1>. DEFINE i == ctl.i
            d == session[i].conn
<1>1. /\ UNCHANGED <<context, counted, listener, thread, history>>
      /\ ctl.pc = "backward" /\ i \in Slots /\ i \in Nat
      /\ ctl' \in [pc : ControlStates, i : Nat] /\ ctl'.i = i + 1 /\ ctl'.pc = "sessions"
      /\ session' = [session EXCEPT ![i].backward = None, ![i].conn = None]
      /\ session[i].backward # None => thread[Backward(session[i].backward)].pc = "done"
  BY DEF CloseSession, Joinable, RinetdInv, TypeOK, CommandsAreSound, ControlStates
<1>2. sock' = IF d = None THEN sock
              ELSE [sock EXCEPT ![d] = [client |-> "closed", server |-> "closed"]]
  BY DEF CloseSession
<1>3. /\ \A s \in Slots : /\ s # i => session'[s] = session[s]
                          /\ session'[s].active = session[s].active
                          /\ ~Closing(s)' /\ (Closing(s) <=> s = i)
      /\ session'[i].conn = None
      /\ session' \in [Slots -> [active : BOOLEAN, conn : Connections \cup {None},
                                 forward : Connections \cup {None},
                                 backward : Connections \cup {None}]]
  <2>. DEFINE S == [active : BOOLEAN, conn : Connections \cup {None},
                   forward : Connections \cup {None}, backward : Connections \cup {None}]
  <2>1. session \in [Slots -> S]
    BY DEF RinetdInv, TypeOK
  <2>2. session' \in [Slots -> S]
    BY <1>1, <2>1
  <2>3. ASSUME NEW s \in Slots
        PROVE  /\ s # i => session'[s] = session[s]
               /\ session'[s].active = session[s].active
               /\ ~Closing(s)' /\ (Closing(s) <=> s = i)
    BY <1>1, <2>1 DEF Closing
  <2>4. session'[i].conn = None
    BY <1>1, <2>1
  <2>. QED
    BY <2>2, <2>3, <2>4
<1>4. /\ \A c \in Connections : /\ c # d => sock'[c] = sock[c]
                                /\ c = d => sock'[c].client = "closed" /\ sock'[c].server = "closed"
      /\ sock' \in [Connections -> [client : {"none", "open", "closed"},
                                    server : {"none", "open", "closed"}]]
  <2>1. sock \in [Connections -> [client : {"none", "open", "closed"},
                                 server : {"none", "open", "closed"}]]
    BY DEF RinetdInv, TypeOK
  <2>2. CASE d = None
    BY <1>2, <2>1, <2>2, RinetdAssumption
  <2>3. CASE d # None
    BY <1>2, <2>1, <2>3
  <2>. QED
    BY <2>2, <2>3
<1>. HIDE DEF d
<1>5. TypeOK'
  BY <1>1, <1>3, <1>4 DEF RinetdInv, TypeOK, context, history
<1>6. /\ ListenersWork' /\ CommandsAreSound' /\ SetupIsTheirs'
      /\ UniqueSource' /\ ListenersKeepTheirRules'
  BY <1>1, DrainingLeavesListeners DEF Draining
<1>7. ConnectionsAreTaken'
  <2>1. \A l \in Listeners : listener'[l].conn = None
    BY <1>1, AllJoined DEF Draining
  <2>2. ASSUME NEW c \in Connections, sock'[c].client = "none"
        PROVE  /\ sock'[c].server = "none" /\ \A s \in Slots : session'[s].conn # c
               /\ thread'[Forward(c)].pc = "none" /\ thread'[Backward(c)].pc = "none"
    BY <1>1, <1>3, <1>4, <2>2, RinetdAssumption DEF RinetdInv, ConnectionsAreTaken, HasTaken
  <2>. QED
    BY <2>1, <2>2, RinetdAssumption DEF ConnectionsAreTaken, HasTaken
<1>8. NoLostSocket'
  BY <1>1, <1>4 DEF RinetdInv, NoLostSocket
<1>9. StoppedSessionsAreInactive'
  BY <1>1, <1>3 DEF RinetdInv, StoppedSessionsAreInactive, Draining, Slots
<1>10. ThreadsAreSound'
  <2>1. ASSUME NEW t \in Threads, AliveThread(t), thread[t].slot \notin shared
        PROVE  thread[t].slot # i
    <3>. SUFFICES ASSUME thread[t].slot = i PROVE FALSE
      OBVIOUS
    <3>1. SessionIsTheirs(t) /\ Closing(i)
      BY <1>1, <1>3, <2>1 DEF RinetdInv, ThreadsAreSound
    <3>2. t # Forward(t[1]) /\ (t = Backward(t[1]) => session[i].backward = t[1])
      BY <1>1, <3>1 DEF SessionIsTheirs
    <3>. QED
      BY <1>1, <2>1, <3>2, ThreadNames, RinetdAssumption DEF AliveThread
  <2>2. \A t \in Threads : t[1] \in Connections
    BY ThreadNames
  <2>3. ASSUME NEW t \in Threads, AliveThread(t)
        PROVE  \A s \in Slots : session'[s].conn = t[1] => thread[t].slot = s
    BY <1>3, <2>2, <2>3, RinetdAssumption DEF RinetdInv, ThreadsAreSound
  <2>4. ASSUME NEW t \in Threads, AliveThread(t), thread[t].slot \notin shared
        PROVE  SessionIsTheirs(t)'
    <3>1. SessionIsTheirs(t) /\ thread[t].slot \in Slots
      BY <2>4 DEF RinetdInv, ThreadsAreSound
    <3>2. sock'[t[1]] = sock[t[1]]
      BY <1>1, <1>4, <2>1, <2>2, <2>4 DEF RinetdInv, ThreadsAreSound, d
    <3>. QED
      BY <1>1, <1>3, <2>1, <2>4, <3>1, <3>2 DEF SessionIsTheirs, AliveThread, Over, Serving
  <2>. QED
    BY <1>1, <2>3, <2>4 DEF RinetdInv, ThreadsAreSound, AliveThread, history
<1>. QED
  BY <1>5, <1>6, <1>7, <1>8, <1>9, <1>10 DEF RinetdInv

-----------------------------------------------------------------------------
(* The listener threads.                                                    *)

ListenerRecord == [pc : ListenerStates, rule : 0 .. MaxRules,
                   conn : Connections \cup {None}, slot : 0 .. MaxSessions + 1]

LEMMA ListenerTyped ==
  ASSUME RinetdInv, NEW l \in Listeners, NEW pc \in ListenerStates,
         NEW c \in Connections \cup {None}, NEW s \in 0 .. MaxSessions + 1
  PROVE  /\ [listener EXCEPT ![l].pc = pc] \in [Listeners -> ListenerRecord]
         /\ [listener EXCEPT ![l].slot = s] \in [Listeners -> ListenerRecord]
         /\ [listener EXCEPT ![l].pc = pc, ![l].conn = c] \in [Listeners -> ListenerRecord]
         /\ [listener EXCEPT ![l].pc = pc, ![l].slot = s] \in [Listeners -> ListenerRecord]
         /\ [listener EXCEPT ![l].pc = pc, ![l].conn = c, ![l].slot = s]
              \in [Listeners -> ListenerRecord]
<1>1. listener \in [Listeners -> ListenerRecord]
  BY DEF RinetdInv, TypeOK, ListenerRecord
<1>2. /\ [listener[l] EXCEPT !.pc = pc] \in ListenerRecord
      /\ [listener[l] EXCEPT !.slot = s] \in ListenerRecord
      /\ [listener[l] EXCEPT !.pc = pc, !.conn = c] \in ListenerRecord
      /\ [listener[l] EXCEPT !.pc = pc, !.slot = s] \in ListenerRecord
      /\ [listener[l] EXCEPT !.pc = pc, !.conn = c, !.slot = s] \in ListenerRecord
  BY <1>1 DEF ListenerRecord
<1>3. /\ [listener EXCEPT ![l] = [listener[l] EXCEPT !.pc = pc]] \in [Listeners -> ListenerRecord]
      /\ [listener EXCEPT ![l] = [listener[l] EXCEPT !.slot = s]] \in [Listeners -> ListenerRecord]
      /\ [listener EXCEPT ![l] = [listener[l] EXCEPT !.pc = pc, !.conn = c]]
           \in [Listeners -> ListenerRecord]
      /\ [listener EXCEPT ![l] = [listener[l] EXCEPT !.pc = pc, !.slot = s]]
           \in [Listeners -> ListenerRecord]
      /\ [listener EXCEPT ![l] = [listener[l] EXCEPT !.pc = pc, !.conn = c, !.slot = s]]
           \in [Listeners -> ListenerRecord]
  BY <1>1, <1>2
<1>. QED
  BY <1>3

\* A listener that has come to its loop has seen the service run, and it is
\* not joined before it has left the loop.
LEMMA LoopMeansService ==
  ASSUME RinetdInv, NEW l \in Listeners, listener[l].pc \notin {"none", "setup"} \cup Returned
  PROVE  ~Draining /\ ~(~running /\ ctl.pc \in {"idle", "start"}) /\ ctl.pc # "aborted"
BY AllJoined DEF RinetdInv, StoppedSessionsAreInactive, CommandsAreSound

LEMMA ListenerLeavesCommands ==
  ASSUME RinetdInv, NEW l \in Listeners, AliveListener(l),
         listener'[l].pc # "none", listener'[l].rule = listener[l].rule,
         \A m \in Listeners : m # l => listener'[m] = listener[m],
         UNCHANGED <<context, ctl, failed>>,
         counted' => counted \/ AtWork(l)
  PROVE  CommandsAreSound' /\ UniqueSource' /\ ListenersKeepTheirRules'
<1>1. counted' => running \/ ctl.pc = "listeners" \/ Draining
  <2>1. AtWork(l) => running \/ ctl.pc = "listeners"
    BY LoopMeansService DEF AtWork, Returned, RinetdInv, TypeOK, ControlStates, Draining
  <2>. QED
    BY <2>1 DEF RinetdInv, CommandsAreSound
<1>2. listener[l].pc # "none"
  BY DEF AliveListener
<1>3. CommandsAreSound'
  BY <1>1, <1>2 DEF RinetdInv, CommandsAreSound, Draining, Idle, context
<1>4. UniqueSource' /\ ListenersKeepTheirRules'
  BY DEF RinetdInv, UniqueSource, ListenersKeepTheirRules, AliveListener, context
<1>. QED
  BY <1>3, <1>4

\* One that has no connection.
LEMMA IdleListenerKeeps ==
  ASSUME RinetdInv, NEW l \in Listeners, ListenerTests(l) \/ ListenerFails(l) \/ AcceptFails(l)
  PROVE  RinetdInv'
<1>1. /\ UNCHANGED <<context, session, counted, ctl, thread, sock, history>>
      /\ listener[l].pc \in {"setup", "test", "accept"}
      /\ \E pc \in {"accept", "done", "broken", "test"} :
           listener' = [listener EXCEPT ![l].pc = pc]
  BY DEF ListenerTests, ListenerFails, AcceptFails, Goes
<1>2. /\ listener'[l].pc \in {"accept", "done", "broken", "test"}
      /\ listener'[l].rule = listener[l].rule /\ listener'[l].conn = listener[l].conn
      /\ \A m \in Listeners : m # l => listener'[m] = listener[m]
  BY <1>1 DEF RinetdInv, TypeOK
<1>3. TypeOK'
  <2>1. listener' \in [Listeners -> [pc : ListenerStates, rule : 0 .. MaxRules,
                         conn : Connections \cup {None}, slot : 0 .. MaxSessions + 1]]
    <3>1. PICK pc \in ListenerStates : listener' = [listener EXCEPT ![l].pc = pc]
      BY <1>1 DEF ListenerStates
    <3>2. None \in Connections \cup {None} /\ 0 \in 0 .. MaxSessions + 1
      BY RinetdAssumption
    <3>. QED
      BY <3>1, <3>2, ListenerTyped DEF ListenerRecord
  <2>. QED
    BY <1>1, <2>1 DEF RinetdInv, TypeOK, context, history
<1>4. ListenersWork' /\ ConnectionsAreTaken' /\ ThreadsAreSound' /\ SetupIsTheirs' /\ NoLostSocket'
  <2>1. ASSUME NEW m \in Listeners
        PROVE  IF AtWork(m) THEN listener'[m] = listener[m]
               ELSE listener'[m].conn = None /\ ~AtWork(m)'
    BY <1>1, <1>2 DEF RinetdInv, ListenersWork, AtWork
  <2>. QED
    BY <1>1, <2>1, IdleListenersLeaveConnections DEF Closing, history
<1>5. CommandsAreSound' /\ UniqueSource' /\ ListenersKeepTheirRules'
  BY <1>1, <1>2, ListenerLeavesCommands DEF AliveListener, Returned, history
<1>6. StoppedSessionsAreInactive'
  <2>1. CASE running
    BY <1>1, <1>2, <2>1, AllJoined DEF RinetdInv, StoppedSessionsAreInactive, Draining, Closing, context
  <2>2. CASE ~running
    <3>1. ctl.pc \in {"idle", "start"} => listener'[l].pc \in {"none", "setup"} \cup Returned
      BY <1>1, <2>2 DEF ListenerTests, ListenerFails, AcceptFails, Goes, RinetdInv, TypeOK,
        StoppedSessionsAreInactive, Returned
    <3>. QED
      BY <1>1, <1>2, <3>1 DEF RinetdInv, StoppedSessionsAreInactive, Draining, Closing, context
  <2>. QED
    BY <2>1, <2>2
<1>. QED
  BY <1>3, <1>4, <1>5, <1>6 DEF RinetdInv

\* One that has a connection is in its loop: what is left to show is about
\* connections and threads.
LEMMA WorkLeavesCommands ==
  ASSUME RinetdInv, NEW l \in Listeners, AtWork(l) \/ listener[l].pc = "accept",
         listener'[l].pc # "none", listener'[l].rule = listener[l].rule,
         \A m \in Listeners : m # l => listener'[m] = listener[m],
         UNCHANGED <<context, ctl, failed>>, counted' => counted \/ AtWork(l)
  PROVE  /\ CommandsAreSound' /\ UniqueSource' /\ ListenersKeepTheirRules'
         /\ StoppedSessionsAreInactive'
         /\ \A s \in Slots : ~Closing(s) /\ ~Closing(s)'
<1>1. ~Draining /\ ~(~running /\ ctl.pc \in {"idle", "start"})
  BY LoopMeansService DEF AtWork, Returned
<1>2. CommandsAreSound' /\ UniqueSource' /\ ListenersKeepTheirRules'
  BY ListenerLeavesCommands DEF AliveListener, AtWork, Returned
<1>. QED
  BY <1>1, <1>2 DEF StoppedSessionsAreInactive, Draining, Closing, context

\* A listener does not mind what happens to the connections of others.
LEMMA OthersKeepTaken ==
  ASSUME NEW m \in Listeners, NEW d \in Connections, HasTaken(m, d),
         listener'[m] = listener[m], sock'[d] = sock[d],
         thread'[Forward(d)] = thread[Forward(d)], thread'[Backward(d)] = thread[Backward(d)],
         \A q \in Slots : session'[q].conn = session[q].conn \/ session'[q].conn # d
  PROVE  HasTaken(m, d)'
BY DEF HasTaken, Serving

LEMMA AcceptsKeeps ==
  ASSUME RinetdInv, NEW l \in Listeners, Accepts(l)
  PROVE  RinetdInv'
<1>1. PICK c \in Connections :
        /\ sock[c].client = "none"
        /\ sock' = [sock EXCEPT ![c].client = "open"]
        /\ listener' = [listener EXCEPT ![l].pc = "server", ![l].conn = c]
  BY DEF Accepts
<1>2. /\ UNCHANGED <<context, session, counted, ctl, thread, history>>
      /\ listener[l].pc = "accept" /\ c # None
  BY RinetdAssumption DEF Accepts
<1>3. /\ thread[Forward(c)].pc = "none" /\ thread[Backward(c)].pc = "none"
      /\ sock[c].server = "none"
      /\ \A m \in Listeners : listener[m].conn # c
      /\ \A s \in Slots : session[s].conn # c
  BY <1>1 DEF RinetdInv, ConnectionsAreTaken
<1>4. /\ listener'[l].pc = "server" /\ listener'[l].conn = c
      /\ listener'[l].rule = listener[l].rule
      /\ \A m \in Listeners : m # l => listener'[m] = listener[m]
      /\ sock'[c].client = "open" /\ sock'[c].server = "none"
      /\ \A d \in Connections : d # c => sock'[d] = sock[d]
  BY <1>1, <1>3 DEF RinetdInv, TypeOK
<1>5. TypeOK'
  <2>1. listener' \in [Listeners -> [pc : ListenerStates, rule : 0 .. MaxRules,
                         conn : Connections \cup {None}, slot : 0 .. MaxSessions + 1]]
    <3>1. "server" \in ListenerStates
      BY DEF ListenerStates
    <3>2. 0 \in 0 .. MaxSessions + 1
      BY RinetdAssumption
    <3>. QED
      BY <1>1, <3>1, <3>2, ListenerTyped DEF ListenerRecord
  <2>2. sock' \in [Connections -> [client : {"none", "open", "closed"},
                                   server : {"none", "open", "closed"}]]
    BY <1>1 DEF RinetdInv, TypeOK
  <2>. QED
    BY <1>2, <2>1, <2>2 DEF RinetdInv, TypeOK, context, history
<1>6. /\ CommandsAreSound' /\ UniqueSource' /\ ListenersKeepTheirRules'
      /\ StoppedSessionsAreInactive' /\ \A s \in Slots : ~Closing(s) /\ ~Closing(s)'
  BY <1>2, <1>4, WorkLeavesCommands DEF history
<1>7. ListenersWork'
  BY <1>2, <1>3, <1>4, RinetdAssumption DEF RinetdInv, ListenersWork, AtWork, Serving
<1>8. ConnectionsAreTaken'
  <2>1. HasTaken(l, c)'
    BY <1>2, <1>3, <1>4 DEF HasTaken
  <2>2. ASSUME NEW d \in Connections, NEW m \in Listeners, listener'[m].conn = d, d # c
        PROVE  HasTaken(m, d)'
    <3>1. m # l /\ HasTaken(m, d)
      BY <1>4, <2>2 DEF RinetdInv, ConnectionsAreTaken
    <3>. QED
      BY <1>2, <1>4, <2>2, <3>1, OthersKeepTaken
  <2>3. ASSUME NEW m \in Listeners, listener'[m].conn = c PROVE m = l
    BY <1>3, <1>4, <2>3
  <2>. QED
    BY <1>2, <1>4, <2>1, <2>2, <2>3 DEF RinetdInv, ConnectionsAreTaken
<1>9. ThreadsAreSound'
  <2>. SUFFICES ASSUME NEW t \in Threads, AliveThread(t), thread[t].slot \notin shared,
                       SessionIsTheirs(t), thread[t].slot \in Slots
                PROVE  SessionIsTheirs(t)'
    BY <1>2 DEF RinetdInv, ThreadsAreSound, AliveThread, history
  <2>1. t[1] # c /\ t[1] \in Connections
    BY <1>3, ThreadNames DEF AliveThread
  <2>. QED
    BY <1>2, <1>4, <1>6, <2>1 DEF SessionIsTheirs, AliveThread, Over, Serving, Closing
<1>10. SetupIsTheirs'
  BY <1>2, <1>4 DEF RinetdInv, SetupIsTheirs, Serving, history
<1>11. NoLostSocket'
  <2>1. listener[l].conn = None
    BY <1>2 DEF RinetdInv, ListenersWork, AtWork
  <2>. QED
    BY <1>2, <1>4, <2>1, RinetdAssumption DEF RinetdInv, NoLostSocket
<1>. QED
  BY <1>5, <1>6, <1>7, <1>8, <1>9, <1>10, <1>11 DEF RinetdInv

\* A listener's step that touches no session and no thread, with the client c
\* that it has before it and, unless both sockets are closed, after it.
LEMMA OwnStepKeeps ==
  ASSUME RinetdInv, NEW l \in Listeners, NEW c, c = listener[l].conn,
         listener[l].pc \in {"server", "connect", "scan", "refuse"},
         UNCHANGED <<context, session, counted, ctl, thread, history>>,
         listener' \in [Listeners -> ListenerRecord],
         listener'[l].pc \in {"test", "connect", "scan", "fill", "refuse"},
         listener'[l].rule = listener[l].rule,
         \A m \in Listeners : m # l => listener'[m] = listener[m],
         listener'[l].pc = "scan" => listener'[l].slot \in 1 .. MaxSessions + 1,
         listener'[l].pc = "fill" => listener'[l].slot \in Slots,
         sock' \in [Connections -> [client : {"none", "open", "closed"},
                                    server : {"none", "open", "closed"}]],
         \A d \in Connections : d # c => sock'[d] = sock[d],
         IF listener'[l].pc = "test"
           THEN /\ listener[l].pc = "refuse"
                /\ listener'[l].conn = None
                /\ sock'[c].client = "closed" /\ sock'[c].server = sock[c].server
           ELSE /\ listener[l].pc # "refuse"
                /\ listener'[l].conn = c
                /\ sock'[c].client = sock[c].client
                /\ sock'[c].server = "open"
                     <=> listener'[l].pc \in {"connect", "scan", "fill"}
  PROVE  RinetdInv'
<1>1. c \in Connections /\ c # None /\ AtWork(l) /\ ~Serving(l) /\ ~Serving(l)'
  BY RinetdAssumption DEF RinetdInv, TypeOK, ListenersWork, AtWork, Serving
<1>2. /\ HasTaken(l, c) /\ \A m \in Listeners : m # l => listener[m].conn # c
      /\ sock[c].client = "open" /\ sock'[c].client # "none"
      /\ listener[l].pc = "refuse" => sock[c].server # "open"
  BY <1>1 DEF RinetdInv, ConnectionsAreTaken, ListenersWork, HasTaken
<1>3. TypeOK'
  BY DEF RinetdInv, TypeOK, ListenerRecord, context, history
<1>4. /\ CommandsAreSound' /\ UniqueSource' /\ ListenersKeepTheirRules'
      /\ StoppedSessionsAreInactive' /\ \A s \in Slots : ~Closing(s) /\ ~Closing(s)'
  BY <1>1, WorkLeavesCommands DEF history
<1>5. ListenersWork'
  BY <1>1, <1>2 DEF RinetdInv, ListenersWork, AtWork, Serving
<1>6. ConnectionsAreTaken'
  <2>1. ASSUME NEW d \in Connections, sock'[d].client = "none"
        PROVE  /\ sock'[d].server = "none"
               /\ thread'[Forward(d)].pc = "none" /\ thread'[Backward(d)].pc = "none"
               /\ \A m \in Listeners : listener'[m].conn # d
               /\ \A q \in Slots : session'[q].conn # d
    <3>1. d # c /\ d # None /\ sock'[d] = sock[d]
      BY <1>2, <2>1, RinetdAssumption
    <3>. QED
      BY <2>1, <3>1 DEF RinetdInv, ConnectionsAreTaken
  <2>2. ASSUME NEW d \in Connections, NEW m \in Listeners, listener'[m].conn = d
        PROVE  HasTaken(m, d)'
    <3>1. CASE m = l
      <4>1. d = c /\ listener'[l].pc # "test" /\ listener[l].pc # "refuse"
        BY <2>2, <3>1, RinetdAssumption
      <4>. QED
        BY <1>1, <1>2, <3>1, <4>1 DEF HasTaken, Serving
    <3>2. CASE m # l
      <4>1. d # c /\ HasTaken(m, d)
        BY <1>2, <2>2, <3>2 DEF RinetdInv, ConnectionsAreTaken
      <4>. QED
        BY <3>2, <4>1, OthersKeepTaken
    <3>. QED
      BY <3>1, <3>2
  <2>. QED
    BY <2>1, <2>2 DEF ConnectionsAreTaken
<1>7. \A m \in Listeners : Serving(m)' => Serving(m) /\ listener'[m] = listener[m]
  BY <1>1 DEF Serving
<1>8. ThreadsAreSound'
  <2>. SUFFICES ASSUME NEW t \in Threads, AliveThread(t), thread[t].slot \notin shared,
                       SessionIsTheirs(t), thread[t].slot \in Slots
                PROVE  SessionIsTheirs(t)'
    BY DEF RinetdInv, ThreadsAreSound, AliveThread, history
  <2>1. thread[Backward(t[1])].pc # "failed" => sock'[t[1]] = Open
    <3>. SUFFICES ASSUME thread[Backward(t[1])].pc # "failed"
                  PROVE  t[1] # c /\ t[1] \in Connections
      BY DEF SessionIsTheirs
    <3>1. t[1] \in Connections /\ (t = Forward(t[1]) \/ t = Backward(t[1])) /\ sock[t[1]] = Open
      BY ThreadNames DEF SessionIsTheirs
    <3>2. ASSUME t[1] = c PROVE FALSE
      <4>1. CASE listener[l].pc = "refuse"
        BY <1>2, <3>1, <3>2, <4>1 DEF Open
      <4>2. CASE listener[l].pc # "refuse"
        BY <1>2, <3>1, <3>2, <4>2 DEF HasTaken, AliveThread
      <4>. QED
        BY <4>1, <4>2
    <3>. QED
      BY <3>1, <3>2
  <2>. QED
    BY <1>4, <1>7, <2>1 DEF SessionIsTheirs, AliveThread, Over, Closing
<1>9. SetupIsTheirs'
  BY <1>7 DEF RinetdInv, SetupIsTheirs, history
<1>10. NoLostSocket'
  <2>. SUFFICES ASSUME NEW d \in Connections, thread[Backward(d)].pc \in {"none", "failed"}
                PROVE  /\ sock'[d].client = "open" => \E m \in Listeners : listener'[m].conn = d
                       /\ sock'[d].server = "open" =>
                            \E m \in Listeners : listener'[m].conn = d /\ listener'[m].pc # "refuse"
    BY DEF NoLostSocket
  <2>1. CASE d = c
    BY <1>2, <2>1
  <2>2. CASE d # c
    <3>1. \A m \in Listeners : listener[m].conn = d => listener'[m] = listener[m]
      BY <2>2
    <3>. QED
      BY <2>2, <3>1 DEF RinetdInv, NoLostSocket
  <2>. QED
    BY <2>1, <2>2
<1>. QED
  BY <1>3, <1>4, <1>5, <1>6, <1>8, <1>9, <1>10 DEF RinetdInv

\* A look at a session changes nothing but the listener's own locals.
LEMMA ScansKeeps ==
  ASSUME RinetdInv, NEW l \in Listeners, Scans(l)
  PROVE  RinetdInv'
<1>1. /\ UNCHANGED <<context, session, counted, ctl, thread, sock, history>>
      /\ listener[l].pc = "scan" /\ AtWork(l) /\ listener[l].slot \in Slots
      /\ listener[l].slot + 1 \in 1 .. MaxSessions + 1
  BY RinetdAssumption DEF Scans, RinetdInv, ListenersWork, Slots, AtWork
<1>. DEFINE next == listener[l].slot + 1
            c == listener[l].conn
<1>2. /\ \/ listener'[l].pc = "scan" /\ listener'[l].slot \in 1 .. MaxSessions + 1
         \/ listener'[l].pc = "fill" /\ listener'[l].slot \in Slots
      /\ listener'[l].conn = listener[l].conn /\ listener'[l].rule = listener[l].rule
      /\ \A m \in Listeners : m # l => listener'[m] = listener[m]
      /\ listener' \in [Listeners -> ListenerRecord]
  <2>1. listener \in [Listeners -> ListenerRecord]
    BY DEF RinetdInv, TypeOK, ListenerRecord
  <2>2. None \in Connections \cup {None} /\ next \in 0 .. MaxSessions + 1
        /\ "fill" \in ListenerStates
    BY <1>1, RinetdAssumption DEF ListenerStates
  <2>3. CASE session[listener[l].slot].active
    <3>1. listener' = [listener EXCEPT ![l].slot = next]
      BY <2>3 DEF Scans
    <3>2. listener' \in [Listeners -> ListenerRecord]
      BY <2>2, <3>1, ListenerTyped
    <3>. HIDE DEF next
    <3>3. /\ listener'[l].pc = listener[l].pc /\ listener'[l].slot = next
          /\ listener'[l].conn = listener[l].conn /\ listener'[l].rule = listener[l].rule
          /\ \A m \in Listeners : m # l => listener'[m] = listener[m]
      BY <2>1, <3>1 DEF ListenerRecord
    <3>. QED
      BY <1>1, <3>2, <3>3 DEF next
  <2>4. CASE ~session[listener[l].slot].active
    <3>1. listener' = [listener EXCEPT ![l].pc = "fill"]
      BY <2>4 DEF Scans, Goes
    <3>2. listener' \in [Listeners -> ListenerRecord]
      BY <2>2, <3>1, ListenerTyped
    <3>3. /\ listener'[l].pc = "fill" /\ listener'[l].slot = listener[l].slot
          /\ listener'[l].conn = listener[l].conn /\ listener'[l].rule = listener[l].rule
          /\ \A m \in Listeners : m # l => listener'[m] = listener[m]
      BY <2>1, <3>1 DEF ListenerRecord
    <3>. QED
      BY <1>1, <3>2, <3>3
  <2>. QED
    BY <2>3, <2>4
<1>. HIDE DEF next
<1>3. c \in Connections /\ sock[c].server = "open"
  BY <1>1 DEF RinetdInv, TypeOK, ListenersWork, ConnectionsAreTaken, HasTaken
<1>4. sock' \in [Connections -> [client : {"none", "open", "closed"},
                                 server : {"none", "open", "closed"}]]
  BY <1>1 DEF RinetdInv, TypeOK
<1>. QED
  BY <1>1, <1>2, <1>3, <1>4, OwnStepKeeps

\* What a listener leaves when create_forward_session has given up: the
\* server's socket closed, the client's open.
LEMMA GivesUpLeaves ==
  ASSUME RinetdInv, NEW l \in Listeners, AtWork(l), GivesUp(l)
  PROVE  /\ listener[l].conn \in Connections
         /\ listener'[l].pc = "refuse" /\ listener'[l].conn = listener[l].conn
         /\ listener'[l].rule = listener[l].rule
         /\ \A m \in Listeners : m # l => listener'[m] = listener[m]
         /\ listener' \in [Listeners -> ListenerRecord]
         /\ sock'[listener[l].conn].client = "open" /\ sock'[listener[l].conn].server = "closed"
         /\ \A c \in Connections : c # listener[l].conn => sock'[c] = sock[c]
         /\ sock' \in [Connections -> [client : {"none", "open", "closed"},
                                       server : {"none", "open", "closed"}]]
         /\ ListenersWork'
<1>1. listener[l].conn \in Connections
  BY DEF RinetdInv, TypeOK, ListenersWork
<1>2. /\ listener'[l].pc = "refuse" /\ listener'[l].conn = listener[l].conn
      /\ listener'[l].rule = listener[l].rule
      /\ \A m \in Listeners : m # l => listener'[m] = listener[m]
  BY DEF GivesUp, Refused, RinetdInv, TypeOK
<1>3. listener' \in [Listeners -> ListenerRecord]
  <2>1. "refuse" \in ListenerStates /\ 0 \in 0 .. MaxSessions + 1
    BY RinetdAssumption DEF ListenerStates
  <2>. QED
    BY <2>1, ListenerTyped DEF GivesUp, Refused
<1>4. sock[listener[l].conn].client = "open"
  BY <1>1 DEF RinetdInv, ConnectionsAreTaken, HasTaken
<1>5. /\ sock'[listener[l].conn].client = "open" /\ sock'[listener[l].conn].server = "closed"
      /\ \A c \in Connections : c # listener[l].conn => sock'[c] = sock[c]
      /\ sock' \in [Connections -> [client : {"none", "open", "closed"},
                                    server : {"none", "open", "closed"}]]
  BY <1>1, <1>4 DEF GivesUp, RinetdInv, TypeOK
<1>6. ListenersWork'
  BY <1>2 DEF RinetdInv, ListenersWork, AtWork, Serving
<1>. QED
  BY <1>1, <1>2, <1>3, <1>5, <1>6

\* create_forward_session before it has a session, and listener_thread when it
\* has got none.
LEMMA ServerStepsKeep ==
  ASSUME RinetdInv, NEW l \in Listeners,
         \/ CreatesServer(l) \/ ServerFails(l) \/ Connects(l) \/ ConnectFails(l) \/ NoSlot(l)
         \/ ClosesClient(l)
  PROVE  RinetdInv'
<1>. DEFINE c == listener[l].conn
<1>1. /\ UNCHANGED <<context, session, counted, ctl, thread, history>>
      /\ listener[l].pc \in {"server", "connect", "scan", "refuse"} /\ AtWork(l)
  BY DEF CreatesServer, ServerFails, Connects, ConnectFails, NoSlot, ClosesClient, AtWork
<1>2. c \in Connections /\ sock[c].client = "open"
      /\ (sock[c].server = "open" <=> listener[l].pc \in {"connect", "scan"})
      /\ listener \in [Listeners -> ListenerRecord]
      /\ sock \in [Connections -> [client : {"none", "open", "closed"},
                                   server : {"none", "open", "closed"}]]
  BY <1>1 DEF RinetdInv, TypeOK, ListenersWork, ConnectionsAreTaken, HasTaken, ListenerRecord
<1>3. {"test", "connect", "scan", "refuse"} \subseteq ListenerStates
      /\ {0, 1} \subseteq 0 .. MaxSessions + 1 /\ 1 \in 1 .. MaxSessions + 1
      /\ None \in Connections \cup {None}
  BY RinetdAssumption DEF ListenerStates
<1>4. CASE ConnectFails(l) \/ NoSlot(l)
  <2>1. GivesUp(l) /\ listener[l].pc \in {"connect", "scan"}
    BY <1>4 DEF ConnectFails, NoSlot
  <2>. HIDE DEF c
  <2>. QED
    BY <1>1, <1>2, <2>1, GivesUpLeaves, OwnStepKeeps DEF c
<1>5. CASE CreatesServer(l)
  <2>1. /\ sock' = [sock EXCEPT ![c].server = "open"]
        /\ listener' = [listener EXCEPT ![l].pc = "connect"] /\ listener[l].pc = "server"
    BY <1>5 DEF CreatesServer, Goes
  <2>2. listener' \in [Listeners -> ListenerRecord]
    BY <1>3, <2>1, ListenerTyped, None \in Connections \cup {None}, 0 \in 0 .. MaxSessions + 1
  <2>3. /\ listener'[l].pc = "connect" /\ listener'[l].conn = c
        /\ listener'[l].rule = listener[l].rule
        /\ \A m \in Listeners : m # l => listener'[m] = listener[m]
    BY <1>2, <2>1 DEF ListenerRecord
  <2>4. /\ sock' \in [Connections -> [client : {"none", "open", "closed"},
                                      server : {"none", "open", "closed"}]]
        /\ sock'[c].server = "open" /\ sock'[c].client = sock[c].client
        /\ \A d \in Connections : d # c => sock'[d] = sock[d]
    BY <1>2, <2>1
  <2>. QED
    BY <1>1, <1>2, <2>1, <2>2, <2>3, <2>4, OwnStepKeeps
<1>6. CASE ServerFails(l)
  <2>1. /\ sock' = sock /\ listener[l].pc = "server"
        /\ listener' = [listener EXCEPT ![l].pc = "refuse", ![l].slot = 0]
    BY <1>6 DEF ServerFails, Refused
  <2>2. listener' \in [Listeners -> ListenerRecord]
    BY <1>3, <2>1, ListenerTyped, 0 \in 0 .. MaxSessions + 1
  <2>3. /\ listener'[l].pc = "refuse" /\ listener'[l].conn = c
        /\ listener'[l].rule = listener[l].rule
        /\ \A m \in Listeners : m # l => listener'[m] = listener[m]
    BY <1>2, <2>1 DEF ListenerRecord
  <2>. QED
    BY <1>1, <1>2, <2>1, <2>2, <2>3, OwnStepKeeps
<1>7. CASE Connects(l)
  <2>1. /\ sock' = sock /\ listener[l].pc = "connect"
        /\ listener' = [listener EXCEPT ![l].pc = "scan", ![l].slot = 1]
    BY <1>7 DEF Connects
  <2>2. listener' \in [Listeners -> ListenerRecord]
    BY <1>3, <2>1, ListenerTyped, 1 \in 0 .. MaxSessions + 1
  <2>3. /\ listener'[l].pc = "scan" /\ listener'[l].conn = c /\ listener'[l].slot = 1
        /\ listener'[l].rule = listener[l].rule
        /\ \A m \in Listeners : m # l => listener'[m] = listener[m]
    BY <1>2, <2>1 DEF ListenerRecord
  <2>. QED
    BY <1>1, <1>2, <1>3, <2>1, <2>2, <2>3, OwnStepKeeps
<1>8. CASE ClosesClient(l)
  <2>1. /\ sock' = [sock EXCEPT ![c].client = "closed"] /\ listener[l].pc = "refuse"
        /\ listener' = [listener EXCEPT ![l].pc = "test", ![l].conn = None, ![l].slot = 0]
    BY <1>8 DEF ClosesClient, LoopsAgain
  <2>2. listener' \in [Listeners -> ListenerRecord]
    BY <1>3, <2>1, ListenerTyped, 0 \in 0 .. MaxSessions + 1
  <2>3. /\ listener'[l].pc = "test" /\ listener'[l].conn = None
        /\ listener'[l].rule = listener[l].rule
        /\ \A m \in Listeners : m # l => listener'[m] = listener[m]
    BY <1>2, <2>1 DEF ListenerRecord
  <2>4. /\ sock' \in [Connections -> [client : {"none", "open", "closed"},
                                      server : {"none", "open", "closed"}]]
        /\ sock'[c].client = "closed" /\ sock'[c].server = sock[c].server
        /\ \A d \in Connections : d # c => sock'[d] = sock[d]
    BY <1>2, <2>1
  <2>. QED
    BY <1>1, <1>2, <2>1, <2>2, <2>3, <2>4, OwnStepKeeps
<1>. QED
  BY <1>4, <1>5, <1>6, <1>7, <1>8

\* A thread does not mind what happens to the sessions, threads, sockets and
\* listeners of others.
LEMMA OthersKeepTheirs ==
  ASSUME RinetdInv, NEW t \in Threads, AliveThread(t), SessionIsTheirs(t),
         ctl' = ctl, thread[t].slot \in Slots,
         session'[thread[t].slot] = session[thread[t].slot],
         thread'[Forward(t[1])] = thread[Forward(t[1])],
         thread'[Backward(t[1])] = thread[Backward(t[1])],
         sock'[t[1]] = sock[t[1]],
         \A u \in Threads : AliveThread(u)' /\ thread'[u].slot = thread[t].slot =>
                              AliveThread(u) /\ thread[u].slot = thread[t].slot,
         \A m \in Listeners : Serving(m)' /\ listener'[m].slot = thread[t].slot =>
                                /\ Serving(m) /\ listener[m].slot = thread[t].slot
                                /\ listener'[m].conn = listener[m].conn
  PROVE  AliveThread(t)' /\ thread'[t].slot = thread[t].slot /\ SessionIsTheirs(t)'
<1>1. thread'[t] = thread[t]
  BY ThreadNames
<1>2. Over(t[1])' <=> Over(t[1])
  BY DEF Over
<1>3. \A s : Closing(s)' <=> Closing(s)
  BY DEF Closing
<1>. QED
  BY <1>1, <1>2, <1>3 DEF SessionIsTheirs, AliveThread

\* What a listener that sets up a session may count on.
LEMMA ServingAlone ==
  ASSUME RinetdInv, NEW l \in Listeners, Serving(l), NEW c, NEW s,
         c = listener[l].conn, s = listener[l].slot
  PROVE  /\ c \in Connections /\ c # None /\ s \in Slots
         /\ sock[c] = Open /\ thread[Backward(c)].pc = "none"
         /\ thread[Forward(c)].pc = "none" <=> listener[l].pc # "backward"
         /\ \A q \in Slots : session[q].conn = c => q = s
         /\ \A m \in Listeners : m # l => listener[m].conn # c
         /\ s \notin shared =>
              /\ session[s].conn = c
              /\ \A t \in Threads : AliveThread(t) /\ thread[t].slot = s => t[1] = c
              /\ \A m \in Listeners : Serving(m) /\ listener[m].slot = s => m = l
         /\ \A t \in Threads : AliveThread(t) /\ t # Forward(c) => t[1] # c
         /\ \A s2 \in Slots : ~Closing(s2)
<1>1. c \in Connections /\ c # None /\ s \in Slots /\ AtWork(l)
  BY RinetdAssumption DEF RinetdInv, TypeOK, ListenersWork, Serving, AtWork
<1>2. /\ sock[c] = Open /\ thread[Backward(c)].pc = "none"
      /\ thread[Forward(c)].pc = "none" <=> listener[l].pc # "backward"
      /\ \A q \in Slots : session[q].conn = c => q = s
  BY <1>1 DEF RinetdInv, TypeOK, ConnectionsAreTaken, HasTaken, Serving, Open
<1>3. \A m \in Listeners : m # l => listener[m].conn # c
  BY <1>1 DEF RinetdInv, ListenersWork
<1>4. s \notin shared =>
        /\ session[s].conn = c
        /\ \A t \in Threads : AliveThread(t) /\ thread[t].slot = s => t[1] = c
        /\ \A m \in Listeners : Serving(m) /\ listener[m].slot = s => m = l
  BY DEF RinetdInv, SetupIsTheirs, ThreadsAreSound, SessionIsTheirs
<1>5. \A t \in Threads : AliveThread(t) /\ t # Forward(c) => t[1] # c
  BY <1>1, <1>2, ThreadNames DEF AliveThread
<1>6. \A s2 \in Slots : ~Closing(s2)
  BY LoopMeansService DEF Serving, Returned, Draining, Closing
<1>. QED
  BY <1>1, <1>2, <1>3, <1>4, <1>5, <1>6

SessionRecord == [active : BOOLEAN, conn : Connections \cup {None},
                  forward : Connections \cup {None}, backward : Connections \cup {None}]
ThreadRecord == [pc : ThreadStates, slot : 0 .. MaxSessions, conn : Connections \cup {None}]

LEMMA SessionTyped ==
  ASSUME RinetdInv, NEW s \in Slots, NEW c \in Connections \cup {None}, NEW b \in BOOLEAN
  PROVE  /\ [session EXCEPT ![s].active = b] \in [Slots -> SessionRecord]
         /\ [session EXCEPT ![s].forward = c] \in [Slots -> SessionRecord]
         /\ [session EXCEPT ![s].backward = c] \in [Slots -> SessionRecord]
         /\ [session EXCEPT ![s].conn = c, ![s].active = b] \in [Slots -> SessionRecord]
<1>1. session \in [Slots -> SessionRecord]
  BY DEF RinetdInv, TypeOK, SessionRecord
<1>2. /\ [session[s] EXCEPT !.active = b] \in SessionRecord
      /\ [session[s] EXCEPT !.forward = c] \in SessionRecord
      /\ [session[s] EXCEPT !.backward = c] \in SessionRecord
      /\ [session[s] EXCEPT !.conn = c, !.active = b] \in SessionRecord
  BY <1>1 DEF SessionRecord
<1>3. /\ [session EXCEPT ![s] = [session[s] EXCEPT !.active = b]] \in [Slots -> SessionRecord]
      /\ [session EXCEPT ![s] = [session[s] EXCEPT !.forward = c]] \in [Slots -> SessionRecord]
      /\ [session EXCEPT ![s] = [session[s] EXCEPT !.backward = c]] \in [Slots -> SessionRecord]
      /\ [session EXCEPT ![s] = [session[s] EXCEPT !.conn = c, !.active = b]]
           \in [Slots -> SessionRecord]
  BY <1>1, <1>2
<1>. QED
  BY <1>3

LEMMA ThreadTyped ==
  ASSUME RinetdInv, NEW t \in Threads, NEW pc \in ThreadStates, NEW s \in 0 .. MaxSessions,
         NEW c \in Connections \cup {None}
  PROVE  /\ [thread EXCEPT ![t].pc = pc] \in [Threads -> ThreadRecord]
         /\ [thread EXCEPT ![t].pc = pc, ![t].conn = c] \in [Threads -> ThreadRecord]
         /\ [thread EXCEPT ![t] = NewThread(s)] \in [Threads -> ThreadRecord]
         /\ [thread EXCEPT ![t] = [NoThread EXCEPT !.pc = "done"]] \in [Threads -> ThreadRecord]
<1>1. thread \in [Threads -> ThreadRecord]
  BY DEF RinetdInv, TypeOK, ThreadRecord
<1>2. /\ [thread[t] EXCEPT !.pc = pc] \in ThreadRecord
      /\ [thread[t] EXCEPT !.pc = pc, !.conn = c] \in ThreadRecord
  BY <1>1 DEF ThreadRecord
<1>3. /\ NewThread(s) \in ThreadRecord
      /\ [NoThread EXCEPT !.pc = "done"] \in ThreadRecord
  <2>1. NoThread \in ThreadRecord
    BY RinetdAssumption DEF NoThread, ThreadRecord, ThreadStates
  <2>2. "start" \in ThreadStates /\ "done" \in ThreadStates
    BY DEF ThreadStates
  <2>. QED
    BY <2>1, <2>2 DEF ThreadRecord, NewThread
<1>4. /\ [thread EXCEPT ![t] = [thread[t] EXCEPT !.pc = pc]] \in [Threads -> ThreadRecord]
      /\ [thread EXCEPT ![t] = [thread[t] EXCEPT !.pc = pc, !.conn = c]] \in [Threads -> ThreadRecord]
  BY <1>1, <1>2
<1>. QED
  BY <1>1, <1>3, <1>4

LEMMA FillsKeeps ==
  ASSUME RinetdInv, NEW l \in Listeners, Fills(l)
  PROVE  RinetdInv'
<1>. DEFINE s == listener[l].slot
            c == listener[l].conn
<1>1. /\ UNCHANGED <<context, counted, ctl, thread, sock, failed>>
      /\ listener[l].pc = "fill" /\ AtWork(l) /\ ~Serving(l)
      /\ session' = [session EXCEPT ![s].conn = c, ![s].active = TRUE]
      /\ listener' = [listener EXCEPT ![l].pc = "forward"]
  BY DEF Fills, Goes, AtWork, Serving
<1>2. s \in Slots /\ c \in Connections /\ c # None
  BY <1>1, RinetdAssumption DEF RinetdInv, TypeOK, ListenersWork
<1>3. /\ listener'[l].pc = "forward" /\ listener'[l].conn = c /\ listener'[l].slot = s
      /\ listener'[l].rule = listener[l].rule
      /\ \A m \in Listeners : m # l => listener'[m] = listener[m] /\ listener[m].conn # c
      /\ listener' \in [Listeners -> ListenerRecord]
  <2>1. "forward" \in ListenerStates /\ None \in Connections \cup {None} /\ 0 \in 0 .. MaxSessions + 1
    BY RinetdAssumption DEF ListenerStates
  <2>2. listener' \in [Listeners -> ListenerRecord]
    BY <1>1, <2>1, ListenerTyped
  <2>. QED
    BY <1>1, <1>2, <2>2 DEF RinetdInv, TypeOK, ListenersWork
<1>4. /\ session'[s].conn = c /\ session'[s].active
      /\ \A q \in Slots : q # s => session'[q] = session[q]
      /\ session' \in [Slots -> SessionRecord]
  <2>1. session' \in [Slots -> SessionRecord]
    BY <1>1, <1>2, SessionTyped
  <2>. QED
    BY <1>1, <1>2, <2>1 DEF RinetdInv, TypeOK
<1>5. /\ shared' \subseteq Slots /\ \A q \in Slots : q \notin shared' => q \notin shared
      /\ \A t \in Threads : AliveThread(t) /\ thread[t].slot \notin shared' => thread[t].slot # s
      /\ \A m \in Listeners : Serving(m) /\ listener[m].slot \notin shared' => listener[m].slot # s
  <2>1. shared' = IF Users(s) = {} THEN shared ELSE shared \cup {s}
    BY DEF Fills
  <2>2. Users(s) = {} => /\ \A t \in Threads : AliveThread(t) => thread[t].slot # s
                         /\ \A m \in Listeners : Serving(m) => listener[m].slot # s
    BY DEF Users, Serving
  <2>. QED
    BY <1>2, <2>1, <2>2 DEF RinetdInv, TypeOK
<1>6. /\ sock[c] = Open /\ thread[Backward(c)].pc = "none" /\ thread[Forward(c)].pc = "none"
      /\ \A q \in Slots : session[q].conn # c
  BY <1>1, <1>2 DEF RinetdInv, TypeOK, ConnectionsAreTaken, HasTaken, Open
<1>. HIDE DEF s, c
<1>7. TypeOK'
  BY <1>1, <1>3, <1>4, <1>5 DEF RinetdInv, TypeOK, ListenerRecord, SessionRecord, context
<1>8. /\ CommandsAreSound' /\ UniqueSource' /\ ListenersKeepTheirRules'
      /\ StoppedSessionsAreInactive' /\ \A q \in Slots : ~Closing(q) /\ ~Closing(q)'
  BY <1>1, <1>3, WorkLeavesCommands
<1>9. ListenersWork'
  BY <1>1, <1>2, <1>3 DEF RinetdInv, ListenersWork, AtWork, Serving, c
<1>10. ConnectionsAreTaken'
  <2>1. ASSUME NEW d \in Connections, sock'[d].client = "none"
        PROVE  /\ sock'[d].server = "none"
               /\ thread'[Forward(d)].pc = "none" /\ thread'[Backward(d)].pc = "none"
               /\ \A m \in Listeners : listener'[m].conn # d
               /\ \A q \in Slots : session'[q].conn # d
    <3>1. d # c
      BY <1>1, <1>6, <2>1 DEF Open
    <3>. QED
      BY <1>1, <1>3, <1>4, <2>1, <3>1 DEF RinetdInv, ConnectionsAreTaken
  <2>2. ASSUME NEW d \in Connections, NEW m \in Listeners, listener'[m].conn = d
        PROVE  HasTaken(m, d)'
    <3>1. CASE m = l
      BY <1>1, <1>3, <1>4, <1>6, <2>2, <3>1 DEF HasTaken, Serving, Open
    <3>2. CASE m # l
      BY <1>1, <1>3, <1>4, <2>2, <3>2 DEF RinetdInv, ConnectionsAreTaken, HasTaken, Serving
    <3>. QED
      BY <3>1, <3>2
  <2>. QED
    BY <2>1, <2>2 DEF ConnectionsAreTaken
<1>11. ThreadsAreSound'
  <2>. SUFFICES ASSUME NEW t \in Threads, AliveThread(t)
                PROVE  /\ thread[t].slot \in Slots
                       /\ \A q \in Slots : session'[q].conn = t[1] => thread[t].slot = q
                       /\ thread[t].slot \notin shared' => SessionIsTheirs(t)'
    BY <1>1 DEF ThreadsAreSound, AliveThread
  <2>1. t[1] # c /\ t[1] \in Connections /\ thread[t].slot \in Slots
    BY <1>6, ThreadNames DEF AliveThread, RinetdInv, ThreadsAreSound
  <2>2. \A q \in Slots : session'[q].conn = t[1] => thread[t].slot = q
    BY <1>4, <2>1 DEF RinetdInv, ThreadsAreSound
  <2>3. ASSUME thread[t].slot \notin shared' PROVE SessionIsTheirs(t)'
    <3>1. SessionIsTheirs(t) /\ thread[t].slot # s
      BY <1>5, <2>1, <2>3 DEF RinetdInv, ThreadsAreSound
    <3>2. \A m \in Listeners : Serving(m)' /\ listener'[m].slot = thread[t].slot =>
            /\ Serving(m) /\ listener[m].slot = thread[t].slot
            /\ listener'[m].conn = listener[m].conn
      BY <1>3, <3>1 DEF Serving
    <3>3. \A u \in Threads : AliveThread(u)' => AliveThread(u)
      BY <1>1 DEF AliveThread
    <3>. QED
      BY <1>1, <1>4, <2>1, <3>1, <3>2, <3>3, OthersKeepTheirs
  <2>. QED
    BY <2>1, <2>2, <2>3
<1>12. SetupIsTheirs'
  <2>1. \A m \in Listeners : m # l /\ Serving(m)' => Serving(m) /\ listener'[m] = listener[m]
    BY <1>3 DEF Serving
  <2>2. ASSUME NEW m \in Listeners, Serving(m)', listener'[m].slot \notin shared'
        PROVE  /\ session'[listener'[m].slot].conn = listener'[m].conn
               /\ listener'[m].pc = "forward" => session'[listener'[m].slot].active
               /\ listener'[m].pc = "backward" =>
                    session'[listener'[m].slot].forward = listener'[m].conn
               /\ \A k \in Listeners :
                    Serving(k)' /\ listener'[k].slot = listener'[m].slot => k = m
    <3>1. CASE m = l
      BY <1>3, <1>4, <1>5, <2>1, <2>2, <3>1
    <3>2. CASE m # l
      <4>1. /\ Serving(m) /\ listener'[m] = listener[m] /\ listener[m].slot # s
            /\ listener[m].slot \in Slots /\ listener[m].slot \notin shared
        BY <1>1, <1>5, <2>1, <2>2, <3>2 DEF RinetdInv, ListenersWork
      <4>. QED
        BY <1>3, <1>4, <2>1, <4>1 DEF RinetdInv, SetupIsTheirs
    <3>. QED
      BY <3>1, <3>2
  <2>. QED
    BY <2>2 DEF SetupIsTheirs
<1>13. NoLostSocket'
  BY <1>1, <1>3 DEF RinetdInv, NoLostSocket, c
<1>. QED
  BY <1>7, <1>8, <1>9, <1>10, <1>11, <1>12, <1>13 DEF RinetdInv

LEMMA NewThreadStarts ==
  \A s : NewThread(s).pc = "start" /\ NewThread(s).slot = s /\ NewThread(s).conn = None
BY DEF NewThread, NoThread

LEMMA CreatesForwardKeeps ==
  ASSUME RinetdInv, NEW l \in Listeners, CreatesForward(l)
  PROVE  RinetdInv'
<1>. DEFINE s == listener[l].slot
            c == listener[l].conn
<1>1. /\ UNCHANGED <<context, counted, ctl, sock, history>>
      /\ listener[l].pc = "forward" /\ AtWork(l) /\ Serving(l)
      /\ thread' = [thread EXCEPT ![Forward(c)] = NewThread(s)]
      /\ session' = [session EXCEPT ![s].forward = c]
      /\ listener' = [listener EXCEPT ![l].pc = "backward"]
  BY DEF CreatesForward, Goes, AtWork, Serving
<1>2. /\ c \in Connections /\ c # None /\ s \in Slots
      /\ sock[c] = Open /\ thread[Backward(c)].pc = "none" /\ thread[Forward(c)].pc = "none"
      /\ \A q \in Slots : session[q].conn = c => q = s
      /\ \A m \in Listeners : m # l => listener[m].conn # c
      /\ s \notin shared =>
           /\ session[s].conn = c /\ session[s].active
           /\ \A t \in Threads : AliveThread(t) /\ thread[t].slot = s => t[1] = c
           /\ \A m \in Listeners : Serving(m) /\ listener[m].slot = s => m = l
      /\ \A t \in Threads : AliveThread(t) => t[1] # c
  <2>1. s \notin shared => session[s].active
    BY <1>1 DEF RinetdInv, SetupIsTheirs
  <2>2. \A t \in Threads : AliveThread(t) => t # Forward(c) \/ thread[Forward(c)].pc # "none"
    BY DEF AliveThread
  <2>. QED
    BY <1>1, <2>1, <2>2, ServingAlone
<1>3. /\ listener'[l].pc = "backward" /\ listener'[l].conn = c /\ listener'[l].slot = s
      /\ listener'[l].rule = listener[l].rule
      /\ \A m \in Listeners : m # l => listener'[m] = listener[m]
      /\ listener' \in [Listeners -> ListenerRecord]
  <2>1. "backward" \in ListenerStates /\ None \in Connections \cup {None} /\ 0 \in 0 .. MaxSessions + 1
    BY RinetdAssumption DEF ListenerStates
  <2>2. listener' \in [Listeners -> ListenerRecord]
    BY <1>1, <2>1, ListenerTyped
  <2>. QED
    BY <1>1, <1>2, <2>2 DEF RinetdInv, TypeOK
<1>4. /\ session'[s].forward = c
      /\ \A q \in Slots : /\ q # s => session'[q] = session[q]
                          /\ session'[q].conn = session[q].conn
                          /\ session'[q].active = session[q].active
                          /\ session'[q].backward = session[q].backward
      /\ session' \in [Slots -> SessionRecord]
  <2>1. session' \in [Slots -> SessionRecord]
    BY <1>1, <1>2, SessionTyped
  <2>. QED
    BY <1>1, <1>2, <2>1 DEF RinetdInv, TypeOK
<1>5. /\ thread'[Forward(c)].pc = "start" /\ thread'[Forward(c)].slot = s
      /\ thread'[Forward(c)].conn = None
      /\ \A t \in Threads : t # Forward(c) => thread'[t] = thread[t]
      /\ thread' \in [Threads -> ThreadRecord]
  <2>1. Forward(c) \in Threads /\ s \in 0 .. MaxSessions
    BY <1>2, ThreadNames DEF Slots
  <2>2. "start" \in ThreadStates /\ None \in Connections \cup {None}
    BY DEF ThreadStates
  <2>3. thread' \in [Threads -> ThreadRecord]
    BY <1>1, <2>1, <2>2, ThreadTyped
  <2>. QED
    BY <1>1, <2>1, <2>3, NewThreadStarts DEF RinetdInv, TypeOK
<1>. HIDE DEF s, c
<1>6. TypeOK'
  BY <1>1, <1>3, <1>4, <1>5 DEF RinetdInv, TypeOK, ListenerRecord, SessionRecord, ThreadRecord, context, history
<1>7. /\ CommandsAreSound' /\ UniqueSource' /\ ListenersKeepTheirRules'
      /\ StoppedSessionsAreInactive' /\ \A q \in Slots : ~Closing(q) /\ ~Closing(q)'
  BY <1>1, <1>3, WorkLeavesCommands DEF history
<1>8. ListenersWork'
  BY <1>1, <1>2, <1>3 DEF RinetdInv, ListenersWork, AtWork, Serving, c
<1>9. ConnectionsAreTaken'
  <2>1. ASSUME NEW d \in Connections, sock'[d].client = "none"
        PROVE  /\ sock'[d].server = "none"
               /\ thread'[Forward(d)].pc = "none" /\ thread'[Backward(d)].pc = "none"
               /\ \A m \in Listeners : listener'[m].conn # d
               /\ \A q \in Slots : session'[q].conn # d
    <3>1. d # c
      BY <1>1, <1>2, <2>1 DEF Open
    <3>. QED
      BY <1>1, <1>2, <1>3, <1>4, <1>5, <2>1, <3>1, ThreadNames DEF RinetdInv, ConnectionsAreTaken
  <2>2. ASSUME NEW d \in Connections, NEW m \in Listeners, listener'[m].conn = d
        PROVE  HasTaken(m, d)'
    <3>1. CASE m = l
      BY <1>1, <1>2, <1>3, <1>4, <1>5, <2>2, <3>1, ThreadNames DEF HasTaken, Serving, Open
    <3>2. CASE m # l
      BY <1>1, <1>2, <1>3, <1>4, <1>5, <2>2, <3>2, ThreadNames DEF RinetdInv, ConnectionsAreTaken, HasTaken, Serving
    <3>. QED
      BY <3>1, <3>2
  <2>. QED
    BY <2>1, <2>2 DEF ConnectionsAreTaken
<1>10. /\ \A u \in Threads : AliveThread(u)' => u = Forward(c) \/ (AliveThread(u) /\ thread'[u] = thread[u])
       /\ \A m \in Listeners : Serving(m)' => /\ Serving(m) /\ listener'[m].slot = listener[m].slot
                                              /\ listener'[m].conn = listener[m].conn
  BY <1>1, <1>3, <1>5 DEF AliveThread, Serving, s, c
<1>11. ThreadsAreSound'
  <2>1. ASSUME NEW t \in Threads, AliveThread(t)', t # Forward(c)
        PROVE  /\ thread'[t].slot \in Slots
               /\ \A q \in Slots : session'[q].conn = t[1] => thread'[t].slot = q
               /\ thread'[t].slot \notin shared' => SessionIsTheirs(t)'
    <3>1. /\ AliveThread(t) /\ thread'[t] = thread[t] /\ t[1] # c /\ t[1] \in Connections
          /\ thread[t].slot \in Slots /\ \A q \in Slots : session[q].conn = t[1] => thread[t].slot = q
      BY <1>2, <1>10, <2>1, ThreadNames DEF RinetdInv, ThreadsAreSound
    <3>2. ASSUME thread[t].slot \notin shared PROVE SessionIsTheirs(t)'
      <4>1. SessionIsTheirs(t) /\ thread[t].slot # s
        BY <1>2, <3>1, <3>2 DEF RinetdInv, ThreadsAreSound
      <4>2. Forward(t[1]) # Forward(c) /\ Backward(t[1]) # Forward(c)
        BY <3>1, ThreadNames
      <4>3. \A u \in Threads : AliveThread(u)' /\ thread'[u].slot = thread[t].slot =>
                AliveThread(u) /\ thread[u].slot = thread[t].slot
        BY <1>5, <1>10, <4>1
      <4>. QED
        BY <1>1, <1>4, <1>5, <1>10, <3>1, <4>1, <4>2, <4>3, ThreadNames, OthersKeepTheirs
    <3>. QED
      BY <1>1, <1>4, <3>1, <3>2 DEF history
  <2>2. ASSUME NEW t \in Threads, t = Forward(c)
        PROVE  /\ thread'[t].slot \in Slots
               /\ \A q \in Slots : session'[q].conn = t[1] => thread'[t].slot = q
               /\ thread'[t].slot \notin shared' => SessionIsTheirs(t)'
    <3>1. /\ t[1] = c /\ t # Backward(t[1])
          /\ thread'[t].pc = "start" /\ thread'[t].slot = s /\ thread'[t].conn = None
      BY <1>2, <1>5, <2>2, ThreadNames
    <3>2. ASSUME s \notin shared PROVE SessionIsTheirs(t)'
      <4>1. /\ session'[s].conn = c /\ session'[s].active /\ session'[s].forward = c
            /\ sock'[c] = Open /\ ~(ctl'.pc = "backward" /\ ctl'.i = s)
        BY <1>1, <1>2, <1>4, <1>7, <3>2 DEF Closing
      <4>2. \A u \in Threads : AliveThread(u)' /\ thread'[u].slot = s => u[1] = c
        BY <1>2, <1>10, <3>2, ThreadNames
      <4>3. \A m \in Listeners : Serving(m)' /\ listener'[m].slot = s => listener'[m].conn = c
        BY <1>2, <1>3, <1>10, <3>2
      <4>. QED
        BY <3>1, <4>1, <4>2, <4>3 DEF SessionIsTheirs
    <3>. QED
      BY <1>1, <1>2, <1>4, <3>1, <3>2 DEF history
  <2>. QED
    BY <2>1, <2>2 DEF ThreadsAreSound
<1>12. SetupIsTheirs'
  <2>1. ASSUME NEW m \in Listeners, Serving(m)', listener'[m].slot \notin shared
        PROVE  /\ session'[listener'[m].slot].conn = listener'[m].conn
               /\ listener'[m].pc = "forward" => session'[listener'[m].slot].active
               /\ listener'[m].pc = "backward" =>
                    session'[listener'[m].slot].forward = listener'[m].conn
               /\ \A k \in Listeners :
                    Serving(k)' /\ listener'[k].slot = listener'[m].slot => k = m
    <3>1. CASE m = l
      BY <1>2, <1>3, <1>4, <1>10, <2>1, <3>1
    <3>2. CASE m # l
      <4>1. /\ Serving(m) /\ listener'[m] = listener[m] /\ listener[m].slot # s
            /\ listener[m].slot \in Slots /\ listener[m].slot \notin shared
        BY <1>1, <1>2, <1>3, <1>10, <2>1, <3>2 DEF RinetdInv, ListenersWork
      <4>. QED
        BY <1>3, <1>4, <1>10, <4>1 DEF RinetdInv, SetupIsTheirs
    <3>. QED
      BY <3>1, <3>2
  <2>. QED
    BY <1>1, <2>1 DEF SetupIsTheirs, history
<1>13. NoLostSocket'
  BY <1>1, <1>3, <1>5, ThreadNames DEF RinetdInv, NoLostSocket, c
<1>. QED
  BY <1>6, <1>7, <1>8, <1>9, <1>11, <1>12, <1>13 DEF RinetdInv

LEMMA CreatesBackwardKeeps ==
  ASSUME RinetdInv, NEW l \in Listeners, CreatesBackward(l)
  PROVE  RinetdInv'
<1>. DEFINE s == listener[l].slot
            c == listener[l].conn
<1>1. /\ UNCHANGED <<context, ctl, sock, history>> /\ counted' = TRUE
      /\ listener[l].pc = "backward" /\ AtWork(l) /\ Serving(l)
      /\ thread' = [thread EXCEPT ![Backward(c)] = NewThread(s)]
      /\ session' = [session EXCEPT ![s].backward = c]
      /\ listener' = [listener EXCEPT ![l].pc = "test", ![l].conn = None, ![l].slot = 0]
  BY DEF CreatesBackward, LoopsAgain, AtWork, Serving
<1>2. /\ c \in Connections /\ c # None /\ s \in Slots
      /\ sock[c] = Open /\ thread[Backward(c)].pc = "none" /\ thread[Forward(c)].pc # "none"
      /\ \A q \in Slots : session[q].conn = c => q = s
      /\ \A m \in Listeners : m # l => listener[m].conn # c
      /\ s \notin shared =>
           /\ session[s].conn = c
           /\ \A t \in Threads : AliveThread(t) /\ thread[t].slot = s => t[1] = c
           /\ \A m \in Listeners : Serving(m) /\ listener[m].slot = s => m = l
      /\ \A t \in Threads : AliveThread(t) /\ t # Forward(c) => t[1] # c
  BY <1>1, ServingAlone
<1>3. /\ listener'[l].pc = "test" /\ listener'[l].conn = None
      /\ listener'[l].rule = listener[l].rule
      /\ \A m \in Listeners : m # l => listener'[m] = listener[m]
      /\ listener' \in [Listeners -> ListenerRecord]
  <2>1. "test" \in ListenerStates /\ None \in Connections \cup {None} /\ 0 \in 0 .. MaxSessions + 1
    BY RinetdAssumption DEF ListenerStates
  <2>2. listener' \in [Listeners -> ListenerRecord]
    BY <1>1, <2>1, ListenerTyped
  <2>. QED
    BY <1>1, <2>2 DEF RinetdInv, TypeOK
<1>4. /\ session'[s].backward = c
      /\ \A q \in Slots : /\ q # s => session'[q] = session[q]
                          /\ session'[q].conn = session[q].conn
                          /\ session'[q].active = session[q].active
                          /\ session'[q].forward = session[q].forward
      /\ session' \in [Slots -> SessionRecord]
  <2>1. session' \in [Slots -> SessionRecord]
    BY <1>1, <1>2, SessionTyped
  <2>. QED
    BY <1>1, <1>2, <2>1 DEF RinetdInv, TypeOK
<1>5. /\ thread'[Backward(c)].pc = "start" /\ thread'[Backward(c)].slot = s
      /\ thread'[Backward(c)].conn = None
      /\ \A t \in Threads : t # Backward(c) => thread'[t] = thread[t]
      /\ thread' \in [Threads -> ThreadRecord]
  <2>1. Backward(c) \in Threads /\ s \in 0 .. MaxSessions
    BY <1>2, ThreadNames DEF Slots
  <2>2. "start" \in ThreadStates /\ None \in Connections \cup {None}
    BY DEF ThreadStates
  <2>3. thread' \in [Threads -> ThreadRecord]
    BY <1>1, <2>1, <2>2, ThreadTyped
  <2>. QED
    BY <1>1, <2>1, <2>3, NewThreadStarts DEF RinetdInv, TypeOK
<1>. HIDE DEF s, c
<1>6. TypeOK'
  BY <1>1, <1>3, <1>4, <1>5 DEF RinetdInv, TypeOK, ListenerRecord, SessionRecord, ThreadRecord, context, history
<1>7. /\ CommandsAreSound' /\ UniqueSource' /\ ListenersKeepTheirRules'
      /\ StoppedSessionsAreInactive' /\ \A q \in Slots : ~Closing(q) /\ ~Closing(q)'
  BY <1>1, <1>3, WorkLeavesCommands DEF history
<1>8. ListenersWork'
  BY <1>1, <1>2, <1>3 DEF RinetdInv, ListenersWork, AtWork, Serving
<1>9. ConnectionsAreTaken'
  <2>1. ASSUME NEW d \in Connections, sock'[d].client = "none"
        PROVE  /\ sock'[d].server = "none"
               /\ thread'[Forward(d)].pc = "none" /\ thread'[Backward(d)].pc = "none"
               /\ \A m \in Listeners : listener'[m].conn # d
               /\ \A q \in Slots : session'[q].conn # d
    <3>1. d # c /\ d # None
      BY <1>1, <1>2, <2>1, RinetdAssumption DEF Open
    <3>. QED
      BY <1>1, <1>2, <1>3, <1>4, <1>5, <2>1, <3>1, ThreadNames DEF RinetdInv, ConnectionsAreTaken
  <2>2. ASSUME NEW d \in Connections, NEW m \in Listeners, listener'[m].conn = d
        PROVE  HasTaken(m, d)'
    <3>1. m # l /\ d # c
      BY <1>2, <1>3, <2>2, RinetdAssumption
    <3>. QED
      BY <1>1, <1>2, <1>3, <1>4, <1>5, <2>2, <3>1, ThreadNames DEF RinetdInv, ConnectionsAreTaken, HasTaken, Serving
  <2>. QED
    BY <2>1, <2>2 DEF ConnectionsAreTaken
<1>10. /\ \A u \in Threads : AliveThread(u)' => u = Backward(c) \/ (AliveThread(u) /\ thread'[u] = thread[u])
       /\ \A m \in Listeners : Serving(m)' => Serving(m) /\ listener'[m] = listener[m] /\ m # l
  BY <1>1, <1>3, <1>5 DEF AliveThread, Serving
<1>11. ThreadsAreSound'
  <2>1. ASSUME NEW t \in Threads, AliveThread(t)', t # Backward(c), t # Forward(c)
        PROVE  /\ thread'[t].slot \in Slots
               /\ \A q \in Slots : session'[q].conn = t[1] => thread'[t].slot = q
               /\ thread'[t].slot \notin shared' => SessionIsTheirs(t)'
    <3>1. /\ AliveThread(t) /\ thread'[t] = thread[t] /\ t[1] # c /\ t[1] \in Connections
          /\ thread[t].slot \in Slots /\ \A q \in Slots : session[q].conn = t[1] => thread[t].slot = q
      BY <1>2, <1>10, <2>1, ThreadNames DEF RinetdInv, ThreadsAreSound
    <3>2. ASSUME thread[t].slot \notin shared PROVE SessionIsTheirs(t)'
      <4>1. SessionIsTheirs(t) /\ thread[t].slot # s
        BY <1>2, <3>1, <3>2 DEF RinetdInv, ThreadsAreSound
      <4>2. Forward(t[1]) # Backward(c) /\ Backward(t[1]) # Backward(c)
        BY <3>1, ThreadNames
      <4>3. \A u \in Threads : AliveThread(u)' /\ thread'[u].slot = thread[t].slot =>
                AliveThread(u) /\ thread[u].slot = thread[t].slot
        BY <1>5, <1>10, <4>1
      <4>. QED
        BY <1>1, <1>4, <1>5, <1>10, <3>1, <4>1, <4>2, <4>3, ThreadNames, OthersKeepTheirs, ZenonT(90)
    <3>. QED
      BY <1>1, <1>4, <3>1, <3>2 DEF history
  <2>2. ASSUME NEW t \in Threads, AliveThread(t)', t = Forward(c)
        PROVE  /\ thread'[t].slot \in Slots
               /\ \A q \in Slots : session'[q].conn = t[1] => thread'[t].slot = q
               /\ thread'[t].slot \notin shared' => SessionIsTheirs(t)'
    <3>1. /\ AliveThread(t) /\ thread'[t] = thread[t] /\ t[1] = c /\ t # Backward(c)
          /\ thread[t].slot \in Slots /\ \A q \in Slots : session[q].conn = t[1] => thread[t].slot = q
      BY <1>2, <1>10, <2>2, ThreadNames DEF RinetdInv, ThreadsAreSound
    <3>2. ASSUME thread[t].slot \notin shared PROVE SessionIsTheirs(t)'
      <4>1. SessionIsTheirs(t)
        BY <3>1, <3>2 DEF RinetdInv, ThreadsAreSound
      <4>2. sock'[c] = Open /\ \A q \in Slots : ~Closing(q) /\ ~Closing(q)'
        BY <1>1, <1>2, <1>7
      <4>3. Over(t[1]) => Over(t[1])'
        BY <1>2, <1>5, <2>2, <3>1, ThreadNames DEF Over
      <4>4. \A u \in Threads : AliveThread(u)' /\ thread'[u].slot = thread[t].slot => u[1] = c
        BY <1>2, <1>5, <1>10, <3>1, <4>1, ThreadNames DEF SessionIsTheirs
      <4>5. /\ session'[thread[t].slot].conn = session[thread[t].slot].conn
            /\ session'[thread[t].slot].active = session[thread[t].slot].active
            /\ session'[thread[t].slot].forward = session[thread[t].slot].forward
            /\ \A m \in Listeners : Serving(m)' /\ listener'[m].slot = thread[t].slot =>
                 listener'[m].conn = c
        BY <1>4, <1>10, <3>1, <4>1 DEF SessionIsTheirs
      <4>6. \A q \in Slots : ctl'.pc = "backward" /\ ctl'.i = q => FALSE
        BY <4>2 DEF Closing
      <4>. QED
        BY <3>1, <4>1, <4>2, <4>3, <4>4, <4>5, <4>6 DEF SessionIsTheirs
    <3>. QED
      BY <1>1, <1>4, <3>1, <3>2 DEF history
  <2>3. ASSUME NEW t \in Threads, t = Backward(c)
        PROVE  /\ thread'[t].slot \in Slots
               /\ \A q \in Slots : session'[q].conn = t[1] => thread'[t].slot = q
               /\ thread'[t].slot \notin shared' => SessionIsTheirs(t)'
    <3>1. /\ t[1] = c /\ t # Forward(t[1])
          /\ thread'[t].pc = "start" /\ thread'[t].slot = s /\ thread'[t].conn = None
      BY <1>2, <1>5, <2>3, ThreadNames
    <3>2. ASSUME s \notin shared PROVE SessionIsTheirs(t)'
      <4>1. /\ session'[s].conn = c /\ session'[s].backward = c /\ sock'[c] = Open
        BY <1>1, <1>2, <1>4, <3>2
      <4>2. \A u \in Threads : AliveThread(u)' /\ thread'[u].slot = s => u[1] = c
        BY <1>2, <1>10, <3>2, ThreadNames
      <4>3. \A m \in Listeners : Serving(m)' /\ listener'[m].slot = s => listener'[m].conn = c
        BY <1>2, <1>3, <1>10, <3>2
      <4>4. Over(t[1])' \/ session'[s].active
        <5>1. CASE AliveThread(Forward(c))
          <6>1. Forward(c) \in Threads /\ Forward(c)[1] = c /\ thread[Forward(c)].slot = s
            BY <1>2, <3>2, <5>1, ThreadNames DEF RinetdInv, ThreadsAreSound
          <6>2. \A u \in Threads : u = Forward(c) => SessionIsTheirs(u)
            BY <3>2, <5>1, <6>1 DEF RinetdInv, ThreadsAreSound
          <6>3. Over(t[1]) \/ session[s].active \/ Closing(s)
            BY <3>1, <6>1, <6>2 DEF SessionIsTheirs
          <6>4. Over(t[1]) => thread[Forward(c)].pc \in {"done", "failed"}
            BY <1>2, <3>1 DEF Over
          <6>. QED
            BY <1>2, <1>4, <1>7, <5>1, <6>3, <6>4 DEF AliveThread
        <5>2. CASE ~AliveThread(Forward(c))
          <6>1. thread'[Forward(c)] = thread[Forward(c)]
            BY <1>2, <1>5, ThreadNames
          <6>. QED
            BY <1>2, <3>1, <5>2, <6>1 DEF AliveThread, Over
        <5>. QED
          BY <5>1, <5>2
      <4>. QED
        BY <3>1, <4>1, <4>2, <4>3, <4>4 DEF SessionIsTheirs
    <3>. QED
      BY <1>1, <1>2, <1>4, <3>1, <3>2 DEF history
  <2>. QED
    BY <2>1, <2>2, <2>3 DEF ThreadsAreSound
<1>12. SetupIsTheirs'
  <2>. SUFFICES ASSUME NEW m \in Listeners, Serving(m)', listener'[m].slot \notin shared
                PROVE  /\ session'[listener'[m].slot].conn = listener'[m].conn
                       /\ listener'[m].pc = "forward" => session'[listener'[m].slot].active
                       /\ listener'[m].pc = "backward" =>
                            session'[listener'[m].slot].forward = listener'[m].conn
                       /\ \A k \in Listeners :
                            Serving(k)' /\ listener'[k].slot = listener'[m].slot => k = m
    BY <1>1 DEF SetupIsTheirs, history
  <2>1. /\ Serving(m) /\ listener'[m] = listener[m] /\ listener[m].slot \in Slots
    BY <1>10 DEF RinetdInv, ListenersWork
  <2>. QED
    BY <1>4, <1>10, <2>1 DEF RinetdInv, SetupIsTheirs
<1>13. NoLostSocket'
  BY <1>1, <1>2, <1>3, <1>5, ThreadNames DEF RinetdInv, NoLostSocket, c
<1>. QED
  BY <1>6, <1>7, <1>8, <1>9, <1>11, <1>12, <1>13 DEF RinetdInv

LEMMA ForwardFailsKeeps ==
  ASSUME RinetdInv, NEW l \in Listeners, ForwardFails(l)
  PROVE  RinetdInv'
<1>. DEFINE s == listener[l].slot
            c == listener[l].conn
<1>1. /\ UNCHANGED <<context, counted, ctl, thread, history>>
      /\ listener[l].pc = "forward" /\ AtWork(l) /\ Serving(l) /\ GivesUp(l)
      /\ session' = [session EXCEPT ![s].active = FALSE]
  BY DEF ForwardFails, AtWork, Serving
<1>2. /\ c \in Connections /\ c # None /\ s \in Slots
      /\ \A q \in Slots : session[q].conn = c => q = s
      /\ \A m \in Listeners : m # l => listener[m].conn # c
      /\ s \notin shared =>
           /\ \A t \in Threads : AliveThread(t) /\ thread[t].slot = s => t[1] = c
           /\ \A m \in Listeners : Serving(m) /\ listener[m].slot = s => m = l
      /\ thread[Backward(c)].pc = "none"
      /\ \A t \in Threads : AliveThread(t) => t[1] # c
  <2>1. \A t \in Threads : AliveThread(t) => t # Forward(c) \/ thread[Forward(c)].pc # "none"
    BY DEF AliveThread
  <2>. QED
    BY <1>1, <2>1, ServingAlone
<1>3. /\ listener'[l].pc = "refuse" /\ listener'[l].conn = c
      /\ listener'[l].rule = listener[l].rule
      /\ \A m \in Listeners : m # l => listener'[m] = listener[m]
      /\ listener' \in [Listeners -> ListenerRecord]
      /\ sock'[c].client = "open" /\ sock'[c].server = "closed"
      /\ \A d \in Connections : d # c => sock'[d] = sock[d]
      /\ sock' \in [Connections -> [client : {"none", "open", "closed"},
                                    server : {"none", "open", "closed"}]]
      /\ ListenersWork'
  BY <1>1, GivesUpLeaves
<1>4. /\ \A q \in Slots : /\ q # s => session'[q] = session[q]
                          /\ session'[q].conn = session[q].conn
      /\ session' \in [Slots -> SessionRecord]
  <2>1. session' \in [Slots -> SessionRecord]
    BY <1>1, <1>2, SessionTyped
  <2>. QED
    BY <1>1, <1>2, <2>1 DEF RinetdInv, TypeOK
<1>. HIDE DEF s, c
<1>5. TypeOK'
  BY <1>1, <1>3, <1>4 DEF RinetdInv, TypeOK, ListenerRecord, SessionRecord, context, history
<1>6. /\ CommandsAreSound' /\ UniqueSource' /\ ListenersKeepTheirRules'
      /\ StoppedSessionsAreInactive' /\ \A q \in Slots : ~Closing(q) /\ ~Closing(q)'
  BY <1>1, <1>3, WorkLeavesCommands DEF history
<1>7. ConnectionsAreTaken'
  <2>1. ASSUME NEW d \in Connections, sock'[d].client = "none"
        PROVE  /\ sock'[d].server = "none"
               /\ thread'[Forward(d)].pc = "none" /\ thread'[Backward(d)].pc = "none"
               /\ \A m \in Listeners : listener'[m].conn # d
               /\ \A q \in Slots : session'[q].conn # d
    <3>1. d # c /\ d # None
      BY <1>3, <2>1, RinetdAssumption
    <3>2. /\ sock[d].client = "none" /\ sock'[d] = sock[d]
          /\ thread'[Forward(d)] = thread[Forward(d)] /\ thread'[Backward(d)] = thread[Backward(d)]
      BY <1>1, <1>2, <1>3, <2>1, <3>1
    <3>3. /\ sock[d].server = "none"
          /\ thread[Forward(d)].pc = "none" /\ thread[Backward(d)].pc = "none"
          /\ \A m \in Listeners : listener[m].conn # d
          /\ \A q \in Slots : session[q].conn # d
      BY <3>2 DEF RinetdInv, ConnectionsAreTaken
    <3>. QED
      BY <1>3, <1>4, <3>1, <3>2, <3>3
  <2>2. ASSUME NEW d \in Connections, NEW m \in Listeners, listener'[m].conn = d
        PROVE  HasTaken(m, d)'
    <3>1. CASE m = l
      BY <1>3, <2>2, <3>1 DEF HasTaken
    <3>2. CASE m # l
      <4>1. listener'[m] = listener[m] /\ d # c
        BY <1>2, <1>3, <2>2, <3>2
      <4>2. /\ sock'[d] = sock[d]
            /\ thread'[Forward(d)] = thread[Forward(d)] /\ thread'[Backward(d)] = thread[Backward(d)]
        BY <1>1, <1>2, <1>3, <4>1
      <4>3. HasTaken(m, d)
        BY <2>2, <4>1 DEF RinetdInv, ConnectionsAreTaken
      <4>. QED
        BY <1>4, <4>1, <4>2, <4>3, OthersKeepTaken
    <3>. QED
      BY <3>1, <3>2
  <2>. QED
    BY <2>1, <2>2 DEF ConnectionsAreTaken
<1>8. \A m \in Listeners : Serving(m)' => Serving(m) /\ listener'[m] = listener[m] /\ m # l
  BY <1>3 DEF Serving
<1>9. ThreadsAreSound'
  <2>1. ASSUME NEW t \in Threads, AliveThread(t)
        PROVE  /\ thread[t].slot \in Slots
               /\ \A q \in Slots : session'[q].conn = t[1] => thread[t].slot = q
               /\ thread[t].slot \notin shared' => SessionIsTheirs(t)'
    <3>1. /\ t[1] # c /\ t[1] \in Connections
          /\ thread[t].slot \in Slots /\ \A q \in Slots : session[q].conn = t[1] => thread[t].slot = q
      BY <1>2, <2>1, ThreadNames DEF RinetdInv, ThreadsAreSound
    <3>2. ASSUME thread[t].slot \notin shared PROVE SessionIsTheirs(t)'
      <4>1. SessionIsTheirs(t) /\ thread[t].slot # s
        BY <1>2, <2>1, <3>1, <3>2 DEF RinetdInv, ThreadsAreSound
      <4>2. \A u \in Threads : AliveThread(u)' => AliveThread(u)
        BY <1>1 DEF AliveThread
      <4>. QED
        BY <1>1, <1>3, <1>4, <1>8, <2>1, <3>1, <4>1, <4>2, OthersKeepTheirs
    <3>. QED
      BY <1>1, <1>4, <3>1, <3>2 DEF history
  <2>. QED
    BY <1>1, <2>1 DEF ThreadsAreSound, AliveThread
<1>10. SetupIsTheirs'
  <2>. SUFFICES ASSUME NEW m \in Listeners, Serving(m)', listener'[m].slot \notin shared
                PROVE  /\ session'[listener'[m].slot].conn = listener'[m].conn
                       /\ listener'[m].pc = "forward" => session'[listener'[m].slot].active
                       /\ listener'[m].pc = "backward" =>
                            session'[listener'[m].slot].forward = listener'[m].conn
                       /\ \A k \in Listeners :
                            Serving(k)' /\ listener'[k].slot = listener'[m].slot => k = m
    BY <1>1 DEF SetupIsTheirs, history
  <2>1. /\ Serving(m) /\ listener'[m] = listener[m] /\ listener[m].slot \in Slots
        /\ listener[m].slot # s
    BY <1>2, <1>8 DEF RinetdInv, ListenersWork
  <2>. QED
    BY <1>4, <1>8, <2>1 DEF RinetdInv, SetupIsTheirs
<1>11. NoLostSocket'
  BY <1>1, <1>3 DEF RinetdInv, NoLostSocket, c
<1>. QED
  BY <1>3, <1>5, <1>6, <1>7, <1>9, <1>10, <1>11 DEF RinetdInv

LEMMA BackwardFailsKeeps ==
  ASSUME RinetdInv, NEW l \in Listeners, BackwardFails(l)
  PROVE  RinetdInv'
<1>. DEFINE s == listener[l].slot
            c == listener[l].conn
<1>1. /\ UNCHANGED <<context, counted, ctl, history>>
      /\ listener[l].pc = "backward" /\ AtWork(l) /\ Serving(l) /\ GivesUp(l)
      /\ session' = [session EXCEPT ![s].active = FALSE]
      /\ thread' = [thread EXCEPT ![Backward(c)].pc = "failed"]
  BY DEF BackwardFails, AtWork, Serving
<1>2. /\ c \in Connections /\ c # None /\ s \in Slots
      /\ \A q \in Slots : session[q].conn = c => q = s
      /\ \A m \in Listeners : m # l => listener[m].conn # c
      /\ s \notin shared =>
           /\ \A t \in Threads : AliveThread(t) /\ thread[t].slot = s => t[1] = c
           /\ \A m \in Listeners : Serving(m) /\ listener[m].slot = s => m = l
      /\ \A t \in Threads : AliveThread(t) /\ t # Forward(c) => t[1] # c
  BY <1>1, ServingAlone
<1>3. /\ listener'[l].pc = "refuse" /\ listener'[l].conn = c
      /\ listener'[l].rule = listener[l].rule
      /\ \A m \in Listeners : m # l => listener'[m] = listener[m]
      /\ listener' \in [Listeners -> ListenerRecord]
      /\ sock'[c].client = "open" /\ sock'[c].server = "closed"
      /\ \A d \in Connections : d # c => sock'[d] = sock[d]
      /\ sock' \in [Connections -> [client : {"none", "open", "closed"},
                                    server : {"none", "open", "closed"}]]
      /\ ListenersWork'
  BY <1>1, GivesUpLeaves
<1>4. /\ \A q \in Slots : /\ q # s => session'[q] = session[q]
                          /\ session'[q].conn = session[q].conn
                          /\ session'[q].active => session[q].active
                          /\ session'[q].forward = session[q].forward
                          /\ session'[q].backward = session[q].backward
      /\ session' \in [Slots -> SessionRecord]
  <2>1. session' \in [Slots -> SessionRecord]
    BY <1>1, <1>2, SessionTyped
  <2>. QED
    BY <1>1, <1>2, <2>1 DEF RinetdInv, TypeOK
<1>5. /\ thread'[Backward(c)].pc = "failed"
      /\ \A t \in Threads : t # Backward(c) => thread'[t] = thread[t]
      /\ thread' \in [Threads -> ThreadRecord]
  <2>1. Backward(c) \in Threads /\ 0 \in 0 .. MaxSessions
    BY <1>2, ThreadNames, RinetdAssumption
  <2>2. "failed" \in ThreadStates /\ None \in Connections \cup {None}
    BY DEF ThreadStates
  <2>3. thread' \in [Threads -> ThreadRecord]
    BY <1>1, <2>1, <2>2, ThreadTyped
  <2>. QED
    BY <1>1, <2>1, <2>3 DEF RinetdInv, TypeOK
<1>. HIDE DEF s, c
<1>6. TypeOK'
  BY <1>1, <1>3, <1>4, <1>5 DEF RinetdInv, TypeOK, ListenerRecord, SessionRecord, ThreadRecord, context, history
<1>7. /\ CommandsAreSound' /\ UniqueSource' /\ ListenersKeepTheirRules'
      /\ StoppedSessionsAreInactive' /\ \A q \in Slots : ~Closing(q) /\ ~Closing(q)'
  BY <1>1, <1>3, WorkLeavesCommands DEF history
<1>8. ConnectionsAreTaken'
  <2>1. ASSUME NEW d \in Connections, sock'[d].client = "none"
        PROVE  /\ sock'[d].server = "none"
               /\ thread'[Forward(d)].pc = "none" /\ thread'[Backward(d)].pc = "none"
               /\ \A m \in Listeners : listener'[m].conn # d
               /\ \A q \in Slots : session'[q].conn # d
    <3>1. d # c /\ d # None
      BY <1>3, <2>1, RinetdAssumption
    <3>2. /\ sock[d].client = "none" /\ sock'[d] = sock[d]
          /\ thread'[Forward(d)] = thread[Forward(d)] /\ thread'[Backward(d)] = thread[Backward(d)]
      BY <1>1, <1>2, <1>3, <2>1, <3>1, <1>5, ThreadNames
    <3>3. /\ sock[d].server = "none"
          /\ thread[Forward(d)].pc = "none" /\ thread[Backward(d)].pc = "none"
          /\ \A m \in Listeners : listener[m].conn # d
          /\ \A q \in Slots : session[q].conn # d
      BY <3>2 DEF RinetdInv, ConnectionsAreTaken
    <3>. QED
      BY <1>3, <1>4, <3>1, <3>2, <3>3
  <2>2. ASSUME NEW d \in Connections, NEW m \in Listeners, listener'[m].conn = d
        PROVE  HasTaken(m, d)'
    <3>1. CASE m = l
      BY <1>3, <2>2, <3>1 DEF HasTaken
    <3>2. CASE m # l
      <4>1. listener'[m] = listener[m] /\ d # c
        BY <1>2, <1>3, <2>2, <3>2
      <4>2. /\ sock'[d] = sock[d]
            /\ thread'[Forward(d)] = thread[Forward(d)] /\ thread'[Backward(d)] = thread[Backward(d)]
        BY <1>1, <1>2, <1>3, <4>1, <1>5, ThreadNames
      <4>3. HasTaken(m, d)
        BY <2>2, <4>1 DEF RinetdInv, ConnectionsAreTaken
      <4>. QED
        BY <1>4, <4>1, <4>2, <4>3, OthersKeepTaken
    <3>. QED
      BY <3>1, <3>2
  <2>. QED
    BY <2>1, <2>2 DEF ConnectionsAreTaken
<1>9. /\ \A u \in Threads : AliveThread(u)' => AliveThread(u) /\ thread'[u] = thread[u] /\ u # Backward(c)
      /\ \A m \in Listeners : Serving(m)' => Serving(m) /\ listener'[m] = listener[m] /\ m # l
  BY <1>3, <1>5 DEF AliveThread, Serving
<1>10. ThreadsAreSound'
  <2>1. ASSUME NEW t \in Threads, AliveThread(t)'
        PROVE  /\ thread'[t].slot \in Slots
               /\ \A q \in Slots : session'[q].conn = t[1] => thread'[t].slot = q
               /\ thread'[t].slot \notin shared' => SessionIsTheirs(t)'
    <3>1. /\ AliveThread(t) /\ thread'[t] = thread[t] /\ t # Backward(c) /\ t[1] \in Connections
          /\ thread[t].slot \in Slots /\ \A q \in Slots : session[q].conn = t[1] => thread[t].slot = q
      BY <1>9, <2>1, ThreadNames DEF RinetdInv, ThreadsAreSound
    <3>2. ASSUME thread[t].slot \notin shared, t # Forward(c) PROVE SessionIsTheirs(t)'
      <4>1. SessionIsTheirs(t) /\ thread[t].slot # s /\ t[1] # c
        BY <1>2, <3>1, <3>2 DEF RinetdInv, ThreadsAreSound
      <4>2. Forward(t[1]) # Backward(c) /\ Backward(t[1]) # Backward(c)
        BY <4>1, ThreadNames
      <4>. QED
        BY <1>1, <1>3, <1>4, <1>5, <1>9, <3>1, <4>1, <4>2, ThreadNames, OthersKeepTheirs
    <3>3. ASSUME thread[t].slot \notin shared, t = Forward(c) PROVE SessionIsTheirs(t)'
      <4>1. SessionIsTheirs(t) /\ t[1] = c /\ t # Backward(t[1])
        BY <1>2, <3>1, <3>3, ThreadNames DEF RinetdInv, ThreadsAreSound
      <4>2. Over(t[1])' /\ thread'[Backward(t[1])].pc = "failed"
        BY <1>5, <4>1 DEF Over
      <4>3. \A q \in Slots : ~Closing(q) /\ ~Closing(q)' /\ ~(ctl'.pc = "backward" /\ ctl'.i = q)
        BY <1>7 DEF Closing
      <4>. QED
        BY <1>4, <1>9, <3>1, <4>1, <4>2, <4>3 DEF SessionIsTheirs
    <3>. QED
      BY <1>1, <1>4, <3>1, <3>2, <3>3 DEF history
  <2>. QED
    BY <2>1 DEF ThreadsAreSound
<1>11. SetupIsTheirs'
  <2>. SUFFICES ASSUME NEW m \in Listeners, Serving(m)', listener'[m].slot \notin shared
                PROVE  /\ session'[listener'[m].slot].conn = listener'[m].conn
                       /\ listener'[m].pc = "forward" => session'[listener'[m].slot].active
                       /\ listener'[m].pc = "backward" =>
                            session'[listener'[m].slot].forward = listener'[m].conn
                       /\ \A k \in Listeners :
                            Serving(k)' /\ listener'[k].slot = listener'[m].slot => k = m
    BY <1>1 DEF SetupIsTheirs, history
  <2>1. /\ Serving(m) /\ listener'[m] = listener[m] /\ listener[m].slot \in Slots
        /\ listener[m].slot # s
    BY <1>2, <1>9 DEF RinetdInv, ListenersWork
  <2>. QED
    BY <1>4, <1>9, <2>1 DEF RinetdInv, SetupIsTheirs
<1>12. NoLostSocket'
  BY <1>3, <1>5, ThreadNames DEF RinetdInv, NoLostSocket, c
<1>. QED
  BY <1>3, <1>5, <1>6, <1>7, <1>8, <1>10, <1>11, <1>12 DEF RinetdInv

-----------------------------------------------------------------------------
(* The forward and backward threads.                                        *)

LEMMA ThreadLeavesRest ==
  ASSUME RinetdInv, NEW t \in Threads, AliveThread(t),
         UNCHANGED <<context, counted, ctl, listener, sock, history>>,
         thread' \in [Threads -> ThreadRecord], session' \in [Slots -> SessionRecord],
         thread'[t].pc \notin {"none", "failed"},
         \A u \in Threads : u # t => thread'[u] = thread[u],
         \A s \in Slots : /\ session'[s].conn = session[s].conn
                          /\ session'[s].active => session[s].active
  PROVE  /\ TypeOK' /\ ListenersWork' /\ ConnectionsAreTaken' /\ CommandsAreSound'
         /\ StoppedSessionsAreInactive' /\ UniqueSource' /\ ListenersKeepTheirRules'
         /\ NoLostSocket'
<1>1. TypeOK'
  BY DEF RinetdInv, TypeOK, ThreadRecord, SessionRecord, context, history
<1>2. ListenersWork'
  BY DEF RinetdInv, ListenersWork, AtWork, Serving
<1>3. /\ \A u \in Threads : thread'[u].pc = "none" <=> thread[u].pc = "none"
      /\ \A u \in Threads : thread'[u].pc \in {"none", "failed"} => thread[u].pc \in {"none", "failed"}
  BY DEF AliveThread
<1>4. ConnectionsAreTaken'
  BY <1>3, ThreadNames DEF RinetdInv, ConnectionsAreTaken, HasTaken, Serving
<1>5. CommandsAreSound'
  BY DEF RinetdInv, CommandsAreSound, Draining, Idle, context, history
<1>6. StoppedSessionsAreInactive'
  BY DEF RinetdInv, StoppedSessionsAreInactive, Draining, Closing, context
<1>7. UniqueSource' /\ ListenersKeepTheirRules'
  BY DEF RinetdInv, UniqueSource, ListenersKeepTheirRules, AliveListener, context, history
<1>8. NoLostSocket'
  BY <1>3, ThreadNames DEF RinetdInv, NoLostSocket
<1>. QED
  BY <1>1, <1>2, <1>4, <1>5, <1>6, <1>7, <1>8

\* The steps in which a thread stays alive and leaves the session alone.
LEMMA LivingThreadKeeps ==
  ASSUME RinetdInv, NEW t \in Threads,
         ThreadStarts(t) \/ ThreadTests(t) \/ ThreadCopies(t)
  PROVE  RinetdInv'
<1>1. /\ UNCHANGED <<context, session, counted, ctl, listener, sock, history>>
      /\ AliveThread(t)
  BY DEF ThreadStarts, ThreadTests, ThreadCopies, AliveThread
<1>2. /\ thread[t].slot \in Slots /\ session \in [Slots -> SessionRecord]
      /\ session[thread[t].slot].conn \in Connections \cup {None}
      /\ thread \in [Threads -> ThreadRecord]
  BY <1>1 DEF RinetdInv, TypeOK, ThreadsAreSound, SessionRecord, ThreadRecord
<1>3. /\ thread' \in [Threads -> ThreadRecord]
      /\ \A u \in Threads : u # t => thread'[u] = thread[u]
      /\ thread'[t].slot = thread[t].slot
      /\ thread'[t].pc \in {"test", "recv", "ending"}
      /\ thread'[t].conn \in {thread[t].conn, session[thread[t].slot].conn}
      /\ thread'[t].conn = thread[t].conn \/ thread[t].pc = "start"
      /\ thread'[t].pc = "recv" =>
           /\ session[thread[t].slot].active
           /\ thread'[t].conn = thread[t].conn /\ thread[t].conn # None
  <2>1. /\ {"test", "recv", "ending"} \subseteq ThreadStates /\ 0 \in 0 .. MaxSessions
        /\ None \in Connections \cup {None}
    BY RinetdAssumption DEF ThreadStates
  <2>2. CASE ThreadStarts(t)
    <3>1. /\ thread' = [thread EXCEPT ![t].pc = "test", ![t].conn = session[thread[t].slot].conn]
          /\ thread[t].pc = "start"
      BY <2>2 DEF ThreadStarts
    <3>2. thread' \in [Threads -> ThreadRecord]
      BY <1>2, <2>1, <3>1, ThreadTyped
    <3>. QED
      BY <1>2, <3>1, <3>2 DEF ThreadRecord
  <2>3. CASE ThreadTests(t)
    <3>1. PICK pc \in {"recv", "ending"} :
            /\ thread' = [thread EXCEPT ![t].pc = pc]
            /\ pc = "recv" => session[thread[t].slot].active /\ thread[t].conn # None
      BY <2>3 DEF ThreadTests
    <3>2. thread' \in [Threads -> ThreadRecord]
      BY <2>1, <3>1, ThreadTyped
    <3>. QED
      BY <1>2, <3>1, <3>2 DEF ThreadRecord
  <2>4. CASE ThreadCopies(t)
    <3>1. thread' = [thread EXCEPT ![t].pc = "test"]
      BY <2>4 DEF ThreadCopies
    <3>2. thread' \in [Threads -> ThreadRecord]
      BY <2>1, <3>1, ThreadTyped
    <3>. QED
      BY <1>2, <3>1, <3>2 DEF ThreadRecord
  <2>. QED
    BY <2>2, <2>3, <2>4
<1>4. /\ TypeOK' /\ ListenersWork' /\ ConnectionsAreTaken' /\ CommandsAreSound'
      /\ StoppedSessionsAreInactive' /\ UniqueSource' /\ ListenersKeepTheirRules'
      /\ NoLostSocket'
  BY <1>1, <1>2, <1>3, ThreadLeavesRest
<1>5. \A u \in Threads : /\ AliveThread(u)' <=> AliveThread(u)
                         /\ thread'[u].slot = thread[u].slot
                         /\ thread'[u].pc \in {"done", "failed"} <=> thread[u].pc \in {"done", "failed"}
                         /\ thread'[u].pc = "failed" <=> thread[u].pc = "failed"
  BY <1>1, <1>3 DEF AliveThread
<1>6. ThreadsAreSound'
  <2>. SUFFICES ASSUME NEW u \in Threads, AliveThread(u), thread[u].slot \notin shared,
                       SessionIsTheirs(u), thread[u].slot \in Slots
                PROVE  SessionIsTheirs(u)'
    BY <1>1, <1>5 DEF RinetdInv, ThreadsAreSound, history
  <2>1. /\ Over(u[1])' <=> Over(u[1])
        /\ thread'[Backward(u[1])].pc = "failed" <=> thread[Backward(u[1])].pc = "failed"
    BY <1>5, ThreadNames DEF Over
  <2>2. \A q : Closing(q)' <=> Closing(q)
    BY <1>1 DEF Closing
  <2>3. /\ thread'[u].pc = "start" => session[thread[u].slot].conn \in {u[1], None}
        /\ thread'[u].conn \in {u[1], None}
        /\ thread'[u].pc = "recv" => thread'[u].conn = u[1]
    <3>1. CASE u = t
      BY <1>3, <3>1 DEF SessionIsTheirs
    <3>2. CASE u # t
      BY <1>3, <3>2 DEF SessionIsTheirs
    <3>. QED
      BY <3>1, <3>2
  <2>. QED
    BY <1>1, <1>5, <2>1, <2>2, <2>3 DEF SessionIsTheirs, Serving
<1>7. SetupIsTheirs'
  BY <1>1 DEF RinetdInv, SetupIsTheirs, Serving, history
<1>. QED
  BY <1>4, <1>6, <1>7 DEF RinetdInv

\* A thread that ends clears the flag of its session.  If the session was not
\* shared, only the connection's other thread is concerned.
LEMMA ThreadEndsKeeps ==
  ASSUME RinetdInv, NEW t \in Threads, AliveThread(t), ThreadEnds(t)
  PROVE  RinetdInv'
<1>. DEFINE s == thread[t].slot
<1>1. /\ UNCHANGED <<context, counted, ctl, listener, sock, history>>
      /\ session' = [session EXCEPT ![s].active = FALSE]
      /\ thread' = [thread EXCEPT ![t] = [NoThread EXCEPT !.pc = "done"]]
  BY DEF ThreadEnds
<1>2. /\ s \in Slots /\ session \in [Slots -> SessionRecord] /\ thread \in [Threads -> ThreadRecord]
      /\ s \notin shared => SessionIsTheirs(t)
  BY DEF RinetdInv, TypeOK, ThreadsAreSound, SessionRecord, ThreadRecord
<1>3. /\ \A q \in Slots : /\ q # s => session'[q] = session[q]
                          /\ session'[q].conn = session[q].conn
                          /\ session'[q].forward = session[q].forward
                          /\ session'[q].backward = session[q].backward
                          /\ session'[q].active => session[q].active
      /\ session' \in [Slots -> SessionRecord]
  <2>1. session' \in [Slots -> SessionRecord]
    BY <1>1, <1>2, SessionTyped
  <2>. QED
    BY <1>1, <1>2, <2>1 DEF SessionRecord
<1>4. /\ thread'[t].pc = "done" /\ \A u \in Threads : u # t => thread'[u] = thread[u]
      /\ thread' \in [Threads -> ThreadRecord]
  <2>1. /\ "done" \in ThreadStates /\ 0 \in 0 .. MaxSessions /\ None \in Connections \cup {None}
    BY RinetdAssumption DEF ThreadStates
  <2>2. thread' \in [Threads -> ThreadRecord]
    BY <1>1, <2>1, ThreadTyped
  <2>3. [NoThread EXCEPT !.pc = "done"].pc = "done"
    BY DEF NoThread
  <2>. QED
    BY <1>1, <1>2, <2>2, <2>3
<1>. HIDE DEF s
<1>5. /\ TypeOK' /\ ListenersWork' /\ ConnectionsAreTaken' /\ CommandsAreSound'
      /\ StoppedSessionsAreInactive' /\ UniqueSource' /\ ListenersKeepTheirRules'
      /\ NoLostSocket'
  BY <1>1, <1>3, <1>4, ThreadLeavesRest
<1>6. \A u \in Threads : AliveThread(u)' => AliveThread(u) /\ thread'[u] = thread[u] /\ u # t
  BY <1>4 DEF AliveThread
<1>7. ThreadsAreSound'
  <2>1. ASSUME NEW u \in Threads, AliveThread(u)', thread[u].slot \notin shared
        PROVE  SessionIsTheirs(u)'
    <3>1. /\ AliveThread(u) /\ thread'[u] = thread[u] /\ SessionIsTheirs(u) /\ thread[u].slot \in Slots
          /\ u[1] \in Connections
      BY <1>6, <2>1, ThreadNames DEF RinetdInv, ThreadsAreSound
    <3>2. \A q : Closing(q)' <=> Closing(q)
      BY <1>1 DEF Closing
    <3>3. /\ Over(u[1]) => Over(u[1])'
          /\ thread'[Backward(u[1])].pc = "failed" <=> thread[Backward(u[1])].pc = "failed"
      BY <1>4, <3>1, ThreadNames DEF Over, AliveThread
    <3>4. Over(u[1])' \/ session'[thread[u].slot].active \/ Closing(thread[u].slot)
      <4>1. CASE thread[u].slot = s
        <5>1. t[1] = u[1]
          BY <3>1, <4>1 DEF SessionIsTheirs, s
        <5>. QED
          BY <1>4, <5>1, ThreadNames DEF Over
      <4>2. CASE thread[u].slot # s
        BY <1>3, <3>1, <3>3, <4>2 DEF SessionIsTheirs
      <4>. QED
        BY <4>1, <4>2
    <3>. QED
      <4>1. /\ session'[thread[u].slot].conn = session[thread[u].slot].conn
            /\ session'[thread[u].slot].forward = session[thread[u].slot].forward
            /\ session'[thread[u].slot].backward = session[thread[u].slot].backward
            /\ session'[thread[u].slot].active => session[thread[u].slot].active
        BY <1>3, <3>1
      <4>2. \A v \in Threads : AliveThread(v)' /\ thread'[v].slot = thread[u].slot => v[1] = u[1]
        BY <1>6, <3>1 DEF SessionIsTheirs
      <4>. QED
        BY <1>1, <3>1, <3>2, <3>3, <3>4, <4>1, <4>2, ZenonT(30) DEF SessionIsTheirs, Serving
  <2>. QED
    BY <1>1, <1>3, <1>6, <2>1 DEF RinetdInv, ThreadsAreSound, history
<1>8. SetupIsTheirs'
  <2>1. ASSUME NEW l \in Listeners, listener[l].pc = "forward", listener[l].slot \notin shared
        PROVE  listener[l].slot # s
    <3>. SUFFICES ASSUME listener[l].slot = s PROVE FALSE
      OBVIOUS
    <3>1. Serving(l)
      BY <2>1 DEF Serving
    <3>2. listener[l].conn = t[1]
      BY <1>2, <2>1, <3>1 DEF SessionIsTheirs, s
    <3>3. /\ thread[Backward(listener[l].conn)].pc = "none"
          /\ thread[Forward(listener[l].conn)].pc = "none"
      BY <2>1, <3>1, ServingAlone
    <3>. QED
      BY <3>2, <3>3, ThreadNames DEF AliveThread
  <2>. SUFFICES ASSUME NEW m \in Listeners, Serving(m), listener[m].slot \notin shared
                PROVE  /\ session'[listener[m].slot].conn = listener[m].conn
                       /\ listener[m].pc = "forward" => session'[listener[m].slot].active
                       /\ listener[m].pc = "backward" =>
                            session'[listener[m].slot].forward = listener[m].conn
                       /\ \A k \in Listeners :
                            Serving(k) /\ listener[k].slot = listener[m].slot => k = m
    BY <1>1 DEF SetupIsTheirs, Serving, history
  <2>2. listener[m].slot \in Slots
    BY DEF RinetdInv, ListenersWork
  <2>. QED
    BY <1>3, <2>1, <2>2 DEF RinetdInv, SetupIsTheirs
<1>. QED
  BY <1>5, <1>7, <1>8 DEF RinetdInv

-----------------------------------------------------------------------------
(* The theorems.                                                            *)

LEMMA StutterKeeps ==
  ASSUME RinetdInv, UNCHANGED vars
  PROVE  RinetdInv'
<1>1. UNCHANGED <<inited, running, rules, listener_threads, session, counted, ctl, listener,
                  thread, sock, history>>
  BY DEF vars, context
<1>2. TypeOK'
  BY <1>1 DEF RinetdInv, TypeOK, history
<1>3. UniqueSource' /\ ListenersKeepTheirRules'
  BY <1>1 DEF RinetdInv, UniqueSource, ListenersKeepTheirRules, AliveListener, history
<1>. QED
  BY <1>1, <1>2, <1>3, RulesLeaveRest DEF RinetdInv

LEMMA NextKeeps ==
  ASSUME RinetdInv, [Next]_vars
  PROVE  RinetdInv'
<1>1. CASE Command
  BY <1>1, InitAndCleanupKeep, StartStepsKeep, StopBeginKeeps, AddRuleKeeps, RemoveRuleKeeps
  DEF Command
<1>2. CASE CommandStep
  BY <1>2, StartListenerKeeps, StartStepsKeep, JoinListenerKeeps, StopSessionKeeps,
     JoinForwardKeeps, CloseSessionKeeps, StopReturnsKeeps DEF CommandStep
<1>3. ASSUME NEW l \in Listeners,
             \/ ListenerStep(l) \/ Accepts(l) \/ AcceptFails(l) \/ Connects(l) \/ ConnectFails(l)
      PROVE  RinetdInv'
  BY <1>3, IdleListenerKeeps, AcceptsKeeps, ServerStepsKeep, ScansKeeps, FillsKeeps,
     CreatesForwardKeeps, ForwardFailsKeeps, CreatesBackwardKeeps, BackwardFailsKeeps
  DEF ListenerStep
<1>4. ASSUME NEW t \in Threads, ThreadStep(t) \/ ThreadCopies(t) \/ ThreadBreaks(t)
      PROVE  RinetdInv'
  BY <1>4, LivingThreadKeeps, ThreadEndsKeeps
  DEF ThreadStep, ThreadStops, ThreadBreaks, AliveThread
<1>5. CASE UNCHANGED vars
  BY <1>5, StutterKeeps
<1>. QED
  BY <1>1, <1>2, <1>3, <1>4, <1>5 DEF Next, Outside

\* RinetdInv holds in every reachable state: whatever rules are added and
\* removed, however often the service is started and stopped, and however its
\* threads interleave.
THEOREM RinetdInvariant == Spec => []RinetdInv
BY InitHolds, NextKeeps, PTL DEF Spec

\* Every variable of the service keeps its type: no loop of start_service,
\* stop_service or create_forward_session reads past rules, listener_threads
\* or active_sessions.
THEOREM RinetdTypeCorrect == Spec => []TypeOK
BY RinetdInvariant, PTL DEF RinetdInv

\* rinetd_add_rule and rinetd_remove_rule never leave two enabled rules on one
\* source.
THEOREM RulesStayUnique == Spec => []UniqueSource
BY RinetdInvariant, PTL DEF RinetdInv

\* The rule a living listener points to is never removed or disabled, except
\* after start_service has failed.
THEOREM ListenersStayOnRules == Spec => []ListenersKeepTheirRules
BY RinetdInvariant, PTL DEF RinetdInv

\* create_forward_session and listener_thread lose no open socket.
THEOREM NoSocketIsLost == Spec => []NoLostSocket
BY RinetdInvariant, PTL DEF RinetdInv

\* When stop_service has returned, no listener lives, nothing is left for
\* rinetd_cleanup, and what threads there are belong to connections that were
\* over before, or to sessions that were set up twice.
THEOREM StoppedStaysQuiet == Spec => []StoppedServiceIsQuiet
<1>1. RinetdInv => StoppedServiceIsQuiet
  <2>. SUFFICES ASSUME RinetdInv, Idle, ~running, ~failed
                PROVE  /\ ~counted
                       /\ \A l \in Listeners : ~AliveListener(l)
                       /\ \A t \in Threads : AliveThread(t) => Over(t[1]) \/ thread[t].slot \in shared
    BY DEF StoppedServiceIsQuiet
  <2>1. ~counted /\ \A h \in Handles : listener_threads[h] = None
    BY DEF RinetdInv, CommandsAreSound, Idle, Draining
  <2>2. ASSUME NEW l \in Listeners PROVE ~AliveListener(l)
    BY <2>1, RinetdAssumption DEF RinetdInv, CommandsAreSound, AliveListener
  <2>3. ASSUME NEW t \in Threads, AliveThread(t), thread[t].slot \notin shared
        PROVE  Over(t[1])
    <3>1. SessionIsTheirs(t) /\ thread[t].slot \in Slots
      BY <2>3 DEF RinetdInv, ThreadsAreSound
    <3>2. ~session[thread[t].slot].active /\ ~Closing(thread[t].slot)
      BY <3>1 DEF RinetdInv, StoppedSessionsAreInactive, Idle, Closing
    <3>. QED
      BY <3>1, <3>2 DEF SessionIsTheirs
  <2>. QED
    BY <2>1, <2>2, <2>3
<1>. QED
  BY <1>1, RinetdInvariant, PTL

\* No thread receives from or sends to a socket that the listener or
\* stop_service has closed, as long as its session was not set up twice and
\* its second thread could be created.
THEOREM UsedSocketsStayOpen == Spec => []SocketsOpenInUse
<1>1. RinetdInv => SocketsOpenInUse
  BY DEF RinetdInv, ThreadsAreSound, SessionIsTheirs, SocketsOpenInUse, AliveThread, Open
<1>. QED
  BY <1>1, RinetdInvariant, PTL
=============================================================================
