------------------------------ MODULE MCRinetd ------------------------------
(* The instances of Rinetd that TLC checks.                                *)
EXTENDS Rinetd, TLC

Symmetry == Permutations(Listeners) \cup Permutations(Connections) \cup Permutations(Sources)

\* The thread handles of a session that is not active are overwritten before
\* they are read, and its sockets are read only by threads that are starting
\* or about to be created.
Live(s) ==
  [session[s] EXCEPT
     !.forward = IF session[s].active THEN @ ELSE None,
     !.backward = IF session[s].active THEN @ ELSE None,
     !.conn = IF \/ session[s].active
                 \/ \E t \in Threads : thread[t].pc = "start" /\ thread[t].slot = s
                 \/ \E l \in Listeners :
                      listener[l].pc \in {"forward", "backward"} /\ listener[l].slot = s
                THEN @ ELSE None]

Observed == <<context, [s \in Slots |-> Live(s)], counted, ctl, listener, thread, sock, history>>
=============================================================================
