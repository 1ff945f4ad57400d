------------------------------- MODULE MCInfra -------------------------------
(* The memory pool and the other modules of the infra layer, and the run of *)
(* the program.  They share nothing here, so each is explored by itself: a  *)
(* behaviour uses one of them.                                              *)
EXTENDS MCMemoryPool, Lifecycle, Sockets, Mux, PeerTable, Buffer, CommandLine

VARIABLE in_use

infra_vars ==
  <<in_use, vars, life_vars, socket_vars, mux_vars, buffer_vars, peer_vars, main_vars>>

InfraInit ==
  /\ in_use \in {"pool", "allocating", "logging", "sockets", "mux", "buffer", "peers", "main"}
  /\ Init /\ LifeInit /\ SocketInit /\ MuxInit /\ TableInit /\ BufferInit /\ MainInit
  /\ in_use = "buffer" \/ capacity = 1
  /\ in_use = "main" \/ argv = <<>>

\* Clients of the lifecycle either allocate or log.
Lives ==
  \/ Own
  \/ in_use = "allocating" /\ \E c \in Allocators : Allocate(c)
  \/ in_use = "logging" /\ \E c \in Loggers : Log(c)

InfraNext ==
  /\ UNCHANGED in_use
  /\ \/ /\ in_use = "pool" /\ Next
        /\ UNCHANGED <<life_vars, socket_vars, mux_vars, buffer_vars, peer_vars, main_vars>>
     \/ /\ in_use \in {"allocating", "logging"} /\ Lives
        /\ UNCHANGED <<vars, socket_vars, mux_vars, buffer_vars, peer_vars, main_vars>>
     \/ /\ in_use = "sockets" /\ SocketNext
        /\ UNCHANGED <<vars, life_vars, mux_vars, buffer_vars, peer_vars, main_vars>>
     \/ /\ in_use = "mux" /\ MuxNext
        /\ UNCHANGED <<vars, life_vars, socket_vars, buffer_vars, peer_vars, main_vars>>
     \/ /\ in_use = "buffer" /\ BufferNext
        /\ UNCHANGED <<vars, life_vars, socket_vars, mux_vars, peer_vars, main_vars>>
     \/ /\ in_use = "peers" /\ TableNext
        /\ UNCHANGED <<vars, life_vars, socket_vars, mux_vars, buffer_vars, main_vars>>
     \/ /\ in_use = "main" /\ MainNext
        /\ UNCHANGED <<vars, life_vars, socket_vars, mux_vars, buffer_vars, peer_vars>>

InfraSpec == InfraInit /\ [][InfraNext]_infra_vars

\* A mutex that is gone is told apart from none only where it is read; the
\* events in the mux's buffer matter between epoll_wait and the copy; and of a
\* wait that has returned nothing does.
LayerMutex ==
  IF infra.mutex \in DOMAIN alive /\ alive[infra.mutex] = "global" THEN infra.mutex ELSE 0
Waits == [w \in Waiters |-> IF wait[w].at = "done" THEN Away ELSE wait[w]]
Told == [w \in Waiters |-> IF wait[w].at = "done" THEN <<>> ELSE told[w]]
Shared == IF \E w \in Waiters : wait[w].at = "copying" THEN buffer ELSE Len(buffer)

InfraObserved ==
  CASE in_use = "pool" -> <<in_use, Observed>>
    [] in_use \in {"allocating", "logging"} ->
         <<in_use, [infra EXCEPT !.mutex = LayerMutex], memory, alive, owner, client, inits, resets, lost>>
    [] in_use = "sockets" -> <<in_use, socket_vars>>
    [] in_use = "mux" -> <<in_use, pieces, wanted, handle, opened, registered, Shared, Waits, Told>>
    [] in_use = "buffer" -> <<in_use, buffer_vars>>
    [] in_use = "peers" -> <<in_use, peer_vars>>
    [] in_use = "main" -> <<in_use, main_vars>>

TypesOK ==
  CASE in_use = "pool" -> TypeOK
    [] in_use \in {"allocating", "logging"} -> LifeTypeOK
    [] in_use = "sockets" -> SocketTypeOK
    [] in_use = "mux" -> MuxTypeOK
    [] in_use = "buffer" -> BufferTypeOK
    [] in_use = "peers" -> TableTypeOK
    [] in_use = "main" -> MainTypeOK
=============================================================================
