----------------------------- MODULE TaskQueue -----------------------------
(***************************************************************************)
(* What the thread pool of infra_sync.h promises to its callers: a bounded *)
(* FIFO of tasks.  A task is accepted or refused, accepted tasks are       *)
(* started in the order they were accepted, at most MaxThreads run at the  *)
(* same time, each runs at most once, nothing is accepted after the pool   *)
(* is closed, and no accepted task is dropped, not even by a shutdown.     *)
(* A task stands for one call of infra_thread_pool_submit.                 *)
(***************************************************************************)
EXTENDS Naturals, Sequences, FiniteSets

CONSTANTS Tasks, QueueSize, MaxThreads

VARIABLES
  fate,   \* what became of each task
  queue,  \* accepted tasks that have not been started, oldest first
  open    \* FALSE once the pool has been told to shut down

tqvars == <<fate, queue, open>>

Fates == {"new", "queued", "running", "done", "refused"}

InProgress == {t \in Tasks : fate[t] = "running"}

TQTypeOK ==
  /\ fate \in [Tasks -> Fates]
  /\ queue \in Seq(Tasks)
  /\ open \in BOOLEAN

TQInit ==
  /\ fate = [t \in Tasks |-> "new"]
  /\ queue = <<>>
  /\ open = TRUE

Accept(t) ==
  /\ open
  /\ fate[t] = "new"
  /\ Len(queue) < QueueSize
  /\ fate' = [fate EXCEPT ![t] = "queued"]
  /\ queue' = Append(queue, t)
  /\ UNCHANGED open

Refuse(t) ==
  /\ fate[t] = "new"
  /\ fate' = [fate EXCEPT ![t] = "refused"]
  /\ UNCHANGED <<queue, open>>

Start ==
  /\ queue # <<>>
  /\ Cardinality(InProgress) < MaxThreads
  /\ fate' = [fate EXCEPT ![Head(queue)] = "running"]
  /\ queue' = Tail(queue)
  /\ UNCHANGED open

Finish(t) ==
  /\ fate[t] = "running"
  /\ fate' = [fate EXCEPT ![t] = "done"]
  /\ UNCHANGED <<queue, open>>

Close ==
  /\ open
  /\ open' = FALSE
  /\ UNCHANGED <<fate, queue>>

TQNext ==
  \/ \E t \in Tasks : Accept(t) \/ Refuse(t) \/ Finish(t)
  \/ Start
  \/ Close

TQSpec == TQInit /\ [][TQNext]_tqvars
=============================================================================
