----------------------------- MODULE ThreadPool -----------------------------
(***************************************************************************)
(* The thread pool of ppdb/src/internal/infra/infra_sync.c: worker_thread, *)
(* infra_thread_pool_create, _destroy and _submit, over one mutex and the  *)
(* condition variables not_empty and not_full.                             *)
(*                                                                         *)
(* A critical section is one step when nothing can observe it half done.   *)
(* Two are split, with the mutex held in between, because another thread   *)
(* acts on the pool without the mutex: a worker about to sleep (create's   *)
(* failure path sets shutting_down and broadcasts unlocked) and a worker   *)
(* that has decremented thread_count and not yet unlocked (the same path   *)
(* polls thread_count unlocked and then frees the pool).                   *)
(*                                                                         *)
(* One caller, the owner, creates the pool and may destroy it.  A task     *)
(* stands for one call of infra_thread_pool_submit; a call begins while    *)
(* the pool is open and may still be inside when destroy begins.  Threads  *)
(* are members of Workers, and an identity is reused after its thread has  *)
(* returned.                                                               *)
(***************************************************************************)
EXTENDS Naturals, Sequences, FiniteSets, Functions

CONSTANTS
  Workers,      \* identities of the threads that run worker_thread
  Tasks,        \* the calls of infra_thread_pool_submit
  MinThreads, MaxThreads, QueueSize,   \* infra_thread_pool_config_t
  None          \* nobody holds the mutex; a worker has no task

\* infra_thread_pool_create refuses any other configuration (lines 217-221);
\* the last two conjuncts are about the model's identities only.
ASSUME PoolAssumption ==
  /\ MinThreads \in Nat \ {0}
  /\ MaxThreads \in Nat \ {0}
  /\ MinThreads <= MaxThreads
  /\ QueueSize \in Nat \ {0}
  /\ IsFiniteSet(Workers) /\ MaxThreads <= Cardinality(Workers)
  /\ None \notin Workers \cup Tasks

VARIABLES
  mutex,          \* the worker that holds pool->mutex between steps, or None
  running,        \* pool->running
  shutting_down,  \* pool->shutting_down
  thread_count, active_count, task_count,
  queue,          \* the list task_head .. task_tail
  wpc,            \* where each worker is in worker_thread
  task,           \* the task a worker executes
  done,           \* the tasks whose function has returned
  call,           \* where each call of submit is, or how it returned
  owner           \* where the owner is in create or destroy

counters == <<thread_count, active_count, task_count>>
flags == <<running, shutting_down>>
vars == <<mutex, flags, counters, queue, wpc, task, done, call, owner>>

\* "top": before the test of pool->running.  "lock": before the first lock.
\* "dozing": has the mutex and decided to wait.  "wait", "woken", "timedout":
\* in infra_cond_timedwait, and on its way back from it.  "leaving": has
\* given up its place in thread_count and still holds the mutex.  "run",
\* "ran": executing the task, and before the lock that follows.
WorkerStates == {"none", "top", "lock", "dozing", "wait", "woken", "timedout",
                 "leaving", "run", "ran"}

\* "entered" and "relock" are both in front of the mutex: on the way in, and
\* on the way back from infra_cond_wait.
CallStates == {"new", "entered", "waiting", "relock",
               "accepted", "refused", "nomem"}

\* "creating": in the loop that starts the workers.  "aborting", "polling":
\* its failure path before and after the broadcast.  "closing", "draining":
\* destroy before and after the broadcasts.
OwnerStates == {"creating", "aborting", "polling", "failed",
                "open", "closing", "draining", "destroyed"}

\* The pool structure, its mutex and its condition variables are gone.
Freed == owner \in {"failed", "destroyed"}

\* The workers that thread_count is there to count, and those active_count is.
Counted == {w \in Workers : wpc[w] \notin {"none", "leaving"}}
Busy == {w \in Workers : wpc[w] \in {"run", "ran"}}

Executing == {task[w] : w \in {v \in Workers : wpc[v] = "run"}}

TypeOK ==
  /\ mutex \in Workers \cup {None}
  /\ running \in BOOLEAN /\ shutting_down \in BOOLEAN
  /\ thread_count \in Nat /\ active_count \in Nat /\ task_count \in Nat
  /\ queue \in Seq(Tasks)
  /\ wpc \in [Workers -> WorkerStates]
  /\ task \in [Workers -> Tasks \cup {None}]
  /\ \A w \in Workers : wpc[w] = "run" <=> task[w] \in Tasks
  /\ done \in SUBSET Tasks
  /\ call \in [Tasks -> CallStates]
  /\ owner \in OwnerStates

Init ==
  /\ mutex = None
  /\ running = TRUE
  /\ shutting_down = FALSE
  /\ thread_count = 0 /\ active_count = 0 /\ task_count = 0
  /\ queue = <<>>
  /\ wpc = [w \in Workers |-> "none"]
  /\ task = [w \in Workers |-> None]
  /\ done = {}
  /\ call = [t \in Tasks |-> "new"]
  /\ owner = "creating"

-----------------------------------------------------------------------------
(* The tests and calls that several steps share.  A definition headed      *)
(* "Faulty" is not part of the model: it is the same code with a mistake   *)
(* in it that some property must notice.                                   *)

\* Faulty: the queue holds one task too many.
HasRoomForOneMore == task_count <= QueueSize

HasRoom == task_count < QueueSize

\* Faulty: the pool shrinks below its minimum.
AtLeastMinimum == thread_count >= MinThreads

AboveMinimum == thread_count > MinThreads

\* Faulty: the call of infra_cond_signal is missing.
NoSignal(pc, from, to) == {pc}

\* infra_cond_signal: one of the threads whose state is `from`, if there is
\* one, goes to `to`.  infra_cond_broadcast: all of them do.
Signal(pc, from, to) ==
  LET sleeping == {x \in DOMAIN pc : pc[x] = from}
  IN  IF sleeping = {} THEN {pc} ELSE {[pc EXCEPT ![x] = to] : x \in sleeping}

Broadcast(pc, from, to) ==
  [x \in DOMAIN pc |-> IF pc[x] = from THEN to ELSE pc[x]]

-----------------------------------------------------------------------------
(* infra_thread_pool_create: the loop that starts MinThreads workers.  The *)
(* increment of thread_count that follows the start of a thread is part of *)
(* the same step: before the pool is returned its only reader is the test  *)
(* thread_count > min_threads, false on either side of it.                 *)

CreateWorker ==
  /\ owner = "creating"
  /\ thread_count < MinThreads
  /\ \E w \in Workers :
       /\ wpc[w] = "none"
       /\ wpc' = [wpc EXCEPT ![w] = "top"]
  /\ thread_count' = thread_count + 1
  /\ UNCHANGED <<mutex, flags, active_count, task_count, queue, task, done,
                 call, owner>>

\* Faulty: the flag is not set.
CreateFailsQuietly ==
  /\ owner = "creating"
  /\ thread_count < MinThreads
  /\ owner' = "aborting"
  /\ UNCHANGED <<mutex, flags, counters, queue, wpc, task, done, call>>

\* infra_thread_create fails: shutting_down is set without the mutex.
CreateFails ==
  /\ owner = "creating"
  /\ thread_count < MinThreads
  /\ shutting_down' = TRUE
  /\ owner' = "aborting"
  /\ UNCHANGED <<mutex, running, counters, queue, wpc, task, done, call>>

\* Then the broadcast, without the mutex either.
AbortBroadcast ==
  /\ owner = "aborting"
  /\ wpc' = Broadcast(wpc, "wait", "woken")
  /\ owner' = "polling"
  /\ UNCHANGED <<mutex, flags, counters, queue, task, done, call>>

\* The poll of thread_count, unlocked, and the release of everything.
AbortFree ==
  /\ owner = "polling"
  /\ thread_count = 0
  /\ owner' = "failed"
  /\ UNCHANGED <<mutex, flags, counters, queue, wpc, task, done, call>>

CreateReturns ==
  /\ owner = "creating"
  /\ thread_count = MinThreads
  /\ owner' = "open"
  /\ UNCHANGED <<mutex, flags, counters, queue, wpc, task, done, call>>

-----------------------------------------------------------------------------
(* infra_thread_pool_destroy.                                              *)

DestroyBegin ==
  /\ owner = "open"
  /\ mutex = None
  /\ shutting_down' = TRUE
  /\ running' = FALSE
  /\ owner' = "closing"
  /\ UNCHANGED <<mutex, counters, queue, wpc, task, done, call>>

\* Faulty: the broadcast on not_empty is missing.
DestroyWakesCallsOnly ==
  /\ owner = "closing"
  /\ call' = Broadcast(call, "waiting", "relock")
  /\ owner' = "draining"
  /\ UNCHANGED <<mutex, flags, counters, queue, wpc, task, done>>

DestroyBroadcast ==
  /\ owner = "closing"
  /\ wpc' = Broadcast(wpc, "wait", "woken")
  /\ call' = Broadcast(call, "waiting", "relock")
  /\ owner' = "draining"
  /\ UNCHANGED <<mutex, flags, counters, queue, task, done>>

\* The poll finds thread_count = 0: the queued tasks are freed, then the
\* condition variables, the mutex and the pool.
DestroyFree ==
  /\ owner = "draining"
  /\ mutex = None
  /\ thread_count = 0
  /\ queue' = <<>>
  /\ owner' = "destroyed"
  /\ UNCHANGED <<mutex, flags, counters, wpc, task, done, call>>

-----------------------------------------------------------------------------
(* infra_thread_pool_submit, called with task t.                           *)

SubmitCall(t) ==
  /\ owner = "open"
  /\ call[t] = "new"
  /\ call' = [call EXCEPT ![t] = "entered"]
  /\ UNCHANGED <<mutex, flags, counters, queue, wpc, task, done, owner>>

\* The call gets the mutex and looks at the pool.
SubmitLocks(t) ==
  /\ ~Freed
  /\ call[t] \in {"entered", "relock"}
  /\ mutex = None

SubmitRefused(t) ==
  /\ SubmitLocks(t)
  /\ shutting_down
  /\ call' = [call EXCEPT ![t] = "refused"]
  /\ UNCHANGED <<mutex, flags, counters, queue, wpc, task, done, owner>>

SubmitWaits(t) ==
  /\ SubmitLocks(t)
  /\ ~shutting_down
  /\ ~HasRoom
  /\ call' = [call EXCEPT ![t] = "waiting"]
  /\ UNCHANGED <<mutex, flags, counters, queue, wpc, task, done, owner>>

\* infra_malloc of the task fails.
SubmitNoMemory(t) ==
  /\ SubmitLocks(t)
  /\ ~shutting_down
  /\ HasRoom
  /\ call' = [call EXCEPT ![t] = "nomem"]
  /\ UNCHANGED <<mutex, flags, counters, queue, wpc, task, done, owner>>

\* The task is queued and a worker signalled; one more worker is started when
\* all of them are busy, unless the pool is at its maximum or
\* infra_thread_create fails, which leaves it as it is.
SubmitAccepted(t) ==
  /\ SubmitLocks(t)
  /\ ~shutting_down
  /\ HasRoom
  /\ queue' = Append(queue, t)
  /\ task_count' = task_count + 1
  /\ call' = [call EXCEPT ![t] = "accepted"]
  /\ \E signalled \in Signal(wpc, "wait", "woken") :
       \/ wpc' = signalled /\ UNCHANGED thread_count
       \/ /\ thread_count < MaxThreads
          /\ active_count = thread_count
          /\ \E w \in Workers :
               /\ wpc[w] = "none"
               /\ wpc' = [signalled EXCEPT ![w] = "top"]
          /\ thread_count' = thread_count + 1
  /\ UNCHANGED <<mutex, flags, active_count, task, done, owner>>

\* infra_cond_wait may return without a signal.
SubmitSpurious(t) ==
  /\ ~Freed
  /\ call[t] = "waiting"
  /\ call' = [call EXCEPT ![t] = "relock"]
  /\ UNCHANGED <<mutex, flags, counters, queue, wpc, task, done, owner>>

-----------------------------------------------------------------------------
(* worker_thread, run by w.                                                *)

\* The loop condition reads pool->running without the mutex.
WorkerContinues(w) ==
  /\ ~Freed
  /\ wpc[w] = "top"
  /\ running
  /\ wpc' = [wpc EXCEPT ![w] = "lock"]
  /\ UNCHANGED <<mutex, flags, counters, queue, task, done, call, owner>>

\* The loop ends and the thread returns; thread_count is left as it is.
WorkerQuits(w) ==
  /\ ~Freed
  /\ wpc[w] = "top"
  /\ ~running
  /\ wpc' = [wpc EXCEPT ![w] = "none"]
  /\ UNCHANGED <<mutex, flags, counters, queue, task, done, call, owner>>

\* The worker has the mutex and tests the condition of the inner loop; after
\* a timeout only if the pool is not above its minimum size.
WorkerLooks(w) ==
  /\ ~Freed
  /\ mutex = None
  /\ \/ wpc[w] \in {"lock", "woken"}
     \/ wpc[w] = "timedout" /\ ~AboveMinimum

WorkerDozes(w) ==
  /\ WorkerLooks(w)
  /\ queue = <<>>
  /\ ~shutting_down
  /\ mutex' = w
  /\ wpc' = [wpc EXCEPT ![w] = "dozing"]
  /\ UNCHANGED <<flags, counters, queue, task, done, call, owner>>

\* infra_cond_timedwait: releasing the mutex and waiting is atomic.
WorkerSleeps(w) ==
  /\ ~Freed
  /\ wpc[w] = "dozing"
  /\ mutex' = None
  /\ wpc' = [wpc EXCEPT ![w] = "wait"]
  /\ UNCHANGED <<flags, counters, queue, task, done, call, owner>>

WorkerSpurious(w) ==
  /\ ~Freed
  /\ wpc[w] = "wait"
  /\ wpc' = [wpc EXCEPT ![w] = "woken"]
  /\ UNCHANGED <<mutex, flags, counters, queue, task, done, call, owner>>

\* idle_timeout has passed.
WorkerTimesOut(w) ==
  /\ ~Freed
  /\ wpc[w] = "wait"
  /\ wpc' = [wpc EXCEPT ![w] = "timedout"]
  /\ UNCHANGED <<mutex, flags, counters, queue, task, done, call, owner>>

\* Idle too long in a pool above its minimum size, whatever is queued by now.
WorkerExpires(w) ==
  /\ ~Freed
  /\ wpc[w] = "timedout"
  /\ mutex = None
  /\ AboveMinimum
  /\ thread_count' = thread_count - 1
  /\ mutex' = w
  /\ wpc' = [wpc EXCEPT ![w] = "leaving"]
  /\ UNCHANGED <<flags, active_count, task_count, queue, task, done, call, owner>>

\* Faulty: a shutdown ends the worker whatever is queued.
WorkerStopsAnyway(w) ==
  /\ WorkerLooks(w)
  /\ shutting_down
  /\ thread_count' = thread_count - 1
  /\ mutex' = w
  /\ wpc' = [wpc EXCEPT ![w] = "leaving"]
  /\ UNCHANGED <<flags, active_count, task_count, queue, task, done, call, owner>>

\* Shutdown and nothing left to do.
WorkerStops(w) ==
  /\ WorkerLooks(w)
  /\ queue = <<>>
  /\ shutting_down
  /\ thread_count' = thread_count - 1
  /\ mutex' = w
  /\ wpc' = [wpc EXCEPT ![w] = "leaving"]
  /\ UNCHANGED <<flags, active_count, task_count, queue, task, done, call, owner>>

\* Faulty: thread_count is decremented on the way out as well.
WorkerLeavesTwice(w) ==
  /\ ~Freed
  /\ wpc[w] = "leaving"
  /\ mutex' = None
  /\ thread_count' = thread_count - 1
  /\ wpc' = [wpc EXCEPT ![w] = "none"]
  /\ UNCHANGED <<flags, active_count, task_count, queue, task, done, call, owner>>

\* The unlock before the return.
WorkerLeaves(w) ==
  /\ ~Freed
  /\ wpc[w] = "leaving"
  /\ mutex' = None
  /\ wpc' = [wpc EXCEPT ![w] = "none"]
  /\ UNCHANGED <<flags, counters, queue, task, done, call, owner>>

\* Faulty: task_head is not moved.
WorkerTakesAndKeeps(w) ==
  /\ WorkerLooks(w)
  /\ queue # <<>>
  /\ active_count' = active_count + 1
  /\ task' = [task EXCEPT ![w] = Head(queue)]
  /\ wpc' = [wpc EXCEPT ![w] = "run"]
  /\ UNCHANGED <<mutex, flags, thread_count, task_count, queue, done, call, owner>>

WorkerTakes(w) ==
  /\ WorkerLooks(w)
  /\ queue # <<>>
  /\ queue' = Tail(queue)
  /\ task_count' = task_count - 1
  /\ active_count' = active_count + 1
  /\ task' = [task EXCEPT ![w] = Head(queue)]
  /\ wpc' = [wpc EXCEPT ![w] = "run"]
  /\ UNCHANGED <<mutex, flags, thread_count, done, call, owner>>

\* task->func(task->arg) returns and the task is freed.
WorkerRuns(w) ==
  /\ ~Freed
  /\ wpc[w] = "run"
  /\ done' = done \cup {task[w]}
  /\ task' = [task EXCEPT ![w] = None]
  /\ wpc' = [wpc EXCEPT ![w] = "ran"]
  /\ UNCHANGED <<mutex, flags, counters, queue, call, owner>>

\* Faulty: active_count is decremented only when there is room in the queue.
WorkerReturnsEarly(w) ==
  /\ ~Freed
  /\ wpc[w] = "ran"
  /\ mutex = None
  /\ IF HasRoom
       THEN /\ active_count' = active_count - 1
            /\ call' \in Signal(call, "waiting", "relock")
       ELSE UNCHANGED <<active_count, call>>
  /\ wpc' = [wpc EXCEPT ![w] = "top"]
  /\ UNCHANGED <<mutex, flags, thread_count, task_count, queue, task, done, owner>>

WorkerReturns(w) ==
  /\ ~Freed
  /\ wpc[w] = "ran"
  /\ mutex = None
  /\ active_count' = active_count - 1
  /\ IF HasRoom
       THEN call' \in Signal(call, "waiting", "relock")
       ELSE UNCHANGED call
  /\ wpc' = [wpc EXCEPT ![w] = "top"]
  /\ UNCHANGED <<mutex, flags, thread_count, task_count, queue, task, done, owner>>

-----------------------------------------------------------------------------
Owner ==
  \/ CreateWorker \/ CreateFails \/ AbortBroadcast \/ AbortFree \/ CreateReturns
  \/ DestroyBegin \/ DestroyBroadcast \/ DestroyFree

Submit(t) ==
  SubmitRefused(t) \/ SubmitWaits(t) \/ SubmitNoMemory(t) \/ SubmitAccepted(t)

\* The steps of a worker that need no mutex, and those that begin with a lock.
WorkerAlone(w) ==
  WorkerContinues(w) \/ WorkerQuits(w) \/ WorkerSleeps(w) \/ WorkerLeaves(w)
    \/ WorkerRuns(w)

WorkerLocked(w) ==
  WorkerDozes(w) \/ WorkerExpires(w) \/ WorkerStops(w) \/ WorkerTakes(w)
    \/ WorkerReturns(w)

Next ==
  \/ Owner
  \/ \E t \in Tasks : SubmitCall(t) \/ Submit(t) \/ SubmitSpurious(t)
  \/ \E w \in Workers : WorkerAlone(w) \/ WorkerLocked(w)
                          \/ WorkerSpurious(w) \/ WorkerTimesOut(w)

Spec == Init /\ [][Next]_vars

(***************************************************************************)
(* Fairness.  A thread that can take a step takes it (WF), task functions  *)
(* return, and a thread that is offered the mutex again and again gets it  *)
(* (SF): the scheduler and the pthread mutex starve nobody.  Nothing is    *)
(* assumed of spurious wakeups, of idle timeouts, of failures, or of the   *)
(* owner's decision to destroy.                                            *)
(***************************************************************************)
Fairness ==
  /\ WF_vars(CreateWorker \/ CreateReturns \/ AbortBroadcast \/ AbortFree)
  /\ WF_vars(DestroyBroadcast)
  /\ SF_vars(DestroyFree)
  /\ \A t \in Tasks : SF_vars(Submit(t))
  /\ \A w \in Workers : WF_vars(WorkerAlone(w)) /\ SF_vars(WorkerLocked(w))

FairSpec == Spec /\ Fairness

-----------------------------------------------------------------------------
(* Safety.                                                                 *)

\* The three counters say what the pool is: task_count is the length of the
\* list, active_count the number of workers between dequeuing a task and
\* reporting back, and, as long as pool->running holds, thread_count the
\* number of threads that have not given up their place (afterwards at least
\* that number: no decrement ever takes it below the threads still there).
CountersMatch ==
  /\ task_count = Len(queue)
  /\ active_count = Cardinality(Busy)
  /\ thread_count >= Cardinality(Counted)
  /\ running => thread_count = Cardinality(Counted)

\* Idle timeouts and new workers racing with each other keep the size of an
\* open pool between min_threads and max_threads.
PoolSizeBounded ==
  /\ thread_count <= MaxThreads
  /\ owner = "open" => thread_count >= MinThreads

\* What the owner's progress says of the two flags, which create's failure
\* path and destroy set differently, and of the calls.
OwnerFlags ==
  /\ running <=> owner \notin {"closing", "draining", "destroyed"}
  /\ shutting_down <=> owner \notin {"creating", "open"}
  /\ owner = "creating" => \A t \in Tasks : call[t] = "new"

\* When the last worker gives up its place nothing is queued, so destroy finds
\* an empty list when it frees the tasks that are left (infra_sync.c:318-324).
NothingLeftToDrop == thread_count = 0 => queue = <<>>

\* The inductive invariant behind the first theorems (ThreadPool_proofs).
CountInv ==
  TypeOK /\ OwnerFlags /\ CountersMatch /\ PoolSizeBounded /\ NothingLeftToDrop

\* Every accepted task is in exactly one place: queued once, executed by one
\* worker, or done.  Not even destroy loses one, although it has a loop that
\* frees what is still queued.
EachTaskOnce ==
  /\ \A i, j \in DOMAIN queue : queue[i] = queue[j] => i = j
  /\ \A v, w \in Workers : wpc[v] = "run" /\ wpc[w] = "run" /\ task[v] = task[w]
                              => v = w
  /\ Range(queue) \cap Executing = {}
  /\ (Range(queue) \cup Executing) \cap done = {}
  /\ Range(queue) \cup Executing \cup done \subseteq {t \in Tasks : call[t] = "accepted"}
  /\ {t \in Tasks : call[t] = "accepted"} \subseteq Range(queue) \cup Executing \cup done

\* No lost wakeup of a worker: while tasks are queued and the pool is open,
\* some worker is not asleep, although a worker whose timed wait has expired
\* does not get the signal and may leave without looking at the queue.
SomeoneServesTheQueue ==
  owner = "open" /\ queue # <<>>
    => \E w \in Workers : wpc[w] \in {"top", "lock", "woken", "timedout", "run", "ran"}

\* No lost wakeup of a submitter: a call sleeps on not_full only while a task
\* is still to be finished, whose worker will signal, or another call has
\* been signalled.  A call that was signalled and then fails to allocate its
\* task is the exception: it passes the signal on to nobody.
SomeoneWakesTheSubmitters ==
  owner = "open" /\ (\E t \in Tasks : call[t] = "waiting")
    => \/ queue # <<>>
       \/ Busy # {}
       \/ \E t \in Tasks : call[t] \in {"relock", "nomem"}

\* The pool implements the bounded FIFO of TaskQueue.
FateOf(t) ==
  CASE t \in done -> "done"
    [] t \in Executing -> "running"
    [] t \in Range(queue) -> "queued"
    [] call[t] \in {"refused", "nomem"} -> "refused"
    [] call[t] \in {"new", "entered", "waiting", "relock"} -> "new"
    [] OTHER -> "lost"

Abstract == INSTANCE TaskQueue
              WITH fate <- [t \in Tasks |-> FateOf(t)], open <- ~shutting_down

\* Acceptance order is starting order, the queue is bounded by queue_size,
\* at most max_threads tasks run together, none starts twice, none is
\* accepted after shutdown, and none is dropped.
ImplementsTaskQueue == Abstract!TQSpec

-----------------------------------------------------------------------------
(* Liveness.                                                               *)

\* An accepted task is executed, unless the pool is shut down.
AcceptedTaskRuns ==
  \A t \in Tasks : call[t] = "accepted" ~> t \in done \/ shutting_down

\* A call blocked on a full queue returns or the pool is shut down, unless an
\* allocation failed somewhere.
BlockedSubmitReturns ==
  \A t \in Tasks :
    call[t] \in {"waiting", "relock"} ~>
      \/ call[t] \in {"accepted", "refused", "nomem"}
      \/ Freed
      \/ \E u \in Tasks : call[u] = "nomem"

\* infra_thread_pool_destroy returns if it finds nothing queued and every
\* worker between its first lock and the dequeuing of a task: they all leave
\* through the test of shutting_down, which gives up their place.
IdlePoolIsDestroyed ==
  (/\ owner = "closing"
   /\ queue = <<>>
   /\ thread_count = Cardinality(Counted)
   /\ \A w \in Workers : wpc[w] \notin {"top", "run", "ran"})
     ~> owner = "destroyed"

\* infra_thread_pool_create returns, in failure too, if timed waits end.  They
\* must: its unlocked broadcast can come before the wait of a worker that has
\* just seen shutting_down false.
CreateTerminates ==
  (\A w \in Workers : WF_vars(WorkerTimesOut(w)))
    => (owner = "creating" ~> owner \in {"open", "failed"})

-----------------------------------------------------------------------------
(* What the comments of the code say and the code does not do.             *)

\* "Wait for all threads to exit" (infra_sync.c:307): destroy returns.
DestroyTerminates == owner = "closing" ~> owner = "destroyed"

\* "Wake all waiting threads" (infra_sync.c:303), for the calls blocked in
\* submit, which return an error then (358), and "Wait for all threads to exit"
\* (273, in create): a pool that is freed has no thread inside it any more.
FreedPoolIsUnused ==
  /\ owner = "destroyed" => \A t \in Tasks : call[t] \notin {"waiting", "relock"}
  /\ owner = "failed" => \A w \in Workers : wpc[w] = "none"
=============================================================================
