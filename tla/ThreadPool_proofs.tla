-------------------------- MODULE ThreadPool_proofs --------------------------
(***************************************************************************)
(* Proofs about ThreadPool, for every set of workers and tasks and every   *)
(* configuration that infra_thread_pool_create accepts.                    *)
(***************************************************************************)
EXTENDS ThreadPool, FiniteSetTheorems, TLAPS

-----------------------------------------------------------------------------
(* Lemmas about sets and about the condition variables.                    *)

\* Adding a member to, or removing one from, a finite set of threads moves
\* the counter that follows its size by one.
LEMMA OneMore ==
  ASSUME NEW A, NEW B, NEW x, IsFiniteSet(A), x \notin A, B = A \cup {x}
  PROVE  Cardinality(B) = Cardinality(A) + 1
BY FS_AddElement

LEMMA OneLess ==
  ASSUME NEW A, NEW B, NEW x, IsFiniteSet(A), x \in A, B = A \ {x}
  PROVE  /\ Cardinality(B) = Cardinality(A) - 1
         /\ Cardinality(A) >= 1
<1>1. IsFiniteSet(B) /\ Cardinality(B) = Cardinality(A) - 1
  BY FS_RemoveElement
<1>2. Cardinality(A) \in Nat /\ Cardinality(B) \in Nat
  BY <1>1, FS_CardinalityType
<1>. QED
  BY <1>1, <1>2

\* The sets that the counters follow are finite.
LEMMA CountedFinite ==
  ASSUME PoolAssumption
  PROVE  /\ IsFiniteSet(Counted) /\ Cardinality(Counted) \in Nat
         /\ IsFiniteSet(Busy) /\ Cardinality(Busy) \in Nat
<1>1. Counted \subseteq Workers /\ Busy \subseteq Workers
  BY DEF Counted, Busy
<1>. QED
  BY <1>1, FS_Subset, FS_CardinalityType DEF PoolAssumption

\* infra_cond_signal and infra_cond_broadcast move sleeping threads only.
LEMMA SignalMoves ==
  ASSUME TypeOK, NEW f \in Signal(wpc, "wait", "woken")
  PROVE  /\ f \in [Workers -> WorkerStates]
         /\ \A w \in Workers : f[w] = wpc[w] \/ (wpc[w] = "wait" /\ f[w] = "woken")
<1>1. CASE {x \in DOMAIN wpc : wpc[x] = "wait"} = {}
  BY <1>1 DEF Signal, TypeOK
<1>2. CASE {x \in DOMAIN wpc : wpc[x] = "wait"} # {}
  <2>1. PICK x \in Workers : wpc[x] = "wait" /\ f = [wpc EXCEPT ![x] = "woken"]
    BY <1>2 DEF Signal, TypeOK
  <2>. QED
    BY <2>1 DEF TypeOK, WorkerStates
<1>. QED
  BY <1>1, <1>2

LEMMA CallSignalMoves ==
  ASSUME TypeOK, NEW f \in Signal(call, "waiting", "relock")
  PROVE  /\ f \in [Tasks -> CallStates]
         /\ f = call \/ \E t \in Tasks : call[t] = "waiting"
<1>1. CASE {x \in DOMAIN call : call[x] = "waiting"} = {}
  BY <1>1 DEF Signal, TypeOK
<1>2. CASE {x \in DOMAIN call : call[x] = "waiting"} # {}
  <2>1. PICK x \in Tasks : call[x] = "waiting" /\ f = [call EXCEPT ![x] = "relock"]
    BY <1>2 DEF Signal, TypeOK
  <2>. QED
    BY <2>1 DEF TypeOK, CallStates
<1>. QED
  BY <1>1, <1>2

LEMMA BroadcastMoves ==
  ASSUME TypeOK
  PROVE  /\ Broadcast(wpc, "wait", "woken") \in [Workers -> WorkerStates]
         /\ \A w \in Workers :
              \/ Broadcast(wpc, "wait", "woken")[w] = wpc[w]
              \/ wpc[w] = "wait" /\ Broadcast(wpc, "wait", "woken")[w] = "woken"
         /\ Broadcast(call, "waiting", "relock") \in [Tasks -> CallStates]
BY DEF Broadcast, TypeOK, WorkerStates, CallStates

-----------------------------------------------------------------------------
(* The steps.  A step of one thread keeps, adds or removes one member of   *)
(* Counted and of Busy, and the counters follow.                           *)

\* A step that starts no thread, ends none and neither takes nor reports a task.
LEMMA Uncounted ==
  ASSUME TypeOK, CountersMatch, UNCHANGED counters, UNCHANGED running, queue' = queue,
         \A w \in Workers : /\ wpc[w] \in {"none", "leaving"} <=> wpc'[w] \in {"none", "leaving"}
                            /\ wpc[w] \in {"run", "ran"} <=> wpc'[w] \in {"run", "ran"}
  PROVE  CountersMatch'
<1>1. Counted' = Counted /\ Busy' = Busy
  BY DEF Counted, Busy
<1>. QED
  BY <1>1 DEF CountersMatch, counters


\* The initial pool satisfies the invariant.
LEMMA CountInit == PoolAssumption /\ Init => CountInv
<1>. SUFFICES ASSUME PoolAssumption, Init PROVE CountInv
  OBVIOUS
<1>1. TypeOK
  <2>1. queue \in Seq(Tasks) /\ done \in SUBSET Tasks
    BY DEF Init
  <2>. QED
    BY <2>1 DEF Init, TypeOK, WorkerStates, CallStates, OwnerStates
<1>2. Counted = {} /\ Busy = {}
  BY DEF Init, Counted, Busy
<1>3. CountersMatch
  BY <1>2, FS_EmptySet DEF Init, CountersMatch
<1>4. OwnerFlags /\ PoolSizeBounded /\ NothingLeftToDrop
  BY DEF Init, OwnerFlags, PoolSizeBounded, NothingLeftToDrop, PoolAssumption
<1>. QED
  BY <1>1, <1>3, <1>4 DEF CountInv

\* The steps of create and destroy.
LEMMA OwnerKeepsCount ==
  ASSUME PoolAssumption, CountInv, Owner
  PROVE  CountInv'
<1>. USE DEF CountInv
<1>1. CASE CreateWorker
  <2>1. PICK w \in Workers : wpc[w] = "none" /\ wpc' = [wpc EXCEPT ![w] = "top"]
    BY <1>1 DEF CreateWorker
  <2>2. TypeOK'
    BY <1>1, <2>1 DEF CreateWorker, TypeOK, WorkerStates, flags
  <2>3. w \notin Counted /\ Counted' = Counted \cup {w} /\ Busy' = Busy
    BY <2>1 DEF TypeOK, Counted, Busy
  <2>4. Cardinality(Counted') = Cardinality(Counted) + 1
    BY <2>3, CountedFinite, OneMore
  <2>5. CountersMatch'
    BY <1>1, <2>3, <2>4, CountedFinite DEF CreateWorker, CountersMatch, TypeOK, flags
  <2>6. OwnerFlags' /\ PoolSizeBounded' /\ NothingLeftToDrop'
    BY <1>1 DEF CreateWorker, OwnerFlags, PoolSizeBounded, NothingLeftToDrop,
       PoolAssumption, TypeOK, flags
  <2>. QED
    BY <2>2, <2>5, <2>6
<1>2. CASE CreateFails
  <2>1. TypeOK' /\ OwnerFlags' /\ PoolSizeBounded' /\ NothingLeftToDrop'
    BY <1>2 DEF CreateFails, TypeOK, OwnerStates, OwnerFlags, PoolSizeBounded, NothingLeftToDrop, counters
  <2>2. CountersMatch'
    BY <1>2, Uncounted DEF CreateFails
  <2>. QED
    BY <2>1, <2>2
<1>3. CASE AbortBroadcast
  <2>1. /\ wpc' \in [Workers -> WorkerStates]
        /\ \A w \in Workers : wpc'[w] = wpc[w] \/ (wpc[w] = "wait" /\ wpc'[w] = "woken")
    BY <1>3, BroadcastMoves DEF AbortBroadcast
  <2>2. TypeOK' /\ OwnerFlags' /\ PoolSizeBounded' /\ NothingLeftToDrop'
    BY <1>3, <2>1 DEF AbortBroadcast, TypeOK, OwnerStates, OwnerFlags, PoolSizeBounded, NothingLeftToDrop, flags, counters
  <2>3. CountersMatch'
    BY <1>3, <2>1, Uncounted DEF AbortBroadcast, flags
  <2>. QED
    BY <2>2, <2>3
<1>4. CASE AbortFree \/ CreateReturns
  <2>1. TypeOK' /\ OwnerFlags' /\ PoolSizeBounded' /\ NothingLeftToDrop'
    BY <1>4 DEF AbortFree, CreateReturns, TypeOK, OwnerStates, OwnerFlags, PoolSizeBounded, NothingLeftToDrop,
                PoolAssumption, flags, counters
  <2>2. CountersMatch'
    BY <1>4, Uncounted DEF AbortFree, CreateReturns, flags
  <2>. QED
    BY <2>1, <2>2
<1>5. CASE DestroyBegin
  <2>1. TypeOK' /\ OwnerFlags' /\ PoolSizeBounded' /\ NothingLeftToDrop'
    BY <1>5 DEF DestroyBegin, TypeOK, OwnerStates, OwnerFlags, PoolSizeBounded, NothingLeftToDrop, counters
  <2>2. Counted' = Counted /\ Busy' = Busy
    BY <1>5 DEF DestroyBegin, Counted, Busy
  <2>3. CountersMatch'
    BY <1>5, <2>2 DEF DestroyBegin, CountersMatch, counters
  <2>. QED
    BY <2>1, <2>3
<1>6. CASE DestroyBroadcast
  <2>1. /\ wpc' \in [Workers -> WorkerStates]
        /\ \A w \in Workers : wpc'[w] = wpc[w] \/ (wpc[w] = "wait" /\ wpc'[w] = "woken")
    BY <1>6, BroadcastMoves DEF DestroyBroadcast
  <2>2. call' \in [Tasks -> CallStates]
    BY <1>6, BroadcastMoves DEF DestroyBroadcast
  <2>3. TypeOK' /\ OwnerFlags' /\ PoolSizeBounded' /\ NothingLeftToDrop'
    BY <1>6, <2>1, <2>2
    DEF DestroyBroadcast, TypeOK, OwnerStates, OwnerFlags, PoolSizeBounded, NothingLeftToDrop, flags, counters
  <2>4. CountersMatch'
    BY <1>6, <2>1, Uncounted DEF DestroyBroadcast, flags
  <2>. QED
    BY <2>3, <2>4
\* thread_count = 0: by NothingLeftToDrop the list that is freed is empty.
<1>7. CASE DestroyFree
  <2>1. TypeOK' /\ OwnerFlags' /\ PoolSizeBounded' /\ NothingLeftToDrop'
    BY <1>7 DEF DestroyFree, TypeOK, OwnerStates, OwnerFlags, PoolSizeBounded, NothingLeftToDrop,
                flags, counters
  <2>2. queue' = queue
    BY <1>7 DEF DestroyFree, NothingLeftToDrop
  <2>3. CountersMatch'
    BY <1>7, <2>2, Uncounted DEF DestroyFree, flags
  <2>. QED
    BY <2>1, <2>3
<1>. QED
  BY <1>1, <1>2, <1>3, <1>4, <1>5, <1>6, <1>7 DEF Owner

\* The steps of a call of submit.
LEMMA SubmitKeepsCount ==
  ASSUME PoolAssumption, CountInv, NEW t \in Tasks,
         SubmitCall(t) \/ Submit(t) \/ SubmitSpurious(t)
  PROVE  CountInv'
<1>. USE DEF CountInv
<1>1. CASE SubmitCall(t) \/ SubmitRefused(t) \/ SubmitWaits(t) \/ SubmitNoMemory(t)
             \/ SubmitSpurious(t)
  <2>1. \E c \in CallStates : call' = [call EXCEPT ![t] = c]
    BY <1>1 DEF SubmitCall, SubmitRefused, SubmitWaits, SubmitNoMemory, SubmitSpurious, CallStates
  <2>2. /\ UNCHANGED <<mutex, flags, counters, queue, wpc, task, done, owner>>
        /\ owner # "creating"
    BY <1>1 DEF SubmitCall, SubmitRefused, SubmitWaits, SubmitNoMemory, SubmitSpurious,
                SubmitLocks, OwnerFlags
  <2>3. TypeOK' /\ OwnerFlags' /\ PoolSizeBounded' /\ NothingLeftToDrop'
    BY <2>1, <2>2 DEF TypeOK, OwnerFlags, PoolSizeBounded, NothingLeftToDrop, flags, counters
  <2>4. CountersMatch'
    BY <2>2, Uncounted DEF flags
  <2>. QED
    BY <2>3, <2>4
<1>2. CASE SubmitAccepted(t)
  <2>1. owner = "open" /\ ~shutting_down /\ call[t] # "new"
    BY <1>2 DEF SubmitAccepted, SubmitLocks, OwnerFlags
  <2>2. PICK signalled \in Signal(wpc, "wait", "woken") :
          \/ wpc' = signalled /\ UNCHANGED thread_count
          \/ /\ thread_count < MaxThreads
             /\ \E w \in Workers :
                  /\ wpc[w] = "none"
                  /\ wpc' = [signalled EXCEPT ![w] = "top"]
             /\ thread_count' = thread_count + 1
    BY <1>2 DEF SubmitAccepted
  <2>3. /\ signalled \in [Workers -> WorkerStates]
        /\ \A w \in Workers : \/ signalled[w] = wpc[w]
                              \/ wpc[w] = "wait" /\ signalled[w] = "woken"
    BY <2>2, SignalMoves
  <2>4. queue' \in Seq(Tasks) /\ Len(queue') = Len(queue) + 1
    BY <1>2 DEF SubmitAccepted, TypeOK
  <2>5. /\ wpc' \in [Workers -> WorkerStates]
        /\ \A w \in Workers : wpc'[w] = "run" <=> wpc[w] = "run"
    BY <2>2, <2>3 DEF WorkerStates
  <2>6. TypeOK'
    BY <1>2, <2>2, <2>4, <2>5 DEF SubmitAccepted, TypeOK, CallStates, flags
  <2>7. OwnerFlags' /\ PoolSizeBounded' /\ NothingLeftToDrop'
    BY <1>2, <2>1, <2>2 DEF SubmitAccepted, OwnerFlags, PoolSizeBounded, NothingLeftToDrop,
                            TypeOK, PoolAssumption, flags
  <2>8. CountersMatch'
    <3>1. CASE wpc' = signalled /\ UNCHANGED thread_count
      <4>1. Counted' = Counted /\ Busy' = Busy
        BY <2>3, <3>1 DEF Counted, Busy
      <4>. QED
        BY <1>2, <2>4, <3>1, <4>1 DEF SubmitAccepted, CountersMatch, flags
    <3>2. ASSUME NEW w \in Workers, wpc[w] = "none",
                 wpc' = [signalled EXCEPT ![w] = "top"], thread_count' = thread_count + 1
          PROVE  CountersMatch'
      <4>1. w \notin Counted /\ Counted' = Counted \cup {w} /\ Busy' = Busy
        BY <2>3, <3>2 DEF Counted, Busy
      <4>2. Cardinality(Counted') = Cardinality(Counted) + 1
        BY <4>1, CountedFinite, OneMore
      <4>. QED
        BY <1>2, <2>4, <3>2, <4>1, <4>2, CountedFinite
        DEF SubmitAccepted, CountersMatch, TypeOK, flags
    <3>. QED
      BY <2>2, <3>1, <3>2
  <2>. QED
    BY <2>6, <2>7, <2>8
<1>. QED
  BY <1>1, <1>2 DEF Submit

\* The steps of a worker.
LEMMA WorkerKeepsCount ==
  ASSUME PoolAssumption, CountInv, NEW w \in Workers,
         WorkerAlone(w) \/ WorkerLocked(w) \/ WorkerSpurious(w) \/ WorkerTimesOut(w)
  PROVE  CountInv'
<1>. USE DEF CountInv
\* Steps between states that are counted alike.
<1>1. CASE WorkerContinues(w) \/ WorkerDozes(w) \/ WorkerSleeps(w) \/ WorkerSpurious(w)
             \/ WorkerTimesOut(w) \/ WorkerLeaves(w) \/ WorkerRuns(w)
  <2>1. /\ UNCHANGED <<flags, counters, queue, call, owner>>
        /\ mutex' \in {mutex, w, None}
        /\ task' \in {task, [task EXCEPT ![w] = None]}
        /\ done' = done \/ (done' = done \cup {task[w]} /\ wpc[w] = "run")
    BY <1>1 DEF WorkerContinues, WorkerDozes, WorkerSleeps, WorkerSpurious, WorkerTimesOut,
                WorkerLeaves, WorkerRuns, WorkerLooks
  <2>2. /\ wpc' \in [Workers -> WorkerStates]
        /\ \A v \in Workers :
             /\ wpc[v] \in {"none", "leaving"} <=> wpc'[v] \in {"none", "leaving"}
             /\ wpc[v] \in {"run", "ran"} <=> wpc'[v] \in {"run", "ran"}
    BY <1>1 DEF WorkerContinues, WorkerDozes, WorkerSleeps, WorkerSpurious, WorkerTimesOut,
                WorkerLeaves, WorkerRuns, WorkerLooks, TypeOK, WorkerStates
  <2>3. CountersMatch'
    BY <2>1, <2>2, Uncounted DEF flags
  <2>4. OwnerFlags' /\ PoolSizeBounded' /\ NothingLeftToDrop'
    BY <2>1 DEF OwnerFlags, PoolSizeBounded, NothingLeftToDrop, flags, counters
  <2>5. done' \in SUBSET Tasks
    BY <2>1 DEF TypeOK
  <2>6. task' \in [Workers -> Tasks \cup {None}]
    BY <2>1 DEF TypeOK
  <2>7. \A v \in Workers : wpc'[v] = "run" <=> task'[v] \in Tasks
    BY <1>1 DEF WorkerContinues, WorkerDozes, WorkerSleeps, WorkerSpurious, WorkerTimesOut,
                WorkerLeaves, WorkerRuns, WorkerLooks, TypeOK, PoolAssumption
  <2>8. TypeOK'
    BY <2>1, <2>2, <2>5, <2>6, <2>7 DEF TypeOK, flags, counters
  <2>. QED
    BY <2>3, <2>4, <2>8
<1>2. CASE WorkerQuits(w)
  <2>1. w \in Counted /\ Counted' = Counted \ {w} /\ Busy' = Busy
    BY <1>2 DEF WorkerQuits, TypeOK, Counted, Busy
  <2>2. Cardinality(Counted') = Cardinality(Counted) - 1
    BY <2>1, CountedFinite, OneLess
  <2>3. TypeOK' /\ OwnerFlags' /\ PoolSizeBounded' /\ NothingLeftToDrop'
    BY <1>2 DEF WorkerQuits, TypeOK, WorkerStates, OwnerFlags, PoolSizeBounded,
                NothingLeftToDrop, flags, counters
  <2>. QED
    BY <1>2, <2>1, <2>2, <2>3, CountedFinite DEF WorkerQuits, CountersMatch, TypeOK, flags, counters
\* A place is given up: only above the minimum, or with nothing left to do.
<1>3. CASE WorkerExpires(w) \/ WorkerStops(w)
  <2>1. /\ wpc[w] \in {"lock", "woken", "timedout"}
        /\ wpc' = [wpc EXCEPT ![w] = "leaving"]
        /\ thread_count' = thread_count - 1
        /\ mutex' = w
        /\ UNCHANGED <<flags, active_count, task_count, queue, task, done, call, owner>>
    BY <1>3 DEF WorkerExpires, WorkerStops, WorkerLooks
  <2>2. w \in Counted /\ Counted' = Counted \ {w} /\ Busy' = Busy
    BY <2>1 DEF TypeOK, Counted, Busy
  <2>3. Cardinality(Counted') = Cardinality(Counted) - 1 /\ Cardinality(Counted) >= 1
    BY <2>2, CountedFinite, OneLess
  <2>4. thread_count \in Nat \ {0}
    BY <2>3, CountedFinite DEF TypeOK, CountersMatch
  <2>5. TypeOK'
    BY <2>1, <2>4 DEF TypeOK, WorkerStates, flags
  <2>6. OwnerFlags' /\ PoolSizeBounded' /\ NothingLeftToDrop'
    <3>1. CASE WorkerExpires(w)
      BY <2>1, <2>4, <3>1 DEF WorkerExpires, AboveMinimum, OwnerFlags, PoolSizeBounded,
                              NothingLeftToDrop, PoolAssumption, flags
    <3>2. CASE WorkerStops(w)
      BY <2>1, <2>4, <3>2 DEF WorkerStops, OwnerFlags, PoolSizeBounded, NothingLeftToDrop,
                              PoolAssumption, flags
    <3>. QED
      BY <1>3, <3>1, <3>2
  <2>7. CountersMatch'
    BY <2>1, <2>2, <2>3, CountedFinite DEF CountersMatch, TypeOK, flags
  <2>. QED
    BY <2>5, <2>6, <2>7
<1>4. CASE WorkerTakes(w)
  <2>1. /\ wpc[w] \in {"lock", "woken", "timedout"}
        /\ queue # <<>>
    BY <1>4 DEF WorkerTakes, WorkerLooks
  <2>2. w \notin Busy /\ Busy' = Busy \cup {w} /\ Counted' = Counted
    BY <1>4, <2>1 DEF WorkerTakes, TypeOK, Counted, Busy
  <2>3. Cardinality(Busy') = Cardinality(Busy) + 1
    BY <2>2, CountedFinite, OneMore
  <2>4. /\ Head(queue) \in Tasks /\ Tail(queue) \in Seq(Tasks)
        /\ Len(Tail(queue)) = Len(queue) - 1 /\ Len(queue) \in Nat \ {0}
    BY <2>1 DEF TypeOK
  <2>5. TypeOK'
    BY <1>4, <2>4 DEF WorkerTakes, TypeOK, CountersMatch, WorkerStates, flags
  <2>6. OwnerFlags' /\ PoolSizeBounded' /\ NothingLeftToDrop'
    BY <1>4, <2>1 DEF WorkerTakes, OwnerFlags, PoolSizeBounded, NothingLeftToDrop, flags
  <2>7. CountersMatch'
    BY <1>4, <2>2, <2>3, <2>4 DEF WorkerTakes, CountersMatch, flags
  <2>. QED
    BY <2>5, <2>6, <2>7
<1>5. CASE WorkerReturns(w)
  <2>1. w \in Busy /\ Busy' = Busy \ {w} /\ Counted' = Counted
    BY <1>5 DEF WorkerReturns, TypeOK, Counted, Busy
  <2>2. Cardinality(Busy') = Cardinality(Busy) - 1 /\ Cardinality(Busy) >= 1
    BY <2>1, CountedFinite, OneLess
  <2>3. call' \in [Tasks -> CallStates] /\ (call' = call \/ \E t \in Tasks : call[t] = "waiting")
    BY <1>5, CallSignalMoves DEF WorkerReturns, TypeOK
  <2>4. TypeOK'
    BY <1>5, <2>2, <2>3, CountedFinite DEF WorkerReturns, TypeOK, CountersMatch, WorkerStates, flags
  <2>5. OwnerFlags' /\ PoolSizeBounded' /\ NothingLeftToDrop'
    BY <1>5, <2>3 DEF WorkerReturns, OwnerFlags, PoolSizeBounded, NothingLeftToDrop, flags
  <2>6. CountersMatch'
    BY <1>5, <2>1, <2>2 DEF WorkerReturns, CountersMatch, flags
  <2>. QED
    BY <2>4, <2>5, <2>6
<1>. QED
  BY <1>1, <1>2, <1>3, <1>4, <1>5 DEF WorkerAlone, WorkerLocked

-----------------------------------------------------------------------------
(* The theorems.                                                           *)

\* The invariant holds in every reachable state.
THEOREM CountInvariant == Spec => []CountInv
<1>1. Init => CountInv
  BY PoolAssumption, CountInit
<1>2. CountInv /\ [Next]_vars => CountInv'
  <2>. SUFFICES ASSUME CountInv, [Next]_vars PROVE CountInv'
    OBVIOUS
  <2>1. CASE Next
    BY <2>1, PoolAssumption, OwnerKeepsCount, SubmitKeepsCount, WorkerKeepsCount DEF Next
  <2>2. CASE UNCHANGED vars
    <3>1. CountersMatch'
      BY <2>2, Uncounted DEF vars, flags, CountInv
    <3>. QED
      BY <2>2, <3>1 DEF vars, flags, counters, CountInv, TypeOK, OwnerFlags, PoolSizeBounded,
                       NothingLeftToDrop
  <2>. QED
    BY <2>1, <2>2
<1>. QED
  BY <1>1, <1>2, PTL DEF Spec

\* Every variable of the pool keeps its type; in particular none of the three
\* unsigned counters is ever decremented at zero.
THEOREM TypeCorrect == Spec => []TypeOK
BY CountInvariant, PTL DEF CountInv

\* The counters of the pool are exact for any number of workers and calls.
THEOREM CountersCorrect == Spec => []CountersMatch
BY CountInvariant, PTL DEF CountInv

\* The pool never has more than max_threads workers, nor, while it is open,
\* fewer than min_threads.
THEOREM SizeCorrect == Spec => []PoolSizeBounded
BY CountInvariant, PTL DEF CountInv

\* The list that destroy frees is always empty.
THEOREM DestroyDropsNothing == Spec => []NothingLeftToDrop
BY CountInvariant, PTL DEF CountInv

-----------------------------------------------------------------------------
(* Lists without repetition.                                               *)

Distinct(s) == \A i, j \in DOMAIN s : s[i] = s[j] => i = j

LEMMA AppendDistinct ==
  ASSUME NEW S, NEW s \in Seq(S), NEW x \in S, Distinct(s), x \notin Range(s)
  PROVE  /\ Distinct(Append(s, x))
         /\ Range(Append(s, x)) = Range(s) \cup {x}
<1>1. /\ DOMAIN s = 1 .. Len(s) /\ Len(s) \in Nat
      /\ DOMAIN Append(s, x) = 1 .. Len(s) + 1
      /\ \A i \in 1 .. Len(s) : Append(s, x)[i] = s[i]
      /\ Append(s, x)[Len(s) + 1] = x
  OBVIOUS
<1>2. \A i \in DOMAIN Append(s, x) : i \in DOMAIN s \/ i = Len(s) + 1
  BY <1>1
<1>3. \A i \in DOMAIN s : s[i] # x
  BY DEF Range
<1>4. Distinct(Append(s, x))
  BY <1>1, <1>2, <1>3 DEF Distinct
<1>5. Range(Append(s, x)) \subseteq Range(s) \cup {x}
  BY <1>1, <1>2 DEF Range
<1>6. Range(s) \cup {x} \subseteq Range(Append(s, x))
  <2>1. Len(s) + 1 \in DOMAIN Append(s, x) /\ DOMAIN s \subseteq DOMAIN Append(s, x)
    BY <1>1
  <2>. QED
    BY <1>1, <2>1 DEF Range
<1>. QED
  BY <1>4, <1>5, <1>6

LEMMA TailDistinct ==
  ASSUME NEW S, NEW s \in Seq(S), Distinct(s), s # <<>>
  PROVE  /\ Distinct(Tail(s))
         /\ Range(Tail(s)) = Range(s) \ {Head(s)}
         /\ Head(s) \in Range(s)
<1>1. /\ DOMAIN s = 1 .. Len(s) /\ Len(s) \in Nat \ {0} /\ Head(s) = s[1]
      /\ DOMAIN Tail(s) = 1 .. Len(s) - 1
      /\ \A i \in 1 .. Len(s) - 1 : Tail(s)[i] = s[i + 1]
  OBVIOUS
<1>2. \A i \in DOMAIN Tail(s) : i + 1 \in DOMAIN s /\ i + 1 # 1 /\ i \in Nat
  BY <1>1
<1>3. 1 \in DOMAIN s
  BY <1>1
<1>4. Distinct(Tail(s))
  BY <1>1, <1>2 DEF Distinct
<1>5. Head(s) \in Range(s)
  BY <1>1, <1>3 DEF Range
<1>6. Range(Tail(s)) \subseteq Range(s) \ {Head(s)}
  BY <1>1, <1>2, <1>3 DEF Range, Distinct
<1>7. Range(s) \ {Head(s)} \subseteq Range(Tail(s))
  <2>. SUFFICES ASSUME NEW i \in DOMAIN s, i # 1  PROVE s[i] \in Range(Tail(s))
    BY <1>1 DEF Range
  <2>1. i - 1 \in 1 .. Len(s) - 1 /\ (i - 1) + 1 = i
    BY <1>1
  <2>. QED
    BY <1>1, <2>1 DEF Range
<1>. QED
  BY <1>4, <1>5, <1>6, <1>7

-----------------------------------------------------------------------------
(* EachTaskOnce.                                                           *)

\* A step that accepts no task, takes none and finishes none.
LEMMA NothingMoves ==
  ASSUME EachTaskOnce, UNCHANGED <<queue, task, done>>,
         \A w \in Workers : wpc'[w] = "run" <=> wpc[w] = "run",
         \A t \in Tasks : call'[t] = "accepted" <=> call[t] = "accepted"
  PROVE  EachTaskOnce' /\ Executing' = Executing
<1>1. Executing' = Executing
  BY DEF Executing
<1>. QED
  BY <1>1 DEF EachTaskOnce

\* Signals and broadcasts leave calls that have returned alone.
LEMMA SleepersOnly ==
  ASSUME TypeOK
  PROVE  /\ \A f \in Signal(call, "waiting", "relock") :
              \A t \in Tasks : f[t] = call[t] \/ (call[t] = "waiting" /\ f[t] = "relock")
         /\ \A t \in Tasks :
              LET f == Broadcast(call, "waiting", "relock")
              IN  f[t] = call[t] \/ (call[t] = "waiting" /\ f[t] = "relock")
BY DEF Signal, Broadcast, TypeOK

LEMMA OwnerKeepsTasks ==
  ASSUME PoolAssumption, CountInv, EachTaskOnce, Owner
  PROVE  EachTaskOnce' /\ Executing' = Executing /\ UNCHANGED <<queue, done>>
         /\ \A t \in Tasks : \/ call'[t] = call[t]
                             \/ call[t] = "waiting" /\ call'[t] = "relock"
<1>1. UNCHANGED <<queue, task, done>>
  BY DEF Owner, CreateWorker, CreateFails, AbortBroadcast, AbortFree, CreateReturns,
         DestroyBegin, DestroyBroadcast, DestroyFree, CountInv, NothingLeftToDrop
<1>2. \A w \in Workers : wpc'[w] = "run" <=> wpc[w] = "run"
  BY BroadcastMoves
  DEF Owner, CreateWorker, CreateFails, AbortBroadcast, AbortFree, CreateReturns,
      DestroyBegin, DestroyBroadcast, DestroyFree, CountInv, TypeOK
<1>3. \A t \in Tasks : \/ call'[t] = call[t]
                       \/ call[t] = "waiting" /\ call'[t] = "relock"
  BY SleepersOnly
  DEF Owner, CreateWorker, CreateFails, AbortBroadcast, AbortFree, CreateReturns,
      DestroyBegin, DestroyBroadcast, DestroyFree, CountInv
<1>. QED
  BY <1>1, <1>2, <1>3, NothingMoves

\* A call that is not yet accepted waits, returns without having queued its
\* task, or has it queued.
LEMMA SubmitKeepsTasks ==
  ASSUME PoolAssumption, CountInv, EachTaskOnce, NEW t \in Tasks,
         SubmitCall(t) \/ Submit(t) \/ SubmitSpurious(t)
  PROVE  EachTaskOnce'
<1>. USE DEF CountInv
<1>1. CASE SubmitCall(t) \/ SubmitRefused(t) \/ SubmitWaits(t) \/ SubmitNoMemory(t)
             \/ SubmitSpurious(t)
  BY <1>1, NothingMoves
  DEF SubmitCall, SubmitRefused, SubmitWaits, SubmitNoMemory, SubmitSpurious, SubmitLocks,
      TypeOK
<1>2. CASE SubmitAccepted(t)
  <2>1. /\ queue' = Append(queue, t) /\ UNCHANGED <<task, done>>
        /\ call' = [call EXCEPT ![t] = "accepted"] /\ call[t] \in {"entered", "relock"}
    BY <1>2 DEF SubmitAccepted, SubmitLocks
  <2>2. \A w \in Workers : wpc'[w] = "run" <=> wpc[w] = "run"
    BY <1>2, SignalMoves DEF SubmitAccepted, TypeOK
  <2>3. Executing' = Executing
    BY <2>1, <2>2 DEF Executing
  <2>4. t \notin Range(queue) \cup Executing \cup done
    BY <2>1 DEF EachTaskOnce
  <2>5. Distinct(queue') /\ Range(queue') = Range(queue) \cup {t}
    BY <2>1, <2>4, AppendDistinct DEF EachTaskOnce, Distinct, TypeOK
  <2>6. {u \in Tasks : call'[u] = "accepted"} = {u \in Tasks : call[u] = "accepted"} \cup {t}
    BY <2>1 DEF TypeOK
  <2>. QED
    BY <2>1, <2>2, <2>3, <2>4, <2>5, <2>6 DEF EachTaskOnce, Distinct
<1>. QED
  BY <1>1, <1>2 DEF Submit

LEMMA WorkerKeepsTasks ==
  ASSUME PoolAssumption, CountInv, EachTaskOnce, NEW w \in Workers,
         WorkerAlone(w) \/ WorkerLocked(w) \/ WorkerSpurious(w) \/ WorkerTimesOut(w)
  PROVE  EachTaskOnce'
<1>. USE DEF CountInv
<1>1. CASE WorkerContinues(w) \/ WorkerQuits(w) \/ WorkerSleeps(w) \/ WorkerLeaves(w)
             \/ WorkerDozes(w) \/ WorkerExpires(w) \/ WorkerStops(w)
             \/ WorkerSpurious(w) \/ WorkerTimesOut(w)
  BY <1>1, NothingMoves
  DEF WorkerContinues, WorkerQuits, WorkerSleeps, WorkerLeaves, WorkerDozes, WorkerExpires,
      WorkerStops, WorkerSpurious, WorkerTimesOut, WorkerLooks, TypeOK
<1>2. CASE WorkerReturns(w)
  BY <1>2, NothingMoves, SleepersOnly DEF WorkerReturns, TypeOK
<1>3. CASE WorkerTakes(w)
  <2>1. /\ queue # <<>> /\ queue' = Tail(queue) /\ UNCHANGED <<done, call>>
        /\ task' = [task EXCEPT ![w] = Head(queue)] /\ wpc' = [wpc EXCEPT ![w] = "run"]
        /\ wpc[w] # "run"
    BY <1>3 DEF WorkerTakes, WorkerLooks
  <2>2. /\ Distinct(queue') /\ Range(queue') = Range(queue) \ {Head(queue)}
        /\ Head(queue) \in Range(queue)
    BY <2>1, TailDistinct DEF EachTaskOnce, Distinct, TypeOK
  <2>3. /\ \A v \in Workers : v # w => task'[v] = task[v] /\ wpc'[v] = wpc[v]
        /\ task'[w] = Head(queue) /\ wpc'[w] = "run"
    BY <2>1 DEF TypeOK
  <2>4. Executing' = Executing \cup {Head(queue)}
    BY <2>1, <2>3 DEF Executing
  <2>5. \A v \in Workers : v # w /\ wpc'[v] = "run" => task'[v] # Head(queue)
    BY <2>2, <2>3 DEF EachTaskOnce, Executing
  <2>. QED
    BY <2>1, <2>2, <2>3, <2>4, <2>5 DEF EachTaskOnce, Distinct
<1>4. CASE WorkerRuns(w)
  <2>1. /\ UNCHANGED <<queue, call>> /\ done' = done \cup {task[w]} /\ wpc[w] = "run"
        /\ task' = [task EXCEPT ![w] = None] /\ wpc' = [wpc EXCEPT ![w] = "ran"]
    BY <1>4 DEF WorkerRuns
  <2>2. /\ \A v \in Workers : v # w => task'[v] = task[v] /\ wpc'[v] = wpc[v]
        /\ wpc'[w] # "run"
    BY <2>1 DEF TypeOK
  <2>3. Executing' = Executing \ {task[w]} /\ task[w] \in Executing
    BY <2>1, <2>2 DEF Executing, EachTaskOnce
  <2>. QED
    BY <2>1, <2>2, <2>3 DEF EachTaskOnce
<1>. QED
  BY <1>1, <1>2, <1>3, <1>4 DEF WorkerAlone, WorkerLocked

\* A step of no thread changes nothing.
LEMMA StepKeepsTasks ==
  ASSUME PoolAssumption, CountInv, EachTaskOnce, [Next]_vars
  PROVE  EachTaskOnce'
<1>1. CASE UNCHANGED vars
  BY <1>1, NothingMoves DEF vars
<1>. QED
  BY <1>1, OwnerKeepsTasks, SubmitKeepsTasks, WorkerKeepsTasks DEF Next

\* No sequence of submits, timeouts, failures and shutdowns loses an accepted
\* task, runs one twice or drops one (infra_sync.c: worker_thread 18-72,
\* destroy 318-324, submit 336-400).
THEOREM EachTaskStaysOnce == Spec => []EachTaskOnce
<1>1. Init => EachTaskOnce
  BY DEF Init, EachTaskOnce, Executing, Range
<1>2. CountInv /\ EachTaskOnce /\ [Next]_vars => EachTaskOnce'
  BY PoolAssumption, StepKeepsTasks
<1>. QED
  BY <1>1, <1>2, CountInvariant, PTL DEF Spec

-----------------------------------------------------------------------------
(* SomeoneServesTheQueue and SomeoneWakesTheSubmitters.                    *)

\* A worker that will look at the queue, whatever the clock says.
Alert == \E w \in Workers : wpc[w] \in {"top", "lock", "woken", "run", "ran"}
Asleep == {w \in Workers : wpc[w] \in {"dozing", "wait"}}

\* If tasks are queued and nobody is sure to look, nobody is asleep either: all
\* that are left have timed out, and the last min_threads of them look.
ServedInv ==
  /\ owner = "creating" => queue = <<>>
  /\ owner = "open" /\ queue # <<>> => Alert \/ Asleep = {}
  /\ \A w \in Workers : wpc[w] \in {"dozing", "leaving"} => mutex = w

LEMMA ServedMeansServed ==
  ASSUME PoolAssumption, CountInv, ServedInv
  PROVE  SomeoneServesTheQueue
<1>. SUFFICES ASSUME owner = "open", queue # <<>>, ~Alert
              PROVE  \E w \in Workers : wpc[w] = "timedout"
  BY DEF SomeoneServesTheQueue, Alert
<1>1. Asleep = {}
  BY DEF ServedInv
<1>2. Cardinality(Counted) >= 1
  BY CountedFinite DEF CountInv, OwnerFlags, CountersMatch, PoolSizeBounded, PoolAssumption,
                       TypeOK
<1>3. Counted # {}
  BY <1>2, FS_EmptySet
<1>. QED
  BY <1>1, <1>3 DEF Counted, Asleep, Alert, CountInv, TypeOK, WorkerStates

\* A step that queues nothing and ends nobody's watch.
LEMMA StillServed ==
  ASSUME ServedInv, UNCHANGED <<queue, owner>>,
         \A w \in Workers :
           /\ wpc[w] \in {"top", "lock", "woken", "run", "ran"}
                => wpc'[w] \in {"top", "lock", "woken", "run", "ran"}
           /\ wpc'[w] \in {"dozing", "wait"} => wpc[w] \in {"dozing", "wait"}
           /\ wpc'[w] \in {"dozing", "leaving"} => mutex' = w
  PROVE  ServedInv'
BY DEF ServedInv, Alert, Asleep

LEMMA OwnerKeepsServed ==
  ASSUME PoolAssumption, CountInv, EachTaskOnce, ServedInv, Owner
  PROVE  ServedInv'
<1>1. UNCHANGED <<queue, mutex>>
  BY DEF Owner, CreateWorker, CreateFails, AbortBroadcast, AbortFree, CreateReturns,
         DestroyBegin, DestroyBroadcast, DestroyFree, CountInv, NothingLeftToDrop
<1>2. owner' = "creating" => owner = "creating"
  BY DEF Owner, CreateWorker, CreateFails, AbortBroadcast, AbortFree, CreateReturns,
         DestroyBegin, DestroyBroadcast, DestroyFree
<1>3. owner' = "open" => owner = "creating"
  BY DEF Owner, CreateWorker, CreateFails, AbortBroadcast, AbortFree, CreateReturns,
         DestroyBegin, DestroyBroadcast, DestroyFree
<1>4. \A w \in Workers : wpc'[w] \in {"dozing", "leaving"} => wpc'[w] = wpc[w]
  BY BroadcastMoves
  DEF Owner, CreateWorker, CreateFails, AbortBroadcast, AbortFree, CreateReturns,
      DestroyBegin, DestroyBroadcast, DestroyFree, CountInv, TypeOK
<1>. QED
  BY <1>1, <1>2, <1>3, <1>4 DEF ServedInv

LEMMA SubmitKeepsServed ==
  ASSUME PoolAssumption, CountInv, ServedInv, NEW t \in Tasks,
         SubmitCall(t) \/ Submit(t) \/ SubmitSpurious(t)
  PROVE  ServedInv'
<1>1. CASE SubmitCall(t) \/ SubmitRefused(t) \/ SubmitWaits(t) \/ SubmitNoMemory(t)
             \/ SubmitSpurious(t)
  BY <1>1, StillServed
  DEF SubmitCall, SubmitRefused, SubmitWaits, SubmitNoMemory, SubmitSpurious, SubmitLocks,
      ServedInv
\* One that sleeps is woken; if nobody sleeps, nobody has to be.
<1>2. CASE SubmitAccepted(t)
  <2>1. mutex = None /\ UNCHANGED <<mutex, owner>> /\ owner # "creating"
    BY <1>2 DEF SubmitAccepted, SubmitLocks, CountInv, OwnerFlags
  <2>2. \A w \in Workers : wpc[w] \notin {"dozing", "leaving"}
    BY <2>1 DEF ServedInv, PoolAssumption
  <2>3. PICK signalled \in Signal(wpc, "wait", "woken") :
          wpc' = signalled \/ \E w \in Workers : wpc' = [signalled EXCEPT ![w] = "top"]
    BY <1>2 DEF SubmitAccepted
  <2>4. signalled \in [Workers -> WorkerStates]
    BY <2>3, SignalMoves DEF CountInv
  <2>5. CASE \A w \in Workers : wpc[w] # "wait"
    <3>1. signalled = wpc
      BY <2>5 DEF Signal, CountInv, TypeOK
    <3>2. \A w \in Workers : wpc'[w] \notin {"dozing", "leaving", "wait"}
      BY <2>2, <2>3, <2>4, <2>5, <3>1
    <3>. QED
      BY <2>1, <3>2 DEF ServedInv, Asleep
  <2>6. CASE \E w \in Workers : wpc[w] = "wait"
    <3>1. \E w \in Workers : signalled = [wpc EXCEPT ![w] = "woken"]
      BY <2>6 DEF Signal, CountInv, TypeOK
    <3>2. \E w \in Workers : wpc'[w] \in {"woken", "top"}
      BY <2>3, <2>4, <3>1 DEF CountInv, TypeOK
    <3>3. \A w \in Workers : wpc'[w] \notin {"dozing", "leaving"}
      BY <2>2, <2>3, <2>4, <3>1 DEF CountInv, TypeOK
    <3>. QED
      BY <2>1, <3>2, <3>3 DEF ServedInv, Alert
  <2>. QED
    BY <2>5, <2>6
<1>. QED
  BY <1>1, <1>2 DEF Submit

LEMMA WorkerKeepsServed ==
  ASSUME PoolAssumption, CountInv, ServedInv, NEW w \in Workers,
         WorkerAlone(w) \/ WorkerLocked(w) \/ WorkerSpurious(w) \/ WorkerTimesOut(w)
  PROVE  ServedInv'
<1>. USE DEF CountInv
\* Between states that are alert, or not.
<1>1. CASE WorkerContinues(w) \/ WorkerSpurious(w) \/ WorkerTimesOut(w) \/ WorkerRuns(w)
             \/ WorkerReturns(w)
  BY <1>1, StillServed
  DEF WorkerContinues, WorkerSpurious, WorkerTimesOut, WorkerRuns, WorkerReturns, ServedInv,
      TypeOK
\* Nobody else is in a state in which it would hold the mutex.
<1>2. CASE WorkerSleeps(w) \/ WorkerLeaves(w)
  <2>1. \A v \in Workers : v # w => wpc[v] \notin {"dozing", "leaving"}
    BY <1>2 DEF WorkerSleeps, WorkerLeaves, ServedInv
  <2>. QED
    BY <1>2, <2>1, StillServed DEF WorkerSleeps, WorkerLeaves, TypeOK
<1>3. CASE WorkerExpires(w)
  <2>1. \A v \in Workers : wpc[v] \notin {"dozing", "leaving"}
    BY <1>3 DEF WorkerExpires, ServedInv, PoolAssumption
  <2>. QED
    BY <1>3, <2>1, StillServed DEF WorkerExpires, TypeOK
\* With an empty queue, or with a pool that is not open.
<1>4. CASE WorkerDozes(w) \/ WorkerStops(w)
  <2>1. /\ \A v \in Workers : wpc[v] \notin {"dozing", "leaving"}
        /\ queue' = <<>> /\ mutex' = w
    BY <1>4 DEF WorkerDozes, WorkerStops, WorkerLooks, ServedInv, PoolAssumption
  <2>2. \A v \in Workers : v # w => wpc'[v] = wpc[v]
    BY <1>4 DEF WorkerDozes, WorkerStops, TypeOK
  <2>. QED
    BY <2>1, <2>2 DEF ServedInv
<1>5. CASE WorkerQuits(w)
  <2>1. owner \notin {"creating", "open"} /\ UNCHANGED <<owner, mutex>>
    BY <1>5 DEF WorkerQuits, OwnerFlags
  <2>. QED
    BY <1>5, <2>1 DEF WorkerQuits, ServedInv, TypeOK
<1>6. CASE WorkerTakes(w)
  <2>1. /\ \A v \in Workers : wpc[v] \notin {"dozing", "leaving"}
        /\ UNCHANGED <<owner, mutex>> /\ queue # <<>>
    BY <1>6 DEF WorkerTakes, WorkerLooks, ServedInv, PoolAssumption
  <2>2. wpc'[w] = "run" /\ \A v \in Workers : wpc'[v] \notin {"dozing", "leaving"}
    BY <1>6, <2>1 DEF WorkerTakes, TypeOK
  <2>. QED
    BY <2>1, <2>2 DEF ServedInv, Alert
<1>. QED
  BY <1>1, <1>2, <1>3, <1>4, <1>5, <1>6 DEF WorkerAlone, WorkerLocked

\* infra_cond_signal when a task is queued (385), a worker that has timed out and
\* leaves without looking (29-35), and the test before every wait (26) lose no
\* wakeup of a worker, however many there are.
THEOREM QueueStaysServed == Spec => []SomeoneServesTheQueue
<1>1. Init => ServedInv
  BY DEF Init, ServedInv
<1>2. CountInv /\ EachTaskOnce /\ ServedInv /\ [Next]_vars => ServedInv'
  <2>. SUFFICES ASSUME CountInv, EachTaskOnce, ServedInv, [Next]_vars  PROVE ServedInv'
    OBVIOUS
  <2>1. CASE UNCHANGED vars
    BY <2>1 DEF ServedInv, Alert, Asleep, vars
  <2>. QED
    BY <2>1, PoolAssumption, OwnerKeepsServed, SubmitKeepsServed, WorkerKeepsServed DEF Next
<1>3. CountInv /\ ServedInv => SomeoneServesTheQueue
  BY PoolAssumption, ServedMeansServed
<1>. QED
  BY <1>1, <1>2, <1>3, CountInvariant, EachTaskStaysOnce, PTL DEF Spec

LEMMA StillWaking ==
  ASSUME SomeoneWakesTheSubmitters, UNCHANGED <<queue, owner, call>>,
         \A w \in Workers : wpc[w] \in {"run", "ran"} => wpc'[w] \in {"run", "ran"}
  PROVE  SomeoneWakesTheSubmitters'
BY DEF SomeoneWakesTheSubmitters, Busy

LEMMA StepKeepsWaking ==
  ASSUME PoolAssumption, CountInv, SomeoneWakesTheSubmitters, Next
  PROVE  SomeoneWakesTheSubmitters'
<1>. USE DEF CountInv
<1>1. CASE Owner
  <2>1. owner' = "open" => owner = "creating" /\ call' = call
    BY <1>1 DEF Owner, CreateWorker, CreateFails, AbortBroadcast, AbortFree, CreateReturns,
                DestroyBegin, DestroyBroadcast, DestroyFree
  <2>. QED
    BY <2>1 DEF SomeoneWakesTheSubmitters, OwnerFlags
<1>2. ASSUME NEW t \in Tasks, SubmitCall(t) \/ Submit(t) \/ SubmitSpurious(t)
      PROVE  SomeoneWakesTheSubmitters'
  <2>1. CASE SubmitAccepted(t)
    <3>1. queue' # <<>>
      BY <2>1 DEF SubmitAccepted, TypeOK
    <3>. QED
      BY <3>1 DEF SomeoneWakesTheSubmitters
  <2>2. CASE SubmitWaits(t)
    <3>1. queue # <<>> /\ queue' = queue
      BY <2>2 DEF SubmitWaits, HasRoom, CountersMatch, PoolAssumption, TypeOK
    <3>. QED
      BY <3>1 DEF SomeoneWakesTheSubmitters
  <2>3. CASE SubmitRefused(t)
    BY <2>3 DEF SubmitRefused, OwnerFlags, SomeoneWakesTheSubmitters
  <2>4. CASE SubmitNoMemory(t)
    BY <2>4 DEF SubmitNoMemory, TypeOK, SomeoneWakesTheSubmitters
  <2>5. CASE SubmitSpurious(t)
    BY <2>5 DEF SubmitSpurious, TypeOK, SomeoneWakesTheSubmitters
  <2>6. CASE SubmitCall(t)
    BY <2>6 DEF SubmitCall, TypeOK, SomeoneWakesTheSubmitters, Busy
  <2>. QED
    BY <1>2, <2>1, <2>2, <2>3, <2>4, <2>5, <2>6 DEF Submit
<1>3. ASSUME NEW w \in Workers,
             WorkerAlone(w) \/ WorkerLocked(w) \/ WorkerSpurious(w) \/ WorkerTimesOut(w)
      PROVE  SomeoneWakesTheSubmitters'
  <2>1. CASE WorkerTakes(w)
    <3>1. w \in Busy'
      BY <2>1 DEF WorkerTakes, TypeOK, Busy
    <3>. QED
      BY <3>1 DEF SomeoneWakesTheSubmitters
\* The worker's own signal takes its place.
  <2>2. CASE WorkerReturns(w)
    <3>1. CASE HasRoom
      <4>1. call' \in Signal(call, "waiting", "relock")
        BY <2>2, <3>1 DEF WorkerReturns
      <4>2. CASE \A t \in Tasks : call[t] # "waiting"
        BY <4>1, <4>2 DEF Signal, TypeOK, SomeoneWakesTheSubmitters
      <4>3. CASE \E t \in Tasks : call[t] = "waiting"
        <5>1. \E t \in Tasks : call'[t] = "relock"
          BY <4>1, <4>3 DEF Signal, TypeOK
        <5>. QED
          BY <5>1 DEF SomeoneWakesTheSubmitters
      <4>. QED
        BY <4>2, <4>3
    <3>2. CASE ~HasRoom
      <4>1. queue # <<>> /\ queue' = queue
        BY <2>2, <3>2 DEF WorkerReturns, HasRoom, CountersMatch, PoolAssumption, TypeOK
      <4>. QED
        BY <4>1 DEF SomeoneWakesTheSubmitters
    <3>. QED
      BY <3>1, <3>2
  <2>3. CASE ~WorkerTakes(w) /\ ~WorkerReturns(w)
    BY <1>3, <2>3, StillWaking
    DEF WorkerAlone, WorkerLocked, WorkerContinues, WorkerQuits, WorkerSleeps, WorkerLeaves,
        WorkerRuns, WorkerDozes, WorkerExpires, WorkerStops, WorkerSpurious, WorkerTimesOut,
        WorkerLooks, TypeOK
  <2>. QED
    BY <2>1, <2>2, <2>3
<1>. QED
  BY <1>1, <1>2, <1>3 DEF Next

\* A worker signals not_full after its task, and only if there is room (62-64): no
\* submitter sleeps with nobody left to wake it, for any size of the queue.
THEOREM SubmittersStayWoken == Spec => []SomeoneWakesTheSubmitters
<1>1. Init => SomeoneWakesTheSubmitters
  BY DEF Init, SomeoneWakesTheSubmitters
<1>2. CountInv /\ SomeoneWakesTheSubmitters /\ [Next]_vars => SomeoneWakesTheSubmitters'
  <2>. SUFFICES ASSUME CountInv, SomeoneWakesTheSubmitters, [Next]_vars
                PROVE  SomeoneWakesTheSubmitters'
    OBVIOUS
  <2>1. CASE UNCHANGED vars
    BY <2>1, StillWaking DEF vars
  <2>. QED
    BY <2>1, PoolAssumption, StepKeepsWaking
<1>. QED
  BY <1>1, <1>2, CountInvariant, PTL DEF Spec

-----------------------------------------------------------------------------
(* The refinement.  Every step of the pool accepts a task, refuses one,    *)
(* starts the oldest, finishes one or closes the pool, or is no step of    *)
(* TaskQueue.                                                              *)

\* Where a task is determines its fate.
FatesAgree ==
  \A t \in Tasks :
    /\ t \in done => FateOf(t) = "done"
    /\ t \in Executing => FateOf(t) = "running"
    /\ t \in Range(queue) => FateOf(t) = "queued"
    /\ call[t] \in {"refused", "nomem"} => FateOf(t) = "refused"
    /\ call[t] \in {"new", "entered", "waiting", "relock"} => FateOf(t) = "new"
    /\ call[t] = "accepted" => t \in Range(queue) \cup Executing \cup done

LEMMA FatesAreClear == CountInv /\ EachTaskOnce => FatesAgree
<1>. SUFFICES ASSUME CountInv, EachTaskOnce, NEW t \in Tasks
              PROVE  /\ t \in done => FateOf(t) = "done"
                     /\ t \in Executing => FateOf(t) = "running"
                     /\ t \in Range(queue) => FateOf(t) = "queued"
                     /\ call[t] \in {"refused", "nomem"} => FateOf(t) = "refused"
                     /\ call[t] \in {"new", "entered", "waiting", "relock"} => FateOf(t) = "new"
                     /\ call[t] = "accepted" => t \in Range(queue) \cup Executing \cup done
  BY DEF FatesAgree
<1>1. /\ t \in done => t \notin Executing /\ t \notin Range(queue)
      /\ t \in Executing => t \notin Range(queue)
      /\ t \in Range(queue) \cup Executing \cup done <=> call[t] = "accepted"
  BY DEF EachTaskOnce
<1>. QED
  BY <1>1 DEF FateOf

\* A task whose place and call stay keeps its fate, and so does one whose call only
\* goes from one place to wait to the next.
LEMMA SameFate ==
  ASSUME FatesAgree, FatesAgree', CountInv, NEW t \in Tasks,
         t \in done' <=> t \in done,
         t \in Executing' <=> t \in Executing,
         t \in Range(queue)' <=> t \in Range(queue),
         \/ call'[t] = call[t]
         \/ /\ call[t] \in {"new", "entered", "waiting", "relock"}
            /\ call'[t] \in {"new", "entered", "waiting", "relock"}
  PROVE  FateOf(t)' = FateOf(t)
BY DEF FatesAgree, CountInv, TypeOK, CallStates

\* The tasks in progress are not more than the busy workers.
LEMMA ProgressIsBusy ==
  ASSUME PoolAssumption, CountInv, FatesAgree
  PROVE  /\ Abstract!InProgress = Executing
         /\ IsFiniteSet(Executing) /\ Cardinality(Executing) <= active_count
<1>1. Abstract!InProgress = Executing
  <2>1. Executing \subseteq Tasks
    BY DEF Executing, CountInv, TypeOK
  <2>2. \A t \in Tasks : FateOf(t) = "running" <=> t \in Executing
    BY DEF FatesAgree, CountInv, TypeOK, CallStates
  <2>. QED
    BY <2>1, <2>2 DEF Abstract!InProgress
<1>. DEFINE Runners == {w \in Workers : wpc[w] = "run"}
            f == [w \in Runners |-> task[w]]
<1>2. Runners \subseteq Busy
  BY DEF Busy
<1>3. /\ IsFiniteSet(Runners) /\ Cardinality(Runners) \in Nat
      /\ Cardinality(Runners) <= Cardinality(Busy)
  BY <1>2, CountedFinite, FS_Subset, FS_CardinalityType
<1>4. f \in Surjection(Runners, Executing)
  BY DEF Surjection, Executing
<1>5. IsFiniteSet(Executing) /\ Cardinality(Executing) <= Cardinality(Runners)
  BY <1>3, <1>4, FS_Surjection
<1>6. Cardinality(Executing) \in Nat
  BY <1>5, FS_CardinalityType
<1>. QED
  BY <1>1, <1>3, <1>5, <1>6, CountedFinite DEF CountInv, CountersMatch

LEMMA Stutter ==
  ASSUME FatesAgree, FatesAgree', CountInv, UNCHANGED <<queue, done, shutting_down>>,
         Executing' = Executing,
         \A t \in Tasks :
           \/ call'[t] = call[t]
           \/ /\ call[t] \in {"new", "entered", "waiting", "relock"}
              /\ call'[t] \in {"new", "entered", "waiting", "relock"}
  PROVE  UNCHANGED Abstract!tqvars
<1>1. \A t \in Tasks : FateOf(t)' = FateOf(t)
  BY SameFate
<1>. QED
  BY <1>1 DEF Abstract!tqvars

LEMMA OwnerImplements ==
  ASSUME PoolAssumption, CountInv, EachTaskOnce, FatesAgree, FatesAgree', Owner
  PROVE  Abstract!TQNext \/ UNCHANGED Abstract!tqvars
<1>1. /\ Executing' = Executing /\ UNCHANGED <<queue, done>>
      /\ \A t \in Tasks : \/ call'[t] = call[t]
                          \/ call[t] = "waiting" /\ call'[t] = "relock"
  BY OwnerKeepsTasks
<1>2. shutting_down' = shutting_down \/ (~shutting_down /\ shutting_down')
  BY DEF Owner, CreateWorker, CreateFails, AbortBroadcast, AbortFree, CreateReturns,
         DestroyBegin, DestroyBroadcast, DestroyFree, flags, CountInv, OwnerFlags
<1>3. CASE shutting_down' = shutting_down
  BY <1>1, <1>3, Stutter
<1>4. CASE ~shutting_down /\ shutting_down'
  <2>1. \A t \in Tasks : FateOf(t)' = FateOf(t)
    BY <1>1, SameFate
  <2>. QED
    BY <1>1, <1>4, <2>1 DEF Abstract!TQNext, Abstract!Close
<1>. QED
  BY <1>2, <1>3, <1>4

LEMMA SubmitImplements ==
  ASSUME PoolAssumption, CountInv, EachTaskOnce, FatesAgree, FatesAgree', NEW t \in Tasks,
         SubmitCall(t) \/ Submit(t) \/ SubmitSpurious(t)
  PROVE  Abstract!TQNext \/ UNCHANGED Abstract!tqvars
<1>. USE DEF CountInv
<1>1. CASE SubmitCall(t) \/ SubmitWaits(t) \/ SubmitSpurious(t)
  <2>1. /\ UNCHANGED <<queue, done, shutting_down>> /\ Executing' = Executing
        /\ \A u \in Tasks :
             \/ call'[u] = call[u]
             \/ /\ call[u] \in {"new", "entered", "waiting", "relock"}
                /\ call'[u] \in {"new", "entered", "waiting", "relock"}
    BY <1>1 DEF SubmitCall, SubmitWaits, SubmitSpurious, SubmitLocks, flags, Executing, TypeOK
  <2>. QED
    BY <2>1, Stutter
<1>2. CASE SubmitRefused(t) \/ SubmitNoMemory(t)
  <2>1. /\ UNCHANGED <<queue, done, shutting_down>> /\ Executing' = Executing
        /\ call[t] \in {"entered", "relock"} /\ call'[t] \in {"refused", "nomem"}
        /\ \A u \in Tasks : u # t => call'[u] = call[u]
    BY <1>2 DEF SubmitRefused, SubmitNoMemory, SubmitLocks, flags, Executing, TypeOK
  <2>2. \A u \in Tasks : u # t => FateOf(u)' = FateOf(u)
    BY <2>1, SameFate
  <2>3. FateOf(t) = "new" /\ FateOf(t)' = "refused"
    BY <2>1 DEF FatesAgree
  <2>4. Abstract!Refuse(t)
    BY <2>1, <2>2, <2>3 DEF Abstract!Refuse
  <2>. QED
    BY <2>4 DEF Abstract!TQNext
<1>3. CASE SubmitAccepted(t)
  <2>1. /\ UNCHANGED <<done, shutting_down, task>> /\ ~shutting_down
        /\ queue' = Append(queue, t) /\ Len(queue) < QueueSize
        /\ call[t] \in {"entered", "relock"} /\ call' = [call EXCEPT ![t] = "accepted"]
    BY <1>3 DEF SubmitAccepted, SubmitLocks, HasRoom, CountersMatch, flags
  <2>2. Executing' = Executing
    <3>1. \A w \in Workers : wpc'[w] = "run" <=> wpc[w] = "run"
      BY <1>3, SignalMoves DEF SubmitAccepted, TypeOK
    <3>. QED
      BY <2>1, <3>1 DEF Executing
  <2>3. t \notin Range(queue) \cup Executing \cup done
    BY <2>1 DEF EachTaskOnce
  <2>4. Range(queue)' = Range(queue) \cup {t}
    BY <2>1, <2>3, AppendDistinct DEF EachTaskOnce, Distinct, TypeOK
  <2>5. \A u \in Tasks : u # t => call'[u] = call[u]
    BY <2>1 DEF TypeOK
  <2>6. \A u \in Tasks : u # t => FateOf(u)' = FateOf(u)
    BY <2>1, <2>2, <2>4, <2>5, SameFate
  <2>7. FateOf(t) = "new" /\ FateOf(t)' = "queued"
    BY <2>1, <2>4 DEF FatesAgree
  <2>8. Abstract!Accept(t)
    BY <2>1, <2>6, <2>7 DEF Abstract!Accept
  <2>. QED
    BY <2>8 DEF Abstract!TQNext
<1>. QED
  BY <1>1, <1>2, <1>3 DEF Submit

LEMMA WorkerImplements ==
  ASSUME PoolAssumption, CountInv, EachTaskOnce, FatesAgree, FatesAgree', NEW w \in Workers,
         WorkerAlone(w) \/ WorkerLocked(w) \/ WorkerSpurious(w) \/ WorkerTimesOut(w)
  PROVE  Abstract!TQNext \/ UNCHANGED Abstract!tqvars
<1>. USE DEF CountInv
<1>1. CASE ~WorkerTakes(w) /\ ~WorkerRuns(w)
  <2>1. UNCHANGED <<queue, done, task, shutting_down>>
    BY <1>1 DEF WorkerAlone, WorkerLocked, WorkerContinues, WorkerQuits, WorkerSleeps,
        WorkerLeaves, WorkerDozes, WorkerExpires, WorkerStops, WorkerReturns, WorkerSpurious,
        WorkerTimesOut, WorkerLooks, flags
  <2>2. \A v \in Workers : wpc'[v] = "run" <=> wpc[v] = "run"
    BY <1>1 DEF WorkerAlone, WorkerLocked, WorkerContinues, WorkerQuits, WorkerSleeps,
        WorkerLeaves, WorkerDozes, WorkerExpires, WorkerStops, WorkerReturns, WorkerSpurious,
        WorkerTimesOut, WorkerLooks, TypeOK
  <2>3. \A t \in Tasks : call'[t] = call[t] \/ (call[t] = "waiting" /\ call'[t] = "relock")
    BY <1>1, SleepersOnly DEF WorkerAlone, WorkerLocked, WorkerContinues, WorkerQuits,
        WorkerSleeps, WorkerLeaves, WorkerDozes, WorkerExpires, WorkerStops, WorkerReturns,
        WorkerSpurious, WorkerTimesOut, WorkerLooks
  <2>4. Executing' = Executing
    BY <2>1, <2>2 DEF Executing
  <2>. QED
    BY <2>1, <2>3, <2>4, Stutter
\* A worker that looks is counted and not busy: with it, there are not more busy
\* workers than the pool may have.
<1>2. CASE WorkerTakes(w)
  <2>1. /\ queue # <<>> /\ queue' = Tail(queue) /\ UNCHANGED <<done, call, shutting_down>>
        /\ task' = [task EXCEPT ![w] = Head(queue)] /\ wpc' = [wpc EXCEPT ![w] = "run"]
        /\ wpc[w] \in {"lock", "woken", "timedout"}
    BY <1>2 DEF WorkerTakes, WorkerLooks, flags
  <2>2. active_count < MaxThreads
    <3>1. /\ IsFiniteSet(Busy \cup {w}) /\ Cardinality(Busy \cup {w}) = Cardinality(Busy) + 1
      BY <2>1, CountedFinite, FS_AddElement DEF Busy
    <3>2. Busy \cup {w} \subseteq Counted
      BY <2>1 DEF Busy, Counted
    <3>3. Cardinality(Busy \cup {w}) <= Cardinality(Counted)
      BY <3>2, CountedFinite, FS_Subset
    <3>. QED
      BY <3>1, <3>3, CountedFinite DEF CountersMatch, PoolSizeBounded, TypeOK, PoolAssumption
  <2>3. /\ Range(queue)' = Range(queue) \ {Head(queue)}
        /\ Head(queue) \in Range(queue) /\ Head(queue) \in Tasks
    BY <2>1, TailDistinct DEF EachTaskOnce, Distinct, TypeOK
  <2>4. PICK h \in Tasks : h = Head(queue)
    BY <2>3
  <2>5. Executing' = Executing \cup {h}
    <3>1. /\ \A v \in Workers : v # w => task'[v] = task[v] /\ wpc'[v] = wpc[v]
          /\ task'[w] = h /\ wpc'[w] = "run"
      BY <2>1, <2>4 DEF TypeOK
    <3>. QED
      BY <2>1, <3>1 DEF Executing
  <2>6. \A t \in Tasks : t # h => FateOf(t)' = FateOf(t)
    BY <2>1, <2>3, <2>4, <2>5, SameFate
  <2>7. FateOf(h)' = "running"
    BY <2>5 DEF FatesAgree
  <2>8. Cardinality(Abstract!InProgress) < MaxThreads
    BY <2>2, ProgressIsBusy, FS_CardinalityType DEF TypeOK, PoolAssumption
  <2>9. [t \in Tasks |-> FateOf(t)'] = [[t \in Tasks |-> FateOf(t)] EXCEPT ![h] = "running"]
    BY <2>6, <2>7
  <2>10. Abstract!Cardinality(Abstract!InProgress) < MaxThreads
    BY <2>8 DEF Cardinality, Abstract!Cardinality
  <2>11. [t \in Tasks |-> FateOf(t)]' = [[t \in Tasks |-> FateOf(t)] EXCEPT ![Head(queue)] = "running"]
    BY <2>4, <2>9
  <2>12. Abstract!Start
    BY <2>1, <2>10, <2>11 DEF Abstract!Start
  <2>. QED
    BY <2>12 DEF Abstract!TQNext
<1>3. CASE WorkerRuns(w)
  <2>1. /\ UNCHANGED <<queue, call, shutting_down>> /\ done' = done \cup {task[w]}
        /\ wpc[w] = "run" /\ task[w] \in Tasks /\ task[w] \in Executing
        /\ task' = [task EXCEPT ![w] = None] /\ wpc' = [wpc EXCEPT ![w] = "ran"]
    BY <1>3 DEF WorkerRuns, flags, TypeOK, Executing
  <2>2. Executing' = Executing \ {task[w]}
    <3>1. /\ \A v \in Workers : v # w => task'[v] = task[v] /\ wpc'[v] = wpc[v]
          /\ wpc'[w] # "run"
      BY <2>1 DEF TypeOK
    <3>. QED
      BY <2>1, <3>1 DEF Executing, EachTaskOnce
  <2>3. \A t \in Tasks : t # task[w] => FateOf(t)' = FateOf(t)
    BY <2>1, <2>2, SameFate
  <2>4. FateOf(task[w]) = "running"
    BY <2>1 DEF FatesAgree
  <2>5. \A t \in Tasks : t = task[w] => FateOf(t)' = "done"
    BY <2>1 DEF FatesAgree
  <2>6. Abstract!Finish(task[w])
    BY <2>1, <2>3, <2>4, <2>5 DEF Abstract!Finish
  <2>. QED
    BY <2>1, <2>6 DEF Abstract!TQNext
<1>. QED
  BY <1>1, <1>2, <1>3

\* The thread pool is a bounded FIFO queue of tasks: the steps of any number of
\* workers, submitters and an owner that shuts it down are steps of TaskQueue.
THEOREM PoolImplementsTaskQueue == Spec => ImplementsTaskQueue
<1>1. Init => Abstract!TQInit
  <2>. SUFFICES ASSUME Init  PROVE Abstract!TQInit
    OBVIOUS
  <2>1. \A t \in Tasks : FateOf(t) = "new"
    BY DEF Init, FateOf, Executing, Range
  <2>. QED
    BY <2>1 DEF Init, Abstract!TQInit
<1>2. /\ CountInv /\ EachTaskOnce /\ FatesAgree /\ FatesAgree' /\ [Next]_vars
      => [Abstract!TQNext]_Abstract!tqvars
  <2>. SUFFICES ASSUME CountInv, EachTaskOnce, FatesAgree, FatesAgree', [Next]_vars
                PROVE  Abstract!TQNext \/ UNCHANGED Abstract!tqvars
    OBVIOUS
  <2>1. CASE UNCHANGED vars
    BY <2>1, Stutter DEF vars, flags, Executing
  <2>. QED
    BY <2>1, PoolAssumption, OwnerImplements, SubmitImplements, WorkerImplements DEF Next
<1>. QED
  BY <1>1, <1>2, CountInvariant, EachTaskStaysOnce, FatesAreClear, PTL
  DEF Spec, ImplementsTaskQueue, Abstract!TQSpec
=============================================================================
