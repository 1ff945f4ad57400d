-------------------------- MODULE Lifecycle_proofs --------------------------
(* Proofs about Lifecycle, for any threads and any bounds: whatever fails    *)
(* while the layer comes up or goes down, the calls of other threads are     *)
(* safe and cleanup releases what was made.                                  *)
EXTENDS Lifecycle, TLAPS

Bounds == MaxMutexes \in Nat /\ MaxInits \in Nat /\ MaxResets \in Nat

\* The owner is in infra_init_with_config, behind the log module.
Rising == owner.layered /\ owner.at \in {"memory", "pool", "ready", "publish"}

\* The global mutex is there while the layer is up or comes up, and the owner's
\* place tells which of the two.
LayerIsSound ==
  /\ infra.initialized \/ Rising =>
       infra.mutex \in DOMAIN alive /\ alive[infra.mutex] = "global"
  /\ infra.initialized \/ Rising => infra.log_mutex # NoMutex
  /\ Rising => ~infra.initialized /\ owner.config # "null"
  /\ owner.at = "idle" => ~owner.layered
  /\ owner.at = "publish" => owner.layered
  /\ owner.at = "down" => infra.initialized
  /\ owner.at \in {"clear", "destroy"} /\ owner.layered => infra.initialized

\* The same of memory's mutex and allocator.
MemoryIsSound ==
  /\ memory.initialized \/ owner.at \in {"pool", "ready", "destroy"} =>
       memory.mutex \in DOMAIN alive /\ alive[memory.mutex] = "memory"
  /\ memory.initialized \/ owner.at = "ready" =>
       memory.config # "zero" /\ (memory.config = "pool" => memory.pool)
  /\ owner.at \in {"pool", "ready", "destroy"} => ~memory.initialized
  /\ owner.at = "pool" => memory.config = "pool" /\ ~memory.pool
  /\ owner.at = "clear" => memory.initialized
  /\ memory.config # "zero" => memory.initialized \/ owner.at \in {"pool", "ready"}

\* A client whose check is not outdated by a cleanup or reset is right in thinking
\* memory initialised, and what it holds comes from the allocator in place.
ClientsAreSound ==
  \A c \in Clients :
    /\ client[c].at \in {"malloc", "free"} =>
         client[c].seen <= resets /\ (client[c].seen = resets => memory.initialized)
    /\ client[c].born <= resets
    /\ client[c].held # "none" /\ client[c].born = resets =>
         memory.config = client[c].held /\ (memory.initialized \/ owner.at = "ready")

\* Once there is a log mutex there always is one, and a thread that logs holds it
\* unless it has been replaced since.
LoggersAreSound ==
  /\ \A c \in Clients :
       /\ client[c].at \in {"log", "logging"} => infra.log_mutex # NoMutex
       /\ client[c].at = "logging" =>
            client[c].seen <= inits
            /\ (client[c].seen = inits => client[c].mutex = infra.log_mutex)
  /\ OneLoggerAtATime

\* What is alive besides log mutexes is in use, unless a call has failed half way.
NothingIsStray ==
  ~lost => \A m \in DOMAIN alive :
    /\ alive[m] = "global" => m = infra.mutex /\ (infra.initialized \/ Rising)
    /\ alive[m] = "memory" =>
         m = memory.mutex /\ (memory.initialized \/ owner.at \in {"pool", "ready", "destroy"})

LifeInv ==
  /\ LifeTypeOK /\ LayerIsSound /\ MemoryIsSound
  /\ ClientsAreSound /\ LoggersAreSound /\ NothingIsStray

-----------------------------------------------------------------------------
\* What it does to the mutexes to make one and to destroy one.
LEMMA NewMutex ==
  ASSUME NEW m \in Mutexes, NEW use, alive' = WithMutex(m, use)
  PROVE  /\ DOMAIN alive' = DOMAIN alive \cup {m}
         /\ alive'[m] = use
         /\ \A p \in DOMAIN alive : p # m => alive'[p] = alive[p]
BY DEF WithMutex

LEMMA OldMutex ==
  ASSUME NEW m, alive' = WithoutMutex(m)
  PROVE  /\ DOMAIN alive' = DOMAIN alive \ {m}
         /\ \A p \in DOMAIN alive' : alive'[p] = alive[p]
BY DEF WithoutMutex

\* And where the owner can get to.
LEMMA OwnerMoves ==
  ASSUME LifeTypeOK, NEW state \in OwnerStates, At(state)
  PROVE  owner' \in Owners
BY DEF LifeTypeOK, Owners, At

LEMMA OwnerReturns == Idle \in Owners
BY DEF Idle, Owners, OwnerStates, Configs

-----------------------------------------------------------------------------
(* The owner's steps.                                                       *)

LEMMA InitLayerKeeps ==
  ASSUME Bounds, LifeInv, NEW config \in Configs \ {"null"}, NEW logging \in BOOLEAN,
         NEW g \in Mutexes, NEW l \in Mutexes, InitLayer(config, logging, g, l)
  PROVE  LifeInv'
<1>. DEFINE Made == /\ infra' = [infra EXCEPT !.mutex = g, !.log_mutex = l,
                                           !.logging = logging]
                    /\ \/ owner' = [at |-> "publish", config |-> config, layered |-> TRUE]
                       \/ owner' = [at |-> "memory", config |-> config, layered |-> TRUE]
                    /\ inits' = inits + 1 /\ lost' = lost
            Failed == /\ infra' = [infra EXCEPT !.mutex = g, !.logging = logging]
                      /\ owner' = owner /\ inits' = inits /\ lost' = TRUE
<1>1. /\ g \notin DOMAIN alive /\ l \notin DOMAIN alive /\ g # l
      /\ g # NoMutex /\ l # NoMutex
  BY DEF InitLayer, First, Places, Mutexes, NoMutex, Bounds
<1>2. /\ g \in DOMAIN alive' /\ alive'[g] = "global"
      /\ DOMAIN alive \subseteq DOMAIN alive'
      /\ DOMAIN alive' \subseteq DOMAIN alive \cup {g, l}
      /\ l \in DOMAIN alive' => alive'[l] = "log"
      /\ \A p \in DOMAIN alive : alive'[p] = alive[p]
  BY <1>1 DEF InitLayer, WithMutex
<1>3. Made \/ Failed
  BY DEF InitLayer
<1>4. ASSUME Made
      PROVE  /\ infra' \in Layers /\ owner' \in Owners /\ inits' \in 0 .. MaxInits
             /\ infra'.log_mutex = l /\ inits' = inits + 1 /\ lost' = lost
             /\ owner'.layered /\ owner'.at \in {"memory", "publish"}
             /\ owner'.config # "null"
             /\ infra'.mutex = g /\ ~infra'.initialized
  <2>1. infra' \in Layers /\ infra'.log_mutex = l /\ infra'.mutex = g /\ ~infra'.initialized
    BY <1>4 DEF InitLayer, LifeInv, LifeTypeOK, Layers
  <2>2. /\ owner' \in Owners /\ owner'.layered /\ owner'.at \in {"memory", "publish"}
        /\ owner'.config # "null"
    <3>1. CASE owner' = [at |-> "publish", config |-> config, layered |-> TRUE]
      BY <3>1 DEF Owners, OwnerStates, Configs
    <3>2. CASE owner' = [at |-> "memory", config |-> config, layered |-> TRUE]
      BY <3>2 DEF Owners, OwnerStates, Configs
    <3>. QED
      BY <1>4, <3>1, <3>2
  <2>3. inits' \in 0 .. MaxInits
    BY <1>4 DEF InitLayer, LifeInv, LifeTypeOK, Bounds
  <2>. QED
    BY <1>4, <2>1, <2>2, <2>3
<1>5. ASSUME Failed
      PROVE  /\ infra' \in Layers /\ owner' = owner /\ inits' = inits /\ lost'
             /\ infra'.log_mutex = infra.log_mutex
             /\ infra'.mutex = g /\ ~infra'.initialized
  BY <1>5 DEF InitLayer, LifeInv, LifeTypeOK, Layers
<1>6. /\ ~infra.initialized /\ owner.at = "idle"
      /\ UNCHANGED <<memory, client, resets>>
  BY DEF InitLayer, LifeInv, LifeTypeOK, Layers
<1>7. LifeTypeOK'
  <2>1. /\ DOMAIN alive' \subseteq Mutexes
        /\ \A p \in DOMAIN alive' : alive'[p] \in {"global", "log", "memory"}
    BY <1>2 DEF LifeInv, LifeTypeOK
  <2>2. lost' \in BOOLEAN
    BY <1>3 DEF LifeInv, LifeTypeOK
  <2>. QED
    BY <1>3, <1>4, <1>5, <1>6, <2>1, <2>2 DEF LifeInv, LifeTypeOK
<1>8. LayerIsSound'
  BY <1>1, <1>2, <1>3, <1>4, <1>5, <1>6 DEF LifeInv, LifeTypeOK, LayerIsSound, MemoryIsSound,
     Rising, Owners, Memories
<1>9. MemoryIsSound'
  BY <1>1, <1>2, <1>3, <1>4, <1>5, <1>6 DEF LifeInv, LifeTypeOK, LayerIsSound, MemoryIsSound,
     Rising, Owners, Memories
<1>10. ClientsAreSound'
  BY <1>1, <1>2, <1>3, <1>4, <1>5, <1>6 DEF LifeInv, LifeTypeOK, MemoryIsSound,
     ClientsAreSound, Owners, Users
<1>11. LoggersAreSound'
  <2>1. CASE Made
    BY <1>1, <1>4, <1>6, <2>1 DEF LifeInv, LifeTypeOK, LoggersAreSound, OneLoggerAtATime,
       Users, Bounds
  <2>2. CASE Failed
    BY <1>5, <1>6, <2>2 DEF LifeInv, LoggersAreSound, OneLoggerAtATime
  <2>. QED
    BY <1>3, <2>1, <2>2
<1>12. NothingIsStray'
  BY <1>1, <1>2, <1>3, <1>4, <1>5, <1>6 DEF LifeInv, LifeTypeOK, LayerIsSound, MemoryIsSound,
     NothingIsStray, Rising, Owners
<1>. QED
  BY <1>7, <1>8, <1>9, <1>10, <1>11, <1>12 DEF LifeInv

LEMMA PublishKeeps ==
  ASSUME Bounds, LifeInv, Publish
  PROVE  LifeInv'
<1>1. infra' \in Layers
  BY DEF Publish, Idle, LifeInv, LifeTypeOK, Layers
<1>2. owner' \in Owners
  BY DEF Publish, Idle, LifeInv, LifeTypeOK, Owners, OwnerStates, Configs
<1>3. LifeTypeOK'
  BY <1>1, <1>2 DEF Publish, LifeInv, LifeTypeOK
<1>4. LayerIsSound'
  BY DEF Publish, Idle, LifeInv, LifeTypeOK, LayerIsSound, MemoryIsSound, Rising, Owners, Layers
<1>5. MemoryIsSound'
  BY DEF Publish, Idle, LifeInv, LifeTypeOK, LayerIsSound, MemoryIsSound, Rising, Owners, Layers
<1>6. ClientsAreSound'
  BY DEF Publish, Idle, LifeInv, LifeTypeOK, MemoryIsSound, ClientsAreSound, Owners, Layers
<1>7. LoggersAreSound'
  BY DEF Publish, Idle, LifeInv, LifeTypeOK, LoggersAreSound, OneLoggerAtATime, Layers
<1>8. NothingIsStray'
  BY DEF Publish, Idle, LifeInv, LifeTypeOK, LayerIsSound, MemoryIsSound, NothingIsStray,
     Rising, Owners, Layers
<1>. QED
  BY <1>3, <1>4, <1>5, <1>6, <1>7, <1>8 DEF LifeInv

LEMMA MemoryInitKeeps ==
  ASSUME Bounds, LifeInv, NEW config \in Configs \ {"none"}, MemoryInit(config)
  PROVE  LifeInv'
<1>1. owner' \in Owners
  BY DEF MemoryInit, LifeInv, LifeTypeOK, Owners, OwnerStates, Configs
<1>2. LifeTypeOK'
  BY <1>1 DEF MemoryInit, LifeInv, LifeTypeOK
<1>3. LayerIsSound'
  BY DEF MemoryInit, LifeInv, LifeTypeOK, LayerIsSound, MemoryIsSound, Rising, Owners
<1>4. MemoryIsSound'
  BY DEF MemoryInit, LifeInv, LifeTypeOK, LayerIsSound, MemoryIsSound, Rising, Owners
<1>5. ClientsAreSound'
  BY DEF MemoryInit, LifeInv, LifeTypeOK, MemoryIsSound, ClientsAreSound, Owners
<1>6. LoggersAreSound'
  BY DEF MemoryInit, LifeInv, LoggersAreSound, OneLoggerAtATime
<1>7. NothingIsStray'
  BY DEF MemoryInit, LifeInv, LifeTypeOK, LayerIsSound, MemoryIsSound, NothingIsStray, Rising,
     Owners
<1>. QED
  BY <1>2, <1>3, <1>4, <1>5, <1>6, <1>7 DEF LifeInv

LEMMA MemoryInitWithoutConfigKeeps ==
  ASSUME Bounds, LifeInv, MemoryInitWithoutConfig
  PROVE  LifeInv'
<1>1. ~lost' => ~lost /\ ~memory.initialized
  BY DEF MemoryInitWithoutConfig
<1>2. memory' \in Memories
  BY <1>1 DEF MemoryInitWithoutConfig, Reset, Zero, Idle, LifeInv, LifeTypeOK, Memories, NoMutex
<1>3. owner' \in Owners
  BY <1>1 DEF MemoryInitWithoutConfig, Reset, Zero, Idle, LifeInv, LifeTypeOK, Owners,
     OwnerStates, Configs
<1>4. inits' \in 0 .. MaxInits /\ resets' \in 0 .. MaxResets /\ lost' \in BOOLEAN
  BY <1>1 DEF MemoryInitWithoutConfig, Reset, Zero, Idle, LifeInv, LifeTypeOK, Bounds, Owners
<1>5. LifeTypeOK'
  BY <1>1, <1>2, <1>3, <1>4 DEF MemoryInitWithoutConfig, LifeInv, LifeTypeOK
<1>6. LayerIsSound'
  BY <1>1 DEF MemoryInitWithoutConfig, Reset, Zero, Idle, LifeInv, LifeTypeOK, LayerIsSound,
     MemoryIsSound, Rising, Owners, Memories
<1>7. MemoryIsSound'
  BY <1>1 DEF MemoryInitWithoutConfig, Reset, Zero, Idle, LifeInv, LifeTypeOK, LayerIsSound,
     MemoryIsSound, Rising, Owners, Memories
<1>8. ClientsAreSound'
  BY <1>1 DEF MemoryInitWithoutConfig, Reset, Zero, Idle, LifeInv, LifeTypeOK, MemoryIsSound,
     ClientsAreSound, Owners, Memories, Users, Bounds
<1>9. LoggersAreSound'
  BY <1>1 DEF MemoryInitWithoutConfig, Reset, Zero, Idle, LifeInv, LoggersAreSound,
     OneLoggerAtATime
<1>10. NothingIsStray'
  BY <1>1 DEF MemoryInitWithoutConfig, Reset, Zero, Idle, LifeInv, LifeTypeOK, LayerIsSound,
     MemoryIsSound, NothingIsStray, Rising, Owners, Memories
<1>. QED
  BY <1>5, <1>6, <1>7, <1>8, <1>9, <1>10 DEF LifeInv

LEMMA MemoryInitRefusedKeeps ==
  ASSUME Bounds, LifeInv, MemoryInitRefused
  PROVE  LifeInv'
<1>1. memory' \in Memories
  BY DEF MemoryInitRefused, ReturnFailed, Reset, Zero, Idle, LifeInv, LifeTypeOK, Memories,
     NoMutex
<1>2. owner' \in Owners
  BY DEF MemoryInitRefused, ReturnFailed, Reset, Zero, Idle, LifeInv, LifeTypeOK, Owners,
     OwnerStates, Configs
<1>3. inits' \in 0 .. MaxInits /\ resets' \in 0 .. MaxResets /\ lost' \in BOOLEAN
  BY DEF MemoryInitRefused, ReturnFailed, Reset, Zero, Idle, LifeInv, LifeTypeOK, Bounds, Owners
<1>4. LifeTypeOK'
  BY <1>1, <1>2, <1>3 DEF MemoryInitRefused, LifeInv, LifeTypeOK
<1>5. LayerIsSound'
  BY DEF MemoryInitRefused, ReturnFailed, Reset, Zero, Idle, LifeInv, LifeTypeOK, LayerIsSound,
     MemoryIsSound, Rising, Owners, Memories
<1>6. MemoryIsSound'
  BY DEF MemoryInitRefused, ReturnFailed, Reset, Zero, Idle, LifeInv, LifeTypeOK, LayerIsSound,
     MemoryIsSound, Rising, Owners, Memories
<1>7. ClientsAreSound'
  BY DEF MemoryInitRefused, ReturnFailed, Reset, Zero, Idle, LifeInv, LifeTypeOK,
     MemoryIsSound, ClientsAreSound, Owners, Memories, Users, Bounds
<1>8. LoggersAreSound'
  BY DEF MemoryInitRefused, ReturnFailed, Reset, Zero, Idle, LifeInv, LoggersAreSound,
     OneLoggerAtATime
<1>9. NothingIsStray'
  BY DEF MemoryInitRefused, ReturnFailed, Reset, Zero, Idle, LifeInv, LifeTypeOK, LayerIsSound,
     MemoryIsSound, NothingIsStray, Rising, Owners, Memories
<1>. QED
  BY <1>4, <1>5, <1>6, <1>7, <1>8, <1>9 DEF LifeInv

LEMMA MemoryInitMutexKeeps ==
  ASSUME Bounds, LifeInv, NEW m \in Mutexes, MemoryInitMutex(m)
  PROVE  LifeInv'
<1>1. /\ owner.at = "memory" /\ owner.config \in {"libc", "pool"} /\ ~memory.initialized
      /\ UNCHANGED <<infra, client, inits, resets>>
  BY DEF MemoryInitMutex
<1>2. \/ /\ m \notin DOMAIN alive
         /\ DOMAIN alive' = DOMAIN alive \cup {m} /\ alive'[m] = "memory"
         /\ \A p \in DOMAIN alive : alive'[p] = alive[p]
         /\ memory' = [initialized |-> FALSE, mutex |-> m, config |-> owner.config, pool |-> FALSE]
         /\ owner' = [owner EXCEPT !.at = IF owner.config = "pool" THEN "pool" ELSE "ready"]
         /\ lost' = lost
      \/ alive' = alive /\ memory' = Zero /\ owner' = Idle /\ (~lost' => ~lost /\ ~owner.layered)
  BY <1>1, NewMutex DEF MemoryInitMutex, First, Places, Reset, Zero, At, ReturnFailed
<1>3. memory' \in Memories
  BY DEF MemoryInitMutex, Reset, Zero, LifeInv, LifeTypeOK, Memories, NoMutex
<1>4. /\ DOMAIN alive' \subseteq Mutexes
      /\ \A p \in DOMAIN alive' : alive'[p] \in {"global", "log", "memory"}
  BY <1>1, <1>2 DEF Zero, Idle, LifeInv, LifeTypeOK
<1>5. owner' \in Owners
  BY OwnerMoves, OwnerReturns DEF MemoryInitMutex, ReturnFailed, LifeInv, OwnerStates
<1>6. inits' \in 0 .. MaxInits /\ resets' \in 0 .. MaxResets /\ lost' \in BOOLEAN
  BY DEF MemoryInitMutex, ReturnFailed, LifeInv, LifeTypeOK, Owners
<1>7. LifeTypeOK'
  BY <1>1, <1>2, <1>3, <1>4, <1>5, <1>6 DEF MemoryInitMutex, LifeInv, LifeTypeOK
<1>8. LayerIsSound'
  BY <1>1, <1>2 DEF Zero, Idle, LifeInv, LifeTypeOK, LayerIsSound, MemoryIsSound, Rising,
     Owners, Memories
<1>9. MemoryIsSound'
  BY <1>1, <1>2 DEF Zero, Idle, LifeInv, LifeTypeOK, LayerIsSound, MemoryIsSound, Rising,
     Owners, Memories
<1>10. ClientsAreSound'
  BY <1>1, <1>2 DEF Zero, Idle, LifeInv, LifeTypeOK, MemoryIsSound, ClientsAreSound, Owners,
     Memories
<1>11. LoggersAreSound'
  BY <1>1, <1>2 DEF Zero, Idle, LifeInv, LoggersAreSound, OneLoggerAtATime
<1>12. NothingIsStray'
  BY <1>1, <1>2 DEF Zero, Idle, LifeInv, LifeTypeOK, LayerIsSound, MemoryIsSound,
     NothingIsStray, Rising, Owners, Memories
<1>. QED
  BY <1>7, <1>8, <1>9, <1>10, <1>11, <1>12 DEF LifeInv

LEMMA InitializePoolKeeps ==
  ASSUME Bounds, LifeInv, InitializePool
  PROVE  LifeInv'
<1>1. /\ owner.at = "pool"
      /\ UNCHANGED <<infra, client, inits, resets>>
  BY DEF InitializePool
<1>2. \/ /\ memory' = [memory EXCEPT !.pool = TRUE]
         /\ owner' = [owner EXCEPT !.at = "ready"]
         /\ alive' = alive /\ lost' = lost
      \/ /\ memory' = Zero /\ owner' = Idle /\ (~lost' => ~lost /\ ~owner.layered)
         /\ DOMAIN alive' = DOMAIN alive \ {memory.mutex}
         /\ \A p \in DOMAIN alive' : alive'[p] = alive[p]
  BY OldMutex DEF InitializePool, LifeInv, MemoryIsSound, Reset, Zero, At, ReturnFailed
<1>3. memory' \in Memories
  BY DEF InitializePool, Reset, Zero, LifeInv, LifeTypeOK, MemoryIsSound, Memories, NoMutex
<1>4. /\ DOMAIN alive' \subseteq Mutexes
      /\ \A p \in DOMAIN alive' : alive'[p] \in {"global", "log", "memory"}
  BY <1>1, <1>2 DEF Zero, Idle, LifeInv, LifeTypeOK
<1>5. owner' \in Owners
  BY OwnerMoves, OwnerReturns DEF InitializePool, ReturnFailed, LifeInv, OwnerStates
<1>6. inits' \in 0 .. MaxInits /\ resets' \in 0 .. MaxResets /\ lost' \in BOOLEAN
  BY DEF InitializePool, ReturnFailed, LifeInv, LifeTypeOK, Owners
<1>7. LifeTypeOK'
  BY <1>1, <1>2, <1>3, <1>4, <1>5, <1>6 DEF InitializePool, LifeInv, LifeTypeOK
<1>8. LayerIsSound'
  BY <1>1, <1>2 DEF Zero, Idle, LifeInv, LifeTypeOK, LayerIsSound, MemoryIsSound, Rising,
     Owners, Memories
<1>9. MemoryIsSound'
  BY <1>1, <1>2 DEF Zero, Idle, LifeInv, LifeTypeOK, LayerIsSound, MemoryIsSound, Rising,
     Owners, Memories
<1>10. ClientsAreSound'
  BY <1>1, <1>2 DEF Zero, Idle, LifeInv, LifeTypeOK, MemoryIsSound, ClientsAreSound, Owners,
     Memories
<1>11. LoggersAreSound'
  BY <1>1, <1>2 DEF Zero, Idle, LifeInv, LoggersAreSound, OneLoggerAtATime
<1>12. NothingIsStray'
  <2>1. CASE memory' = [memory EXCEPT !.pool = TRUE]
    BY <1>1, <1>2, <2>1 DEF Zero, LifeInv, LifeTypeOK, Memories, Owners, NothingIsStray, Rising
  <2>2. CASE memory' = Zero
    BY <1>1, <1>2, <2>2 DEF Zero, Idle, LifeInv, LifeTypeOK, MemoryIsSound, NothingIsStray,
       Rising
  <2>. QED
    BY <1>2, <2>1, <2>2
<1>. QED
  BY <1>7, <1>8, <1>9, <1>10, <1>11, <1>12 DEF LifeInv

LEMMA MemoryReadyKeeps ==
  ASSUME Bounds, LifeInv, MemoryReady
  PROVE  LifeInv'
<1>1. memory' \in Memories
  BY DEF MemoryReady, Idle, At, LifeInv, LifeTypeOK, Memories, NoMutex
<1>2. owner' \in Owners
  BY OwnerMoves, OwnerReturns DEF MemoryReady, LifeInv, OwnerStates
<1>3. LifeTypeOK'
  BY <1>1, <1>2 DEF MemoryReady, LifeInv, LifeTypeOK
<1>4. LayerIsSound'
  BY DEF MemoryReady, Idle, At, LifeInv, LifeTypeOK, LayerIsSound, MemoryIsSound, Rising,
     Owners, Memories
<1>5. MemoryIsSound'
  BY DEF MemoryReady, Idle, At, LifeInv, LifeTypeOK, LayerIsSound, MemoryIsSound, Rising,
     Owners, Memories
<1>6. ClientsAreSound'
  BY DEF MemoryReady, Idle, At, LifeInv, LifeTypeOK, MemoryIsSound, ClientsAreSound, Owners,
     Memories
<1>7. LoggersAreSound'
  BY DEF MemoryReady, Idle, At, LifeInv, LoggersAreSound, OneLoggerAtATime
<1>8. NothingIsStray'
  BY DEF MemoryReady, Idle, At, LifeInv, LifeTypeOK, LayerIsSound, MemoryIsSound,
     NothingIsStray, Rising, Owners, Memories
<1>. QED
  BY <1>3, <1>4, <1>5, <1>6, <1>7, <1>8 DEF LifeInv

LEMMA CleanupKeeps ==
  ASSUME Bounds, LifeInv, Cleanup
  PROVE  LifeInv'
<1>1. owner' \in Owners
  BY DEF Cleanup, LifeInv, LifeTypeOK, Owners, OwnerStates, Configs
<1>2. LifeTypeOK'
  BY <1>1 DEF Cleanup, LifeInv, LifeTypeOK
<1>3. LayerIsSound'
  BY DEF Cleanup, LifeInv, LifeTypeOK, LayerIsSound, MemoryIsSound, Rising, Owners
<1>4. MemoryIsSound'
  BY DEF Cleanup, LifeInv, LifeTypeOK, LayerIsSound, MemoryIsSound, Rising, Owners
<1>5. ClientsAreSound'
  BY DEF Cleanup, LifeInv, LifeTypeOK, MemoryIsSound, ClientsAreSound, Owners
<1>6. LoggersAreSound'
  BY DEF Cleanup, LifeInv, LoggersAreSound, OneLoggerAtATime
<1>7. NothingIsStray'
  BY DEF Cleanup, LifeInv, LifeTypeOK, LayerIsSound, MemoryIsSound, NothingIsStray, Rising,
     Owners
<1>. QED
  BY <1>2, <1>3, <1>4, <1>5, <1>6, <1>7 DEF LifeInv

LEMMA MemoryCleanupKeeps ==
  ASSUME Bounds, LifeInv, MemoryCleanup
  PROVE  LifeInv'
<1>1. owner' \in Owners
  BY DEF MemoryCleanup, At, LifeInv, LifeTypeOK, Owners, OwnerStates, Configs
<1>2. LifeTypeOK'
  BY <1>1 DEF MemoryCleanup, LifeInv, LifeTypeOK
<1>3. LayerIsSound'
  BY DEF MemoryCleanup, At, LifeInv, LifeTypeOK, LayerIsSound, MemoryIsSound, Rising, Owners
<1>4. MemoryIsSound'
  BY DEF MemoryCleanup, At, LifeInv, LifeTypeOK, LayerIsSound, MemoryIsSound, Rising, Owners
<1>5. ClientsAreSound'
  BY DEF MemoryCleanup, At, LifeInv, LifeTypeOK, MemoryIsSound, ClientsAreSound, Owners
<1>6. LoggersAreSound'
  BY DEF MemoryCleanup, At, LifeInv, LoggersAreSound, OneLoggerAtATime
<1>7. NothingIsStray'
  BY DEF MemoryCleanup, At, LifeInv, LifeTypeOK, LayerIsSound, MemoryIsSound, NothingIsStray,
     Rising, Owners
<1>. QED
  BY <1>2, <1>3, <1>4, <1>5, <1>6, <1>7 DEF LifeInv

LEMMA ClearMemoryKeeps ==
  ASSUME Bounds, LifeInv, ClearMemory
  PROVE  LifeInv'
<1>1. memory' \in Memories
  BY DEF ClearMemory, Zero, At, LifeInv, LifeTypeOK, Memories, NoMutex
<1>2. owner' \in Owners
  BY DEF ClearMemory, Zero, At, LifeInv, LifeTypeOK, Owners, OwnerStates, Configs
<1>3. inits' \in 0 .. MaxInits /\ resets' \in 0 .. MaxResets /\ lost' \in BOOLEAN
  BY DEF ClearMemory, Zero, At, LifeInv, LifeTypeOK, Bounds, Owners
<1>4. LifeTypeOK'
  BY <1>1, <1>2, <1>3 DEF ClearMemory, LifeInv, LifeTypeOK
<1>5. LayerIsSound'
  BY DEF ClearMemory, Zero, At, LifeInv, LifeTypeOK, LayerIsSound, MemoryIsSound, Rising,
     Owners, Memories
<1>6. MemoryIsSound'
  BY DEF ClearMemory, Zero, At, LifeInv, LifeTypeOK, LayerIsSound, MemoryIsSound, Rising,
     Owners, Memories
<1>7. ClientsAreSound'
  BY DEF ClearMemory, Zero, At, LifeInv, LifeTypeOK, MemoryIsSound, ClientsAreSound, Owners,
     Memories, Users, Bounds
<1>8. LoggersAreSound'
  BY DEF ClearMemory, Zero, At, LifeInv, LoggersAreSound, OneLoggerAtATime
<1>9. NothingIsStray'
  BY DEF ClearMemory, Zero, At, LifeInv, LifeTypeOK, LayerIsSound, MemoryIsSound,
     NothingIsStray, Rising, Owners, Memories
<1>. QED
  BY <1>4, <1>5, <1>6, <1>7, <1>8, <1>9 DEF LifeInv

LEMMA DestroyMemoryMutexKeeps ==
  ASSUME Bounds, LifeInv, DestroyMemoryMutex
  PROVE  LifeInv'
<1>1. /\ DOMAIN alive' = DOMAIN alive \ {memory.mutex}
      /\ \A p \in DOMAIN alive' : alive'[p] = alive[p]
  BY OldMutex DEF DestroyMemoryMutex
<1>2. /\ DOMAIN alive' \subseteq Mutexes
      /\ \A p \in DOMAIN alive' : alive'[p] \in {"global", "log", "memory"}
  BY <1>1 DEF DestroyMemoryMutex, Idle, At, LifeInv, LifeTypeOK
<1>3. owner' \in Owners
  BY OwnerMoves, OwnerReturns DEF DestroyMemoryMutex, LifeInv, OwnerStates
<1>4. LifeTypeOK'
  BY <1>1, <1>2, <1>3 DEF DestroyMemoryMutex, LifeInv, LifeTypeOK
<1>5. LayerIsSound'
  BY <1>1 DEF DestroyMemoryMutex, Idle, At, LifeInv, LifeTypeOK, LayerIsSound, MemoryIsSound,
     Rising, Owners
<1>6. MemoryIsSound'
  BY <1>1 DEF DestroyMemoryMutex, Idle, At, LifeInv, LifeTypeOK, LayerIsSound, MemoryIsSound,
     Rising, Owners
<1>7. ClientsAreSound'
  BY <1>1 DEF DestroyMemoryMutex, Idle, At, LifeInv, LifeTypeOK, MemoryIsSound,
     ClientsAreSound, Owners
<1>8. LoggersAreSound'
  BY <1>1 DEF DestroyMemoryMutex, Idle, At, LifeInv, LoggersAreSound, OneLoggerAtATime
<1>9. NothingIsStray'
  BY <1>1 DEF DestroyMemoryMutex, Idle, At, LifeInv, LifeTypeOK, LayerIsSound, MemoryIsSound,
     NothingIsStray, Rising, Owners
<1>. QED
  BY <1>4, <1>5, <1>6, <1>7, <1>8, <1>9 DEF LifeInv

LEMMA DownKeeps ==
  ASSUME Bounds, LifeInv, Down
  PROVE  LifeInv'
<1>1. /\ DOMAIN alive' = DOMAIN alive \ {infra.mutex}
      /\ \A p \in DOMAIN alive' : alive'[p] = alive[p]
  BY OldMutex DEF Down
<1>2. infra' \in Layers
  BY <1>1 DEF Down, Idle, LifeInv, LifeTypeOK, Layers
<1>3. /\ DOMAIN alive' \subseteq Mutexes
      /\ \A p \in DOMAIN alive' : alive'[p] \in {"global", "log", "memory"}
  BY <1>1 DEF Down, Idle, LifeInv, LifeTypeOK
<1>4. owner' \in Owners
  BY <1>1 DEF Down, Idle, LifeInv, LifeTypeOK, Owners, OwnerStates, Configs
<1>5. LifeTypeOK'
  BY <1>1, <1>2, <1>3, <1>4 DEF Down, LifeInv, LifeTypeOK
<1>6. LayerIsSound'
  BY <1>1 DEF Down, Idle, LifeInv, LifeTypeOK, LayerIsSound, MemoryIsSound, Rising, Owners,
     Layers
<1>7. MemoryIsSound'
  BY <1>1 DEF Down, Idle, LifeInv, LifeTypeOK, LayerIsSound, MemoryIsSound, Rising, Owners,
     Layers
<1>8. ClientsAreSound'
  BY <1>1 DEF Down, Idle, LifeInv, LifeTypeOK, MemoryIsSound, ClientsAreSound, Owners, Layers
<1>9. LoggersAreSound'
  BY <1>1 DEF Down, Idle, LifeInv, LifeTypeOK, LoggersAreSound, OneLoggerAtATime, Layers
<1>10. NothingIsStray'
  BY <1>1 DEF Down, Idle, LifeInv, LifeTypeOK, LayerIsSound, MemoryIsSound, NothingIsStray,
     Rising, Owners, Layers
<1>. QED
  BY <1>5, <1>6, <1>7, <1>8, <1>9, <1>10 DEF LifeInv

LEMMA SetLevelKeeps ==
  ASSUME Bounds, LifeInv, NEW logging \in BOOLEAN, SetLevel(logging)
  PROVE  LifeInv'
<1>1. infra' \in Layers
  BY DEF SetLevel, LifeInv, LifeTypeOK, Layers
<1>2. LifeTypeOK'
  BY <1>1 DEF SetLevel, LifeInv, LifeTypeOK
<1>3. LayerIsSound'
  BY DEF SetLevel, LifeInv, LifeTypeOK, LayerIsSound, MemoryIsSound, Rising, Layers
<1>4. MemoryIsSound'
  BY DEF SetLevel, LifeInv, MemoryIsSound
<1>5. ClientsAreSound'
  BY DEF SetLevel, LifeInv, ClientsAreSound
<1>6. LoggersAreSound'
  BY DEF SetLevel, LifeInv, LifeTypeOK, LoggersAreSound, OneLoggerAtATime, Layers
<1>7. NothingIsStray'
  BY DEF SetLevel, LifeInv, LifeTypeOK, LayerIsSound, MemoryIsSound, NothingIsStray, Rising,
     Layers
<1>. QED
  BY <1>2, <1>3, <1>4, <1>5, <1>6, <1>7 DEF LifeInv

-----------------------------------------------------------------------------
(* The clients' steps.                                                      *)

LEMMA MallocCheckKeeps ==
  ASSUME Bounds, LifeInv, NEW c \in Clients, MallocCheck(c)
  PROVE  LifeInv'
<1>1. UNCHANGED <<infra, memory, alive, owner, inits, resets, lost>>
  BY DEF MallocCheck, Unmoved
<1>2. /\ client'[c] = [at |-> "malloc", seen |-> resets, born |-> client[c].born,
                      held |-> client[c].held, mutex |-> client[c].mutex]
      /\ memory.initialized
  BY DEF MallocCheck, Goes, LifeInv, LifeTypeOK, Users, Fresh
<1>3. \A d \in Clients : d # c => client'[d] = client[d]
  BY DEF MallocCheck, Goes, LifeInv, LifeTypeOK
<1>4. client'[c] \in Users
  BY <1>1, <1>2 DEF LifeInv, LifeTypeOK, Memories, Layers, Users, ClientStates, Fresh, Bounds,
     NoMutex
<1>5. client' \in [Clients -> Users]
  BY <1>3, <1>4 DEF MallocCheck, Goes, LifeInv, LifeTypeOK
<1>6. LifeTypeOK'
  BY <1>1, <1>5 DEF LifeInv, LifeTypeOK
<1>7. LayerIsSound' /\ MemoryIsSound' /\ NothingIsStray'
  BY <1>1 DEF LifeInv, LayerIsSound, MemoryIsSound, NothingIsStray, Rising
<1>8. ClientsAreSound'
  BY <1>1, <1>2, <1>3 DEF LifeInv, LifeTypeOK, Users, Memories, MemoryIsSound, ClientsAreSound,
     Fresh
<1>9. LoggersAreSound'
  BY <1>1, <1>2, <1>3 DEF LifeInv, LifeTypeOK, Users, LayerIsSound, LoggersAreSound,
     OneLoggerAtATime, Fresh
<1>. QED
  BY <1>6, <1>7, <1>8, <1>9 DEF LifeInv

LEMMA MallocKeeps ==
  ASSUME Bounds, LifeInv, NEW c \in Clients, MallocLock(c)
  PROVE  LifeInv'
<1>1. UNCHANGED <<infra, memory, alive, owner, inits, resets, lost>>
  BY DEF MallocLock, Unmoved
<1>2. \/ /\ Goes(c, [Fresh EXCEPT !.held = memory.config, !.born = resets])
         /\ memory.config # "zero" /\ (memory.config = "pool" => memory.pool)
      \/ Goes(c, Fresh)
      \/ Goes(c, [Fresh EXCEPT !.at = "undefined"])
  BY DEF MallocLock
<1>3. \/ /\ client'[c] = [at |-> "idle", seen |-> 0, born |-> resets,
                        held |-> memory.config, mutex |-> NoMutex]
         /\ memory.config # "zero" /\ (memory.config = "pool" => memory.pool)
      \/ client'[c] = [at |-> "idle", seen |-> 0, born |-> 0,
                        held |-> "none", mutex |-> NoMutex]
      \/ client'[c] = [at |-> "undefined", seen |-> 0, born |-> 0,
                        held |-> "none", mutex |-> NoMutex]
  BY <1>2 DEF Goes, LifeInv, LifeTypeOK, Users, Fresh
<1>4. \A d \in Clients : d # c => client'[d] = client[d]
  BY DEF MallocLock, Goes, LifeInv, LifeTypeOK
<1>5. client'[c] \in Users
  BY <1>1, <1>3 DEF LifeInv, LifeTypeOK, Memories, Layers, Users, ClientStates, Fresh, Bounds,
     NoMutex
<1>6. client' \in [Clients -> Users]
  BY <1>4, <1>5 DEF MallocLock, Goes, LifeInv, LifeTypeOK
<1>7. LifeTypeOK'
  BY <1>1, <1>6 DEF LifeInv, LifeTypeOK
<1>8. LayerIsSound' /\ MemoryIsSound' /\ NothingIsStray'
  BY <1>1 DEF LifeInv, LayerIsSound, MemoryIsSound, NothingIsStray, Rising
<1>9. ClientsAreSound'
  BY <1>1, <1>3, <1>4 DEF LifeInv, LifeTypeOK, Users, Memories, MemoryIsSound, ClientsAreSound,
     Fresh, MallocLock
<1>10. LoggersAreSound'
  BY <1>1, <1>3, <1>4 DEF LifeInv, LifeTypeOK, Users, LayerIsSound, LoggersAreSound,
     OneLoggerAtATime, Fresh
<1>. QED
  BY <1>7, <1>8, <1>9, <1>10 DEF LifeInv

LEMMA FreeCheckKeeps ==
  ASSUME Bounds, LifeInv, NEW c \in Clients, FreeCheck(c)
  PROVE  LifeInv'
<1>1. UNCHANGED <<infra, memory, alive, owner, inits, resets, lost>>
  BY DEF FreeCheck, Unmoved
<1>2. \/ /\ client'[c] = [at |-> "free", seen |-> resets, born |-> client[c].born,
                         held |-> client[c].held, mutex |-> client[c].mutex]
         /\ memory.initialized
      \/ client'[c] = Fresh
  BY DEF FreeCheck, Goes, LifeInv, LifeTypeOK, Users, Fresh
<1>3. \A d \in Clients : d # c => client'[d] = client[d]
  BY DEF FreeCheck, Goes, LifeInv, LifeTypeOK
<1>4. client'[c] \in Users
  BY <1>1, <1>2 DEF LifeInv, LifeTypeOK, Memories, Layers, Users, ClientStates, Fresh, Bounds,
     NoMutex
<1>5. client' \in [Clients -> Users]
  BY <1>3, <1>4 DEF FreeCheck, Goes, LifeInv, LifeTypeOK
<1>6. LifeTypeOK'
  BY <1>1, <1>5 DEF LifeInv, LifeTypeOK
<1>7. LayerIsSound' /\ MemoryIsSound' /\ NothingIsStray'
  BY <1>1 DEF LifeInv, LayerIsSound, MemoryIsSound, NothingIsStray, Rising
<1>8. ClientsAreSound'
  BY <1>1, <1>2, <1>3 DEF LifeInv, LifeTypeOK, Users, Memories, MemoryIsSound, ClientsAreSound,
     Fresh
<1>9. LoggersAreSound'
  BY <1>1, <1>2, <1>3 DEF LifeInv, LifeTypeOK, Users, LayerIsSound, LoggersAreSound,
     OneLoggerAtATime, Fresh
<1>. QED
  BY <1>6, <1>7, <1>8, <1>9 DEF LifeInv

LEMMA FreeKeeps ==
  ASSUME Bounds, LifeInv, NEW c \in Clients, FreeLock(c)
  PROVE  LifeInv'
<1>1. UNCHANGED <<infra, memory, alive, owner, inits, resets, lost>>
  BY DEF FreeLock, Unmoved
<1>2. client'[c] = Fresh \/ client'[c] = [Fresh EXCEPT !.at = "undefined"]
  BY DEF FreeLock, Goes, LifeInv, LifeTypeOK, Users, Fresh
<1>3. \A d \in Clients : d # c => client'[d] = client[d]
  BY DEF FreeLock, Goes, LifeInv, LifeTypeOK
<1>4. client'[c] \in Users
  BY <1>1, <1>2 DEF LifeInv, LifeTypeOK, Memories, Layers, Users, ClientStates, Fresh, Bounds,
     NoMutex
<1>5. client' \in [Clients -> Users]
  BY <1>3, <1>4 DEF FreeLock, Goes, LifeInv, LifeTypeOK
<1>6. LifeTypeOK'
  BY <1>1, <1>5 DEF LifeInv, LifeTypeOK
<1>7. LayerIsSound' /\ MemoryIsSound' /\ NothingIsStray'
  BY <1>1 DEF LifeInv, LayerIsSound, MemoryIsSound, NothingIsStray, Rising
<1>8. ClientsAreSound'
  BY <1>1, <1>2, <1>3 DEF LifeInv, LifeTypeOK, Users, Memories, MemoryIsSound, ClientsAreSound,
     Fresh
<1>9. LoggersAreSound'
  BY <1>1, <1>2, <1>3 DEF LifeInv, LifeTypeOK, Users, LayerIsSound, LoggersAreSound,
     OneLoggerAtATime, Fresh
<1>. QED
  BY <1>6, <1>7, <1>8, <1>9 DEF LifeInv

LEMMA LogCheckKeeps ==
  ASSUME Bounds, LifeInv, NEW c \in Clients, LogCheck(c)
  PROVE  LifeInv'
<1>1. UNCHANGED <<infra, memory, alive, owner, inits, resets, lost>>
  BY DEF LogCheck, Unmoved
<1>2. client'[c] = [at |-> "log", seen |-> client[c].seen, born |-> client[c].born,
                    held |-> client[c].held, mutex |-> client[c].mutex] /\ infra.initialized
  BY DEF LogCheck, Goes, LifeInv, LifeTypeOK, Users, Fresh
<1>3. \A d \in Clients : d # c => client'[d] = client[d]
  BY DEF LogCheck, Goes, LifeInv, LifeTypeOK
<1>4. client'[c] \in Users
  BY <1>1, <1>2 DEF LifeInv, LifeTypeOK, Memories, Layers, Users, ClientStates, Fresh, Bounds,
     NoMutex
<1>5. client' \in [Clients -> Users]
  BY <1>3, <1>4 DEF LogCheck, Goes, LifeInv, LifeTypeOK
<1>6. LifeTypeOK'
  BY <1>1, <1>5 DEF LifeInv, LifeTypeOK
<1>7. LayerIsSound' /\ MemoryIsSound' /\ NothingIsStray'
  BY <1>1 DEF LifeInv, LayerIsSound, MemoryIsSound, NothingIsStray, Rising
<1>8. ClientsAreSound'
  BY <1>1, <1>2, <1>3 DEF LogCheck, LifeInv, LifeTypeOK, Users, Memories, MemoryIsSound,
     ClientsAreSound, Fresh
<1>9. LoggersAreSound'
  BY <1>1, <1>2, <1>3 DEF LogCheck, LifeInv, LifeTypeOK, Users, LayerIsSound, LoggersAreSound,
     OneLoggerAtATime, Fresh
<1>. QED
  BY <1>6, <1>7, <1>8, <1>9 DEF LifeInv

LEMMA LogLockKeeps ==
  ASSUME Bounds, LifeInv, NEW c \in Clients, LogLock(c)
  PROVE  LifeInv'
<1>1. UNCHANGED <<infra, memory, alive, owner, inits, resets, lost>>
  BY DEF LogLock, Unmoved
<1>2. /\ client[c].at = "log"
      /\ \/ Goes(c, [client[c] EXCEPT !.at = "logging", !.mutex = infra.log_mutex, !.seen = inits])
         \/ Goes(c, [Fresh EXCEPT !.at = "undefined"])
  BY DEF LogLock
<1>3. \/ /\ client'[c] = [at |-> "logging", seen |-> inits, born |-> client[c].born,
                         held |-> client[c].held, mutex |-> infra.log_mutex]
         /\ client[c].at = "log"
      \/ client'[c] = [at |-> "undefined", seen |-> 0, born |-> 0,
                        held |-> "none", mutex |-> NoMutex]
  BY <1>2 DEF Goes, LifeInv, LifeTypeOK, Users, Fresh
<1>4. \A d \in Clients : d # c => client'[d] = client[d]
  BY DEF LogLock, Goes, LifeInv, LifeTypeOK
<1>5. client'[c] \in Users
  BY <1>1, <1>3 DEF LifeInv, LifeTypeOK, Memories, Layers, Users, ClientStates, Fresh, Bounds,
     NoMutex
<1>6. client' \in [Clients -> Users]
  BY <1>4, <1>5 DEF LogLock, Goes, LifeInv, LifeTypeOK
<1>7. LifeTypeOK'
  BY <1>1, <1>6 DEF LifeInv, LifeTypeOK
<1>8. LayerIsSound' /\ MemoryIsSound' /\ NothingIsStray'
  BY <1>1 DEF LifeInv, LayerIsSound, MemoryIsSound, NothingIsStray, Rising
<1>9. ClientsAreSound'
  BY <1>1, <1>3, <1>4 DEF LogLock, LifeInv, LifeTypeOK, Users, Memories, MemoryIsSound,
     ClientsAreSound, Fresh
<1>10. LoggersAreSound'
  BY <1>1, <1>3, <1>4 DEF LogLock, LifeInv, LifeTypeOK, Users, LayerIsSound, LoggersAreSound,
     OneLoggerAtATime, Fresh
<1>. QED
  BY <1>7, <1>8, <1>9, <1>10 DEF LifeInv

LEMMA LogUnlockKeeps ==
  ASSUME Bounds, LifeInv, NEW c \in Clients, LogUnlock(c)
  PROVE  LifeInv'
<1>1. UNCHANGED <<infra, memory, alive, owner, inits, resets, lost>>
  BY DEF LogUnlock, Unmoved
<1>2. \/ client'[c] = [at |-> "idle", seen |-> 0, born |-> client[c].born,
                      held |-> client[c].held, mutex |-> NoMutex]
      \/ client'[c] = [at |-> "undefined", seen |-> 0, born |-> 0,
                        held |-> "none", mutex |-> NoMutex]
  BY DEF LogUnlock, Goes, LifeInv, LifeTypeOK, Users, Fresh
<1>3. \A d \in Clients : d # c => client'[d] = client[d]
  BY DEF LogUnlock, Goes, LifeInv, LifeTypeOK
<1>4. client'[c] \in Users
  BY <1>1, <1>2 DEF LifeInv, LifeTypeOK, Memories, Layers, Users, ClientStates, Fresh, Bounds,
     NoMutex
<1>5. client' \in [Clients -> Users]
  BY <1>3, <1>4 DEF LogUnlock, Goes, LifeInv, LifeTypeOK
<1>6. LifeTypeOK'
  BY <1>1, <1>5 DEF LifeInv, LifeTypeOK
<1>7. LayerIsSound' /\ MemoryIsSound' /\ NothingIsStray'
  BY <1>1 DEF LifeInv, LayerIsSound, MemoryIsSound, NothingIsStray, Rising
<1>8. ClientsAreSound'
  BY <1>1, <1>2, <1>3 DEF LifeInv, LifeTypeOK, Users, Memories, MemoryIsSound, ClientsAreSound,
     Fresh
<1>9. LoggersAreSound'
  BY <1>1, <1>2, <1>3 DEF LifeInv, LifeTypeOK, Users, LayerIsSound, LoggersAreSound,
     OneLoggerAtATime, Fresh
<1>. QED
  BY <1>6, <1>7, <1>8, <1>9 DEF LifeInv

-----------------------------------------------------------------------------
LEMMA InitSound == Bounds /\ LifeInit => LifeInv
<1>. SUFFICES ASSUME Bounds, LifeInit  PROVE LifeInv
  OBVIOUS
<1>1. LifeTypeOK
  <2>1. infra \in Layers /\ memory \in Memories
    BY DEF LifeInit, Zero, Layers, Memories
  <2>2. owner \in Owners
    BY OwnerReturns DEF LifeInit
  <2>3. client \in [Clients -> Users]
    BY DEF LifeInit, Fresh, Users, ClientStates
  <2>4. DOMAIN alive = {}
    BY DEF LifeInit
  <2>5. inits \in 0 .. MaxInits /\ resets \in 0 .. MaxResets
    BY DEF LifeInit, Bounds
  <2>6. lost \in BOOLEAN
    BY DEF LifeInit
  <2>. QED
    BY <2>1, <2>2, <2>3, <2>4, <2>5, <2>6 DEF LifeTypeOK
<1>2. LayerIsSound /\ MemoryIsSound /\ NothingIsStray
  BY DEF LifeInit, LayerIsSound, MemoryIsSound, NothingIsStray, Rising, Zero, Idle
<1>3. ClientsAreSound /\ LoggersAreSound
  BY DEF LifeInit, ClientsAreSound, LoggersAreSound, OneLoggerAtATime, Fresh
<1>. QED
  BY <1>1, <1>2, <1>3 DEF LifeInv

LEMMA StepKeeps == Bounds /\ LifeInv /\ [LifeNext]_life_vars => LifeInv'
<1>. SUFFICES ASSUME Bounds, LifeInv, [LifeNext]_life_vars  PROVE LifeInv'
  OBVIOUS
<1>1. CASE Own
  BY <1>1, InitLayerKeeps, MemoryInitKeeps, MemoryInitWithoutConfigKeeps,
     MemoryInitRefusedKeeps, MemoryInitMutexKeeps, InitializePoolKeeps, MemoryReadyKeeps,
     PublishKeeps, CleanupKeeps, MemoryCleanupKeeps, ClearMemoryKeeps,
     DestroyMemoryMutexKeeps, DownKeeps, SetLevelKeeps DEF Own
<1>2. CASE \E c \in Allocators : Allocate(c)
  BY <1>2, MallocCheckKeeps, MallocKeeps, FreeCheckKeeps, FreeKeeps DEF Allocate, Clients
<1>3. CASE \E c \in Loggers : Log(c)
  BY <1>3, LogCheckKeeps, LogLockKeeps, LogUnlockKeeps DEF Log, Clients
<1>4. CASE UNCHANGED life_vars
  <2>1. LifeTypeOK'
    BY <1>4 DEF LifeInv, LifeTypeOK, life_vars
  <2>2. LayerIsSound' /\ MemoryIsSound' /\ NothingIsStray'
    BY <1>4 DEF LifeInv, LayerIsSound, MemoryIsSound, NothingIsStray, Rising, life_vars
  <2>3. ClientsAreSound' /\ LoggersAreSound'
    BY <1>4 DEF LifeInv, ClientsAreSound, LoggersAreSound, OneLoggerAtATime, life_vars
  <2>. QED
    BY <2>1, <2>2, <2>3 DEF LifeInv
<1>. QED
  BY <1>1, <1>2, <1>3, <1>4 DEF LifeNext

\* The places of g_infra, g_memory and the mutexes agree with where the owner is,
\* whatever has failed on the way.
THEOREM LifecycleInvariant ==
  ASSUME Bounds
  PROVE  LifeSpec => []LifeInv
<1>1. LifeInit => LifeInv
  BY InitSound
<1>2. LifeInv /\ [LifeNext]_life_vars => LifeInv'
  BY StepKeeps
<1>. QED
  BY <1>1, <1>2, PTL DEF LifeSpec

\* Threads that have passed the check of infra_malloc, infra_free or infra_log find
\* what they checked, if no cleanup, reset or new log mutex came in between: 402,
\* 513 of infra_memory.c and 481 of infra_core.c.
THEOREM CallsStaySafe ==
  ASSUME Bounds
  PROVE  LifeSpec => []CallsAreSafe
<1>1. LifeInv => CheckedMemoryIsUsable
  BY DEF LifeInv, MemoryIsSound, ClientsAreSound, CheckedMemoryIsUsable
<1>2. LifeInv => FreedWhereAllocated
  BY DEF LifeInv, ClientsAreSound, FreedWhereAllocated
<1>3. LifeInv => OneLoggerAtATime
  BY DEF LifeInv, LoggersAreSound
<1>. QED
  BY <1>1, <1>2, <1>3, LifecycleInvariant, PTL DEF CallsAreSafe, MemoryIsSafeToUse

\* After infra_cleanup (245-273) only log mutexes are left, unless some call failed
\* half way or reset memory in use.
THEOREM CleanupStaysComplete ==
  ASSUME Bounds
  PROVE  LifeSpec => []CleanupReleases
<1>1. LifeInv => CleanupReleases
  BY DEF LifeInv, LifeTypeOK, LayerIsSound, NothingIsStray, CleanupReleases, Rising
<1>. QED
  BY <1>1, LifecycleInvariant, PTL

=============================================================================
