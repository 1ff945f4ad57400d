------------------------------ MODULE Lifecycle ------------------------------
(***************************************************************************)
(* Bringing the infra layer up and down: infra_init_with_config and        *)
(* infra_cleanup of infra_core.c, and infra_memory_init and _cleanup of    *)
(* infra_memory.c, which they call and which may be called by themselves.  *)
(*                                                                         *)
(* One thread, the owner, makes these calls; no lock protects them.  The   *)
(* clients are other threads that allocate, free and log meanwhile.  Each  *)
(* of their calls looks at an `initialized` flag first and locks a mutex   *)
(* afterwards, and in between the owner may have gone on: these are two    *)
(* steps.  What is done with the mutex held is one step, except logging,   *)
(* which prints and calls the callback there.                              *)
(*                                                                         *)
(* Left out: the levels and texts of messages (a message passes or it does *)
(* not), the callback, and ds and mux settings, which nothing reads.       *)
(***************************************************************************)
EXTENDS Naturals

CONSTANTS
  Allocators,  \* threads that allocate and free
  Loggers,     \* threads that log
  MaxMutexes,  \* bound: mutexes that exist at a time
  MaxInits,    \* bound: calls of infra_init_with_config that get to the log
  MaxResets    \* bound: how often memory in use is cleaned up or reset

VARIABLES
  infra,    \* g_infra
  memory,   \* g_memory
  alive,    \* the mutexes that are not destroyed, and what they were made for
  owner,    \* where the owner is, and the arguments of its call
  client,   \* where each client is, and what it holds
  inits,    \* how many log mutexes have been made
  resets,   \* how often memory in use has been cleaned up or reset
  lost      \* a call has failed half way, or reset memory in use

life_vars == <<infra, memory, alive, owner, client, inits, resets, lost>>

Clients == Allocators \cup Loggers
NoMutex == 0
Mutexes == 1 .. MaxMutexes

\* "none": flags without INFRA_INIT_MEMORY.  "null": no config, which the layer
\* does not survive.  "libc" and "pool": use_memory_pool is false or true; "bad":
\* true, with parameters that infra_memory_init refuses.
Configs == {"none", "null", "libc", "pool", "bad"}

\* "memory", "pool", "ready": in infra_memory_init before its checks, before
\* initialize_pool and before `initialized` is set.  "publish": before that
\* flag is set for the layer.  "clear", "destroy": in infra_memory_cleanup before
\* the lock and before the mutex goes.  "down": in infra_cleanup after that.
OwnerStates == {"idle", "memory", "pool", "ready", "publish", "clear", "destroy", "down"}

\* "malloc", "free", "log": has passed the check of the call, and not yet locked.
\* "logging": has locked.  "undefined": has done what C gives no meaning to.
ClientStates == {"idle", "malloc", "free", "log", "logging", "undefined"}

\* infra_global_t, g_memory, and what a client's stack holds.
Layers ==
  [initialized : BOOLEAN, with_memory : BOOLEAN, logging : BOOLEAN,
   mutex : Mutexes \cup {NoMutex}, log_mutex : Mutexes \cup {NoMutex}]
Memories ==
  [initialized : BOOLEAN, mutex : Mutexes \cup {NoMutex},
   config : {"zero", "libc", "pool"}, pool : BOOLEAN]
Owners == [at : OwnerStates, config : Configs, layered : BOOLEAN]
Users ==
  [at : ClientStates, seen : Nat, born : Nat, held : {"none", "libc", "pool"},
   mutex : Mutexes \cup {NoMutex}]

LifeTypeOK ==
  /\ infra \in Layers /\ memory \in Memories /\ owner \in Owners
  /\ client \in [Clients -> Users]
  /\ DOMAIN alive \subseteq Mutexes
  /\ \A m \in DOMAIN alive : alive[m] \in {"global", "log", "memory"}
  /\ inits \in 0 .. MaxInits /\ resets \in 0 .. MaxResets /\ lost \in BOOLEAN

Zero == [initialized |-> FALSE, mutex |-> NoMutex, config |-> "zero", pool |-> FALSE]
Idle == [at |-> "idle", config |-> "none", layered |-> FALSE]
Fresh == [at |-> "idle", seen |-> 0, born |-> 0, held |-> "none", mutex |-> NoMutex]

LifeInit ==
  /\ infra = [initialized |-> FALSE, with_memory |-> FALSE, logging |-> TRUE,
              mutex |-> NoMutex, log_mutex |-> NoMutex]
  /\ memory = Zero
  /\ alive = <<>>
  /\ owner = Idle
  /\ client = [c \in Clients |-> Fresh]
  /\ inits = 0 /\ resets = 0 /\ lost = FALSE

\* infra_mutex_create and infra_mutex_destroy.  malloc takes the place of a
\* mutex that is gone for the next one.
Places == Mutexes \ DOMAIN alive
First(m, S) == m \in S /\ \A n \in S : m <= n
WithMutex(m, use) == [p \in DOMAIN alive \cup {m} |-> IF p = m THEN use ELSE alive[p]]
WithoutMutex(m) == [p \in DOMAIN alive \ {m} |-> alive[p]]

At(state) == owner' = [owner EXCEPT !.at = state]

-----------------------------------------------------------------------------
(* infra_init_with_config up to the memory module: the global mutex, then  *)
(* the log module with its own.  If there is no global mutex nothing has   *)
(* been done; if there is no log mutex the global one stays.               *)

InitLayer(config, logging, g, l) ==
  /\ owner.at = "idle" /\ ~infra.initialized
  /\ inits < MaxInits
  /\ First(g, Places) /\ First(l, Places \ {g})
  /\ \/ /\ infra' = [infra EXCEPT !.mutex = g, !.log_mutex = l, !.logging = logging]
        /\ alive' = [p \in DOMAIN alive \cup {g, l} |->
                       IF p = g THEN "global" ELSE IF p = l THEN "log" ELSE alive[p]]
        /\ owner' = [at |-> IF config = "none" THEN "publish" ELSE "memory",
                     config |-> config, layered |-> TRUE]
        /\ inits' = inits + 1
        /\ UNCHANGED lost
     \/ /\ infra' = [infra EXCEPT !.mutex = g, !.logging = logging]
        /\ alive' = WithMutex(g, "global")
        /\ lost' = TRUE
        /\ UNCHANGED <<owner, inits>>
  /\ UNCHANGED <<memory, client, resets>>

Publish ==
  /\ owner.at = "publish"
  /\ infra' = [infra EXCEPT !.initialized = TRUE, !.with_memory = (owner.config # "none")]
  /\ owner' = Idle
  /\ UNCHANGED <<memory, alive, client, inits, resets, lost>>

-----------------------------------------------------------------------------
(* infra_memory_init, from the layer or called directly.                   *)

MemoryInit(config) ==
  /\ owner.at = "idle"
  /\ owner' = [at |-> "memory", config |-> config, layered |-> FALSE]
  /\ UNCHANGED <<infra, memory, alive, client, inits, resets, lost>>

\* reset_memory_state keeps the mutex of memory in use, but not the flag.
Reset == [Zero EXCEPT !.mutex = IF memory.initialized THEN memory.mutex ELSE NoMutex]

\* infra_init_with_config returns at once when a module fails.
ReturnFailed ==
  /\ owner' = Idle
  /\ lost' = (lost \/ owner.layered)

MemoryInitWithoutConfig ==
  /\ owner.at = "memory" /\ owner.config = "null"
  /\ resets < MaxResets
  /\ memory' = Reset
  /\ resets' = IF memory.initialized THEN resets + 1 ELSE resets
  /\ owner' = Idle
  /\ lost' = (lost \/ memory.initialized)
  /\ UNCHANGED <<infra, alive, client, inits>>

MemoryInitRefused ==
  /\ owner.at = "memory" /\ owner.config # "null"
  /\ memory.initialized \/ owner.config = "bad"
  /\ memory' = IF memory.initialized THEN memory ELSE Reset
  /\ ReturnFailed
  /\ UNCHANGED <<infra, alive, client, inits, resets>>

MemoryInitMutex(m) ==
  /\ owner.at = "memory" /\ owner.config \in {"libc", "pool"} /\ ~memory.initialized
  /\ \/ /\ First(m, Places)
        /\ memory' = [Reset EXCEPT !.mutex = m, !.config = owner.config]
        /\ alive' = WithMutex(m, "memory")
        /\ At(IF owner.config = "pool" THEN "pool" ELSE "ready")
        /\ UNCHANGED lost
     \/ /\ memory' = Reset
        /\ ReturnFailed
        /\ UNCHANGED alive
  /\ UNCHANGED <<infra, client, inits, resets>>

InitializePool ==
  /\ owner.at = "pool"
  /\ \/ /\ memory' = [memory EXCEPT !.pool = TRUE]
        /\ At("ready")
        /\ UNCHANGED <<alive, lost>>
     \/ /\ memory' = Reset
        /\ alive' = WithoutMutex(memory.mutex)
        /\ ReturnFailed
  /\ UNCHANGED <<infra, client, inits, resets>>

MemoryReady ==
  /\ owner.at = "ready"
  /\ memory' = [memory EXCEPT !.initialized = TRUE]
  /\ IF owner.layered THEN At("publish") ELSE owner' = Idle
  /\ UNCHANGED <<infra, alive, client, inits, resets, lost>>

-----------------------------------------------------------------------------
(* infra_cleanup and infra_memory_cleanup.  The log mutex stays.           *)

\* Memory that the layer brought up may have been cleaned up directly.
Cleanup ==
  /\ owner.at = "idle" /\ infra.initialized
  /\ owner' = [owner EXCEPT !.at = IF infra.with_memory /\ memory.initialized
                                     THEN "clear" ELSE "down",
                            !.layered = TRUE]
  /\ UNCHANGED <<infra, memory, alive, client, inits, resets, lost>>

MemoryCleanup ==
  /\ owner.at = "idle" /\ memory.initialized
  /\ At("clear")
  /\ UNCHANGED <<infra, memory, alive, client, inits, resets, lost>>

\* Faulty: the flag goes last, after the mutex.
ClearMemoryKeepsFlag ==
  /\ owner.at = "clear" /\ resets < MaxResets
  /\ memory' = [Zero EXCEPT !.mutex = memory.mutex, !.initialized = TRUE]
  /\ resets' = resets + 1
  /\ At("destroy")
  /\ UNCHANGED <<infra, alive, client, inits, lost>>

\* Under the lock: the pool is freed and all but the mutex is zeroed.
ClearMemory ==
  /\ owner.at = "clear" /\ resets < MaxResets
  /\ memory' = [Zero EXCEPT !.mutex = memory.mutex]
  /\ resets' = resets + 1
  /\ At("destroy")
  /\ UNCHANGED <<infra, alive, client, inits, lost>>

\* Faulty: the mutex is left behind.
DestroyMemoryForgets ==
  /\ owner.at = "destroy"
  /\ IF owner.layered THEN At("down") ELSE owner' = Idle
  /\ UNCHANGED <<infra, memory, alive, client, inits, resets, lost>>

DestroyMemoryMutex ==
  /\ owner.at = "destroy"
  /\ alive' = WithoutMutex(memory.mutex)
  /\ IF owner.layered THEN At("down") ELSE owner' = Idle
  /\ UNCHANGED <<infra, memory, client, inits, resets, lost>>

Down ==
  /\ owner.at = "down"
  /\ alive' = WithoutMutex(infra.mutex)
  /\ infra' = [infra EXCEPT !.initialized = FALSE, !.with_memory = FALSE]
  /\ owner' = Idle
  /\ UNCHANGED <<memory, client, inits, resets, lost>>

\* infra_log_set_level, and infra_config_apply with a valid config.
SetLevel(logging) ==
  /\ owner.at = "idle"
  /\ infra' = [infra EXCEPT !.logging = logging]
  /\ UNCHANGED <<memory, alive, owner, client, inits, resets, lost>>

Own ==
  \/ \E config \in Configs \ {"null"}, logging \in BOOLEAN, g, l \in Mutexes :
       InitLayer(config, logging, g, l)
  \/ \E config \in Configs \ {"none"} : MemoryInit(config)
  \/ MemoryInitWithoutConfig \/ MemoryInitRefused
  \/ \E m \in Mutexes : MemoryInitMutex(m)
  \/ InitializePool \/ MemoryReady \/ Publish
  \/ Cleanup \/ MemoryCleanup \/ ClearMemory \/ DestroyMemoryMutex \/ Down
  \/ \E logging \in BOOLEAN : SetLevel(logging)

-----------------------------------------------------------------------------
(* The clients.                                                            *)

Goes(c, fields) == client' = [client EXCEPT ![c] = fields]
Unmoved == UNCHANGED <<infra, memory, alive, owner, inits, resets, lost>>

\* Locking NULL is refused by infra_mutex_lock, which nobody asks; locking what
\* has been destroyed is undefined.
Lockable(m) == m = NoMutex \/ m \in DOMAIN alive

\* infra_malloc and its kin: the unlocked check, then the allocation.  With the
\* config zeroed the alignment is 0 and the size is written at address -8.
MallocCheck(c) ==
  /\ client[c].at = "idle" /\ client[c].held = "none"
  /\ memory.initialized
  /\ Goes(c, [client[c] EXCEPT !.at = "malloc", !.seen = resets])
  /\ Unmoved

MallocLock(c) ==
  /\ client[c].at = "malloc"
  /\ IF Lockable(memory.mutex) /\ memory.config # "zero"
       THEN \/ /\ memory.config = "pool" => memory.pool
               /\ Goes(c, [Fresh EXCEPT !.held = memory.config, !.born = resets])
            \/ Goes(c, Fresh)
       ELSE Goes(c, [Fresh EXCEPT !.at = "undefined"])
  /\ Unmoved

\* infra_free does nothing when memory is not initialised.
FreeCheck(c) ==
  /\ client[c].at = "idle" /\ client[c].held # "none"
  /\ Goes(c, IF memory.initialized THEN [client[c] EXCEPT !.at = "free", !.seen = resets]
             ELSE Fresh)
  /\ Unmoved

\* The pool keeps what is not its own.  libc's free is given an address inside
\* a pool, or a pool's block that is gone.
FreeLock(c) ==
  /\ client[c].at = "free"
  /\ Goes(c, IF /\ Lockable(memory.mutex)
                /\ memory.config # "pool" => client[c].held = "libc"
             THEN Fresh ELSE [Fresh EXCEPT !.at = "undefined"])
  /\ Unmoved

\* infra_log: check, lock, print and call back, unlock.  The mutex to unlock
\* is read again.
LogCheck(c) ==
  /\ client[c].at = "idle"
  /\ infra.initialized /\ infra.logging
  /\ Goes(c, [client[c] EXCEPT !.at = "log"])
  /\ Unmoved

LogLock(c) ==
  /\ client[c].at = "log"
  /\ infra.log_mutex # NoMutex =>
       \A d \in Clients : client[d].at = "logging" => client[d].mutex # infra.log_mutex
  /\ Goes(c, IF Lockable(infra.log_mutex)
               THEN [client[c] EXCEPT !.at = "logging", !.mutex = infra.log_mutex, !.seen = inits]
               ELSE [Fresh EXCEPT !.at = "undefined"])
  /\ Unmoved

LogUnlock(c) ==
  /\ client[c].at = "logging"
  /\ Goes(c, IF infra.log_mutex = client[c].mutex
               THEN [client[c] EXCEPT !.at = "idle", !.mutex = NoMutex, !.seen = 0]
               ELSE [Fresh EXCEPT !.at = "undefined"])
  /\ Unmoved

Allocate(c) == MallocCheck(c) \/ MallocLock(c) \/ FreeCheck(c) \/ FreeLock(c)
Log(c) == LogCheck(c) \/ LogLock(c) \/ LogUnlock(c)

LifeNext ==
  \/ Own
  \/ \E c \in Allocators : Allocate(c)
  \/ \E c \in Loggers : Log(c)

LifeSpec == LifeInit /\ [][LifeNext]_life_vars

-----------------------------------------------------------------------------
(* A client that has found memory initialised, in infra_malloc (402) or     *)
(* infra_free (513), finds its mutex alive and its allocator set up when it *)
(* gets to them, unless a cleanup or reset has come in between.             *)
CheckedMemoryIsUsable ==
  \A c \in Clients :
    client[c].at \in {"malloc", "free"} /\ client[c].seen = resets =>
      /\ memory.mutex \in DOMAIN alive /\ alive[memory.mutex] = "memory"
      /\ memory.config = "pool" => memory.pool
      /\ memory.config # "zero"

(* infra_free takes memory back by way of the allocator it came from, as    *)
(* long as memory has not been cleaned up or reset since: no second         *)
(* infra_memory_init changes the allocator under allocations (214-216).     *)
FreedWhereAllocated ==
  \A c \in Clients :
    client[c].held # "none" /\ client[c].born = resets => memory.config = client[c].held

MemoryIsSafeToUse == CheckedMemoryIsUsable /\ FreedWhereAllocated

(* Two threads are in infra_log's critical section together, and callbacks  *)
(* overlap, only if the log module was initialised in between (164-190).    *)
OneLoggerAtATime ==
  \A c, d \in Clients :
    c # d /\ client[c].at = "logging" /\ client[d].at = "logging" =>
      client[c].seen # client[d].seen

(* When everything is down and no call has failed half way, nothing is left *)
(* of the layer but log mutexes, which infra_cleanup forgets (245-273).     *)
CleanupReleases ==
  owner.at = "idle" /\ ~infra.initialized /\ ~memory.initialized /\ ~lost =>
    \A m \in DOMAIN alive : alive[m] = "log"

CallsAreSafe == MemoryIsSafeToUse /\ OneLoggerAtATime
=============================================================================
