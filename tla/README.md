# A TLA+ model of ppdb

ppdb is a C program on a small infrastructure layer of its own ("infra"), built
with Cosmopolitan. The database that its name and `include/ppdb/ppdb.h`
announce does not exist at this commit: `memkv` and `diskv` are empty files.
What there is, and runs, is the infra layer (memory, threads, data structures,
sockets, logging), a TCP forwarder called *rinetd*, and a command line over it.

This directory holds TLA+ modules of the parts that have state worth the name,
TLC configurations that check them on small instances, and proofs of safety
properties of every part for instances of every size.
Paths below are relative to `ppdb/src/internal/`. `PROJECT.json` has the machine-readable side: which
definition stands for which lines, what each run checks, for every property of a
passing run a mistake in the code that the property catches, and the hazards.

    tlc -workers 2 -config ThreadPool_safety.cfg MCThreadPool.tla
    tlc -workers 2 -config Infra.cfg MCInfra.tla
    tlapm ThreadPool_proofs.tla

## 1. The system

| Component | State | Operations | Model |
|---|---|---|---|
| Thread pool, `infra/infra_sync.c:15-414` | mutex, two condition variables, flags `running` and `shutting_down`, three counters, the list of tasks | `create`, `submit`, `destroy`, the thread `worker_thread` | `ThreadPool`, over `TaskQueue` |
| Memory, `infra/infra_memory.c` | one pool of blocks, `used_size`, `current_usage` | `infra_malloc`, `_calloc`, `_realloc`, `_free`, `_memory_init`, `_cleanup` | `MemoryPool`: the pool; not the `initialized` flag, not the way through libc |
| Data structures, `infra/infra_ds.c` | list, hash table, red-black tree | append, remove, put, get, insert, find, clear | `LinkedList`, `HashTable`, `RbTree`, over `Elements`; `KeyValueMap` is what the last two promise |
| Rinetd, `peer/peer_rinetd.c` | `g_context`: rules, listener threads, sessions, `running` | init, cleanup, add and remove rule, start, stop; listener, forward and backward threads | `Rinetd` |
| Lifecycle, configuration and logging, `infra/infra_core.c` | `g_infra`: `initialized`, `active_flags`, two mutexes, log level; `g_memory`'s flag, mutex and configuration | `infra_init*`, `infra_cleanup`, `infra_config_apply`, `infra_memory_init`, `_cleanup`, `infra_log` | `Lifecycle` |
| Buffers, `infra/infra_core.c:378-460` | data, size, capacity | init, reserve, write, read, reset, destroy | `Buffer` |
| Sockets, `infra/infra_net.c` | a struct and a descriptor each; address strings handed out | create, bind, listen, accept, connect, UDP, options, resolve, close | `Sockets`; the outcomes that rinetd sees also in `Rinetd` |
| Multiplexer, `infra/infra_mux*.c`, `infra_platform.c` | an epoll descriptor, an event buffer | create, destroy, add, modify, remove, wait | `Mux` |
| Peers, `infra/infra_peer.c` | table of 128 connections | init, connect, close, send, recv, cleanup | `PeerTable` |
| Wrappers of mutexes, conditions, rwlocks, threads | none of their own | one pthread call each | inside `ThreadPool` and `Rinetd`, as used |
| Command line, `poly/poly_cmdline.c`, `../ppdb/ppdb.c` | table of 32 commands, the log level | option parsing, register, execute | `CommandLine` |
| Files, time, random numbers, strings | none | a system or libc call each | not modelled |
| Errors, memkv, diskv, public API, `../cosmo` | none | | not modelled: texts, empty files, experiments with loaders |

How they interact. Everything allocates with `infra_malloc`, which serialises its
callers with one mutex. Worker threads, submitters and the pool's owner share
the pool under its mutex, except where `create`'s failure path and the worker's
loop condition go past it. Rinetd's control thread (the one that executes
commands) shares `g_context` with its listeners, and these share the sessions
with two copying threads for each connection; almost none of it under a lock.
The owner of the layer brings `g_infra` and `g_memory` up and down while other
threads allocate and log: these look at a flag first and lock a mutex afterwards,
and the flag is under no lock. Sockets, peers and the multiplexer share the
kernel's table of descriptors with the rest of the program.
The data structures have no lock and no caller in the program yet other than
tests; their callers' promise is to be alone.

What is hard, and which properties answer it. `PROJECT.json` lists the hazards at
their lines.

- *Thread pool*: wakeups that could be lost between a signal and an idle
  timeout; two flags that must agree on how a worker leaves; unlocked
  reads and an unlocked broadcast; a pool freed while somebody is inside.
  Correct means: a bounded FIFO that runs each accepted task once, counters
  that count, a size in its bounds, nobody asleep with work to do.
- *Memory*: long sequences of split and merge, arithmetic in `size_t`. Correct
  means: allocations are disjoint and large enough, nothing is lost, free space
  grows together again, the usage reported is the usage.
- *Data structures*: pointer surgery that shows many calls later. Correct means:
  tree and table are maps, list and tree are well linked, the tree is balanced.
- *Rinetd*: three kinds of threads and one flag per session that says "stop" to
  one and "free" to another; error paths with two sockets in hand; joins of
  threads that nobody wakes. Correct means: listeners serve the rules they were
  started for, a stopped service has stopped, sockets in use are open, and
  sockets given up are closed.
- *Lifecycle*: nine places where bringing the layer up can stop half way, each with
  other mutexes and modules in place; a check and a lock in two steps. Correct
  means: what a call has checked holds when it is used, and cleanup leaves
  nothing.
- *Sockets*: a struct, a descriptor, a string and the caller's variable, and
  eleven places where one of them is missing. Correct means: neither leak nor
  double free, and a connect that succeeds has connected.
- *Multiplexer*: threads that wait share a buffer. Correct means: each is told what
  the kernel told it, and create leaves a whole multiplexer or nothing.
- *Buffers*: sums and doubling in `size_t`. Correct means: what was written is
  there, in order, and nothing beyond the memory granted.
- *Peers*: ids kept after a close, descriptors used again by others. Correct means: an
  id reaches its own connection or nobody.
- *Command line*: options, commands and failures end in one number. Correct means:
  it is 0 exactly when the program has done what it was asked.

## 2. The modules

### `TaskQueue`, `ThreadPool`, `ThreadPool_proofs`, `MCThreadPool`

`TaskQueue` is what callers are promised: tasks are accepted or refused, start in
the order of acceptance, at most `MaxThreads` at a time, each once, and an
accepted task is never dropped, not even by a shutdown.

`ThreadPool` has one action per critical section or unlocked access of the
code. `wpc`, `call` and `owner` are the program counters of workers, of calls of
`submit` and of the pool's owner; the other variables are the members of
`infra_thread_pool_t`. A condition variable is the set of those whose program
counter says they wait on it; signal, broadcast, timeout and spurious wakeup
change that. `mutex` says who keeps the mutex between two steps, which only
matters where somebody acts without it: the worker about to sleep (against
`create`'s broadcast at line 272) and the worker about to return (against the poll
at 274). `create` counts a thread in the step that starts it: until it returns, the
only test of `thread_count` is false either way.

The worker's exits differ, and the model keeps the difference: by timeout
(29-34) and by shutdown with an empty queue (39-42) it gives up its place in
`thread_count`; by the loop condition (22, 71) it does not.

### `MemoryPool`, `MemoryPool_proofs`, `MCMemoryPool`

A call holds the mutex from end to end, so a call is a step. `blocks` is the list
in address order with the headers' fields, addresses are relative to the pool and
`size_t` is `0 .. Word - 1`. `infra_malloc` (best fit, 32 bytes of slack) and
`infra_realloc` (first fit, header included in the size) are translated
separately because they round, split and count differently. A block that `realloc`
moves to gets no `original_size`: the model lets it have any of `Garbage`.
`past` remembers whether `realloc` has been used in place or to move, which is
how properties say "until then".

The code keeps a block whenever it is large enough (462-464), also where no other
header fits behind what is kept; so does `ReallocInPlace`, and `past` then has
`"overrun"`. A header has been written over another: what the program does from
there on is undefined, and the model has no step after it. `ListIsSound` is what the code
should keep up and does not; `PoolIntact` says that it fails by an overrun
and by nothing else, and `AllocationsAreBlocks` and `FreeSpaceIsWhole` speak of
the pool until then.

### `Elements`, `KeyValueMap`, `HashTable`, `LinkedList`, `RbTree`, `DataStructures_proofs`, `RbTree_proofs`, `MCDataStructures`

`Elements` declares what they are made of: nodes, values and their two NULLs.
`KeyValueMap` is the map that table and tree are to be: a value for each key, the
size, and what `remove` and `find` return.

`HashTable` has entries with `next` pointers, and buckets that point to the first of
theirs; which bucket a key falls into is chosen initially, so every pattern of
collisions occurs. `put`, `get` and `remove` begin in `Call` and go one entry a step
(`WalkOn`) with the code's `entry` and `prev`; then `put` writes over the value
(`ReplaceValue`) or hangs an entry in front (`AddEntry`), and `remove` sets the
link of `prev`, or of the bucket, past the entry it frees (`Unlinked`, `RemoveEntry`).

`RbTree` keeps nodes with colours and parent pointers, in memory that is
allocated and freed; the mirrored halves of rotations and repairs are one
definition with a side. A call is a sequence of steps, and `call` holds its place,
its arguments and its local variables: a step goes one node down (`Descend`, `NextLeft`),
does a turn of a repair's loop, or part of a turn up to the next rotation (`TurnOutward`
then `Raise`; `RedSibling`, `NearRed` then `FarRed`), or links or unlinks a node (`Hang`,
`Splice`). The caller is alone, so nobody but the model sees these steps; they make
every state of a repair one in which the invariants are checked, and leave no
recursion, so that they can be proved. A null pointer followed is `crashed`. `unfixed`
remembers that a black leaf has been removed, for which line 558 calls no repair.
To the callers the map changes when the node is linked, unlinked or written
(`Contents`, `SizeToBe`, `ReplyToBe`); the size and the result come when the call
returns, and nobody reads them before.

`LinkedList` has nodes with two links, head, tail and length; `order` is history: the
nodes in the order of the appends, as the callers know them.

The three share nothing: `MCDataStructures` picks one for each behaviour.
`get` of the table and `find` of the tree are calls like the others, whose answers are
checked after the walk; the iterations over list and tree, which only look, are left to
the properties.

### `Rinetd`, `Rinetd_proofs`, `MCRinetd`

Each access to `g_context` that another thread can see is an action: a listener
looks at one session's `active` flag per step, fills a session it has found free in
another, and each copying thread reads its sockets from the session when it first
runs, not when it is created. Between its `accept` and its search for a session a
listener creates the server's socket and connects it, which takes as long as the
server likes (`"server"`, `"connect"`). The five failures of `create_forward_session`
end in `"refuse"` with the server's socket closed, if there was one, and the client's
is closed by `listener_thread` in a step of its own (`Refused`). `ctl` is the control thread's place in
`start_service` and `stop_service`. A connection is one client accepted, with
its two sockets and threads. Bytes, addresses and the configuration file (kept
as a path, never read) are left out. `shared` and `failed` are history: sessions
taken while another used them, and a `start` that failed half way.

`rinetd_init` calls `infra_mux_create(NULL, ...)`, which `infra_mux.c:10`
refuses: as the code stands rinetd cannot be initialised. It does not get as far as
returning the error: line 382 hands `infra_mutex_destroy` the address of the
handle, which is then freed although it is static storage, and the model ends the process
there (`"aborted"`). `rinetd_cleanup` (404) hands it the handle, as it should. The
configurations set `MuxCreated = TRUE`, the service that `rinetd_init` is there to
set up and that `test_peer_rinetd.c` drives; with FALSE only the rules can change
before. `cleanup_forward_session` runs only for a session left over when
the service is stopped, and `StoppedServiceIsQuiet` says there is none.

### `Lifecycle`, `Lifecycle_proofs`

`infra`, `memory` and `alive` are `g_infra`, `g_memory` and the mutexes that exist.
One thread, the owner, calls `infra_init_with_config` and `infra_cleanup`, and, by
themselves, `infra_memory_init` and `_cleanup`; `owner` is its place in these calls,
with a step wherever it changes something that other threads look at, and
with a way out wherever an allocation or a mutex can fail. Clients of two kinds
allocate and free, or log; the check of the flag is a step, and the lock with what is
done under it another. `infra_log` prints with its mutex held, and reads again which
mutex to unlock. A client that locks what is gone is `undefined`; the properties
say when it cannot come to that.

The exceptions that the properties make are the code's: a call that has passed its
check before a cleanup or reset of memory may lock a mutex that is gone; a second
init puts another log mutex in place and two threads log at a time; a module that
fails leaves the mutexes made before it (`lost`), and `infra_cleanup` never destroys
the log mutex.

### `Sockets`, `Sockets_proofs`

`pointer` is each caller's variable, `heap` the structs, `open` the descriptors
with their mode and their connection's state, `strings` the address strings.
Calls that make a socket or a string (`create`, `udp_bind`, `accept`, `connect`,
`resolve`) take a step for each thing that they ask the allocator or the kernel for:
`Begin` for the struct, then its descriptor, its options, an address string. When
one is refused, what the call has by then is undone in the step of that failure: the
struct (`Freed`), the struct and its descriptor (`Dropped`), the string. Other callers
open and close in between, and while `connect` waits in `connect()` or in
`select()` for the network to answer. What is on its way has a place in `call`, so
that `SocketsAreOwned` is about the middle of the calls as well.
Excepted: `infra_net_udp_bind` does not clear the variable when it fails, which its
caller then forgets (`"dangling"`), and `ConnectedWhenOk` is about descriptors below
the width of the word in which line 239 sets a bit, since `1UL << fd` from there on
is another descriptor's bit (`Watched`).

A blocking config leaves a new socket blocking. `connect()` then waits by itself and
the `select` that is to bound the wait is not reached: `ConnectInProgress` needs a
socket that is nonblocking or has a timeout of its own.

### `Mux`

`registered` is the kernel's table with what was asked for and with `data.fd`,
`buffer` is `impl->events`. `infra_mux_create` gets four `pieces` in four steps
(`MuxGets`) and may be refused each (`MuxGetsNone`), where its three ways to undo what it
has are `Undone`. `epoll_wait` writes to the buffer and `infra_mux_wait` copies it
afterwards: two steps, between which another wait may write. `wait[w].others` is what
the kernel has written meanwhile for other threads, and `MuxReportsAreTheirs` allows a
thread to be told that instead, but nothing else. `told` is what the kernel
meant, under the true names of the descriptors. Which events it reports is its
choice among those asked for, errors and hang-ups.

### `Buffer`, `PeerTable`, `CommandLine`, `InfraParts_proofs`

`Buffer` is `infra_buffer_*` in a `size_t` of `BufferWord` values, with a write that
need not find memory to grow. `PeerTable` is the table of `infra_peer.c`, beside a rest
of the program that opens and closes descriptors; `theirs` remembers whose
connection each id was given for. A slot is not used again after a close, as in
the code, and a second `infra_peer_init` forgets what is open (`forgotten`).
`CommandLine` is one run of `main`: options, the level, `infra_init_with_config`,
the table of commands and the handlers of `help` and `rinetd`, with failures of
memory and mutexes. Any beginning of `log-level` counts as `log-level` (`ppdb.c:74`), and of
several levels only the last is looked at. The help text also offers `rinetd --start`, `--stop` and
`--config=<value>`. `ExitTellsWhatHappened` says that these always end in 1, since nothing
in the program calls `rinetd_init`, and since the handler compares `--config=<value>` as a whole with
`--config`. The three, and `Mux`, share nothing but the module of their proofs.

### `MCInfra`

`MemoryPool` and the modules since `Lifecycle` share nothing with each other in the
model: as with the data structures, a behaviour explores one of them. `MCInfra`
extends them all, so that the properties are theirs, the same that the theorems state,
and hold of all its states: a part that is not in use stays as it was initially.

## 3. The runs

| Run | Instance | Shows |
|---|---|---|
| `pool_safety` | 3 workers (2 stay), 3 calls, queue of 1 | counters, size bounds, each task in one place, no lost wakeup of workers or submitters, `ImplementsTaskQueue` |
| `pool_live` | 3 workers (2 stay), 2 calls, queue of 1 | accepted tasks run, blocked calls return, an idle pool is destroyed, `create` returns |
| `pool_destroy_hangs` | 1 worker, 1 call | *violated*: `destroy` returns |
| `pool_freed_in_use` | 1 worker, 3 calls | *violated*: a freed pool has nobody inside |
| `infra` | see the bounds below | *memory pool*: one call alone breaks the list of blocks; until then disjoint and large enough allocations, nothing lost, free neighbours merged, usage exact; *lifecycle*: `CallsAreSafe`, `CleanupReleases`; *sockets*: `SocketsAreOwned`, `ConnectedWhenOk`; *multiplexer*: `MuxIsWhole`, `MuxReportsAreTheirs`; *buffer*: `BufferHoldsWrites`; *peers*: `PeerIdsStayTheirs`; *command line*: `ExitTellsWhatHappened` |
| `mem_realloc` | 264 bytes, 32-byte headers, requests of 1, 24, 64, every `realloc` | *violated*: the list of blocks can be walked (`ListIsSound`) |
| `rinetd_safety` | 2 rules, 2 listeners, 2 sessions, 2 clients | unique sources, listeners keep their rules, a stopped service is quiet, sockets in use are open |
| `rinetd_live` | 1 rule, 1 session, 2 clients | no error path of `create_forward_session` and `listener_thread` leaves a socket open; `stop_service` returns, if `accept`, `connect` and `recv` do |
| `rinetd_start` | 1 rule | *violated*: while the service runs its listeners listen |
| `rinetd_signal` | 1 session, 2 clients | *violated*: "signal other thread to stop" stops it |
| `data_structures` | 6 keys and 6 nodes for the tree; 3 strings in 2 buckets; 6 nodes for the list | tree and table are maps, links agree in every state of a call, the tree is red-black until a black leaf goes |
| `tree_remove` | 6 keys, 6 nodes | *violated*: `infra_rbtree_remove` returns |

### What the violated runs show

- `destroy` clears `running` and polls `thread_count`. A worker that is running a
  task, or has just been started, then leaves by its loop condition, which gives up no
  place, and the poll never ends.
- `destroy` waits for workers only. A submitter it has woken has yet to lock the
  mutex, which may be gone. The same happens in `create`'s failure path.
- `realloc` to a size that fits the block, with less than a header to spare:
  `remaining` wraps below zero and a huge free block is written over the next header.
- `start_service` sets `running` after it has created listeners that test it.
- A session's `active` flag, cleared to stop the other thread, makes the session
  free; the next client sets it again before that thread has looked.
- After `insert 1 3 4 2; remove 4; insert 4 5 6`, `remove 3` follows a null
  pointer: removing the black leaf 4 is not repaired, and `fix_delete` later relies
  on a balance that is gone.

### Bounds, and why they are enough

- *Thread pool*: three workers of which two stay let one expire while another
  sleeps and a third is started; three calls on a queue of one let one be queued,
  one sleep on `not_full` and one arrive. Workers and calls are symmetric
  (`Symmetry`), which no temporal property is checked with.
- *Memory*: 264 bytes hold a handful of blocks with the header and alignment of
  the code, so that a block can have used and free neighbours on both sides, be
  taken whole or split, and be merged with one or both. `Word` is far above the
  pool, so that what wraps is out of it, as in the code. `VIEW Observed` leaves out
  counters that no step reads and that drift for ever, and keeps `current_usage`
  for as long as `UsageIsExact` speaks of it.
- *Lifecycle*: two inits that get to the log and two resets let the layer come up again
  after every failure and every cleanup with a client still in its call; one thread
  that allocates meets every place of the owner, and two loggers are needed to
  overlap. Four mutexes are one more than a layer has, so that one can be stray. The
  proofs do without these bounds.
- *Sockets*: two callers with two descriptors meet the limit of descriptors with one
  socket each; a word of one bit makes descriptor 1 alias 0. Each caller has at most one
  struct, and one more can be allocated (`Structs`), so that a call never waits for
  an address; one string at a time lets the second call be refused.
- *Multiplexer*: two waiters overlap; two descriptors and one event in the buffer,
  with room for two in the caller's array, let the buffer be the limit, and let the report
  of one thread be written over that of the other.
- *Buffer*: `size_t` of 16 values and writes of up to 3 bytes: doubling from every
  capacity is too little, enough, and refused.
- *Peers*: three slots, three descriptors that others use too, four connections:
  a slot of each age, the table full, and one connection more.
- *Command line*: every sequence of three arguments holds two options and a
  command, or an option, a command and its option, among them every operation that
  the help text offers, with a value and without.
- *Rinetd*: two listeners are enough for two to choose one session, two clients for
  a session to be used again. Rules change only until the first client comes
  (`NobodyYet`): sessions never look at rules, and listeners meet every change
  before. A failed start is not repeated before a stop (`failed`); no cleanup
  while a listener lives that a failed start has left. Each client connects once,
  whether the server can be reached or not. In the
  instances rules are added enabled; disabled ones come from `RemoveRule`.
  `Observed` leaves out session fields that are overwritten before they are read.
- *Data structures*: six keys reach every repair of the tree, both ways round, and
  the removal that crashes, which needs six. A key's value is its parity, and key 3
  takes both (`Puts`), so that overwriting and the move of a successor's value
  show. `Observed` takes trees of the same shape for one, wherever their nodes lie,
  with the node of the shape that the call has come to, and leaves out the result of
  the last call: no step depends on either. The hash table takes every function from three strings to
  two buckets, so that a chain has a first, a middle and a last entry to be removed; it is told apart
  by what its chains spell and where in them the walk is (`TableSeen`), with a trace of
  entries that no chain reaches.

`CHECK_DEADLOCK FALSE` is set where the system may really stop: a pool that has been
destroyed, or whose `destroy` hangs, a tree that has crashed, and in `infra` the
program that has exited, or clients that have come to an undefined place.

### Fairness

`ThreadPool`: a thread that can step does (weak fairness), and one that is offered
the mutex again and again gets it (strong fairness): the scheduler and the
pthread mutex starve nobody, and task functions return. Nothing is assumed of
spurious wakeups, failures, or the decision to destroy. Idle timeouts are not
assumed either, except in `CreateTerminates`, which needs them: `create`'s broadcast
can come too early and only the end of the timed wait then ends the worker.

`Rinetd`: its threads are scheduled. Commands need not be given, clients need
not connect, send or hang up, and servers need not answer. `StopTerminates` therefore
says under which condition `stop_service` returns: that no listener stays in `accept` or
`connect`, and no thread in `recv`, for ever. The code wakes none of them, so the condition is
the environment's. Without a client it is not met: a listener stays in `accept` and
`stop_service` does not return, although `test_peer_rinetd.c:223-229` expects it to. What
the run shows is that nothing else keeps it.

## 4. The proofs

Every component has proofs, for all finite sets of threads and every value
of the bounds. `PoolAssumption` is what `create` accepts; `MemoryAssumption` what
`infra_memory_init` checks and malloc gives: a pool that holds a header, an alignment
that a header keeps, sizes far from the end of a `size_t`. `HashAssumption` is what
`infra_hash_create` checks; `ElementAssumption` says that nobody stores NULL,
`TreeAssumption` that the tree's keys are ints. Neither says how many nodes or keys there
are: there may be infinitely many. `Bounds`, `Limits`, `MuxBounds`,
`RunBounds` and `RinetdAssumption` say that the constants are numbers and the sets of
threads finite; `RunBounds` also that the table of commands has room for two.

| Module | Theorem | Says |
|---|---|---|
| `ThreadPool_proofs` | `CountInvariant` | `Spec => []CountInv`, the inductive invariant |
| | `TypeCorrect` | `[]TypeOK`: in particular no counter, unsigned in C, is decremented at zero |
| | `CountersCorrect` | `[]CountersMatch`: the counters count queue, busy workers and places |
| | `SizeCorrect` | `[]PoolSizeBounded` |
| | `DestroyDropsNothing` | `[]NothingLeftToDrop`: when the last place is given up nothing is queued |
| | `EachTaskStaysOnce` | `[]EachTaskOnce`: a task is in one place |
| | `QueueStaysServed` | `[]SomeoneServesTheQueue`: no wakeup of a worker is lost |
| | `SubmittersStayWoken` | `[]SomeoneWakesTheSubmitters`: no wakeup of a submitter is lost |
| | `PoolImplementsTaskQueue` | `Spec => ImplementsTaskQueue`, the refinement |
| `MemoryPool_proofs` | `MemoryInvariant` | `Spec => []MemoryInv` |
| | `MemoryTypeCorrect` | `[]TypeOK` |
| | `PoolStaysIntact` | `[]PoolIntact`: no header lies inside another block, unless `realloc` has overrun one, and always then |
| | `AllocationsStayBlocks` | `[]AllocationsAreBlocks`: allocations and used blocks are paired off until an overrun |
| | `NothingGetsLost` | `[]NothingLost`: the blocks tile the pool |
| | `FreeSpaceGrowsTogether` | `[]FreeSpaceIsWhole`: one free block when all is returned, until an overrun |
| | `UsageStaysExact` | `[]UsageIsExact`: `current_usage` is the sum of the requests |
| `Rinetd_proofs` | `RinetdInvariant` | `Spec => []RinetdInv` |
| | `RinetdTypeCorrect` | `[]TypeOK` |
| | `RulesStayUnique` | `[]UniqueSource` |
| | `ListenersStayOnRules` | `[]ListenersKeepTheirRules` |
| | `NoSocketIsLost` | `[]NoLostSocket`: the five failures of `create_forward_session` lose no socket |
| | `StoppedStaysQuiet` | `[]StoppedServiceIsQuiet` |
| | `UsedSocketsStayOpen` | `[]SocketsOpenInUse` |
| `Lifecycle_proofs` | `LifecycleInvariant` | `LifeSpec => []LifeInv` |
| | `CallsStaySafe` | `[]CallsAreSafe` |
| | `CleanupStaysComplete` | `[]CleanupReleases` |
| `Sockets_proofs` | `SocketInvariant` | `SocketSpec => []SocketInv` |
| | `SocketsStayOwned` | `[]SocketsAreOwned`: wherever a call is and fails, nothing leaks or is freed twice |
| | `ConnectMeansConnected` | `ConnectedWhenOk`, about steps |
| `DataStructures_proofs` | `HashInvariant` | `HashSpec => []HashInv` |
| | `HashTableIsAMap` | `HashSpec => HashIsAMap`, the refinement of `KeyValueMap` |
| | `ListInvariant` | `ListSpec => []ListInv` |
| | `ListLinksStayRight` | `[]ListLinksAgree` |
| `RbTree_proofs` | `TreeInvariant` | `TreeSpec => []TreeInv` |
| | `TreeIsLinked` | `[]TreeIsWellLinked`: no node is lost, none is freed too early |
| | `TreeStaysBalanced` | `TreeSpec => []BalanceInv`: balance until a black leaf is removed |
| | `TreeIsColored` | `[]TreeIsRedBlack` |
| | `RbTreeIsAMap` | `TreeSpec => TreeIsAMap`, the refinement of `KeyValueMap` |
| `InfraParts_proofs` | `MuxInvariant` | `MuxSpec => []MuxInv` |
| | `MuxStaysWhole` | `[]MuxIsWhole` |
| | `MuxTellsTheirs` | `MuxReportsAreTheirs`, about steps |
| | `BufferInvariant` | `BufferSpec => []BufferInv` |
| | `WritesStay` | `[]BufferHoldsWrites` |
| | `PeerInvariant` | `TableSpec => []PeerInv` |
| | `IdsStayTheirs` | `[]PeerIdsStayTheirs` |
| | `MainInvariant` | `MainSpec => []MainInv` |
| | `ExitTells` | `[]ExitTellsWhatHappened` |

*Counters of the pool.* `CountInv` joins five invariants because none is inductive
alone: that `thread_count` does not go below zero needs that it counts the workers that
can still decrement it; this needs `running`, since workers that quit by the loop
condition are not subtracted (hence `>=` after shutdown), and `OwnerFlags` says
which flags go with which place of the owner. That the queue is empty at
`thread_count = 0` needs the emptiness test in `WorkerStops`, and for
`WorkerExpires`, which has no such test, the minimum of at least one that
remains. The counters follow cardinalities by three lemmas (`OneMore`, `OneLess`,
`Uncounted`), wakeups move sleeping threads only (`SignalMoves`, `BroadcastMoves`), and
then there is one step per action in `OwnerKeepsCount`, `SubmitKeepsCount` and
`WorkerKeepsCount`.

*Tasks of the pool.* `EachTaskOnce` is inductive next to `CountInv`: what a worker takes
leaves the queue (`TailDistinct`) and what is accepted was nowhere (`AppendDistinct`).
`SomeoneServesTheQueue` is not: a worker that is awake can go to sleep. `ServedInv`
strengthens it to what the signal keeps up, that while tasks are queued there is a
worker who will look at the queue, or none that sleeps; with at least one worker
that stays, by `CountInv`, somebody serves. `SomeoneWakesTheSubmitters` is inductive
next to `CountInv`, whose counters say that a queue without room has a task in it.

*The refinement.* `FateOf` computes a task's fate from the queue, the workers and the
calls; `FatesAgree` says that with each task in one place no two of its cases
apply, so that steps that leave these alone stutter (`SameFate`, `Stutter`) and the
others are those of `TaskQueue`. `Start` needs that at most `MaxThreads` run, which is
`ProgressIsBusy` with the counters.

*Memory.* `MemoryInv` is `WholePool` or `BrokenPool`, before and after an overrun. A
`realloc` in place splits (`ShrinkKeeps`) or overruns, and then always breaks
`ListIsSound` (`OverrunBreaks`): the block that it writes is larger than the pool. `WholePool` says
of the list what the calls need of it. `Laid`: blocks are in
address order, the first at 0, no one reaches into a later one or out of the pool.
That is more than `ListIsSound`, which compares neighbours only: an allocation finds its
header (`HeaderFound`) since no two blocks begin at one address (`Apart`). `OwnedBy`:
what callers hold is the payloads of the used blocks; the counting in
`AllocationsAreBlocks` follows by a bijection. `Tiles` and `Mixed` (no free neighbours)
hold until a block has been split in place; `Mixed` is what makes one block of a pool
in which nothing is used. A block that is taken is replaced by one or by two within
the same addresses (`SplitTakes`, `WholeTakes`); one that is given back is marked and
the list merged (`ReturnedAndMerged`), which a move by `infra_realloc` does after it has
taken another. `best fit` and `first fit` find a block if there is one (`BestFitFits`,
`FirstFitFits`). `MergedKeeps` is the lemma about `try_merge_blocks`, a pass over the list
of any length: `JoinedKeeps` shows that one more block keeps `Sound` what has been merged
so far. There is no induction in it: were there a place where the result is not
sound, there would be a first (`SmallestOfNats`, from the well-foundedness of `<`), and it
is neither the first of the list nor behind a sound one. The same argument shows that the
recursive functions `MergedFirst` and `Sums` are what their equations say
(`MergedFirstIs`, `SumsAre`). For `UsageIsExact`, `UsageInv` adds that blocks remember what
was asked for; the sum grows by the request where a block is taken (`TakenTotal`) and
does not change by merging, and requests that fit their blocks fit in the pool together
(`TotalFits`), so that neither addition nor subtraction wraps.

*Rinetd.* `RinetdInv` has a part for each kind of actor. While the service is stopped or
being started there is no listener under way other than one being set up, and no
session is active; every listener that has been started is behind a handle, so
that `stop_service` finds it. In a slot that was never given to two connections (`shared`
remembers the others) all threads belong to one connection; a thread that lives, of a
connection that is not over, has its session active or being closed; and a session's
connection is that of the threads that have the slot. `HasTaken` says what a
listener with a client in hand has at each of its places: the client's socket open, the server's
open from its creation until a failure has closed it, and no copying thread of the connection
but the forward one when the backward one is next. A step of the listener keeps it
(`OwnStepKeeps`), one of another listener does not touch it (`OthersKeepTaken`). From
this follows `NoLostSocket`, in all slots, and with the slots that are not shared
`SocketsOpenInUse`: the finding about the `active` flag is what happens in the others.

*Lifecycle.* `LifeInv` adds to the types what a flag promises: `LayerIsSound` and
`MemoryIsSound` tie mutexes and configuration to the flags and to the owner's place
whatever has failed, `ClientsAreSound` and `LoggersAreSound` tie a client's
check to both through the counts of resets and of log mutexes it remembers, and
`NothingIsStray` says what each mutex that lives is for. One lemma per action.

*Sockets.* `SocketsAreOwned` is inductive with `CallsAreSound`, which says for each place of a call
whose it can be, that it has its struct, that the socket which a connection is taken from has
an owner who leaves it alone (`ServerStands`), and that a call in `select` has
begun to connect. A call grows by `BeginKeeps` and `OpenedKeeps` and gives up by
`GivenUpKeeps`, since `GivesUp` says that with the struct its descriptor goes, if it has one
by then, and no other; the other steps keep what is there (`KeptKeeps`,
`QuietKeeps`). The strings are counted along (`SameStrings`, `MoreStrings`,
`LessStrings`). For `ConnectMeansConnected`, only a success leaves a blocking call with its
socket, and below `Bits` the descriptor watched is its own.

*Buffer.* `BufferInv` adds that the capacity is below half of the addresses, since
`infra_realloc` grants no more: then neither `size + size` nor the doubled capacity
wraps (`GrownIsEnough`), a failed reserve keeps what is there (`ReservedKeeps`), and
a write lands behind it (`WriteKeeps`). `Limits` is here that a caller writes less
than that half at a time.

*Peers.* `PeerInv`: the table reaches as far as `peer_count`, active slots have
descriptors of their own that are open for the connection of their id, and no
connection is without a slot unless forgotten.

*Hash table.* What is said of chains usually by induction along them is said by a
witness: `Chained` gives each entry a rank, no two the same, and says that a bucket points to its
entry of the lowest rank and each entry to the one of the next rank in its bucket. A new
entry gets a rank below all (`AddKeeps`); when one is unlinked the ranks of the others stay,
and the one in front now points to the next after the one removed (`RemoveKeeps`, with the cases of
a first entry and one behind `prev`). `WalkIsSound` says that the walk's `entry` is
what follows `prev`, and that an entry with the key has not been passed: so a walk that comes to the end
means that the key is not there (`EndMeansAbsent`). With `KeysOnce` and
`SizeCounts` these are `HashInv`. The walk stutters in the refinement, and the steps at its end are those
of `KeyValueMap` (`PutIsMapPut`, `AnswerIsMapGet`, `RemoveIsMapRemove`, `ClearIsMapClear`). There may be
infinitely many strings: only the stored ones are finite.

*List.* `ListLinksAgree` is inductive with the types. Both links of a node are a matter of its
place in `order` (`NodeAt`), a node is a neighbour of another exactly by its place, and a
removal moves the places behind it up by one (`RemoveAtPlace`).

*Tree.* That pointers make a tree is usually said by induction on the height, which is
out of the prover's reach, and so `IsTree` says it with a witness: `sub` gives for each node
the set of nodes at or below it, every node's set is the disjoint union of itself and of its
children's, and the root's is all there are. `Ordered` says with the same sets that what is
on a node's left is smaller and on its right larger. There are three ways to change the
pointers, each with two lemmas: a rotation changes the sets of two nodes
(`RotatedIsTree`, `RotatedIsOrdered`), a new node joins the sets of those above it
(`HungIsTree`, `HungIsOrdered`), and a node that leaves is taken out of every set
(`SplicedIsTree`, `SplicedIsOrdered`). The order is kept where the key is hung because
`OnWayDown` says of a descent that a key that is in the tree is at or below the node it
has come to, and that the way there is the only place for a new one; and where the
successor's key moves up because `OnWayToSuccessor` says that the nodes right of the key are
below the node the walk has come to or larger (`SuccessorIsReady`).

None of this needs colours. `RepairIsSound` and `ColorsAreSound` add what the repairs
need of them: outside of a repair no red node is the root or has a red parent; in
`fix_insert` only the node that it has come to may be the exception (`Spared`), so that a
red parent is not the root, the grandparent exists, and every pointer of a rotation does; in
`fix_delete` the tree is as it should be once the node it has come to is painted black
(`Painted`). This holds even in a tree that is no longer balanced, where the loop of
`fix_delete` may follow null pointers, which is `Crash`. `TreeInv` joins these; there is one
lemma per action (`HangKeeps`, `RaiseKeeps`, `FarRedKeeps`, ...), and under it the parts.
`TreeIsWellLinked` adds that the root is above every node. Were there a part of the
tree, closed towards parents, without the root, then a node of it with the smallest set of
nodes *not* below it would have a parent with a smaller one (`SmallestPart`, `UpToTheRoot`,
from the well-foundedness of strict inclusion on finite sets).

For the balance the witness is a function from nodes to black heights: `Heights` says
that a node's is its children's, plus one if it is black. `BalanceInv` is inductive next to
`TreeInv`: without a black leaf removed, the only child of a black node that
leaves is red, as the other side is empty and has height 0; so `fix_delete` has only to paint
it and never gets into its loop. Hanging a red node, pushing the blacks down and the
insertion's rotations give new heights to three nodes at most. `BlacksAreLevel` derives from it
what the run checks, that equally many black nodes are on the way from the root to every
end: were `blacks above + height` not the same everywhere, `UpToTheRoot` would give a node at which
it differs below one at which it does not.

The refinement needs neither colours nor balance: `ContentsFacts` says that `Contents` is what
the nodes in the tree hold, each key in at most one of them. `Update` and `Hang` are `Put`
(`UpdateIsPut`, `HangIsPut`), the two removals that unlink a node `Remove` (`SpliceIsRemove`), `Find` and
`Miss` are `Get` or the `Remove` of an absent key (`AnswerIsGet`), `Clear` is `Clear`, and all other
steps stutter, the rotations since they leave `key` and `value` alone (`RestIsStutter`). That the size is the
number of keys present is a bijection with the nodes (`AsManyKeys`).

*Multiplexer.* `MuxInv` adds that `infra_mux_create` has at each place exactly what it asked
for before (`PiecesAreCounted`), that a descriptor is registered under its own number, and
`BufferIsKept`: between `epoll_wait` and the copy each place of the buffer that the thread is going
to copy holds what the kernel meant for it, or what it has written meanwhile for another.

*Command line.* `MainInv` says what each phase has established: the options taken, the last
of which gives the level; the two commands registered; and for the end, which of five
reasons it had. `CommandIsAt` and `CommandIsThere` show that where `main` has come to
is where `Works` looks for the command, and `ExecutesKnown` that its handler succeeds for
help and `--status` only.

Only model-checked: liveness and what depends on ENABLED, which TLAPS does not do: that
accepted tasks run and calls of the pool return, and rinetd's `StopTerminates`. `TypeOK` of `MCDataStructures` and `TypesOK` of `MCInfra` only join the type invariants of
several modules into one to check; each of these is part of the inductive invariant of its module.
That the tree's calls end is stated nowhere: `crashed` is about a null pointer followed, not about a
loop without end.

## 5. Plan

Done, in this order: thread pool, memory pool, rinetd, data structures, the first
proofs; lifecycle with logging, sockets, multiplexer, buffers, peers, command line, and
the proofs of section 4, the tree's last. Every safety property that a passing run checks, those two joint
type invariants aside, is stated by a theorem. What could follow is listed below.

### Not modelled

- The allocator's way through libc for alignments other than the pool's, and the sizes
  near `SIZE_MAX` that wrap before they are compared.
- The log callback, which nothing in `src/` registers; it runs with the log mutex held.
- The bytes of `send`, `recv` and `sendto`, and the port that `bind` takes. Rinetd's copying
  threads stand for the streams.
- Files, clocks, random numbers and strings: a system or libc call each, without state
  here. `infra_file_open` is declared (`infra_platform.h:135`) and defined nowhere.
- `infra_error`: texts, and one expected error for the tests.
- `memkv`, `diskv`, `ppdb.h`: empty files, stubs and declarations without code.
- `../cosmo`: experiments with loading executables, not linked into the program.
