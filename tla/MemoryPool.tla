----------------------------- MODULE MemoryPool -----------------------------
(***************************************************************************)
(* The pool allocator of ppdb/src/internal/infra/infra_memory.c, used when *)
(* use_memory_pool is set: infra_malloc (and calloc), infra_free and       *)
(* infra_realloc.  Every call runs under the one mutex, so a call is one   *)
(* step; what can go wrong is a long sequence of calls.                    *)
(*                                                                         *)
(* The pool is a list of blocks in address order, whose head never         *)
(* changes.  A block is a header of Header bytes and the `size` bytes that *)
(* follow it; an allocation is named by the address the caller gets, which *)
(* is right behind the header.  Addresses count from the start of the      *)
(* pool.  size_t has the values 0 .. Word - 1 and wraps.                   *)
(*                                                                         *)
(* original_size of a free block is left as it is and is not read before   *)
(* the block is allocated again; the model keeps 0 there, and where the    *)
(* code then allocates without writing it, any value of Garbage shows.     *)
(***************************************************************************)
EXTENDS Naturals, Integers, Sequences, FiniteSets, SequencesExt

CONSTANTS
  PoolSize,   \* pool_initial_size
  Align,      \* pool_alignment
  Header,     \* sizeof(memory_block_t)
  Word,       \* 2^64 in the code
  Sizes,      \* the sizes callers ask for
  Garbage     \* values an original_size that was never written may have

\* infra_memory_init checks the pool's size and its alignment (219-227).  The
\* pool comes from malloc and starts at an aligned address; a header keeps its
\* payload aligned.  Sizes are small enough for a size_t.
ASSUME MemoryAssumption ==
  /\ Align \in Nat \ {0} /\ Header \in Nat \ {0} /\ Header % Align = 0
  /\ PoolSize \in Nat /\ PoolSize >= Header
  /\ Word \in Nat /\ 2 * (PoolSize + Header + Align) < Word
  /\ Sizes \subseteq 1 .. PoolSize
  /\ Garbage \subseteq 0 .. Word - 1

VARIABLES
  blocks,         \* the list that starts at pool.free_list
  used_size,      \* pool.used_size
  current_usage,  \* stats.current_usage
  live,           \* what callers hold: allocation |-> the size they asked for
  past            \* which branches of infra_realloc have ever been taken:
                  \* "shrink", "grow", and "overrun" where a split in place had
                  \* no room for its header

vars == <<blocks, used_size, current_usage, live, past>>

Aligned(n) == ((n + Align - 1) \div Align) * Align

Block(at, size, used, orig) ==
  [at |-> at, size |-> size, used |-> used, orig |-> orig]

EndOf(b) == b.at + Header + b.size

\* get_block_header of an allocation, as a position in the list.
HeaderOf(ptr) == CHOOSE i \in DOMAIN blocks : blocks[i].at = ptr - Header

Addresses == 0 .. Word - 1

TypeOK ==
  /\ blocks \in Seq([at : Addresses, size : Addresses, used : BOOLEAN, orig : Addresses])
  /\ used_size \in Addresses /\ current_usage \in Addresses
  /\ DOMAIN live \subseteq Addresses
  /\ \A p \in DOMAIN live : live[p] \in Sizes
  /\ past \subseteq {"shrink", "grow", "overrun"}

Init ==
  /\ blocks = <<Block(0, PoolSize - Header, FALSE, 0)>>
  /\ used_size = 0 /\ current_usage = 0
  /\ live = <<>>
  /\ past = {}

-----------------------------------------------------------------------------
(* Lists of blocks.                                                        *)

FreeFor(n) == {i \in DOMAIN blocks : ~blocks[i].used /\ blocks[i].size >= n}

\* Faulty: the smallest free block, large enough or not.
SmallestFree(n) ==
  CHOOSE i \in FreeFor(0) : \A j \in FreeFor(0) : blocks[i].size <= blocks[j].size

\* find_free_block: the smallest that is large enough, of equals the first.
BestFit(n) ==
  CHOOSE i \in FreeFor(n) :
    \A j \in FreeFor(n) :
      \/ blocks[i].size < blocks[j].size
      \/ blocks[i].size = blocks[j].size /\ i <= j

\* allocate_from_pool: the first that is large enough.
FirstFit(n) == CHOOSE i \in FreeFor(n) : \A j \in FreeFor(n) : i <= j

\* Faulty: the header of the block that disappears is forgotten.
JoinedShort(done, b) ==
  IF ~Last(done).used /\ ~b.used
    THEN [done EXCEPT ![Len(done)].size = (@ + b.size) % Word]
    ELSE Append(done, b)

\* A free block disappears into the free block before it.
Joined(done, b) ==
  IF ~Last(done).used /\ ~b.used
    THEN [done EXCEPT ![Len(done)].size = (@ + b.size + Header) % Word]
    ELSE Append(done, b)

\* What the first blocks of a list become, for each number of them.
MergedFirst(list) ==
  LET done[n \in DOMAIN list] ==
        IF n = 1 THEN <<list[1]>> ELSE Joined(done[n - 1], list[n])
  IN  done

\* try_merge_blocks: every run of free blocks becomes one block.
Merged(list) == MergedFirst(list)[Len(list)]

\* Faulty: the new header is not paid for.
RestWithoutHeader(b, need) == Block(b.at + Header + need, b.size - need, FALSE, 0)

\* What infra_malloc leaves of a free block after it has taken `need` bytes.
Rest(b, need) == Block(b.at + Header + need, b.size - need - Header, FALSE, 0)

\* Block i gives the first `size` bytes of its payload to `b`; the rest
\* becomes a free block with a header of its own.
Split(i, b, rest) ==
  SubSeq(blocks, 1, i - 1) \o <<b, rest>> \o SubSeq(blocks, i + 1, Len(blocks))

-----------------------------------------------------------------------------
(* infra_malloc: allocate_memory under the mutex.  A call that finds no    *)
(* block returns NULL and changes nothing.                                 *)

Malloc(size) ==
  LET need == Aligned(size + Align - 1)
      i == BestFit(need)
      b == blocks[i]
  IN  /\ FreeFor(need) # {}
      /\ IF b.size > need + Header + Header
           THEN blocks' = Split(i, Block(b.at, need, TRUE, size), Rest(b, need))
           ELSE blocks' = [blocks EXCEPT ![i] = Block(b.at, b.size, TRUE, size)]
      /\ used_size' = (used_size + need) % Word
      /\ current_usage' = (current_usage + size) % Word
      /\ live' = [p \in DOMAIN live \cup {b.at + Header} |->
                    IF p = b.at + Header THEN size ELSE live[p]]
      /\ UNCHANGED past

\* Faulty: the size of the block is subtracted, not the size asked for.
FreeWholeBlock(ptr) ==
  LET i == HeaderOf(ptr)
  IN  /\ blocks' = Merged([blocks EXCEPT ![i].used = FALSE, ![i].orig = 0])
      /\ used_size' = (used_size - blocks[i].size) % Word
      /\ current_usage' = (current_usage - blocks[i].size) % Word
      /\ live' = [p \in DOMAIN live \ {ptr} |-> live[p]]
      /\ UNCHANGED past

\* Faulty: current_usage does not wrap and falls below zero.
FreeSigned(ptr) ==
  LET i == HeaderOf(ptr)
  IN  /\ blocks' = Merged([blocks EXCEPT ![i].used = FALSE, ![i].orig = 0])
      /\ used_size' = (used_size - blocks[i].size) % Word
      /\ current_usage' = current_usage - blocks[i].orig
      /\ live' = [p \in DOMAIN live \ {ptr} |-> live[p]]
      /\ UNCHANGED past

\* Faulty: free blocks are left as they are.
FreeWithoutMerge(ptr) ==
  LET i == HeaderOf(ptr)
  IN  /\ blocks' = [blocks EXCEPT ![i].used = FALSE, ![i].orig = 0]
      /\ used_size' = (used_size - blocks[i].size) % Word
      /\ current_usage' = (current_usage - blocks[i].orig) % Word
      /\ live' = [p \in DOMAIN live \ {ptr} |-> live[p]]
      /\ UNCHANGED past

\* infra_free of an allocation the caller holds.
Free(ptr) ==
  LET i == HeaderOf(ptr)
  IN  /\ blocks' = Merged([blocks EXCEPT ![i].used = FALSE, ![i].orig = 0])
      /\ used_size' = (used_size - blocks[i].size) % Word
      /\ current_usage' = (current_usage - blocks[i].orig) % Word
      /\ live' = [p \in DOMAIN live \ {ptr} |-> live[p]]
      /\ UNCHANGED past

-----------------------------------------------------------------------------
(* infra_realloc of an allocation the caller holds.                        *)

\* split_block takes Header + need bytes off the block's size, in size_t.
Remaining(b, need) == (b.size - (Header + need)) % Word

\* The block is large enough: it is split in place and the pointer returned.
\* Without room for another header behind the part that is kept, `remaining`
\* wraps, and the new header is written over whatever follows the block.
ReallocInPlace(ptr, size) ==
  LET i == HeaderOf(ptr)
      b == blocks[i]
      need == Aligned(size)
      remaining == Remaining(b, need)
  IN  /\ need <= b.size
      /\ IF remaining >= Header
           THEN blocks' = Split(i, [b EXCEPT !.size = need],
                                Block((b.at + Header + need) % Word, remaining - Header, FALSE, 0))
           ELSE UNCHANGED blocks
      /\ used_size' = (used_size - Aligned(b.size) + need) % Word
      /\ current_usage' = (current_usage - Aligned(b.size) + need) % Word
      /\ live' = [live EXCEPT ![ptr] = size]
      /\ past' = past \cup IF Header + need > b.size THEN {"shrink", "overrun"} ELSE {"shrink"}

\* A larger block is taken with allocate_from_pool, the payload copied and
\* the old block released.  original_size of the new block is not written.
ReallocMoves(ptr, size) ==
  LET old == blocks[HeaderOf(ptr)]
      need == Aligned(Header + size)
      i == FirstFit(need)
      b == blocks[i]
  IN  /\ Aligned(size) > old.size
      /\ FreeFor(need) # {}
      /\ \E garbage \in Garbage :
           LET taken == IF b.size >= need + Header
                          THEN Split(i, Block(b.at, need - Header, TRUE, garbage),
                                     Block(b.at + need, b.size - need, FALSE, 0))
                          ELSE [blocks EXCEPT ![i].used = TRUE, ![i].orig = garbage]
           IN  blocks' = Merged([k \in DOMAIN taken |->
                                   IF taken[k].at = old.at
                                     THEN [taken[k] EXCEPT !.used = FALSE, !.orig = 0]
                                     ELSE taken[k]])
      /\ used_size' = (used_size + need - Aligned(old.size)) % Word
      /\ current_usage' = (current_usage + size - Aligned(old.size)) % Word
      /\ live' = [p \in (DOMAIN live \ {ptr}) \cup {b.at + Header} |->
                    IF p = b.at + Header THEN size ELSE live[p]]
      /\ past' = past \cup {"grow"}

-----------------------------------------------------------------------------
\* What the program does on a pool whose headers are overwritten is undefined:
\* the model shows the call that does it, and nothing after it.
Next ==
  /\ "overrun" \notin past
  /\ \/ \E size \in Sizes : Malloc(size)
     \/ \E ptr \in DOMAIN live : Free(ptr)
     \/ \E ptr \in DOMAIN live, size \in Sizes : ReallocInPlace(ptr, size) \/ ReallocMoves(ptr, size)

Spec == Init /\ [][Next]_vars

-----------------------------------------------------------------------------
\* The list can be walked: headers follow each other, none lies inside another
\* block, and the last block ends in the pool.  No sequence of calls should
\* change that; infra_realloc does (462-464, 56).
ListIsSound ==
  \A i \in DOMAIN blocks :
    EndOf(blocks[i]) <= IF i = Len(blocks) THEN PoolSize ELSE blocks[i + 1].at

\* The one call that breaks the pool is an infra_realloc that keeps a block with
\* no room for another header behind the part that is kept, and it always does:
\* until then, and no longer, every sequence of malloc, free and realloc leaves a
\* list that can be walked.
PoolIntact == ListIsSound <=> "overrun" \notin past

\* As long as no infra_realloc has overrun its block, no sequence of calls hands
\* out overlapping or too small memory: each allocation is the payload of a used
\* block of at least the size asked for, blocks do not overlap (PoolIntact), and
\* no used block is without an owner.
AllocationsAreBlocks ==
  "overrun" \notin past =>
    /\ \A p \in DOMAIN live :
         \E i \in DOMAIN blocks :
           blocks[i].at + Header = p /\ blocks[i].used /\ blocks[i].size >= live[p]
    /\ Cardinality({i \in DOMAIN blocks : blocks[i].used}) = Cardinality(DOMAIN live)

\* Splitting and merging lose no byte: the blocks tile the pool, unless
\* infra_realloc has split a block in place, which loses a header's worth or
\* overruns the block.
NothingLost ==
  "shrink" \notin past =>
    \A i \in DOMAIN blocks :
      EndOf(blocks[i]) = IF i = Len(blocks) THEN PoolSize ELSE blocks[i + 1].at

\* Free space is not left in pieces: when every allocation has been returned
\* the pool is one free block, as long as no infra_realloc has overrun its block;
\* and before that no two free blocks are neighbours, unless infra_realloc has
\* split a block in place.
FreeSpaceIsWhole ==
  /\ live = <<>> /\ "overrun" \notin past => Len(blocks) = 1
  /\ "shrink" \notin past =>
       \A i \in 1 .. Len(blocks) - 1 : blocks[i].used \/ blocks[i + 1].used

\* The sums of the first numbers of a sequence.
Sums(numbers) ==
  LET sum[n \in 0 .. Len(numbers)] == IF n = 0 THEN 0 ELSE sum[n - 1] + numbers[n]
  IN  sum

\* stats.current_usage is the sum of the sizes asked for, unless infra_realloc
\* has changed it by aligned sizes.
UsageIsExact ==
  past = {} =>
    LET asked == [i \in DOMAIN blocks |->
                    IF blocks[i].used THEN live[blocks[i].at + Header] ELSE 0]
    IN  current_usage = Sums(asked)[Len(asked)]
=============================================================================
