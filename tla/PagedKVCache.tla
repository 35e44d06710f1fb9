---------------------------- MODULE PagedKVCache ----------------------------
(***************************************************************************)
(* The paged KV-cache allocator, model/kv_cache.py.                        *)
(*                                                                         *)
(* Every sequence holds a block table; blocks are reference counted, full  *)
(* prompt blocks are indexed by content hash so that later prompts share   *)
(* them, and unreferenced hashed blocks stay populated until evicted.      *)
(*                                                                         *)
(* The allocator is called by one thread, so no call overlaps another;     *)
(* allocate() is nevertheless split into the iterations of its loop, since *)
(* each of them may hit the index, pop the free list or evict, and the     *)
(* capacity check is made once, before the first of them.                  *)
(*                                                                         *)
(* Abstractions: the free list is a set (which free block is popped, and   *)
(* which of several equally old blocks is evicted, is nondeterministic);   *)
(* the content hash of a block is the list of the chunks it was computed   *)
(* from, i.e. blake2b has no collisions; the statistics are left out.      *)
(***************************************************************************)
EXTENDS Integers, FiniteSets, Sequences, Functions

CONSTANTS
  Blocks,         (* the blocks of the pool                               *)
  SeqIds,         (* sequence ids the callers use                         *)
  Prompts,        (* token lists passed to allocate()                     *)
  BlockSize,      (* tokens per block                                     *)
  PrefixCaching,  (* enable_prefix_caching                                *)
  Reserves,       (* values of int(num_blocks * watermark)                *)
  MaxClock,       (* bound: allocations and appends in a behaviour        *)
  MaxRef          (* bound: references fork() may put on one block        *)

ASSUME BlocksAssumption    == IsFiniteSet(Blocks)
ASSUME SeqIdsAssumption    == IsFiniteSet(SeqIds)
ASSUME PromptsAssumption   == \A p \in Prompts : p \in Seq(Range(p))
ASSUME BlockSizeAssumption == BlockSize \in Nat \ {0}
ASSUME ReservesAssumption  == Reserves \subseteq Nat

VARIABLES
  ref,       (* ref_count of each block                                   *)
  fill,      (* num_tokens of each block                                  *)
  hash,      (* content_hash of each block, NoHash when it has none       *)
  lastUsed,  (* last_used of each block                                   *)
  free,      (* the blocks on _free                                       *)
  tables,    (* _tables, and the table allocate() is building             *)
  index,     (* _hash_index                                               *)
  clock,     (* _clock                                                    *)
  loading,   (* history: the sequence allocate() is working on, if any    *)
  leaked     (* history: a fork() has replaced the table of a live child  *)

vars == <<ref, fill, hash, lastUsed, free, tables, index, clock, loading, leaked>>

NoHash == << >>

(***************************************************************************)
(* Prompts in chunks of BlockSize tokens.                                  *)
(***************************************************************************)
MinOf(m, n) == IF m <= n THEN m ELSE n

Chunk(p, k) == SubSeq(p, (k - 1) * BlockSize + 1, MinOf(k * BlockSize, Len(p)))

IsFull(p, k) == k * BlockSize <= Len(p)

HashOfChunk(p, k) == <<Chunk(p, k)>>  (* mutant: the parent hash is not mixed in *)

HashOf(p, k) == [j \in 1..k |-> Chunk(p, j)]

(***************************************************************************)
(* Capacity.                                                               *)
(***************************************************************************)
Live == DOMAIN tables

BlocksOf(s) == Range(tables[s].blocks)

Users(b) == {s \in Live : b \in BlocksOf(s)}

Evictable == {b \in Blocks : ref[b] = 0 /\ hash[b] # NoHash}

Available == Cardinality(free) + Cardinality(Evictable)

FullBlocks(n) == n \div BlockSize  (* mutant: rounds down *)

BlocksNeeded(n) == (n + BlockSize - 1) \div BlockSize

CanAllocate(n, reserve) == Available - BlocksNeeded(n) >= reserve

(***************************************************************************)
(* _take_free_block: a free block, or else a least recently used evictable *)
(* one, which then leaves the hash index.                                  *)
(***************************************************************************)
LeastRecentlyUsed == {b \in Evictable : \A c \in Evictable : lastUsed[b] <= lastUsed[c]}

Takeable == IF free # {} THEN free ELSE LeastRecentlyUsed

IndexKept(b) == index  (* mutant: the evicted block stays in the index *)

IndexWithout(b) == Restrict(index, DOMAIN index \ {hash[b]})

-----------------------------------------------------------------------------
Init ==
  /\ ref = [b \in Blocks |-> 0]
  /\ fill = [b \in Blocks |-> 0]
  /\ hash = [b \in Blocks |-> NoHash]
  /\ lastUsed = [b \in Blocks |-> 0]
  /\ free = Blocks
  /\ tables = << >>
  /\ index = << >>
  /\ clock = 0
  /\ loading = {}
  /\ leaked = FALSE

Idle == loading = {}

(***************************************************************************)
(* allocate(): the checks, then one step per chunk, then the return.       *)
(***************************************************************************)
AllocateBegin(s, p, reserve) ==
  /\ Idle
  /\ clock < MaxClock
  /\ s \notin Live
  /\ CanAllocate(Len(p), reserve)
  /\ tables' = [t \in Live \cup {s} |->
                  IF t = s THEN [blocks |-> << >>, numTokens |-> 0, numCached |-> 0, prompt |-> p]
                           ELSE tables[t]]
  /\ loading' = {s}
  /\ UNCHANGED <<ref, fill, hash, lastUsed, free, index, clock, leaked>>

NextChunk(s) == Len(tables[s].blocks) + 1

ChunksLeft(s) == Len(tables[s].blocks) * BlockSize < Len(tables[s].prompt)

Cacheable(s) == PrefixCaching /\ IsFull(tables[s].prompt, NextChunk(s))

ChunkHash(s) == HashOf(tables[s].prompt, NextChunk(s))

Hit(s) == Cacheable(s) /\ ChunkHash(s) \in DOMAIN index

(* mutant: a hit claims the block instead of sharing it *)
AllocateHitClaims(s) ==
  /\ s \in loading /\ ChunksLeft(s) /\ Hit(s)
  /\ LET b == index[ChunkHash(s)] IN
       /\ ref' = [ref EXCEPT ![b] = 1]
       /\ lastUsed' = [lastUsed EXCEPT ![b] = clock]
       /\ tables' = [tables EXCEPT ![s].blocks = Append(@, b),
                                   ![s].numCached = @ + BlockSize]
  /\ UNCHANGED <<fill, hash, free, index, clock, loading, leaked>>

AllocateHit(s) ==
  /\ s \in loading /\ ChunksLeft(s) /\ Hit(s)
  /\ LET b == index[ChunkHash(s)] IN
       /\ ref' = [ref EXCEPT ![b] = @ + 1]
       /\ lastUsed' = [lastUsed EXCEPT ![b] = clock]
       /\ tables' = [tables EXCEPT ![s].blocks = Append(@, b),
                                   ![s].numCached = @ + BlockSize]
  /\ UNCHANGED <<fill, hash, free, index, clock, loading, leaked>>

AllocateMiss(s, b) ==
  /\ s \in loading /\ ChunksLeft(s) /\ ~Hit(s)
  /\ b \in Takeable
  /\ free' = free \ {b}
  /\ ref' = [ref EXCEPT ![b] = 1]
  /\ fill' = [fill EXCEPT ![b] = Len(Chunk(tables[s].prompt, NextChunk(s)))]
  /\ lastUsed' = [lastUsed EXCEPT ![b] = clock]
  /\ hash' = [hash EXCEPT ![b] = IF Cacheable(s) THEN ChunkHash(s) ELSE NoHash]
  /\ index' = [h \in DOMAIN IndexWithout(b) \cup (IF Cacheable(s) THEN {ChunkHash(s)} ELSE {}) |->
                 IF Cacheable(s) /\ h = ChunkHash(s) THEN b ELSE index[h]]
  /\ tables' = [tables EXCEPT ![s].blocks = Append(@, b)]
  /\ UNCHANGED <<clock, loading, leaked>>

AllocateEnd(s) ==
  /\ s \in loading /\ ~ChunksLeft(s)
  /\ tables' = [tables EXCEPT ![s].numTokens = Len(tables[s].prompt)]
  /\ clock' = clock + 1
  /\ loading' = {}
  /\ UNCHANGED <<ref, fill, hash, lastUsed, free, index, leaked>>

(***************************************************************************)
(* append_token(): into a new block, a private copy of a shared one, or    *)
(* the last block.  When no block can be had the call raises and leaves    *)
(* the allocator as it was.                                                *)
(***************************************************************************)
LastIndex(s) == Len(tables[s].blocks)

LastBlock(s) == tables[s].blocks[LastIndex(s)]

BoundaryNext(s) == (tables[s].numTokens + 1) % BlockSize = 0  (* mutant: off by one *)

AtBoundary(s) == tables[s].numTokens % BlockSize = 0

AppendToNewBlock(s, b) ==
  /\ Idle /\ s \in Live /\ clock < MaxClock
  /\ AtBoundary(s)
  /\ b \in Takeable
  /\ free' = free \ {b}
  /\ ref' = [ref EXCEPT ![b] = 1]
  /\ fill' = [fill EXCEPT ![b] = 1]
  /\ hash' = [hash EXCEPT ![b] = NoHash]
  /\ index' = IndexWithout(b)
  /\ lastUsed' = [lastUsed EXCEPT ![b] = clock]
  /\ tables' = [tables EXCEPT ![s].blocks = Append(@, b), ![s].numTokens = @ + 1]
  /\ clock' = clock + 1
  /\ UNCHANGED <<loading, leaked>>

AppendCopyOnWrite(s, b) ==
  /\ Idle /\ s \in Live /\ clock < MaxClock
  /\ ~AtBoundary(s) /\ ref[LastBlock(s)] > 1
  /\ b \in Takeable
  /\ free' = free \ {b}
  /\ ref' = [ref EXCEPT ![LastBlock(s)] = @ - 1, ![b] = 1]
  /\ fill' = [fill EXCEPT ![b] = fill[LastBlock(s)] + 1]
  /\ hash' = [hash EXCEPT ![b] = NoHash]
  /\ index' = IndexWithout(b)
  /\ lastUsed' = [lastUsed EXCEPT ![b] = clock]
  /\ tables' = [tables EXCEPT ![s].blocks = [@ EXCEPT ![LastIndex(s)] = b],
                              ![s].numTokens = @ + 1]
  /\ clock' = clock + 1
  /\ UNCHANGED <<loading, leaked>>

(* mutant: writes into a block whoever shares it *)
AppendWithoutCopy(s) ==
  /\ Idle /\ s \in Live /\ clock < MaxClock
  /\ ~AtBoundary(s)
  /\ fill' = [fill EXCEPT ![LastBlock(s)] = @ + 1]
  /\ lastUsed' = [lastUsed EXCEPT ![LastBlock(s)] = clock]
  /\ tables' = [tables EXCEPT ![s].numTokens = @ + 1]
  /\ clock' = clock + 1
  /\ UNCHANGED <<ref, hash, free, index, loading, leaked>>

AppendInPlace(s) ==
  /\ Idle /\ s \in Live /\ clock < MaxClock
  /\ ~AtBoundary(s) /\ ref[LastBlock(s)] <= 1
  /\ fill' = [fill EXCEPT ![LastBlock(s)] = @ + 1]
  /\ lastUsed' = [lastUsed EXCEPT ![LastBlock(s)] = clock]
  /\ tables' = [tables EXCEPT ![s].numTokens = @ + 1]
  /\ clock' = clock + 1
  /\ UNCHANGED <<ref, hash, free, index, loading, leaked>>

(***************************************************************************)
(* fork(): nothing checks that child is new; forking onto a live sequence  *)
(* drops its table without releasing the blocks.                           *)
(***************************************************************************)
Fork(parent, child) ==
  /\ Idle /\ parent \in Live
  /\ \A b \in BlocksOf(parent) : ref[b] < MaxRef
  /\ ref' = [b \in Blocks |-> IF b \in BlocksOf(parent) THEN ref[b] + 1 ELSE ref[b]]
  /\ tables' = [t \in Live \cup {child} |-> IF t = child THEN tables[parent] ELSE tables[t]]
  /\ leaked' = (leaked \/ child \in Live)
  /\ UNCHANGED <<fill, hash, lastUsed, free, index, clock, loading>>

(***************************************************************************)
(* free(): blocks nobody uses any more go back to the free list unless     *)
(* their content can still be hit.                                         *)
(***************************************************************************)
ReleasedCached(s) == {b \in BlocksOf(s) : ref[b] = 1}  (* mutant: cached blocks too *)

Released(s) == {b \in BlocksOf(s) : ref[b] = 1 /\ hash[b] = NoHash}

Free(s) ==
  /\ Idle /\ s \in Live
  /\ ref' = [b \in Blocks |-> IF b \in BlocksOf(s) THEN ref[b] - 1 ELSE ref[b]]
  /\ fill' = [b \in Blocks |-> IF b \in Released(s) THEN 0 ELSE fill[b]]
  /\ free' = free \cup Released(s)
  /\ tables' = Restrict(tables, Live \ {s})
  /\ UNCHANGED <<hash, lastUsed, index, clock, loading, leaked>>

(* reset() keeps the clock and the last_used stamps. *)
Reset ==
  /\ Idle
  /\ ref' = [b \in Blocks |-> 0]
  /\ fill' = [b \in Blocks |-> 0]
  /\ hash' = [b \in Blocks |-> NoHash]
  /\ free' = Blocks
  /\ tables' = << >>
  /\ index' = << >>
  /\ leaked' = FALSE
  /\ UNCHANGED <<lastUsed, clock, loading>>

-----------------------------------------------------------------------------
Allocate ==
  \E s \in SeqIds :
    \/ \E p \in Prompts, reserve \in Reserves : AllocateBegin(s, p, reserve)
    \/ AllocateHit(s)
    \/ \E b \in Blocks : AllocateMiss(s, b)
    \/ AllocateEnd(s)

AppendToken ==
  \E s \in SeqIds :
    \/ \E b \in Blocks : AppendToNewBlock(s, b) \/ AppendCopyOnWrite(s, b)
    \/ AppendInPlace(s)

Next ==
  \/ Allocate
  \/ AppendToken
  \/ \E s, t \in SeqIds : Fork(s, t)
  \/ \E s \in SeqIds : Free(s)
  \/ Reset

Spec == Init /\ [][Next]_vars

-----------------------------------------------------------------------------
(***************************************************************************)
(* Properties.                                                             *)
(***************************************************************************)
BlockTable ==
  [blocks : Seq(Blocks), numTokens : Nat, numCached : Nat, prompt : Prompts]

(* Types of every variable; a reference count never goes below zero, which *)
(* is the assertion in free() (kv_cache.py:287).                           *)
TypeOK ==
  /\ ref \in [Blocks -> Nat]
  /\ fill \in [Blocks -> Nat]
  /\ DOMAIN hash = Blocks
  /\ lastUsed \in [Blocks -> Nat]
  /\ free \subseteq Blocks
  /\ Live \subseteq SeqIds
  /\ \A s \in Live : tables[s] \in BlockTable
  /\ \A h \in DOMAIN index : index[h] \in Blocks
  /\ clock \in Nat
  /\ loading \subseteq Live
  /\ leaked \in BOOLEAN

(* A block table lists a block at most once.                               *)
NoBlockTwice ==
  \A s \in Live : \A i, j \in DOMAIN tables[s].blocks :
    tables[s].blocks[i] = tables[s].blocks[j] => i = j

(* A block is referenced at least once per table that lists it, so a block *)
(* in use is never taken for another sequence; and exactly once unless a   *)
(* fork() has replaced a live table, the only way to lose a reference.     *)
RefCounts ==
  \A b \in Blocks :
    /\ Cardinality(Users(b)) <= ref[b]
    /\ ~leaked => ref[b] = Cardinality(Users(b))

(* The free list is the unreferenced blocks without cached content, and    *)
(* they are empty: no block is lost between the free list and the index.   *)
FreeListExact ==
  /\ free = {b \in Blocks : ref[b] = 0 /\ hash[b] = NoHash}
  /\ \A b \in free : fill[b] = 0

(* The capacity reported to the scheduler (num_available_blocks) is every  *)
(* block that no live sequence lists: freeing everything frees the pool.   *)
CapacityExact ==
  ~leaked => Available = Cardinality(Blocks) - Cardinality(UNION {BlocksOf(s) : s \in Live})

(* The hash index and the content hashes of the blocks are each other's    *)
(* inverse: no stale entry survives an eviction or a reuse of its block.   *)
IndexExact ==
  /\ \A h \in DOMAIN index : h # NoHash /\ hash[index[h]] = h
  /\ \A b \in Blocks : hash[b] # NoHash => hash[b] \in DOMAIN index /\ index[hash[b]] = b

(* A block with cached content, at position i of a table, caches the first *)
(* i chunks of that sequence's own prompt: a hit or an eviction never puts *)
(* another sequence's prefix behind a table.                               *)
SharedContentIsOwn ==
  \A s \in Live : \A i \in DOMAIN tables[s].blocks :
    LET b == tables[s].blocks[i]
    IN  hash[b] # NoHash =>
          /\ IsFull(tables[s].prompt, i)
          /\ hash[b] = [j \in 1..i |-> Chunk(tables[s].prompt, j)]

(* physical_slots: the slots of all blocks but the last, which are full,   *)
(* and those filled in the last.                                           *)
SlotCount(s) ==
  IF LastIndex(s) = 0 THEN 0 ELSE (LastIndex(s) - 1) * BlockSize + fill[LastBlock(s)]

(* Every finished table addresses exactly num_tokens slots, all of them    *)
(* filled, whatever sharing, copying and eviction went on in between.      *)
SlotsExact ==
  \A s \in Live \ loading :
    /\ SlotCount(s) = tables[s].numTokens
    /\ \A i \in DOMAIN tables[s].blocks :
         /\ fill[tables[s].blocks[i]] \in 1..BlockSize
         /\ i < LastIndex(s) => fill[tables[s].blocks[i]] = BlockSize

(* allocate() checks capacity once, for the worst case, and then takes     *)
(* blocks that hits and evictions of its own loop compete for: it never    *)
(* runs out half way, which would lose the references already taken.       *)
AllocateNeverRunsOut ==
  \A s \in loading : ChunksLeft(s) /\ ~Hit(s) => Takeable # {}

(* What a block holds changes only for its single user: no step writes to, *)
(* evicts or re-labels a block that a sequence keeps and another one or    *)
(* the hash index shares with it.                                          *)
WritesArePrivate ==
  [][\A b \in Blocks :
       (fill'[b] # fill[b] \/ hash'[b] # hash[b]) =>
         LET kept == Users(b) \cap (Users(b))'
         IN  /\ Cardinality(kept) <= 1
             /\ kept # {} => hash[b] = NoHash /\ hash'[b] = NoHash]_vars

-----------------------------------------------------------------------------
(***************************************************************************)
(* The inductive invariant behind the safety properties.                   *)
(***************************************************************************)
(* Cached content is always a full block.                                  *)
HashedBlocksFull == \A b \in Blocks : hash[b] # NoHash => fill[b] = BlockSize

(* SharedContentIsOwn in terms of the hash function.                       *)
OwnHashes ==
  \A s \in Live : \A i \in DOMAIN tables[s].blocks :
    LET b == tables[s].blocks[i]
    IN  hash[b] # NoHash => IsFull(tables[s].prompt, i) /\ hash[b] = HashOf(tables[s].prompt, i)

(* How full the blocks of the table under construction are so far.         *)
PartlyBuilt(s) ==
  /\ LastIndex(s) = 0 \/ (LastIndex(s) - 1) * BlockSize < Len(tables[s].prompt)
  /\ \A i \in 1..LastIndex(s) :
       fill[tables[s].blocks[i]] =
         IF IsFull(tables[s].prompt, i) THEN BlockSize
                                        ELSE Len(tables[s].prompt) - (i - 1) * BlockSize

(* The capacity left covers the chunks left.                               *)
EnoughLeft(s) == LastIndex(s) + Available >= BlocksNeeded(Len(tables[s].prompt))

LoadingShape ==
  /\ \A s, t \in loading : s = t
  /\ \A s \in loading : PartlyBuilt(s) /\ EnoughLeft(s)

IInv ==
  /\ TypeOK
  /\ NoBlockTwice
  /\ RefCounts
  /\ FreeListExact
  /\ IndexExact
  /\ OwnHashes
  /\ HashedBlocksFull
  /\ SlotsExact
  /\ LoadingShape
=============================================================================
