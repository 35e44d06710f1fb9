--------------------------- MODULE KVCacheAsPool ---------------------------
(***************************************************************************)
(* PagedKVCache as the scheduler and the engine see it: called by          *)
(* allocate, append_token, free and reset (never by fork) for prompts of   *)
(* which no two that are live begin with the same full block, it           *)
(* implements BlockPool.  Blocks of finished sequences are still hit and   *)
(* evicted; a sequence enters the pool when its allocate() returns.        *)
(***************************************************************************)
EXTENDS PagedKVCache

ASSUME PoolAssumption == \E least \in Reserves : \A other \in Reserves : least <= other

SameFirstBlock(p, q) == IsFull(p, 1) /\ IsFull(q, 1) /\ Chunk(p, 1) = Chunk(q, 1)

Unshared(p) == \A s \in Live : ~SameFirstBlock(p, tables[s].prompt)

CallerNext ==
  \/ \E s \in SeqIds, p \in Prompts, reserve \in Reserves :
       Unshared(p) /\ AllocateBegin(s, p, reserve)
  \/ \E s \in loading : AllocateHit(s) \/ (\E b \in Blocks : AllocateMiss(s, b)) \/ AllocateEnd(s)
  \/ AppendToken
  \/ \E s \in SeqIds : Free(s)
  \/ Reset

CallerSpec == Init /\ [][CallerNext]_vars

(* A caller's own watermark may be above it; the pool promises the least   *)
LeastReserve == CHOOSE reserve \in Reserves : \A other \in Reserves : reserve <= other

Finished == Live \ loading

InUse == UNION {BlocksOf(s) : s \in Finished}

PoolTokens == [s \in Finished |-> tables[s].numTokens]

PoolAvailable == Cardinality(Blocks) - Cardinality(InUse)

Pool == INSTANCE BlockPool WITH
  Seqs <- SeqIds,
  NumBlocks <- Cardinality(Blocks),
  Reserve <- LeastReserve,
  MaxLength <- Cardinality(Blocks) * BlockSize,
  tokens <- PoolTokens,
  available <- PoolAvailable

(* The allocator is a plain pool of blocks to its callers: hits, evictions *)
(* and cached blocks that linger after a sequence is freed never take      *)
(* capacity from them, nor lend them any.                                  *)
ImplementsPool == Pool!Spec
=============================================================================
