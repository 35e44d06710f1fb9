------------------------- MODULE PagedKVCacheProofs -------------------------
(***************************************************************************)
(* Proofs about the allocator, for any pool, any prompts and any number of *)
(* sequences.  Every theorem is a consequence of the inductive invariant   *)
(* IInv; each of its steps is a lemma, one per action.  Called as the      *)
(* scheduler calls it, the allocator implements a plain pool of blocks:    *)
(* the refinement of KVCacheAsPool, at the end.                            *)
(***************************************************************************)
EXTENDS KVCacheAsPool, FiniteSetTheorems, SequenceTheorems, WellFoundedInduction, TLAPS

-----------------------------------------------------------------------------
(***************************************************************************)
(* Arithmetic of blocks and chunks.                                        *)
(***************************************************************************)
(* k full blocks and f tokens in another one end at a block boundary       *)
(* exactly when that one is full too.                                      *)
LEMMA BoundaryOffset ==
  ASSUME NEW B \in Nat \ {0}, NEW k \in Nat, NEW f \in 1..B
  PROVE  (k * B + f) % B = 0 <=> f = B
  OBVIOUS

(* The slots of the blocks before the last are counted by a number.        *)
LEMMA SlotsBefore ==
  ASSUME NEW n \in Nat, n # 0
  PROVE  (n - 1) * BlockSize \in Nat
  <1>1. PICK k \in Nat : k = n - 1
    OBVIOUS
  <1>2. k * BlockSize \in Nat
    BY BlockSizeAssumption
  <1>3. QED
    BY <1>1, <1>2

(* A set of one.                                                           *)
LEMMA OneElement ==
  ASSUME NEW x
  PROVE  Cardinality({x}) = 1
  BY FS_Singleton

(* More blocks hold more tokens.                                           *)
LEMMA FewerBlocksFewerTokens ==
  ASSUME NEW B \in Nat \ {0}, NEW i \in Nat, NEW k \in Nat, i <= k
  PROVE  i * B <= k * B
  OBVIOUS

(* blocks_needed counts every block whose first token exists.              *)
LEMMA NeededCovers ==
  ASSUME NEW B \in Nat \ {0}, NEW k \in Nat, NEW n \in Nat, k * B < n
  PROVE  k < (n + B - 1) \div B
  OBVIOUS

(* blocks_needed returns a number.                                         *)
LEMMA BlocksNeededType ==
  ASSUME NEW n \in Nat
  PROVE  BlocksNeeded(n) \in Int
  BY BlockSizeAssumption DEF BlocksNeeded

(* Every chunk has BlockSize tokens except a partial last one.             *)
LEMMA ChunkLength ==
  ASSUME NEW p \in Prompts, NEW k \in Nat \ {0}, (k - 1) * BlockSize < Len(p)
  PROVE  Len(Chunk(p, k)) = IF IsFull(p, k) THEN BlockSize ELSE Len(p) - (k - 1) * BlockSize
  <1> DEFINE lo == (k - 1) * BlockSize
             up == k * BlockSize
             hi == MinOf(up, Len(p))
  <1>1. p \in Seq(Range(p)) /\ Len(p) \in Nat
    BY PromptsAssumption
  <1>2. lo \in Nat /\ up \in Nat /\ up = lo + BlockSize
    BY BlockSizeAssumption
  <1>3. hi = (IF up <= Len(p) THEN up ELSE Len(p)) /\ lo < hi /\ hi <= Len(p) /\ hi \in Nat
    BY <1>1, <1>2, BlockSizeAssumption DEF MinOf
  <1>4. Chunk(p, k) = SubSeq(p, lo + 1, hi) /\ (IsFull(p, k) <=> up <= Len(p))
    BY DEF Chunk, IsFull
  <1> HIDE DEF lo, up, hi
  <1>5. Len(SubSeq(p, lo + 1, hi)) = hi - lo
    BY <1>1, <1>2, <1>3
  <1>6. Len(Chunk(p, k)) = IF IsFull(p, k) THEN BlockSize ELSE Len(p) - lo
    BY <1>2, <1>3, <1>4, <1>5, <1>1, BlockSizeAssumption
  <1>7. QED
    BY <1>6 DEF lo

(* The hash of a block determines its position in the prompt.              *)
LEMMA HashPosition ==
  ASSUME NEW p, NEW j \in Nat, NEW k \in Nat, HashOf(p, j) = HashOf(p, k)
  PROVE  j = k
  BY DEF HashOf

(* A content hash is never the absence of one.                             *)
LEMMA HashNotEmpty ==
  ASSUME NEW p, NEW k \in Nat \ {0}
  PROVE  HashOf(p, k) # NoHash
  <1>1. DOMAIN HashOf(p, k) = 1..k /\ 1 \in 1..k
    BY DEF HashOf
  <1>2. DOMAIN NoHash = {}
    BY DEF NoHash
  <1>3. QED
    BY <1>1, <1>2

-----------------------------------------------------------------------------
(***************************************************************************)
(* Counting.                                                               *)
(***************************************************************************)
(* Sets of sequences are finite and have a size.                           *)
LEMMA SetsOfIds ==
  ASSUME NEW U, U \subseteq SeqIds
  PROVE  IsFiniteSet(U) /\ Cardinality(U) \in Nat /\ (Cardinality(U) <= 0 <=> U = {})
  <1>1. IsFiniteSet(U)
    BY SeqIdsAssumption, FS_Subset
  <1>2. QED
    BY <1>1, FS_CardinalityType, FS_EmptySet

(* Sets of blocks are finite and have a size.                              *)
LEMMA SetsOfBlocks ==
  ASSUME NEW S, S \subseteq Blocks
  PROVE  IsFiniteSet(S) /\ Cardinality(S) \in Nat
  BY BlocksAssumption, FS_Subset, FS_CardinalityType

(* A block that another sequence starts to list has one user more at most. *)
LEMMA OneUserMore ==
  ASSUME NEW U, U \subseteq SeqIds, NEW s \in SeqIds
  PROVE  /\ Cardinality(U \cup {s}) <= Cardinality(U) + 1
         /\ s \notin U => Cardinality(U \cup {s}) = Cardinality(U) + 1
  BY SetsOfIds, FS_AddElement

(* A block that one of its users lets go has one user less.                *)
LEMMA OneUserLess ==
  ASSUME NEW U, U \subseteq SeqIds, NEW s \in U
  PROVE  Cardinality(U \ {s}) = Cardinality(U) - 1
  BY SetsOfIds, FS_RemoveElement

(* A block with at most one user has no two.                               *)
LEMMA TwoUsers ==
  ASSUME NEW U, U \subseteq SeqIds, Cardinality(U) <= 1, NEW s \in U, NEW t \in U
  PROVE  s = t
  <1>1. Cardinality(U \ {s}) <= 0
    BY SetsOfIds, OneUserLess
  <1>2. U \ {s} = {}
    BY <1>1, SetsOfIds
  <1>3. QED
    BY <1>2

(* Taking a block that is free or evictable costs one block of capacity.   *)
LEMMA OneBlockLess ==
  ASSUME NEW S, S \subseteq Blocks, NEW T, T \subseteq Blocks, NEW b, b \notin S \cap T
  PROVE  Cardinality(S \ {b}) + Cardinality(T \ {b}) >= Cardinality(S) + Cardinality(T) - 1
  <1>1. /\ Cardinality(S \ {b}) = IF b \in S THEN Cardinality(S) - 1 ELSE Cardinality(S)
        /\ Cardinality(T \ {b}) = IF b \in T THEN Cardinality(T) - 1 ELSE Cardinality(T)
    BY SetsOfBlocks, FS_RemoveElement
  <1>2. Cardinality(S) \in Nat /\ Cardinality(T) \in Nat
    BY SetsOfBlocks
  <1>3. QED
    BY <1>1, <1>2

-----------------------------------------------------------------------------
(***************************************************************************)
(* State facts.                                                            *)
(***************************************************************************)
(* What a block table of a live sequence is made of.                       *)
LEMMA TableType ==
  ASSUME TypeOK, NEW s \in Live
  PROVE  /\ s \in SeqIds
         /\ tables[s] \in BlockTable
         /\ tables[s].blocks \in Seq(Blocks)
         /\ LastIndex(s) \in Nat
         /\ DOMAIN tables[s].blocks = 1..LastIndex(s)
         /\ tables[s].prompt \in Prompts
         /\ Len(tables[s].prompt) \in Nat
         /\ BlocksOf(s) = {tables[s].blocks[i] : i \in 1..LastIndex(s)}
         /\ BlocksOf(s) \subseteq Blocks
  <1>1. s \in SeqIds /\ tables[s] \in BlockTable
    BY DEF TypeOK
  <1>2. tables[s].blocks \in Seq(Blocks) /\ tables[s].prompt \in Prompts
    BY <1>1 DEF BlockTable
  <1>3. Len(tables[s].prompt) \in Nat
    BY <1>2, PromptsAssumption
  <1>4. LastIndex(s) \in Nat /\ DOMAIN tables[s].blocks = 1..LastIndex(s)
    BY <1>2 DEF LastIndex
  <1>5. BlocksOf(s) = {tables[s].blocks[i] : i \in 1..LastIndex(s)}
    BY <1>4 DEF BlocksOf, Range
  <1>6. BlocksOf(s) \subseteq Blocks
    BY <1>2, <1>5 DEF LastIndex
  <1>7. QED
    BY <1>1, <1>2, <1>3, <1>4, <1>5, <1>6

(* A block the allocator hands out belongs to no sequence.                 *)
LEMMA TakeableUnused ==
  ASSUME IInv, NEW b \in Takeable
  PROVE  /\ b \in Blocks
         /\ ref[b] = 0
         /\ \A s \in Live : b \notin BlocksOf(s)
         /\ Users(b) = {}
         /\ b \notin free \cap Evictable
  <1>1. b \in Blocks /\ ref[b] = 0
    BY DEF IInv, TypeOK, Takeable, LeastRecentlyUsed, Evictable, FreeListExact
  <1>2. Users(b) \subseteq SeqIds
    BY DEF IInv, TypeOK, Users
  <1>3. Users(b) = {}
    BY <1>1, <1>2, SetsOfIds DEF IInv, RefCounts
  <1>4. \A s \in Live : b \notin BlocksOf(s)
    BY <1>3 DEF Users
  <1>5. QED
    BY <1>1, <1>3, <1>4 DEF IInv, FreeListExact, Evictable

(* Adding a block at the end of a table.                                   *)
LEMMA TableGrows ==
  ASSUME IInv, NEW s \in Live, NEW b \in Blocks, b \notin BlocksOf(s),
         Live' = Live,
         (tables')[s].blocks = Append(tables[s].blocks, b),
         \A t \in Live \ {s} : (tables')[t] = tables[t]
  PROVE  /\ BlocksOf(s)' = BlocksOf(s) \cup {b}
         /\ \A t \in Live \ {s} : BlocksOf(t)' = BlocksOf(t)
         /\ s \notin Users(b)
         /\ Users(b)' = Users(b) \cup {s}
         /\ \A c \in Blocks \ {b} : Users(c)' = Users(c)
         /\ NoBlockTwice'
         /\ LastIndex(s)' = LastIndex(s) + 1
         /\ \A i \in 1..LastIndex(s) : (tables')[s].blocks[i] = tables[s].blocks[i]
         /\ (tables')[s].blocks[LastIndex(s) + 1] = b
  <1> DEFINE q == tables[s].blocks
  <1>1. q \in Seq(Blocks) /\ DOMAIN q = 1..Len(q) /\ BlocksOf(s) = {q[i] : i \in 1..Len(q)}
    BY TableType DEF IInv, LastIndex
  <1>2. /\ DOMAIN (tables')[s].blocks = 1..(Len(q) + 1)
        /\ \A i \in 1..Len(q) : (tables')[s].blocks[i] = q[i]
        /\ (tables')[s].blocks[Len(q) + 1] = b
    BY <1>1
  <1>3. BlocksOf(s)' = {(tables')[s].blocks[i] : i \in 1..(Len(q) + 1)}
    BY <1>2 DEF BlocksOf, Range
  <1>4. BlocksOf(s)' = BlocksOf(s) \cup {b}
    <2>1. Len(q) \in Nat
      BY <1>1
    <2>2. 1..(Len(q) + 1) = 1..Len(q) \cup {Len(q) + 1}
      BY <2>1
    <2>3. QED
      BY <1>1, <1>2, <1>3, <2>1, <2>2
  <1>5. \A t \in Live \ {s} : BlocksOf(t)' = BlocksOf(t)
    BY DEF BlocksOf
  <1>6. s \notin Users(b) /\ Users(b)' = Users(b) \cup {s}
    BY <1>4, <1>5 DEF Users
  <1>7. \A c \in Blocks \ {b} : Users(c)' = Users(c)
    BY <1>4, <1>5 DEF Users
  <1>8. NoBlockTwice'
    <2> SUFFICES ASSUME NEW t \in Live, NEW i \in DOMAIN (tables')[t].blocks,
                        NEW j \in DOMAIN (tables')[t].blocks,
                        (tables')[t].blocks[i] = (tables')[t].blocks[j]
                 PROVE  i = j
      BY DEF NoBlockTwice
    <2>1. CASE t = s
      <3>1. Len(q) \in Nat /\ i \in 1..(Len(q) + 1) /\ j \in 1..(Len(q) + 1)
        <4>1. Len(q) \in Nat
          BY <1>1
        <4>2. DOMAIN (tables')[t].blocks = 1..(Len(q) + 1)
          BY <2>1, <1>2
        <4>3. QED
          BY <4>1, <4>2
      <3>2. ASSUME i \in 1..Len(q), j \in 1..Len(q)  PROVE i = j
        <4>1. q[i] = q[j]
          BY <2>1, <1>2, <3>2
        <4>2. QED
          BY <3>2, <4>1, <1>1 DEF IInv, NoBlockTwice
      <3>3. ASSUME NEW k \in 1..Len(q)  PROVE (tables')[s].blocks[k] # b
        BY <3>3, <1>1, <1>2
      <3>4. (tables')[s].blocks[i] = (tables')[s].blocks[j]
        BY <2>1
      <3>5. i \in 1..Len(q) \/ i = Len(q) + 1
        BY <3>1
      <3>6. j \in 1..Len(q) \/ j = Len(q) + 1
        BY <3>1
      <3>7. (tables')[s].blocks[Len(q) + 1] = b
        BY <1>2
      <3> HIDE DEF q
      <3>8. QED
        BY <3>2, <3>3, <3>4, <3>5, <3>6, <3>7
    <2>2. CASE t # s
      BY <2>2 DEF IInv, NoBlockTwice
    <2>3. QED
      BY <2>1, <2>2
  <1>9. LastIndex(s) = Len(q) /\ LastIndex(s)' = LastIndex(s) + 1
    BY <1>1 DEF LastIndex
  <1>10. QED
    BY <1>2, <1>4, <1>5, <1>6, <1>7, <1>8, <1>9

(* What _take_free_block and the caller's re-labelling of the block do to   *)
(* the pool: the block gets content hash h, new to the index, or none.      *)
LEMMA BlockTaken ==
  ASSUME IInv, NEW b \in Takeable, NEW h,
         h = NoHash \/ (h \notin DOMAIN index /\ (fill')[b] = BlockSize),
         (ref')[b] = 1,
         \A c \in Blocks \ {b} : (ref')[c] = 0 <=> ref[c] = 0,
         \A c \in Blocks : (hash')[c] = IF c = b THEN h ELSE hash[c],
         \A c \in Blocks \ {b} : (fill')[c] = fill[c],
         free' = free \ {b},
         DOMAIN index' = (DOMAIN index \ {hash[b]}) \cup {g \in {h} : g # NoHash},
         \A g \in DOMAIN index \ {hash[b]} : g # h => (index')[g] = index[g],
         h # NoHash => (index')[h] = b
  PROVE  /\ FreeListExact' /\ IndexExact' /\ HashedBlocksFull'
         /\ Available \in Int /\ Available' \in Int /\ Available' >= Available - 1
  <1>1. b \in Blocks /\ ref[b] = 0 /\ b \notin free \cap Evictable
    BY TakeableUnused
  <1>2. FreeListExact'
    BY <1>1 DEF IInv, FreeListExact
  <1>3. ASSUME NEW g \in DOMAIN index'
        PROVE  g # NoHash /\ (hash')[(index')[g]] = g
    <2>1. CASE g = h
      BY <2>1, <1>1, <1>3 DEF IInv, IndexExact
    <2>2. CASE g # h
      <3>1. g \in DOMAIN index /\ g # hash[b] /\ (index')[g] = index[g]
        BY <2>2, <1>3
      <3>2. g # NoHash /\ hash[index[g]] = g /\ index[g] \in Blocks
        BY <3>1 DEF IInv, TypeOK, IndexExact
      <3>3. QED
        BY <3>1, <3>2
    <2>3. QED
      BY <2>1, <2>2
  <1>4. ASSUME NEW c \in Blocks, (hash')[c] # NoHash
        PROVE  (hash')[c] \in DOMAIN index' /\ (index')[(hash')[c]] = c
    <2>1. CASE c = b
      BY <2>1, <1>4
    <2>2. CASE c # b
      <3>1. hash[c] # NoHash /\ hash[c] \in DOMAIN index /\ index[hash[c]] = c
        BY <2>2, <1>4 DEF IInv, IndexExact
      <3>2. hash[c] # hash[b] /\ hash[c] # h
        BY <2>2, <3>1, <1>1 DEF IInv, IndexExact
      <3>3. QED
        BY <2>2, <3>1, <3>2
    <2>3. QED
      BY <2>1, <2>2
  <1>5. IndexExact'
    BY <1>3, <1>4 DEF IndexExact
  <1>6. HashedBlocksFull'
    BY <1>1 DEF IInv, HashedBlocksFull
  <1>7. Evictable' = Evictable \ {b}
    BY <1>1 DEF Evictable
  <1>8. Available \in Int /\ Available' \in Int /\ Available' >= Available - 1
    <2>1. free \subseteq Blocks /\ Evictable \subseteq Blocks
      BY DEF IInv, TypeOK, Evictable
    <2>2. free' \subseteq Blocks /\ Evictable' \subseteq Blocks
      BY <2>1, <1>7
    <2>3. QED
      BY <2>1, <2>2, <1>1, <1>7, OneBlockLess, SetsOfBlocks DEF Available
  <1>9. QED
    BY <1>2, <1>5, <1>6, <1>8

(* A block with one reference has one user.                                *)
LEMMA SingleUser ==
  ASSUME IInv, NEW b \in Blocks, ref[b] <= 1, NEW s \in Users(b), NEW t \in Users(b)
  PROVE  s = t
  <1>1. Users(b) \subseteq SeqIds
    BY DEF IInv, TypeOK, Users
  <1>2. Cardinality(Users(b)) <= 1
    BY <1>1, SetsOfIds DEF IInv, RefCounts, TypeOK
  <1>3. QED
    BY <1>1, <1>2, TwoUsers

(* A block in a table is referenced, and it is not free.                   *)
LEMMA ListedIsReferenced ==
  ASSUME IInv, NEW s \in Live, NEW b \in BlocksOf(s)
  PROVE  b \in Blocks /\ s \in Users(b) /\ ref[b] \in Nat /\ ref[b] >= 1
  <1>1. b \in Blocks /\ s \in Users(b)
    BY TableType DEF IInv, Users
  <1>2. Users(b) \subseteq SeqIds
    BY DEF IInv, TypeOK, Users
  <1>3. ~(Cardinality(Users(b)) <= 0) /\ Cardinality(Users(b)) \in Nat
    BY <1>1, <1>2, SetsOfIds
  <1>4. Cardinality(Users(b)) <= ref[b] /\ ref[b] \in Nat
    BY <1>1 DEF IInv, RefCounts, TypeOK
  <1>5. QED
    BY <1>1, <1>3, <1>4

(* The tables of finished sequences, in the terms append_token reasons in. *)
LEMMA FinishedTable ==
  ASSUME IInv, NEW s \in Live \ loading
  PROVE  /\ LastIndex(s) \in Nat /\ tables[s].numTokens \in Nat
         /\ LastIndex(s) = 0 => tables[s].numTokens = 0
         /\ LastIndex(s) # 0 =>
              /\ LastIndex(s) \in 1..LastIndex(s)
              /\ LastBlock(s) \in BlocksOf(s)
              /\ fill[LastBlock(s)] \in 1..BlockSize
              /\ tables[s].numTokens = (LastIndex(s) - 1) * BlockSize + fill[LastBlock(s)]
         /\ AtBoundary(s) <=> (LastIndex(s) = 0 \/ fill[LastBlock(s)] = BlockSize)
  <1>1. LastIndex(s) \in Nat /\ tables[s].numTokens \in Nat
    BY TableType DEF IInv, BlockTable
  <1>2. SlotCount(s) = tables[s].numTokens
    BY DEF IInv, SlotsExact
  <1>3. LastIndex(s) = 0 => tables[s].numTokens = 0
    BY <1>2 DEF SlotCount
  <1>4. ASSUME LastIndex(s) # 0
        PROVE  /\ LastIndex(s) \in 1..LastIndex(s)
               /\ LastBlock(s) \in BlocksOf(s)
               /\ fill[LastBlock(s)] \in 1..BlockSize
               /\ tables[s].numTokens = (LastIndex(s) - 1) * BlockSize + fill[LastBlock(s)]
    <2>1. LastIndex(s) \in 1..LastIndex(s)
      BY <1>1, <1>4
    <2>2. LastBlock(s) \in BlocksOf(s) /\ fill[LastBlock(s)] \in 1..BlockSize
      BY <2>1, TableType DEF IInv, LastBlock, SlotsExact
    <2>3. QED
      BY <1>2, <1>4, <2>1, <2>2 DEF SlotCount
  <1>5. CASE LastIndex(s) = 0
    <2>1. AtBoundary(s)
      BY <1>3, <1>5, BlockSizeAssumption DEF AtBoundary
    <2>2. QED
      BY <1>1, <1>3, <1>5, <2>1
  <1>6. CASE LastIndex(s) # 0
    <2>1. LastIndex(s) - 1 \in Nat
      BY <1>1, <1>6
    <2>2. AtBoundary(s) <=> fill[LastBlock(s)] = BlockSize
      BY <1>4, <1>6, <2>1, BoundaryOffset, BlockSizeAssumption DEF AtBoundary
    <2>3. QED
      BY <1>1, <1>4, <1>6, <2>2
  <1>7. QED
    BY <1>5, <1>6

-----------------------------------------------------------------------------
(***************************************************************************)
(* The steps of allocate().                                                *)
(***************************************************************************)
(* Sharing a cached block preserves the invariant.                         *)
LEMMA AllocateHitStep ==
  ASSUME IInv, NEW s \in SeqIds, AllocateHit(s)
  PROVE  IInv'
  <1> DEFINE p == tables[s].prompt
             n == LastIndex(s)
  <1>1. s \in Live /\ s \in loading
    BY DEF IInv, TypeOK, AllocateHit
  <1>2. n \in Nat /\ NextChunk(s) = n + 1 /\ p \in Prompts /\ Len(p) \in Nat
    BY <1>1, TableType DEF IInv, NextChunk, LastIndex
  <1> PICK b \in Blocks : b = index[ChunkHash(s)]
    BY <1>2 DEF AllocateHit, Hit, IInv, TypeOK
  <1>3. /\ hash[b] = HashOf(p, n + 1) /\ hash[b] # NoHash
        /\ IsFull(p, n + 1)
        /\ fill[b] = BlockSize
    BY <1>2 DEF AllocateHit, Hit, Cacheable, ChunkHash, IInv, TypeOK, IndexExact, HashedBlocksFull
  <1>4. b \notin BlocksOf(s)
    <2> SUFFICES ASSUME NEW i \in 1..n, tables[s].blocks[i] = b  PROVE FALSE
      BY <1>1, TableType DEF IInv
    <2>1. hash[b] = HashOf(p, i)
      BY <1>1, <1>3, TableType DEF IInv, OwnHashes
    <2>2. QED
      BY <1>2, <1>3, <2>1, HashPosition
  <1>5. /\ Live' = Live
        /\ (tables')[s] = [tables[s] EXCEPT !.blocks = Append(@, b), !.numCached = @ + BlockSize]
        /\ \A t \in Live \ {s} : (tables')[t] = tables[t]
    BY <1>1 DEF AllocateHit, Live
  <1>6. /\ (tables')[s].blocks = Append(tables[s].blocks, b)
        /\ (tables')[s].prompt = p
        /\ (tables')[s].numTokens = tables[s].numTokens
        /\ (tables')[s].numCached = tables[s].numCached + BlockSize
    BY <1>1, <1>5, TableType DEF IInv, BlockTable
  <1>7. /\ BlocksOf(s)' = BlocksOf(s) \cup {b}
        /\ \A t \in Live \ {s} : BlocksOf(t)' = BlocksOf(t)
        /\ s \notin Users(b)
        /\ Users(b)' = Users(b) \cup {s}
        /\ \A c \in Blocks \ {b} : Users(c)' = Users(c)
        /\ NoBlockTwice'
        /\ LastIndex(s)' = n + 1
        /\ \A i \in 1..n : (tables')[s].blocks[i] = tables[s].blocks[i]
        /\ (tables')[s].blocks[n + 1] = b
    <2>1. s \in Live /\ b \in Blocks /\ b \notin BlocksOf(s) /\ Live' = Live
      BY <1>1, <1>3, <1>4, <1>5
    <2>2. (tables')[s].blocks = Append(tables[s].blocks, b)
      BY <1>6
    <2>3. \A t \in Live \ {s} : (tables')[t] = tables[t]
      BY <1>5
    <2>4. QED
      BY <2>1, <2>2, <2>3, TableGrows
  <1>8. /\ ref' = [ref EXCEPT ![b] = @ + 1]
        /\ lastUsed' = [lastUsed EXCEPT ![b] = clock]
        /\ UNCHANGED <<fill, hash, free, index, clock, loading, leaked>>
    BY DEF AllocateHit
  <1>9. TypeOK'
    <2>1. (tables')[s] \in BlockTable
      <3>1. Append(tables[s].blocks, b) \in Seq(Blocks)
        BY <1>1, <1>3, TableType DEF IInv
      <3>2. tables[s] \in BlockTable /\ tables[s].numCached + BlockSize \in Nat
        BY <1>1, TableType, BlockSizeAssumption DEF IInv, BlockTable
      <3>3. QED
        BY <1>5, <3>1, <3>2 DEF BlockTable
    <2>2. \A t \in Live' : (tables')[t] \in BlockTable
      BY <1>5, <2>1 DEF IInv, TypeOK
    <2>3. QED
      BY <1>3, <1>5, <1>8, <2>2 DEF IInv, TypeOK
  <1>10. RefCounts'
    <2>1. Users(b) \subseteq SeqIds
      BY DEF IInv, TypeOK, Users
    <2>2. /\ Cardinality(Users(b)') = Cardinality(Users(b)) + 1
          /\ (ref')[b] = ref[b] + 1
      BY <1>3, <1>7, <1>8, <2>1, OneUserMore DEF IInv, TypeOK
    <2>3. \A c \in Blocks \ {b} : (ref')[c] = ref[c] /\ Cardinality(Users(c)') = Cardinality(Users(c))
      BY <1>7, <1>8 DEF IInv, TypeOK
    <2>4. Cardinality(Users(b)) \in Nat /\ ref[b] \in Nat
      BY <1>3, <2>1, SetsOfIds DEF IInv, TypeOK
    <2> SUFFICES ASSUME NEW c \in Blocks
                 PROVE  /\ Cardinality(Users(c)') <= (ref')[c]
                        /\ ~leaked => (ref')[c] = Cardinality(Users(c)')
      BY <1>8 DEF RefCounts
    <2>5. /\ Cardinality(Users(c)) <= ref[c]
          /\ ~leaked => ref[c] = Cardinality(Users(c))
      BY DEF IInv, RefCounts
    <2>6. QED
      BY <2>2, <2>3, <2>4, <2>5
  <1>11. FreeListExact'
    <2>1. (ref')[b] # 0
      BY <1>3, <1>8 DEF IInv, TypeOK
    <2>2. QED
      BY <1>3, <1>8, <2>1 DEF IInv, TypeOK, FreeListExact
  <1>12. IndexExact' /\ HashedBlocksFull'
    BY <1>8 DEF IInv, IndexExact, HashedBlocksFull
  <1>13. OwnHashes'
    <2> SUFFICES ASSUME NEW t \in Live, NEW i \in DOMAIN (tables')[t].blocks,
                        hash[(tables')[t].blocks[i]] # NoHash
                 PROVE  /\ IsFull((tables')[t].prompt, i)
                        /\ hash[(tables')[t].blocks[i]] = HashOf((tables')[t].prompt, i)
      BY <1>5, <1>8 DEF OwnHashes
    <2>1. CASE t # s
      BY <2>1, <1>5 DEF IInv, OwnHashes
    <2>2. CASE t = s /\ i \in 1..n
      BY <2>2, <1>1, <1>6, <1>7, TableType DEF IInv, OwnHashes
    <2>3. CASE t = s /\ i = n + 1
      BY <2>3, <1>3, <1>6, <1>7
    <2>4. t = s => i \in 1..(n + 1)
      BY <1>1, <1>6, <1>2, TableType DEF IInv, LastIndex
    <2>5. QED
      BY <2>1, <2>2, <2>3, <2>4, <1>2
  <1>14. SlotsExact'
    BY <1>1, <1>5, <1>8 DEF IInv, SlotsExact, SlotCount, LastIndex, LastBlock
  <1>15. LoadingShape'
    <2>1. n * BlockSize < Len(p)
      BY DEF AllocateHit, ChunksLeft, LastIndex
    <2>2. \A i \in 1..(n + 1) :
            fill[(tables')[s].blocks[i]] = IF IsFull(p, i) THEN BlockSize
                                           ELSE Len(p) - (i - 1) * BlockSize
      BY <1>1, <1>2, <1>3, <1>7 DEF IInv, LoadingShape, PartlyBuilt, EnoughLeft
    <2>3. Evictable' = Evictable \ {b}
      BY <1>3, <1>8 DEF IInv, TypeOK, Evictable
    <2>4. free' = free \ {b} /\ b \notin free \cap Evictable
      BY <1>3, <1>8 DEF IInv, FreeListExact
    <2>5. Available' >= Available - 1 /\ Available \in Nat /\ Available' \in Nat
      BY <2>3, <2>4, OneBlockLess, SetsOfBlocks DEF Available, IInv, TypeOK, Evictable
    <2>6. n + Available >= BlocksNeeded(Len(p)) /\ BlocksNeeded(Len(p)) \in Int
      BY <1>1, <1>2, BlocksNeededType DEF IInv, LoadingShape, PartlyBuilt, EnoughLeft
    <2>7. n + 1 + Available' >= BlocksNeeded(Len(p))
      BY <1>2, <2>5, <2>6
    <2>8. loading' = loading /\ \A t \in loading : t = s
      BY <1>1, <1>8 DEF IInv, LoadingShape, PartlyBuilt, EnoughLeft
    <2>9. /\ LastIndex(s)' = n + 1 /\ (tables')[s].prompt = p /\ fill' = fill
          /\ (n + 1) - 1 = n
      BY <1>2, <1>6, <1>7, <1>8
    <2>10. EnoughLeft(s)'
      BY <2>7, <2>9 DEF EnoughLeft, BlocksNeeded
    <2>11. PartlyBuilt(s)'
      BY <2>1, <2>2, <2>9 DEF PartlyBuilt, IsFull
    <2>12. QED
      BY <2>8, <2>10, <2>11 DEF LoadingShape
  <1>16. QED
    BY <1>7, <1>9, <1>10, <1>11, <1>12, <1>13, <1>14, <1>15 DEF IInv

(* Taking a block for a chunk preserves the invariant.                     *)
LEMMA AllocateMissStep ==
  ASSUME IInv, NEW s \in SeqIds, NEW b \in Blocks, AllocateMiss(s, b)
  PROVE  IInv'
  <1> DEFINE p == tables[s].prompt
             n == LastIndex(s)
  <1> PICK h : h = IF Cacheable(s) THEN ChunkHash(s) ELSE NoHash
    OBVIOUS
  <1>1. s \in Live /\ s \in loading /\ b \in Takeable
    BY DEF IInv, TypeOK, AllocateMiss
  <1>2. n \in Nat /\ NextChunk(s) = n + 1 /\ p \in Prompts /\ Len(p) \in Nat
    BY <1>1, TableType DEF IInv, NextChunk, LastIndex
  <1>3. /\ ref[b] = 0 /\ Users(b) = {} /\ b \notin BlocksOf(s)
        /\ \A t \in Live : b \notin BlocksOf(t)
    BY <1>1, TakeableUnused
  <1>4. /\ Live' = Live
        /\ (tables')[s] = [tables[s] EXCEPT !.blocks = Append(@, b)]
        /\ \A t \in Live \ {s} : (tables')[t] = tables[t]
    BY <1>1 DEF AllocateMiss, Live
  <1>5. /\ (tables')[s].blocks = Append(tables[s].blocks, b)
        /\ (tables')[s].prompt = p
    BY <1>1, <1>4, TableType DEF IInv, BlockTable
  <1>6. /\ BlocksOf(s)' = BlocksOf(s) \cup {b}
        /\ \A t \in Live \ {s} : BlocksOf(t)' = BlocksOf(t)
        /\ Users(b)' = Users(b) \cup {s}
        /\ \A c \in Blocks \ {b} : Users(c)' = Users(c)
        /\ NoBlockTwice'
        /\ LastIndex(s)' = n + 1
        /\ \A i \in 1..n : (tables')[s].blocks[i] = tables[s].blocks[i]
        /\ (tables')[s].blocks[n + 1] = b
    <2>1. s \in Live /\ b \in Blocks /\ b \notin BlocksOf(s) /\ Live' = Live
      BY <1>1, <1>3, <1>4
    <2>2. \A t \in Live \ {s} : (tables')[t] = tables[t]
      BY <1>4
    <2>3. QED
      BY <2>1, <2>2, <1>5, TableGrows
  <1>7. /\ free' = free \ {b}
        /\ ref' = [ref EXCEPT ![b] = 1]
        /\ fill' = [fill EXCEPT ![b] = Len(Chunk(p, n + 1))]
        /\ lastUsed' = [lastUsed EXCEPT ![b] = clock]
        /\ hash' = [hash EXCEPT ![b] = h]
        /\ UNCHANGED <<clock, loading, leaked>>
    BY <1>2 DEF AllocateMiss
  <1>8. n * BlockSize < Len(p)
    BY DEF AllocateMiss, ChunksLeft, LastIndex
  <1>9. /\ (fill')[b] = IF IsFull(p, n + 1) THEN BlockSize ELSE Len(p) - n * BlockSize
        /\ (fill')[b] \in Nat
    <2>1. (fill')[b] = Len(Chunk(p, n + 1))
      BY <1>7 DEF IInv, TypeOK
    <2>2. n + 1 \in Nat \ {0} /\ (n + 1) - 1 = n
      BY <1>2
    <2>3. (fill')[b] = IF IsFull(p, n + 1) THEN BlockSize ELSE Len(p) - n * BlockSize
      BY <1>2, <1>8, <2>1, <2>2, ChunkLength
    <2>4. n * BlockSize \in Nat
      BY <1>2, BlockSizeAssumption
    <2>5. QED
      BY <2>3, <2>4, <1>2, <1>8, BlockSizeAssumption
  <1>10. \/ h = NoHash
         \/ h \notin DOMAIN index /\ IsFull(p, n + 1) /\ h = HashOf(p, n + 1)
    BY <1>2 DEF AllocateMiss, Hit, Cacheable, ChunkHash
  <1>11. /\ DOMAIN index' = (DOMAIN index \ {hash[b]}) \cup {g \in {h} : g # NoHash}
         /\ \A g \in DOMAIN index \ {hash[b]} : g # h => (index')[g] = index[g]
         /\ h # NoHash => (index')[h] = b
    <2>1. Cacheable(s) => ChunkHash(s) # NoHash
      BY <1>2, HashNotEmpty DEF ChunkHash
    <2>2. DOMAIN IndexWithout(b) = DOMAIN index \ {hash[b]}
      BY DEF IndexWithout, Restrict
    <2>3. CASE Cacheable(s)
      BY <2>1, <2>2, <2>3 DEF AllocateMiss
    <2>4. CASE ~Cacheable(s)
      BY <2>2, <2>4 DEF AllocateMiss
    <2>5. QED
      BY <2>3, <2>4
  <1>12. \A c \in Blocks : /\ (hash')[c] = IF c = b THEN h ELSE hash[c]
                           /\ c # b => (fill')[c] = fill[c]
                           /\ (ref')[c] = IF c = b THEN 1 ELSE ref[c]
    BY <1>7 DEF IInv, TypeOK
  <1>13. /\ FreeListExact' /\ IndexExact' /\ HashedBlocksFull'
         /\ Available \in Int /\ Available' \in Int /\ Available' >= Available - 1
    <2>1. h = NoHash \/ (h \notin DOMAIN index /\ (fill')[b] = BlockSize)
      BY <1>9, <1>10
    <2>2. free' = free \ {b}
      BY <1>7
    <2>3. QED
      BY <1>1, <1>11, <1>12, <2>1, <2>2, BlockTaken
  <1>14. TypeOK'
    <2>1. Append(tables[s].blocks, b) \in Seq(Blocks)
      BY <1>1, TableType DEF IInv
    <2>2. tables[s] \in BlockTable
      BY <1>1, TableType DEF IInv
    <2>3. (tables')[s] \in BlockTable
      BY <1>4, <2>1, <2>2 DEF BlockTable
    <2>4. \A t \in Live' : (tables')[t] \in BlockTable
      BY <1>4, <2>3 DEF IInv, TypeOK
    <2>5. ref' \in [Blocks -> Nat] /\ lastUsed' \in [Blocks -> Nat] /\ DOMAIN hash' = Blocks
      BY <1>7 DEF IInv, TypeOK
    <2>6. fill' \in [Blocks -> Nat]
      BY <1>7, <1>9 DEF IInv, TypeOK
    <2>7. \A g \in DOMAIN index' : (index')[g] \in Blocks
      <3> SUFFICES ASSUME NEW g \in DOMAIN index'  PROVE (index')[g] \in Blocks
        OBVIOUS
      <3>1. CASE g = h
        BY <3>1, <1>11 DEF IInv, IndexExact
      <3>2. CASE g # h
        BY <3>2, <1>11 DEF IInv, TypeOK
      <3>3. QED
        BY <3>1, <3>2
    <2>8. QED
      BY <1>4, <1>7, <2>4, <2>5, <2>6, <2>7 DEF IInv, TypeOK
  <1>15. RefCounts'
    <2> SUFFICES ASSUME NEW c \in Blocks
                 PROVE  /\ Cardinality(Users(c)') <= (ref')[c]
                        /\ ~leaked => (ref')[c] = Cardinality(Users(c)')
      BY <1>7 DEF RefCounts
    <2>1. CASE c = b
      <3>1. Cardinality(Users(c)') = 1
        <4>1. Users(c)' = {s}
          BY <2>1, <1>3, <1>6
        <4>2. QED
          BY <4>1, OneElement
      <3>2. QED
        BY <2>1, <3>1, <1>12
    <2>2. CASE c # b
      <3>1. Users(c)' = Users(c) /\ (ref')[c] = ref[c]
        BY <2>2, <1>6, <1>12
      <3>2. QED
        BY <3>1 DEF IInv, RefCounts
    <2>3. QED
      BY <2>1, <2>2
  <1>16. OwnHashes'
    <2> SUFFICES ASSUME NEW t \in Live, NEW i \in DOMAIN (tables')[t].blocks,
                        (hash')[(tables')[t].blocks[i]] # NoHash
                 PROVE  /\ IsFull((tables')[t].prompt, i)
                        /\ (hash')[(tables')[t].blocks[i]] = HashOf((tables')[t].prompt, i)
      BY <1>4 DEF OwnHashes
    <2>1. \A u \in Live : \A j \in DOMAIN tables[u].blocks :
            /\ tables[u].blocks[j] \in Blocks
            /\ (hash')[tables[u].blocks[j]] = hash[tables[u].blocks[j]]
      BY <1>3, <1>12, TableType DEF IInv
    <2>2. CASE t # s
      BY <2>1, <2>2, <1>4 DEF IInv, OwnHashes
    <2>3. CASE t = s /\ i \in 1..n
      <3>1. i \in DOMAIN tables[s].blocks /\ (tables')[s].blocks[i] = tables[s].blocks[i]
        BY <2>3, <1>1, <1>6, TableType DEF IInv
      <3>2. (hash')[tables[s].blocks[i]] = hash[tables[s].blocks[i]]
        BY <3>1, <2>1, <1>1
      <3>3. IsFull(p, i) /\ hash[tables[s].blocks[i]] = HashOf(p, i)
        BY <2>3, <3>1, <3>2, <1>1 DEF IInv, OwnHashes
      <3>4. QED
        BY <2>3, <3>1, <3>2, <3>3, <1>5
    <2>4. CASE t = s /\ i = n + 1
      BY <2>4, <1>5, <1>6, <1>10, <1>12
    <2>5. t = s => i \in 1..(n + 1)
      BY <1>1, <1>5, <1>2, TableType DEF IInv, LastIndex
    <2>6. QED
      BY <2>2, <2>3, <2>4, <2>5, <1>2
  <1>17. SlotsExact'
    <2>1. \A u \in Live \ loading : (tables')[u] = tables[u]
      BY <1>1, <1>4
    <2>2. \A u \in Live \ loading : \A j \in 1..LastIndex(u) :
            (fill')[tables[u].blocks[j]] = fill[tables[u].blocks[j]]
      BY <1>3, <1>12, TableType DEF IInv
    <2> SUFFICES ASSUME NEW u \in Live \ loading
                 PROVE  /\ SlotCount(u)' = (tables')[u].numTokens
                        /\ \A i \in DOMAIN (tables')[u].blocks :
                             /\ (fill')[(tables')[u].blocks[i]] \in 1..BlockSize
                             /\ i < LastIndex(u)' => (fill')[(tables')[u].blocks[i]] = BlockSize
      BY <1>4, <1>7 DEF SlotsExact
    <2>3. LastIndex(u)' = LastIndex(u) /\ LastIndex(u) \in Nat /\ DOMAIN tables[u].blocks = 1..LastIndex(u)
      BY <2>1, TableType DEF IInv, LastIndex
    <2>4. SlotCount(u)' = SlotCount(u)
      BY <2>1, <2>2, <2>3 DEF SlotCount, LastBlock
    <2>5. QED
      BY <2>1, <2>2, <2>3, <2>4 DEF IInv, SlotsExact
  <1>18. LoadingShape'
    <2>1. \A i \in 1..n : (fill')[tables[s].blocks[i]] = fill[tables[s].blocks[i]]
      BY <1>1, <1>3, <1>12, TableType DEF IInv
    <2>2. \A i \in 1..n : fill[tables[s].blocks[i]] = IF IsFull(p, i) THEN BlockSize
                                                      ELSE Len(p) - (i - 1) * BlockSize
      BY <1>1 DEF IInv, LoadingShape, PartlyBuilt
    <2>3. \A i \in 1..(n + 1) :
            (fill')[(tables')[s].blocks[i]] = IF IsFull(p, i) THEN BlockSize
                                              ELSE Len(p) - (i - 1) * BlockSize
      <3> SUFFICES ASSUME NEW i \in 1..(n + 1)
                   PROVE  (fill')[(tables')[s].blocks[i]] = IF IsFull(p, i) THEN BlockSize
                                                            ELSE Len(p) - (i - 1) * BlockSize
        OBVIOUS
      <3>1. CASE i \in 1..n
        BY <3>1, <2>1, <2>2, <1>6
      <3>2. CASE i = n + 1
        <4>1. i - 1 = n
          BY <3>2, <1>2
        <4>2. QED
          BY <3>2, <4>1, <1>6, <1>9
      <3>3. QED
        BY <3>1, <3>2, <1>2
    <2>4. n + Available >= BlocksNeeded(Len(p)) /\ BlocksNeeded(Len(p)) \in Int
      BY <1>1, <1>2, BlocksNeededType DEF IInv, LoadingShape, EnoughLeft
    <2>5. n + 1 + Available' >= BlocksNeeded(Len(p))
      BY <1>2, <1>13, <2>4
    <2>6. loading' = loading /\ \A t, u \in loading : t = u
      BY <1>7 DEF IInv, LoadingShape
    <2>7. LastIndex(s)' = n + 1 /\ (tables')[s].prompt = p /\ (n + 1) - 1 = n
      BY <1>2, <1>5, <1>6
    <2>8. EnoughLeft(s)'
      BY <2>5, <2>7 DEF EnoughLeft, BlocksNeeded
    <2>9. PartlyBuilt(s)'
      BY <1>8, <2>3, <2>7 DEF PartlyBuilt, IsFull
    <2>10. QED
      BY <1>1, <2>6, <2>8, <2>9 DEF LoadingShape
  <1>19. QED
    BY <1>6, <1>13, <1>14, <1>15, <1>16, <1>17, <1>18 DEF IInv

(* Starting an empty table preserves the invariant.                        *)
LEMMA AllocateBeginStep ==
  ASSUME IInv, NEW s \in SeqIds, NEW p \in Prompts, NEW reserve \in Reserves,
         AllocateBegin(s, p, reserve)
  PROVE  IInv'
  <1>1. /\ s \notin Live /\ Live' = Live \cup {s} /\ loading = {} /\ loading' = {s}
        /\ (tables')[s] = [blocks |-> << >>, numTokens |-> 0, numCached |-> 0, prompt |-> p]
        /\ \A t \in Live : (tables')[t] = tables[t]
        /\ UNCHANGED <<ref, fill, hash, lastUsed, free, index, clock, leaked>>
    BY DEF AllocateBegin, Idle, Live
  <1>2. /\ (tables')[s].blocks = << >> /\ (tables')[s].prompt = p
        /\ LastIndex(s)' = 0 /\ BlocksOf(s)' = {}
        /\ \A t \in Live : BlocksOf(t)' = BlocksOf(t)
    BY <1>1 DEF LastIndex, BlocksOf, Range
  <1>3. \A b : Users(b)' = Users(b)
    BY <1>1, <1>2 DEF Users
  <1>4. TypeOK'
    <2>1. (tables')[s] \in BlockTable
      BY <1>1 DEF BlockTable
    <2>2. QED
      BY <1>1, <2>1 DEF IInv, TypeOK
  <1>5. NoBlockTwice' /\ OwnHashes'
    BY <1>1, <1>2 DEF IInv, NoBlockTwice, OwnHashes
  <1>6. RefCounts'
    BY <1>1, <1>3 DEF IInv, RefCounts
  <1>7. FreeListExact' /\ IndexExact' /\ HashedBlocksFull'
    BY <1>1 DEF IInv, FreeListExact, IndexExact, HashedBlocksFull
  <1>8. SlotsExact'
    <2>1. \A t \in Live' \ loading' : t \in Live \ loading
      BY <1>1
    <2>2. \A t \in Live \ loading : SlotCount(t)' = SlotCount(t) /\ LastIndex(t)' = LastIndex(t)
      BY <1>1 DEF SlotCount, LastIndex, LastBlock
    <2>3. QED
      BY <1>1, <2>1, <2>2 DEF IInv, SlotsExact
  <1>9. LoadingShape'
    <2>1. Available' = Available
      BY <1>1 DEF Available, Evictable
    <2>2. Available - BlocksNeeded(Len(p)) >= reserve /\ reserve \in Nat
      BY ReservesAssumption DEF AllocateBegin, CanAllocate
    <2>3. Available \in Int /\ BlocksNeeded(Len(p)) \in Int
      <3>1. free \subseteq Blocks /\ Evictable \subseteq Blocks
        BY DEF IInv, TypeOK, Evictable
      <3>2. Len(p) \in Nat
        BY PromptsAssumption
      <3>3. QED
        BY <3>1, <3>2, SetsOfBlocks, BlocksNeededType DEF Available
    <2>4. 0 + Available >= BlocksNeeded(Len(p))
      BY <2>2, <2>3
    <2>5. EnoughLeft(s)'
      BY <1>2, <2>1, <2>4 DEF EnoughLeft, BlocksNeeded
    <2>6. PartlyBuilt(s)'
      BY <1>2 DEF PartlyBuilt
    <2>7. QED
      BY <1>1, <2>5, <2>6 DEF LoadingShape
  <1>10. QED
    BY <1>4, <1>5, <1>6, <1>7, <1>8, <1>9 DEF IInv

(* Finishing a table preserves the invariant.                              *)
LEMMA AllocateEndStep ==
  ASSUME IInv, NEW s \in SeqIds, AllocateEnd(s)
  PROVE  IInv'
  <1> DEFINE p == tables[s].prompt
             n == LastIndex(s)
             q == tables[s].blocks
  <1>1. s \in Live /\ s \in loading /\ loading' = {}
    BY DEF AllocateEnd, IInv, TypeOK
  <1>2. /\ n \in Nat /\ Len(p) \in Nat
        /\ DOMAIN q = 1..n
        /\ \A i \in 1..n : q[i] \in Blocks /\ fill[q[i]] \in Nat
    BY <1>1, TableType DEF IInv, TypeOK
  <1>3. /\ Live' = Live
        /\ (tables')[s] = [tables[s] EXCEPT !.numTokens = Len(p)]
        /\ \A t \in Live \ {s} : (tables')[t] = tables[t]
        /\ UNCHANGED <<ref, fill, hash, lastUsed, free, index, leaked>>
    BY <1>1 DEF AllocateEnd, Live
  <1>4. (tables')[s].blocks = q /\ (tables')[s].prompt = p /\ (tables')[s].numTokens = Len(p)
    BY <1>1, <1>3, TableType DEF IInv, BlockTable
  <1>5. \A t \in Live : (tables')[t].blocks = tables[t].blocks /\ (tables')[t].prompt = tables[t].prompt
    BY <1>3, <1>4
  <1>6. \A b : Users(b)' = Users(b)
    BY <1>3, <1>5 DEF Users, BlocksOf
  <1>7. TypeOK'
    <2>1. (tables')[s] \in BlockTable
      BY <1>1, <1>2, <1>3, TableType DEF IInv, BlockTable
    <2>2. \A t \in Live' : (tables')[t] \in BlockTable
      BY <1>3, <2>1 DEF IInv, TypeOK
    <2>3. clock' \in Nat
      BY DEF AllocateEnd, IInv, TypeOK
    <2>4. QED
      BY <1>1, <1>3, <2>2, <2>3 DEF IInv, TypeOK
  <1>8. NoBlockTwice' /\ OwnHashes'
    BY <1>3, <1>5 DEF IInv, NoBlockTwice, OwnHashes
  <1>9. RefCounts'
    BY <1>3, <1>6 DEF IInv, RefCounts
  <1>10. FreeListExact' /\ IndexExact' /\ HashedBlocksFull'
    BY <1>3 DEF IInv, FreeListExact, IndexExact, HashedBlocksFull
  <1>11. SlotsExact'
    <2> SUFFICES ASSUME NEW t \in Live
                 PROVE  /\ SlotCount(t)' = (tables')[t].numTokens
                        /\ \A i \in DOMAIN tables[t].blocks :
                             /\ fill[tables[t].blocks[i]] \in 1..BlockSize
                             /\ i < LastIndex(t)' => fill[tables[t].blocks[i]] = BlockSize
      BY <1>1, <1>3, <1>5 DEF SlotsExact
    <2>1. LastIndex(t)' = LastIndex(t) /\ SlotCount(t)' = SlotCount(t)
      BY <1>3, <1>5 DEF SlotCount, LastIndex, LastBlock
    <2>2. CASE t # s
      <3>1. t \notin loading
        BY <1>1, <2>2 DEF IInv, LoadingShape
      <3>2. QED
        BY <2>1, <2>2, <3>1, <1>3 DEF IInv, SlotsExact
    <2>3. CASE t = s
      <3>1. /\ n = 0 \/ (n - 1) * BlockSize < Len(p)
            /\ \A i \in 1..n : fill[q[i]] = IF i * BlockSize <= Len(p) THEN BlockSize
                                            ELSE Len(p) - (i - 1) * BlockSize
        BY <1>1 DEF IInv, LoadingShape, PartlyBuilt, IsFull
      <3>2. Len(p) <= n * BlockSize
        BY <1>2, BlockSizeAssumption DEF AllocateEnd, ChunksLeft, LastIndex
      <3>3. ASSUME n = 0
            PROVE  Len(p) = 0
        BY <1>2, <3>2, <3>3, BlockSizeAssumption
      <3>4. ASSUME NEW i \in 1..n, i < n
            PROVE  fill[q[i]] = BlockSize
        <4>1. i * BlockSize <= (n - 1) * BlockSize
          <5>1. i \in Nat /\ n - 1 \in Nat /\ i <= n - 1
            BY <1>2, <3>4
          <5>2. QED
            BY <5>1, FewerBlocksFewerTokens, BlockSizeAssumption
        <4>2. i * BlockSize <= Len(p)
          BY <4>1, <3>1, <3>4, <1>2, BlockSizeAssumption
        <4>3. QED
          BY <3>1, <4>2
      <3>5. ASSUME n # 0
            PROVE  (n - 1) * BlockSize + fill[q[n]] = Len(p) /\ fill[q[n]] \in 1..BlockSize
        <4>1. n \in 1..n /\ n * BlockSize = (n - 1) * BlockSize + BlockSize
          BY <1>2, <3>5, BlockSizeAssumption
        <4>2. PICK m \in Nat : m = (n - 1) * BlockSize
          BY <1>2, <3>5, BlockSizeAssumption
        <4>3. n * BlockSize = m + BlockSize /\ m < Len(p) /\ Len(p) <= m + BlockSize
          BY <3>1, <3>2, <3>5, <4>1, <4>2
        <4>4. fill[q[n]] = IF m + BlockSize <= Len(p) THEN BlockSize ELSE Len(p) - m
          BY <3>1, <4>1, <4>2, <4>3
        <4>5. m + fill[q[n]] = Len(p) /\ fill[q[n]] \in 1..BlockSize
          <5>1. Len(p) \in Nat
            BY <1>2
          <5>2. Len(p) - m \in Int /\ Len(p) - m >= 1 /\ Len(p) - m <= BlockSize
            BY <4>3, <5>1, BlockSizeAssumption
          <5>3. fill[q[n]] = Len(p) - m
            BY <4>3, <4>4, <5>1, BlockSizeAssumption
          <5>4. QED
            BY <5>1, <5>2, <5>3, BlockSizeAssumption
        <4>6. QED
          BY <4>2, <4>5
      <3>6. ASSUME NEW i \in 1..n
            PROVE  fill[q[i]] \in 1..BlockSize
        <4>1. i < n \/ (i = n /\ n # 0)
          BY <1>2
        <4>2. QED
          BY <3>4, <3>5, <4>1, BlockSizeAssumption
      <3>7. SlotCount(s) = Len(p)
        BY <3>3, <3>5 DEF SlotCount, LastBlock
      <3>8. QED
        BY <2>1, <2>3, <3>4, <3>6, <3>7, <1>2, <1>4
    <2>4. QED
      BY <2>2, <2>3
  <1>12. LoadingShape'
    BY <1>1 DEF LoadingShape
  <1>13. QED
    BY <1>7, <1>8, <1>9, <1>10, <1>11, <1>12 DEF IInv

-----------------------------------------------------------------------------
(***************************************************************************)
(* The steps of append_token().                                            *)
(***************************************************************************)
(* A table that a step leaves alone, together with its blocks, stays as    *)
(* good as it was.                                                         *)
LEMMA UntouchedTable ==
  ASSUME IInv, NEW t \in Live \ loading, (tables')[t] = tables[t],
         \A c \in BlocksOf(t) : (fill')[c] = fill[c]
  PROVE  /\ SlotCount(t)' = (tables')[t].numTokens
         /\ \A i \in DOMAIN (tables')[t].blocks :
              /\ (fill')[(tables')[t].blocks[i]] \in 1..BlockSize
              /\ i < LastIndex(t)' => (fill')[(tables')[t].blocks[i]] = BlockSize
  <1>1. /\ LastIndex(t) \in Nat /\ LastIndex(t)' = LastIndex(t)
        /\ DOMAIN tables[t].blocks = 1..LastIndex(t)
        /\ \A i \in 1..LastIndex(t) : tables[t].blocks[i] \in BlocksOf(t)
    BY TableType DEF IInv, LastIndex
  <1>2. SlotCount(t)' = SlotCount(t)
    BY <1>1 DEF SlotCount, LastBlock
  <1>3. QED
    BY <1>1, <1>2 DEF IInv, SlotsExact

(* Starting a new block preserves the invariant.                           *)
LEMMA AppendToNewBlockStep ==
  ASSUME IInv, NEW s \in SeqIds, NEW b \in Blocks, AppendToNewBlock(s, b)
  PROVE  IInv'
  <1> DEFINE n == LastIndex(s)
  <1>1. s \in Live /\ loading = {} /\ b \in Takeable
    BY DEF AppendToNewBlock, Idle
  <1>2. /\ ref[b] = 0 /\ Users(b) = {} /\ \A t \in Live : b \notin BlocksOf(t)
    BY <1>1, TakeableUnused
  <1>3. /\ Live' = Live
        /\ (tables')[s] = [tables[s] EXCEPT !.blocks = Append(@, b), !.numTokens = @ + 1]
        /\ \A t \in Live \ {s} : (tables')[t] = tables[t]
    BY <1>1 DEF AppendToNewBlock, Live
  <1>4. /\ (tables')[s].blocks = Append(tables[s].blocks, b)
        /\ (tables')[s].prompt = tables[s].prompt
        /\ (tables')[s].numTokens = tables[s].numTokens + 1
    BY <1>1, <1>3, TableType DEF IInv, BlockTable
  <1>5. /\ BlocksOf(s)' = BlocksOf(s) \cup {b}
        /\ \A t \in Live \ {s} : BlocksOf(t)' = BlocksOf(t)
        /\ Users(b)' = Users(b) \cup {s}
        /\ \A c \in Blocks \ {b} : Users(c)' = Users(c)
        /\ NoBlockTwice'
        /\ LastIndex(s)' = n + 1
        /\ \A i \in 1..n : (tables')[s].blocks[i] = tables[s].blocks[i]
        /\ (tables')[s].blocks[n + 1] = b
    <2>1. s \in Live /\ b \in Blocks /\ b \notin BlocksOf(s) /\ Live' = Live
      BY <1>1, <1>2, <1>3
    <2>2. \A t \in Live \ {s} : (tables')[t] = tables[t]
      BY <1>3
    <2>3. QED
      BY <2>1, <2>2, <1>4, TableGrows
  <1>6. /\ free' = free \ {b}
        /\ ref' = [ref EXCEPT ![b] = 1]
        /\ fill' = [fill EXCEPT ![b] = 1]
        /\ lastUsed' = [lastUsed EXCEPT ![b] = clock]
        /\ hash' = [hash EXCEPT ![b] = NoHash]
        /\ index' = IndexWithout(b)
        /\ clock' = clock + 1
        /\ UNCHANGED <<loading, leaked>>
    BY DEF AppendToNewBlock
  <1>7. \A c \in Blocks : /\ (hash')[c] = IF c = b THEN NoHash ELSE hash[c]
                          /\ (fill')[c] = IF c = b THEN 1 ELSE fill[c]
                          /\ (ref')[c] = IF c = b THEN 1 ELSE ref[c]
    BY <1>6 DEF IInv, TypeOK
  <1>8. /\ DOMAIN index' = DOMAIN index \ {hash[b]}
        /\ \A g \in DOMAIN index \ {hash[b]} : (index')[g] = index[g]
    BY <1>6 DEF IndexWithout, Restrict
  <1>9. FreeListExact' /\ IndexExact' /\ HashedBlocksFull'
    <2>1. DOMAIN index' = (DOMAIN index \ {hash[b]}) \cup {g \in {NoHash} : g # NoHash}
      BY <1>8
    <2>2. free' = free \ {b}
      BY <1>6
    <2>3. QED
      BY <1>1, <1>7, <1>8, <2>1, <2>2, BlockTaken
  <1>10. TypeOK'
    <2>1. Append(tables[s].blocks, b) \in Seq(Blocks) /\ tables[s] \in BlockTable
      BY <1>1, TableType DEF IInv
    <2>2. (tables')[s] \in BlockTable
      <3>1. tables[s].numTokens + 1 \in Nat
        BY <2>1 DEF BlockTable
      <3>2. QED
        BY <1>3, <2>1, <3>1 DEF BlockTable
    <2>3. \A t \in Live' : (tables')[t] \in BlockTable
      BY <1>3, <2>2 DEF IInv, TypeOK
    <2>4. /\ ref' \in [Blocks -> Nat] /\ lastUsed' \in [Blocks -> Nat]
          /\ fill' \in [Blocks -> Nat] /\ DOMAIN hash' = Blocks
      BY <1>6 DEF IInv, TypeOK
    <2>5. QED
      BY <1>3, <1>6, <1>8, <2>3, <2>4 DEF IInv, TypeOK
  <1>11. RefCounts'
    <2> SUFFICES ASSUME NEW c \in Blocks
                 PROVE  /\ Cardinality(Users(c)') <= (ref')[c]
                        /\ ~leaked => (ref')[c] = Cardinality(Users(c)')
      BY <1>6 DEF RefCounts
    <2>1. CASE c = b
      <3>1. Cardinality(Users(c)') = 1
        <4>1. Users(c)' = {s}
          BY <2>1, <1>2, <1>5
        <4>2. QED
          BY <4>1, OneElement
      <3>2. QED
        BY <2>1, <3>1, <1>7
    <2>2. CASE c # b
      <3>1. Users(c)' = Users(c) /\ (ref')[c] = ref[c]
        BY <2>2, <1>5, <1>7
      <3>2. QED
        BY <3>1 DEF IInv, RefCounts
    <2>3. QED
      BY <2>1, <2>2
  <1>12. OwnHashes'
    <2> SUFFICES ASSUME NEW t \in Live, NEW i \in DOMAIN (tables')[t].blocks,
                        (hash')[(tables')[t].blocks[i]] # NoHash
                 PROVE  /\ IsFull((tables')[t].prompt, i)
                        /\ (hash')[(tables')[t].blocks[i]] = HashOf((tables')[t].prompt, i)
      BY <1>3 DEF OwnHashes
    <2>1. \A u \in Live : \A j \in DOMAIN tables[u].blocks :
            (hash')[tables[u].blocks[j]] = hash[tables[u].blocks[j]]
      BY <1>2, <1>7, TableType DEF IInv
    <2>2. CASE t # s
      BY <2>1, <2>2, <1>3 DEF IInv, OwnHashes
    <2>3. CASE t = s
      <3>1. i \in 1..(n + 1) /\ n \in Nat
        BY <2>3, <1>1, <1>4, TableType DEF IInv, LastIndex
      <3>2. i # n + 1
        BY <2>3, <1>5, <1>7
      <3>3. i \in DOMAIN tables[s].blocks /\ (tables')[s].blocks[i] = tables[s].blocks[i]
        BY <3>1, <3>2, <1>1, <1>5, TableType DEF IInv
      <3>4. (hash')[tables[s].blocks[i]] = hash[tables[s].blocks[i]]
        BY <3>3, <2>1, <1>1
      <3>5. IsFull(tables[s].prompt, i) /\ hash[tables[s].blocks[i]] = HashOf(tables[s].prompt, i)
        BY <2>3, <3>3, <3>4, <1>1 DEF IInv, OwnHashes
      <3>6. QED
        BY <2>3, <3>3, <3>4, <3>5, <1>4
    <2>4. QED
      BY <2>2, <2>3
  <1>13. SlotsExact'
    <2> SUFFICES ASSUME NEW t \in Live
                 PROVE  /\ SlotCount(t)' = (tables')[t].numTokens
                        /\ \A i \in DOMAIN (tables')[t].blocks :
                             /\ (fill')[(tables')[t].blocks[i]] \in 1..BlockSize
                             /\ i < LastIndex(t)' => (fill')[(tables')[t].blocks[i]] = BlockSize
      BY <1>1, <1>3, <1>6 DEF SlotsExact
    <2>1. \A u \in Live : \A c \in BlocksOf(u) : (fill')[c] = fill[c]
      BY <1>2, <1>7, TableType DEF IInv
    <2>2. CASE t # s
      BY <2>1, <2>2, <1>1, <1>3, UntouchedTable
    <2>3. CASE t = s
      <3>1. /\ n \in Nat
            /\ n = 0 => tables[s].numTokens = 0
            /\ n # 0 => tables[s].numTokens = (n - 1) * BlockSize + BlockSize
        BY <1>1, FinishedTable DEF AppendToNewBlock
      <3>2. tables[s].numTokens = n * BlockSize
        BY <3>1, BlockSizeAssumption
      <3>3. /\ DOMAIN (tables')[s].blocks = 1..(n + 1)
            /\ (fill')[(tables')[s].blocks[n + 1]] = 1
        BY <1>1, <1>4, <1>5, <1>7, <3>1, TableType DEF IInv, LastIndex
      <3>4. SlotCount(s)' = n * BlockSize + 1
        BY <3>1, <3>3, <1>5 DEF SlotCount, LastBlock
      <3>5. ASSUME NEW i \in 1..n
            PROVE  (fill')[(tables')[s].blocks[i]] = BlockSize
        <4>1. tables[s].blocks[i] \in BlocksOf(s) /\ DOMAIN tables[s].blocks = 1..n
          BY <1>1, TableType DEF IInv
        <4>2. (fill')[(tables')[s].blocks[i]] = fill[tables[s].blocks[i]]
          BY <4>1, <2>1, <1>1, <1>5
        <4>3. CASE i < n
          BY <4>1, <4>2, <4>3, <1>1 DEF IInv, SlotsExact
        <4>4. CASE i = n
          <5>1. fill[LastBlock(s)] = BlockSize
            BY <4>4, <3>1, <1>1, FinishedTable DEF AppendToNewBlock
          <5>2. QED
            BY <4>2, <4>4, <5>1 DEF LastBlock
        <4>5. QED
          BY <4>3, <4>4, <3>1
      <3>6. ASSUME NEW i \in 1..(n + 1)
            PROVE  /\ (fill')[(tables')[s].blocks[i]] \in 1..BlockSize
                   /\ i < n + 1 => (fill')[(tables')[s].blocks[i]] = BlockSize
        <4>1. CASE i \in 1..n
          BY <4>1, <3>5, BlockSizeAssumption
        <4>2. CASE i = n + 1
          BY <4>2, <3>1, <3>3, BlockSizeAssumption
        <4>3. QED
          BY <4>1, <4>2, <3>1
      <3>7. SlotCount(s)' = (tables')[s].numTokens
        BY <3>2, <3>4, <1>4
      <3>8. QED
        BY <2>3, <3>3, <3>6, <3>7, <1>5
    <2>4. QED
      BY <2>2, <2>3
  <1>14. LoadingShape'
    BY <1>1, <1>6 DEF LoadingShape
  <1>15. QED
    BY <1>5, <1>9, <1>10, <1>11, <1>12, <1>13, <1>14 DEF IInv

(* Writing into a block of its own preserves the invariant.                *)
LEMMA AppendInPlaceStep ==
  ASSUME IInv, NEW s \in SeqIds, AppendInPlace(s)
  PROVE  IInv'
  <1> DEFINE n == LastIndex(s)
  <1>1. s \in Live /\ loading = {}
    BY DEF AppendInPlace, Idle
  <1> PICK b : b = LastBlock(s)
    OBVIOUS
  <1>2. /\ n \in Nat /\ n # 0 /\ b \in BlocksOf(s) /\ b = tables[s].blocks[n]
        /\ DOMAIN tables[s].blocks = 1..n
        /\ fill[b] \in 1..BlockSize /\ fill[b] # BlockSize
        /\ tables[s].numTokens = (n - 1) * BlockSize + fill[b]
    BY <1>1, FinishedTable, TableType DEF AppendInPlace, LastBlock, IInv
  <1>3. b \in Blocks /\ ref[b] = 1
    BY <1>1, <1>2, ListedIsReferenced DEF AppendInPlace
  <1>4. \A t \in Live : b \in BlocksOf(t) => t = s
    BY <1>1, <1>2, <1>3, SingleUser, ListedIsReferenced
  <1>5. hash[b] = NoHash
    BY <1>2, <1>3 DEF IInv, HashedBlocksFull
  <1>6. /\ Live' = Live
        /\ (tables')[s] = [tables[s] EXCEPT !.numTokens = @ + 1]
        /\ \A t \in Live \ {s} : (tables')[t] = tables[t]
    BY <1>1 DEF AppendInPlace, Live
  <1>7. /\ (tables')[s].blocks = tables[s].blocks
        /\ (tables')[s].prompt = tables[s].prompt
        /\ (tables')[s].numTokens = tables[s].numTokens + 1
    BY <1>1, <1>6, TableType DEF IInv, BlockTable
  <1>8. \A t \in Live : (tables')[t].blocks = tables[t].blocks /\ (tables')[t].prompt = tables[t].prompt
    BY <1>6, <1>7
  <1>9. /\ fill' = [fill EXCEPT ![b] = @ + 1]
        /\ lastUsed' = [lastUsed EXCEPT ![b] = clock]
        /\ clock' = clock + 1
        /\ UNCHANGED <<ref, hash, free, index, loading, leaked>>
    BY DEF AppendInPlace
  <1>10. \A c \in Blocks : (fill')[c] = IF c = b THEN fill[b] + 1 ELSE fill[c]
    BY <1>9 DEF IInv, TypeOK
  <1>11. \A c : Users(c)' = Users(c)
    BY <1>6, <1>8 DEF Users, BlocksOf
  <1>12. TypeOK'
    <2>1. (tables')[s] \in BlockTable
      BY <1>1, <1>6, TableType DEF IInv, BlockTable
    <2>2. \A t \in Live' : (tables')[t] \in BlockTable
      BY <1>6, <2>1 DEF IInv, TypeOK
    <2>3. lastUsed' \in [Blocks -> Nat] /\ fill' \in [Blocks -> Nat]
      BY <1>3, <1>9 DEF IInv, TypeOK
    <2>4. QED
      BY <1>6, <1>9, <2>2, <2>3 DEF IInv, TypeOK
  <1>13. NoBlockTwice' /\ OwnHashes'
    BY <1>6, <1>8, <1>9 DEF IInv, NoBlockTwice, OwnHashes
  <1>14. RefCounts'
    BY <1>9, <1>11 DEF IInv, RefCounts
  <1>15. FreeListExact'
    BY <1>3, <1>9, <1>10 DEF IInv, FreeListExact, TypeOK
  <1>16. IndexExact' /\ HashedBlocksFull'
    BY <1>5, <1>9, <1>10 DEF IInv, IndexExact, HashedBlocksFull
  <1>17. SlotsExact'
    <2> SUFFICES ASSUME NEW t \in Live
                 PROVE  /\ SlotCount(t)' = (tables')[t].numTokens
                        /\ \A i \in DOMAIN (tables')[t].blocks :
                             /\ (fill')[(tables')[t].blocks[i]] \in 1..BlockSize
                             /\ i < LastIndex(t)' => (fill')[(tables')[t].blocks[i]] = BlockSize
      BY <1>1, <1>6, <1>9 DEF SlotsExact
    <2>1. CASE t # s
      <3>1. \A c \in BlocksOf(t) : (fill')[c] = fill[c]
        BY <2>1, <1>4, <1>10, TableType DEF IInv
      <3>2. QED
        BY <2>1, <3>1, <1>1, <1>6, UntouchedTable
    <2>2. CASE t = s
      <3>1. LastIndex(s)' = n /\ (tables')[s].blocks[n] = b
        BY <1>2, <1>7 DEF LastIndex
      <3>2. (fill')[b] = fill[b] + 1 /\ fill[b] + 1 \in 1..BlockSize
        <4>1. fill[b] \in 1..BlockSize /\ fill[b] # BlockSize
          BY <1>2
        <4>2. fill[b] + 1 \in 1..BlockSize
          BY <4>1, BlockSizeAssumption
        <4>3. QED
          BY <4>2, <1>3, <1>10
      <3>3. SlotCount(s)' = (n - 1) * BlockSize + (fill[b] + 1)
        BY <3>1, <3>2, <1>2 DEF SlotCount, LastBlock
      <3>4. (n - 1) * BlockSize \in Nat
        <4>1. n \in Nat /\ n # 0
          BY <1>2
        <4>2. QED
          BY <4>1, SlotsBefore
      <3>5. SlotCount(s)' = (tables')[s].numTokens
        BY <3>3, <3>4, <1>2, <1>7
      <3>6. ASSUME NEW i \in 1..n, i < n
            PROVE  (fill')[tables[s].blocks[i]] = BlockSize
        <4>1. tables[s].blocks[i] # b
          BY <3>6, <1>1, <1>2 DEF IInv, NoBlockTwice
        <4>2. tables[s].blocks[i] \in Blocks /\ fill[tables[s].blocks[i]] = BlockSize
          BY <3>6, <1>1, <1>2, TableType DEF IInv, SlotsExact
        <4>3. QED
          BY <4>1, <4>2, <1>10
      <3>7. ASSUME NEW i \in 1..n
            PROVE  /\ (fill')[tables[s].blocks[i]] \in 1..BlockSize
                   /\ i < n => (fill')[tables[s].blocks[i]] = BlockSize
        <4>1. CASE i < n
          BY <4>1, <3>6, BlockSizeAssumption
        <4>2. CASE i = n
          BY <4>2, <3>2, <1>2
        <4>3. QED
          BY <4>1, <4>2, <1>2
      <3>8. DOMAIN (tables')[s].blocks = 1..n /\ (tables')[s].blocks = tables[s].blocks
        BY <1>2, <1>7
      <3>9. QED
        BY <2>2, <3>1, <3>5, <3>7, <3>8
    <2>3. QED
      BY <2>1, <2>2
  <1>18. LoadingShape'
    BY <1>1, <1>9 DEF LoadingShape
  <1>19. QED
    BY <1>12, <1>13, <1>14, <1>15, <1>16, <1>17, <1>18 DEF IInv

(* Replacing a shared last block preserves the invariant.                  *)
LEMMA AppendCopyOnWriteStep ==
  ASSUME IInv, NEW s \in SeqIds, NEW b \in Blocks, AppendCopyOnWrite(s, b)
  PROVE  IInv'
  <1> DEFINE n == LastIndex(s)
  <1>1. s \in Live /\ loading = {} /\ b \in Takeable
    BY DEF AppendCopyOnWrite, Idle
  <1> PICK a : a = LastBlock(s)
    OBVIOUS
  <1>2. /\ n \in Nat /\ n # 0 /\ a \in BlocksOf(s) /\ a = tables[s].blocks[n]
        /\ tables[s].blocks \in Seq(Blocks) /\ Len(tables[s].blocks) = n
        /\ DOMAIN tables[s].blocks = 1..n
        /\ fill[a] \in 1..BlockSize /\ fill[a] # BlockSize
        /\ tables[s].numTokens = (n - 1) * BlockSize + fill[a]
    BY <1>1, FinishedTable, TableType DEF AppendCopyOnWrite, LastBlock, LastIndex, IInv
  <1>3. a \in Blocks /\ s \in Users(a) /\ ref[a] \in Nat /\ ref[a] > 1
    BY <1>1, <1>2, ListedIsReferenced DEF AppendCopyOnWrite
  <1>4. ref[b] = 0 /\ Users(b) = {} /\ (\A t \in Live : b \notin BlocksOf(t)) /\ a # b
    BY <1>1, <1>2, TakeableUnused
  <1>5. /\ Live' = Live
        /\ (tables')[s] = [tables[s] EXCEPT !.blocks = [@ EXCEPT ![n] = b], !.numTokens = @ + 1]
        /\ \A t \in Live \ {s} : (tables')[t] = tables[t]
    BY <1>1 DEF AppendCopyOnWrite, Live
  <1>6. /\ (tables')[s].blocks = [tables[s].blocks EXCEPT ![n] = b]
        /\ (tables')[s].prompt = tables[s].prompt
        /\ (tables')[s].numTokens = tables[s].numTokens + 1
    BY <1>1, <1>5, TableType DEF IInv, BlockTable
  <1>7. /\ DOMAIN (tables')[s].blocks = 1..n
        /\ (tables')[s].blocks[n] = b
        /\ \A i \in 1..n : i # n => (tables')[s].blocks[i] = tables[s].blocks[i]
        /\ LastIndex(s)' = n
    <2>1. /\ DOMAIN (tables')[s].blocks = 1..n
          /\ (tables')[s].blocks[n] = b
          /\ \A i \in 1..n : i # n => (tables')[s].blocks[i] = tables[s].blocks[i]
      BY <1>2, <1>6
    <2>2. [tables[s].blocks EXCEPT ![n] = b] \in Seq(Blocks) /\ Len([tables[s].blocks EXCEPT ![n] = b]) = n
      BY <1>2, ExceptSeq
    <2>3. QED
      BY <2>1, <2>2, <1>6 DEF LastIndex
  <1>8. NoBlockTwice'
    <2> SUFFICES ASSUME NEW t \in Live, NEW i \in DOMAIN (tables')[t].blocks,
                        NEW j \in DOMAIN (tables')[t].blocks,
                        (tables')[t].blocks[i] = (tables')[t].blocks[j]
                 PROVE  i = j
      BY <1>5 DEF NoBlockTwice
    <2>1. CASE t # s
      BY <2>1, <1>5 DEF IInv, NoBlockTwice
    <2>2. CASE t = s
      <3>1. \A k \in 1..n : tables[s].blocks[k] # b
        BY <1>1, <1>4, TableType DEF IInv
      <3>2. i \in 1..n /\ j \in 1..n
        BY <2>2, <1>7
      <3>3. CASE i # n /\ j # n
        BY <2>2, <3>2, <3>3, <1>1, <1>2, <1>7 DEF IInv, NoBlockTwice
      <3>4. CASE i = n \/ j = n
        BY <2>2, <3>1, <3>2, <3>4, <1>7
      <3>5. QED
        BY <3>3, <3>4
    <2>3. QED
      BY <2>1, <2>2
  <1>9. BlocksOf(s) = {tables[s].blocks[i] : i \in 1..n} /\ BlocksOf(s)' = {(tables')[s].blocks[i] : i \in 1..n}
    BY <1>2, <1>7 DEF BlocksOf, Range
  <1>10. BlocksOf(s)' = (BlocksOf(s) \ {a}) \cup {b}
    <2>1. \A i \in 1..n : i # n => tables[s].blocks[i] # a
      BY <1>1, <1>2 DEF IInv, NoBlockTwice
    <2>2. n \in 1..n
      BY <1>2
    <2>3. \A c \in BlocksOf(s)' : c \in (BlocksOf(s) \ {a}) \cup {b}
      BY <1>7, <1>9, <2>1
    <2>4. \A c \in (BlocksOf(s) \ {a}) \cup {b} : c \in BlocksOf(s)'
      BY <1>2, <1>7, <1>9, <2>1, <2>2
    <2>5. QED
      BY <2>3, <2>4
  <1>11. \A t \in Live \ {s} : BlocksOf(t)' = BlocksOf(t)
    BY <1>5 DEF BlocksOf
  <1>12. /\ Users(a)' = Users(a) \ {s}
         /\ Users(b)' = {s}
         /\ \A c \in Blocks \ {a, b} : Users(c)' = Users(c)
    BY <1>1, <1>4, <1>5, <1>10, <1>11 DEF Users
  <1>13. /\ free' = free \ {b}
         /\ ref' = [ref EXCEPT ![a] = @ - 1, ![b] = 1]
         /\ fill' = [fill EXCEPT ![b] = fill[a] + 1]
         /\ lastUsed' = [lastUsed EXCEPT ![b] = clock]
         /\ hash' = [hash EXCEPT ![b] = NoHash]
         /\ index' = IndexWithout(b)
         /\ clock' = clock + 1
         /\ UNCHANGED <<loading, leaked>>
    BY DEF AppendCopyOnWrite
  <1>14. \A c \in Blocks : /\ (hash')[c] = IF c = b THEN NoHash ELSE hash[c]
                           /\ (fill')[c] = IF c = b THEN fill[a] + 1 ELSE fill[c]
                           /\ (ref')[c] = IF c = b THEN 1 ELSE IF c = a THEN ref[a] - 1 ELSE ref[c]
    BY <1>3, <1>4, <1>13 DEF IInv, TypeOK
  <1>15. /\ DOMAIN index' = DOMAIN index \ {hash[b]}
         /\ \A g \in DOMAIN index \ {hash[b]} : (index')[g] = index[g]
    BY <1>13 DEF IndexWithout, Restrict
  <1>16. FreeListExact' /\ IndexExact' /\ HashedBlocksFull'
    <2>1. DOMAIN index' = (DOMAIN index \ {hash[b]}) \cup {g \in {NoHash} : g # NoHash}
      BY <1>15
    <2>2. free' = free \ {b}
      BY <1>13
    <2>3. \A c \in Blocks \ {b} : (ref')[c] = 0 <=> ref[c] = 0
      BY <1>3, <1>14
    <2>4. QED
      BY <1>1, <1>14, <1>15, <2>1, <2>2, <2>3, BlockTaken
  <1>17. TypeOK'
    <2>1. [tables[s].blocks EXCEPT ![n] = b] \in Seq(Blocks)
      BY <1>2, ExceptSeq
    <2>2. tables[s] \in BlockTable /\ tables[s].numTokens + 1 \in Nat
      BY <1>1, TableType DEF IInv, BlockTable
    <2>3. (tables')[s] \in BlockTable
      BY <1>5, <2>1, <2>2 DEF BlockTable
    <2>4. \A t \in Live' : (tables')[t] \in BlockTable
      BY <1>5, <2>3 DEF IInv, TypeOK
    <2>5. /\ ref' \in [Blocks -> Nat] /\ lastUsed' \in [Blocks -> Nat]
          /\ fill' \in [Blocks -> Nat] /\ DOMAIN hash' = Blocks
      BY <1>3, <1>13 DEF IInv, TypeOK
    <2>6. QED
      BY <1>5, <1>13, <1>15, <2>4, <2>5 DEF IInv, TypeOK
  <1>18. RefCounts'
    <2> SUFFICES ASSUME NEW c \in Blocks
                 PROVE  /\ Cardinality(Users(c)') <= (ref')[c]
                        /\ ~leaked => (ref')[c] = Cardinality(Users(c)')
      BY <1>13 DEF RefCounts
    <2>1. CASE c = b
      <3>1. Cardinality(Users(c)') = 1
        <4>1. Users(c)' = {s}
          BY <2>1, <1>12
        <4>2. QED
          BY <4>1, OneElement
      <3>2. QED
        BY <2>1, <3>1, <1>14
    <2>2. CASE c = a
      <3>1. Users(a) \subseteq SeqIds
        BY DEF IInv, TypeOK, Users
      <3>2. Cardinality(Users(a)') = Cardinality(Users(a)) - 1 /\ Cardinality(Users(a)) \in Nat
        BY <3>1, <1>3, <1>12, OneUserLess, SetsOfIds
      <3>3. (ref')[a] = ref[a] - 1
        BY <1>3, <1>4, <1>14
      <3>4. Cardinality(Users(a)) <= ref[a] /\ (~leaked => ref[a] = Cardinality(Users(a)))
        BY <1>3 DEF IInv, RefCounts
      <3>5. QED
        BY <2>2, <3>2, <3>3, <3>4, <1>3
    <2>3. CASE c # a /\ c # b
      <3>1. Users(c)' = Users(c) /\ (ref')[c] = ref[c]
        BY <2>3, <1>12, <1>14
      <3>2. QED
        BY <3>1 DEF IInv, RefCounts
    <2>4. QED
      BY <2>1, <2>2, <2>3
  <1>19. OwnHashes'
    <2> SUFFICES ASSUME NEW t \in Live, NEW i \in DOMAIN (tables')[t].blocks,
                        (hash')[(tables')[t].blocks[i]] # NoHash
                 PROVE  /\ IsFull((tables')[t].prompt, i)
                        /\ (hash')[(tables')[t].blocks[i]] = HashOf((tables')[t].prompt, i)
      BY <1>5 DEF OwnHashes
    <2>1. \A u \in Live : \A j \in DOMAIN tables[u].blocks :
            (hash')[tables[u].blocks[j]] = hash[tables[u].blocks[j]]
      BY <1>4, <1>14, TableType DEF IInv
    <2>2. CASE t # s
      BY <2>1, <2>2, <1>5 DEF IInv, OwnHashes
    <2>3. CASE t = s
      <3>1. i \in 1..n /\ i # n
        BY <2>3, <1>7, <1>14
      <3>2. (tables')[s].blocks[i] = tables[s].blocks[i] /\ i \in DOMAIN tables[s].blocks
        BY <3>1, <1>2, <1>7
      <3>3. (hash')[tables[s].blocks[i]] = hash[tables[s].blocks[i]]
        BY <3>2, <2>1, <1>1
      <3>4. IsFull(tables[s].prompt, i) /\ hash[tables[s].blocks[i]] = HashOf(tables[s].prompt, i)
        BY <2>3, <3>2, <3>3, <1>1 DEF IInv, OwnHashes
      <3>5. QED
        BY <2>3, <3>2, <3>3, <3>4, <1>6
    <2>4. QED
      BY <2>2, <2>3
  <1>20. SlotsExact'
    <2> SUFFICES ASSUME NEW t \in Live
                 PROVE  /\ SlotCount(t)' = (tables')[t].numTokens
                        /\ \A i \in DOMAIN (tables')[t].blocks :
                             /\ (fill')[(tables')[t].blocks[i]] \in 1..BlockSize
                             /\ i < LastIndex(t)' => (fill')[(tables')[t].blocks[i]] = BlockSize
      BY <1>1, <1>5, <1>13 DEF SlotsExact
    <2>1. \A u \in Live : \A c \in BlocksOf(u) : (fill')[c] = fill[c]
      BY <1>4, <1>14, TableType DEF IInv
    <2>2. CASE t # s
      BY <2>1, <2>2, <1>1, <1>5, UntouchedTable
    <2>3. CASE t = s
      <3>1. (fill')[b] = fill[a] + 1 /\ fill[a] + 1 \in 1..BlockSize
        <4>1. fill[a] \in 1..BlockSize /\ fill[a] # BlockSize
          BY <1>2
        <4>2. fill[a] + 1 \in 1..BlockSize
          BY <4>1, BlockSizeAssumption
        <4>3. QED
          BY <4>2, <1>14
      <3>2. SlotCount(s)' = (n - 1) * BlockSize + (fill[a] + 1)
        BY <3>1, <1>2, <1>7 DEF SlotCount, LastBlock
      <3>3. (n - 1) * BlockSize \in Nat
        <4>1. n \in Nat /\ n # 0
          BY <1>2
        <4>2. QED
          BY <4>1, SlotsBefore
      <3>4. SlotCount(s)' = (tables')[s].numTokens
        BY <3>2, <3>3, <1>2, <1>6
      <3>5. ASSUME NEW i \in 1..n
            PROVE  /\ (fill')[(tables')[s].blocks[i]] \in 1..BlockSize
                   /\ i < n => (fill')[(tables')[s].blocks[i]] = BlockSize
        <4>1. CASE i < n
          <5>1. (tables')[s].blocks[i] = tables[s].blocks[i] /\ tables[s].blocks[i] \in BlocksOf(s)
            BY <4>1, <1>7, <1>9
          <5>2. fill[tables[s].blocks[i]] = BlockSize
            BY <4>1, <1>1, <1>2 DEF IInv, SlotsExact
          <5>3. QED
            BY <5>1, <5>2, <2>1, <1>1, BlockSizeAssumption
        <4>2. CASE i = n
          BY <4>2, <3>1, <1>2, <1>7
        <4>3. QED
          BY <4>1, <4>2, <1>2
      <3>6. QED
        BY <2>3, <3>4, <3>5, <1>7
    <2>4. QED
      BY <2>2, <2>3
  <1>21. LoadingShape'
    BY <1>1, <1>13 DEF LoadingShape
  <1>22. QED
    BY <1>8, <1>16, <1>17, <1>18, <1>19, <1>20, <1>21 DEF IInv

-----------------------------------------------------------------------------
(***************************************************************************)
(* fork(), free() and reset().                                             *)
(***************************************************************************)
(* Sharing all blocks of a sequence preserves the invariant.               *)
LEMMA ForkStep ==
  ASSUME IInv, NEW parent \in SeqIds, NEW child \in SeqIds, Fork(parent, child)
  PROVE  IInv'
  <1>1. /\ parent \in Live /\ loading = {} /\ loading' = {}
        /\ Live' = Live \cup {child}
        /\ (tables')[child] = tables[parent]
        /\ \A t \in Live \ {child} : (tables')[t] = tables[t]
        /\ UNCHANGED <<fill, hash, lastUsed, free, index, clock>>
    BY DEF Fork, Idle, Live
  <1>2. \A c \in Blocks : (ref')[c] = IF c \in BlocksOf(parent) THEN ref[c] + 1 ELSE ref[c]
    BY DEF Fork
  <1>3. \A t \in Live' : \E u \in Live : (tables')[t] = tables[u]
    BY <1>1
  <1>4. /\ BlocksOf(child)' = BlocksOf(parent)
        /\ \A t \in Live \ {child} : BlocksOf(t)' = BlocksOf(t)
    BY <1>1 DEF BlocksOf
  <1>5. TypeOK'
    <2>1. \A t \in Live' : (tables')[t] \in BlockTable
      BY <1>3 DEF IInv, TypeOK
    <2>2. ref' \in [Blocks -> Nat]
      BY DEF Fork, IInv, TypeOK
    <2>3. leaked' \in BOOLEAN
      BY DEF Fork, IInv, TypeOK
    <2>4. QED
      BY <1>1, <2>1, <2>2, <2>3 DEF IInv, TypeOK
  <1>6. NoBlockTwice' /\ OwnHashes'
    BY <1>1, <1>3 DEF IInv, NoBlockTwice, OwnHashes
  <1>7. RefCounts'
    <2> SUFFICES ASSUME NEW c \in Blocks
                 PROVE  /\ Cardinality(Users(c)') <= (ref')[c]
                        /\ ~leaked' => (ref')[c] = Cardinality(Users(c)')
      BY DEF RefCounts
    <2>1. /\ Users(c) \subseteq SeqIds /\ Users(c)' \subseteq SeqIds
          /\ Cardinality(Users(c)) \in Nat /\ Cardinality(Users(c)') \in Nat /\ ref[c] \in Nat
      BY <1>5, SetsOfIds DEF IInv, TypeOK, Users
    <2>2. Cardinality(Users(c)) <= ref[c] /\ (~leaked => ref[c] = Cardinality(Users(c)))
      BY DEF IInv, RefCounts
    <2>3. leaked' = (leaked \/ child \in Live)
      BY DEF Fork
    <2>4. CASE c \in BlocksOf(parent)
      <3>1. Users(c)' = Users(c) \cup {child}
        BY <2>4, <1>1, <1>4 DEF Users
      <3>2. child \notin Live => child \notin Users(c)
        BY DEF Users
      <3>3. (ref')[c] = ref[c] + 1
        BY <2>4, <1>2
      <3>4. /\ Cardinality(Users(c) \cup {child}) <= Cardinality(Users(c)) + 1
            /\ child \notin Users(c) =>
                 Cardinality(Users(c) \cup {child}) = Cardinality(Users(c)) + 1
        BY <2>1, OneUserMore
      <3>5. Cardinality(Users(c)') <= (ref')[c]
        BY <2>1, <2>2, <3>1, <3>3, <3>4
      <3>6. ~leaked' => ~leaked /\ child \notin Users(c)
        BY <2>3, <3>2
      <3>7. ~leaked' => (ref')[c] = Cardinality(Users(c)')
        BY <2>2, <3>1, <3>3, <3>4, <3>6
      <3>8. QED
        BY <3>5, <3>7
    <2>5. CASE c \notin BlocksOf(parent)
      <3>1. Users(c)' = Users(c) \ {child}
        BY <2>5, <1>1, <1>4 DEF Users
      <3>2. Cardinality(Users(c)') <= Cardinality(Users(c))
        <4>1. CASE child \in Users(c)
          <5>1. Cardinality(Users(c) \ {child}) = Cardinality(Users(c)) - 1
            BY <2>1, <4>1, OneUserLess
          <5>2. QED
            BY <2>1, <3>1, <5>1
        <4>2. CASE child \notin Users(c)
          <5>1. Users(c)' = Users(c)
            BY <3>1, <4>2
          <5>2. QED
            BY <2>1, <5>1
        <4>3. QED
          BY <4>1, <4>2
      <3>3. child \notin Live => Users(c)' = Users(c)
        BY <3>1 DEF Users
      <3>4. (ref')[c] = ref[c]
        BY <2>5, <1>2
      <3>5. Cardinality(Users(c)') <= (ref')[c]
        BY <2>1, <2>2, <3>2, <3>4
      <3>6. ~leaked' => ~leaked /\ child \notin Live
        BY <2>3
      <3>7. ~leaked' => (ref')[c] = Cardinality(Users(c)')
        BY <2>2, <3>3, <3>4, <3>6
      <3>8. QED
        BY <3>5, <3>7
    <2>6. QED
      BY <2>4, <2>5
  <1>8. FreeListExact'
    <2>1. \A c \in Blocks : (ref')[c] = 0 <=> ref[c] = 0
      BY <1>1, <1>2, ListedIsReferenced DEF IInv, TypeOK
    <2>2. QED
      BY <1>1, <2>1 DEF IInv, FreeListExact
  <1>9. IndexExact' /\ HashedBlocksFull'
    BY <1>1 DEF IInv, IndexExact, HashedBlocksFull
  <1>10. SlotsExact'
    <2> SUFFICES ASSUME NEW t \in Live'
                 PROVE  /\ SlotCount(t)' = (tables')[t].numTokens
                        /\ \A i \in DOMAIN (tables')[t].blocks :
                             /\ fill[(tables')[t].blocks[i]] \in 1..BlockSize
                             /\ i < LastIndex(t)' => fill[(tables')[t].blocks[i]] = BlockSize
      BY <1>1 DEF SlotsExact
    <2>1. PICK u \in Live : (tables')[t] = tables[u]
      BY <1>3
    <2>2. LastIndex(t)' = LastIndex(u) /\ SlotCount(t)' = SlotCount(u)
      BY <1>1, <2>1 DEF SlotCount, LastIndex, LastBlock
    <2>3. QED
      BY <1>1, <2>1, <2>2 DEF IInv, SlotsExact
  <1>11. LoadingShape'
    BY <1>1 DEF LoadingShape
  <1>12. QED
    BY <1>5, <1>6, <1>7, <1>8, <1>9, <1>10, <1>11 DEF IInv

(* Releasing a sequence preserves the invariant.                           *)
LEMMA FreeStep ==
  ASSUME IInv, NEW s \in SeqIds, Free(s)
  PROVE  IInv'
  <1>1. /\ s \in Live /\ loading = {} /\ loading' = {}
        /\ Live' = Live \ {s}
        /\ \A t \in Live \ {s} : (tables')[t] = tables[t]
        /\ free' = free \cup Released(s)
        /\ UNCHANGED <<hash, lastUsed, index, clock, leaked>>
    BY DEF Free, Idle, Live, Restrict
  <1>2. \A c \in Blocks : /\ (ref')[c] = IF c \in BlocksOf(s) THEN ref[c] - 1 ELSE ref[c]
                          /\ (fill')[c] = IF c \in Released(s) THEN 0 ELSE fill[c]
    BY DEF Free
  <1>3. \A t \in Live \ {s} : BlocksOf(t)' = BlocksOf(t)
    BY <1>1 DEF BlocksOf
  <1>4. \A c \in BlocksOf(s) : c \in Blocks /\ s \in Users(c) /\ ref[c] \in Nat /\ ref[c] >= 1
    BY <1>1, ListedIsReferenced
  <1>5. TypeOK'
    <2>1. ref' \in [Blocks -> Nat] /\ fill' \in [Blocks -> Nat]
      BY <1>4 DEF Free, IInv, TypeOK
    <2>2. free' \subseteq Blocks
      BY <1>1, <1>4 DEF Released, IInv, TypeOK
    <2>3. QED
      BY <1>1, <2>1, <2>2 DEF IInv, TypeOK
  <1>6. NoBlockTwice' /\ OwnHashes'
    BY <1>1 DEF IInv, NoBlockTwice, OwnHashes
  <1>7. RefCounts'
    <2> SUFFICES ASSUME NEW c \in Blocks
                 PROVE  /\ Cardinality(Users(c)') <= (ref')[c]
                        /\ ~leaked => (ref')[c] = Cardinality(Users(c)')
      BY <1>1 DEF RefCounts
    <2>1. Users(c)' = Users(c) \ {s}
      BY <1>1, <1>3 DEF Users
    <2>2. Users(c) \subseteq SeqIds /\ Cardinality(Users(c)) \in Nat /\ ref[c] \in Nat
      BY SetsOfIds DEF IInv, TypeOK, Users
    <2>3. Cardinality(Users(c)) <= ref[c] /\ (~leaked => ref[c] = Cardinality(Users(c)))
      BY DEF IInv, RefCounts
    <2>4. CASE c \in BlocksOf(s)
      BY <2>1, <2>2, <2>3, <2>4, <1>2, <1>4, OneUserLess
    <2>5. CASE c \notin BlocksOf(s)
      <3>1. Users(c)' = Users(c)
        BY <2>1, <2>5 DEF Users
      <3>2. QED
        BY <3>1, <2>3, <2>5, <1>2
    <2>6. QED
      BY <2>4, <2>5
  <1>8. FreeListExact'
    <2>1. ASSUME NEW c \in Blocks
          PROVE  c \in free' <=> (ref')[c] = 0 /\ hash[c] = NoHash
      <3>1. c \in free <=> ref[c] = 0 /\ hash[c] = NoHash
        BY DEF IInv, FreeListExact
      <3>2. c \in Released(s) <=> c \in BlocksOf(s) /\ ref[c] = 1 /\ hash[c] = NoHash
        BY DEF Released
      <3>3. QED
        BY <3>1, <3>2, <1>1, <1>2, <1>4
    <2>2. \A c \in free' : (fill')[c] = 0
      BY <1>1, <1>2, <1>4 DEF IInv, FreeListExact, Released
    <2>3. free' \subseteq Blocks
      BY <1>5 DEF TypeOK
    <2>4. QED
      BY <1>1, <2>1, <2>2, <2>3 DEF FreeListExact
  <1>9. IndexExact' /\ HashedBlocksFull'
    BY <1>1, <1>2 DEF IInv, IndexExact, HashedBlocksFull, Released
  <1>10. SlotsExact'
    <2> SUFFICES ASSUME NEW t \in Live \ {s}
                 PROVE  /\ SlotCount(t)' = (tables')[t].numTokens
                        /\ \A i \in DOMAIN (tables')[t].blocks :
                             /\ (fill')[(tables')[t].blocks[i]] \in 1..BlockSize
                             /\ i < LastIndex(t)' => (fill')[(tables')[t].blocks[i]] = BlockSize
      BY <1>1 DEF SlotsExact
    <2>1. ASSUME NEW c \in BlocksOf(t)
          PROVE  (fill')[c] = fill[c]
      <3>1. c \in Blocks /\ t \in Users(c)
        BY ListedIsReferenced
      <3>2. c \notin Released(s)
        BY <3>1, <1>4, SingleUser DEF Released
      <3>3. QED
        BY <3>1, <3>2, <1>2
    <2>2. QED
      BY <2>1, <1>1, UntouchedTable
  <1>11. LoadingShape'
    BY <1>1 DEF LoadingShape
  <1>12. QED
    BY <1>5, <1>6, <1>7, <1>8, <1>9, <1>10, <1>11 DEF IInv

(* The empty pool, where a run starts and where reset() leads.             *)
LEMMA EmptyPool ==
  ASSUME ref = [b \in Blocks |-> 0], fill = [b \in Blocks |-> 0],
         hash = [b \in Blocks |-> NoHash], lastUsed \in [Blocks -> Nat],
         free = Blocks, tables = << >>, index = << >>, clock \in Nat,
         loading = {}, leaked = FALSE
  PROVE  IInv
  <1>1. Live = {} /\ DOMAIN index = {}
    BY DEF Live
  <1>2. \A b : Users(b) = {}
    BY <1>1 DEF Users
  <1>3. TypeOK /\ NoBlockTwice /\ OwnHashes /\ SlotsExact /\ LoadingShape
    BY <1>1 DEF TypeOK, NoBlockTwice, OwnHashes, SlotsExact, LoadingShape
  <1>4. RefCounts
    <2>1. Cardinality({}) = 0
      BY FS_EmptySet
    <2>2. \A b \in Blocks : ref[b] = 0 /\ Users(b) = {}
      BY <1>2
    <2>3. \A b \in Blocks : Cardinality(Users(b)) = 0
      BY <2>1, <2>2
    <2>4. QED
      BY <2>2, <2>3 DEF RefCounts
  <1>5. FreeListExact /\ IndexExact /\ HashedBlocksFull
    BY <1>1 DEF FreeListExact, IndexExact, HashedBlocksFull
  <1>6. QED
    BY <1>3, <1>4, <1>5 DEF IInv

(* Dropping everything preserves the invariant.                            *)
LEMMA ResetStep ==
  ASSUME IInv, Reset
  PROVE  IInv'
  <1>1. /\ ref' = [b \in Blocks |-> 0] /\ fill' = [b \in Blocks |-> 0]
        /\ hash' = [b \in Blocks |-> NoHash] /\ lastUsed' \in [Blocks -> Nat]
        /\ free' = Blocks /\ tables' = << >> /\ index' = << >> /\ clock' \in Nat
        /\ loading' = {} /\ leaked' = FALSE
    BY DEF Reset, Idle, IInv, TypeOK
  <1>2. Live' = {} /\ DOMAIN index' = {}
    BY <1>1 DEF Live
  <1>3. \A b : Users(b)' = {}
    BY <1>2 DEF Users
  <1>4. TypeOK' /\ NoBlockTwice' /\ OwnHashes' /\ SlotsExact' /\ LoadingShape'
    BY <1>1, <1>2 DEF TypeOK, NoBlockTwice, OwnHashes, SlotsExact, LoadingShape
  <1>5. RefCounts'
    <2>1. Cardinality({}) = 0
      BY FS_EmptySet
    <2>2. \A b \in Blocks : (ref')[b] = 0 /\ Users(b)' = {}
      BY <1>1, <1>3
    <2>3. \A b \in Blocks : Cardinality(Users(b)') = 0
      BY <2>1, <2>2
    <2>4. QED
      BY <2>2, <2>3 DEF RefCounts
  <1>6. FreeListExact' /\ IndexExact' /\ HashedBlocksFull'
    BY <1>1, <1>2 DEF FreeListExact, IndexExact, HashedBlocksFull
  <1>7. QED
    BY <1>4, <1>5, <1>6 DEF IInv

-----------------------------------------------------------------------------
(***************************************************************************)
(* The theorems.                                                           *)
(***************************************************************************)
(* Every step of the allocator preserves the invariant.                    *)
LEMMA InvariantStep ==
  ASSUME IInv, [Next]_vars
  PROVE  IInv'
  <1>1. CASE Allocate
    BY <1>1, AllocateBeginStep, AllocateHitStep, AllocateMissStep, AllocateEndStep DEF Allocate
  <1>2. CASE AppendToken
    BY <1>2, AppendToNewBlockStep, AppendCopyOnWriteStep, AppendInPlaceStep DEF AppendToken
  <1>3. CASE \E s, t \in SeqIds : Fork(s, t)
    BY <1>3, ForkStep
  <1>4. CASE \E s \in SeqIds : Free(s)
    BY <1>4, FreeStep
  <1>5. CASE Reset
    BY <1>5, ResetStep
  <1>6. CASE UNCHANGED vars
    <2>1. UNCHANGED <<ref, fill, hash, lastUsed, free, tables, index, clock, loading, leaked>>
      BY <1>6 DEF vars
    <2>2. TypeOK' /\ NoBlockTwice' /\ FreeListExact' /\ IndexExact' /\ HashedBlocksFull'
      BY <2>1 DEF IInv, TypeOK, NoBlockTwice, FreeListExact, IndexExact, HashedBlocksFull, Live
    <2>3. Live' = Live /\ \A s : BlocksOf(s)' = BlocksOf(s) /\ LastIndex(s)' = LastIndex(s)
      BY <2>1 DEF Live, BlocksOf, LastIndex
    <2>4. \A b : Users(b)' = Users(b)
      BY <2>3 DEF Users
    <2>5. RefCounts'
      BY <2>1, <2>4 DEF IInv, RefCounts
    <2>6. OwnHashes'
      BY <2>1, <2>3 DEF IInv, OwnHashes
    <2>7. SlotsExact'
      BY <2>1, <2>3 DEF IInv, SlotsExact, SlotCount, LastBlock
    <2>8. Available' = Available
      BY <2>1 DEF Available, Evictable
    <2>9. LoadingShape'
      BY <2>1, <2>3, <2>8 DEF IInv, LoadingShape, PartlyBuilt, EnoughLeft
    <2>10. QED
      BY <2>2, <2>5, <2>6, <2>7, <2>9 DEF IInv
  <1>7. QED
    BY <1>1, <1>2, <1>3, <1>4, <1>5, <1>6 DEF Next

(* The inductive invariant holds of every behaviour of the allocator.      *)
THEOREM Invariance == Spec => []IInv
  <1>1. ASSUME Init  PROVE IInv
    <2>1. lastUsed \in [Blocks -> Nat] /\ clock \in Nat
      BY <1>1 DEF Init
    <2>2. QED
      BY <1>1, <2>1, EmptyPool DEF Init
  <1>2. IInv /\ [Next]_vars => IInv'
    BY InvariantStep
  <1>3. QED
    BY <1>1, <1>2, PTL DEF Spec

(* Every variable keeps its type: no reference count underflows.           *)
THEOREM TypeCorrect == Spec => []TypeOK
  <1>1. IInv => TypeOK
    BY DEF IInv
  <1>2. QED
    BY <1>1, Invariance, PTL

(* The reference count of a block is the number of tables that list it,    *)
(* until a fork() replaces a live table; and never less.                   *)
THEOREM RefCountsCorrect == Spec => []RefCounts
  <1>1. IInv => RefCounts
    BY DEF IInv
  <1>2. QED
    BY <1>1, Invariance, PTL

(* No block is lost between the free list and the hash index.              *)
THEOREM FreeListCorrect == Spec => []FreeListExact
  <1>1. IInv => FreeListExact
    BY DEF IInv
  <1>2. QED
    BY <1>1, Invariance, PTL

(* The hash index and the blocks' content hashes stay each other's inverse.*)
THEOREM IndexCorrect == Spec => []IndexExact
  <1>1. IInv => IndexExact
    BY DEF IInv
  <1>2. QED
    BY <1>1, Invariance, PTL

(* A sequence's cached blocks hold its own prompt, chunk by chunk.         *)
THEOREM PrefixSharingSound == Spec => []SharedContentIsOwn
  <1>1. IInv => SharedContentIsOwn
    BY DEF IInv, OwnHashes, SharedContentIsOwn, HashOf
  <1>2. QED
    BY <1>1, Invariance, PTL

(* Every table addresses exactly the slots of its tokens.                  *)
THEOREM SlotsCorrect == Spec => []SlotsExact
  <1>1. IInv => SlotsExact
    BY DEF IInv
  <1>2. QED
    BY <1>1, Invariance, PTL

-----------------------------------------------------------------------------
(***************************************************************************)
(* Theorems that need more than the invariant.                             *)
(***************************************************************************)
(* Some evictable block is least recently used, if there is any at all.    *)
LEMMA SomeLeastRecentlyUsed ==
  ASSUME TypeOK, Evictable # {}
  PROVE  LeastRecentlyUsed # {}
  <1> DEFINE T == {lastUsed[b] : b \in Evictable}
  <1>1. \A b \in Evictable : lastUsed[b] \in Nat
    BY DEF TypeOK, Evictable
  <1>2. T \subseteq Nat /\ T # {}
    BY <1>1
  <1>3. PICK x \in T : \A y \in T : <<y, x>> \notin OpToRel(<, Nat)
    <2> HIDE DEF T
    <2>1. QED
      BY <1>2, WFMin, NatLessThanWellFounded
  <1>4. \A y \in T : x <= y
    <2> SUFFICES ASSUME NEW y \in T, ~(x <= y)  PROVE FALSE
      OBVIOUS
    <2>1. y \in Nat /\ x \in Nat /\ y < x
      BY <1>2
    <2>2. <<y, x>> \in OpToRel(<, Nat)
      BY <2>1 DEF OpToRel
    <2>3. QED
      BY <2>2, <1>3
  <1>5. PICK b \in Evictable : x = lastUsed[b]
    BY <1>3
  <1>6. b \in LeastRecentlyUsed
    BY <1>4, <1>5 DEF LeastRecentlyUsed
  <1>7. QED
    BY <1>6

(* The capacity check made before the loop of allocate() is enough for all *)
(* of its iterations: a block can always be taken.                         *)
THEOREM AllocateSafe == Spec => []AllocateNeverRunsOut
  <1>1. ASSUME IInv  PROVE AllocateNeverRunsOut
    <2> SUFFICES ASSUME NEW s \in loading, ChunksLeft(s)  PROVE Takeable # {}
      BY DEF AllocateNeverRunsOut
    <2>1. s \in Live /\ LastIndex(s) \in Nat /\ Len(tables[s].prompt) \in Nat
      BY <1>1, TableType DEF IInv, TypeOK
    <2>2. LastIndex(s) * BlockSize < Len(tables[s].prompt)
      BY DEF ChunksLeft, LastIndex
    <2>3. LastIndex(s) < BlocksNeeded(Len(tables[s].prompt))
      BY <2>1, <2>2, BlockSizeAssumption, NeededCovers DEF BlocksNeeded
    <2>4. LastIndex(s) + Available >= BlocksNeeded(Len(tables[s].prompt))
      BY <1>1 DEF IInv, LoadingShape, EnoughLeft
    <2>5. /\ Cardinality(free) \in Nat /\ Cardinality(Evictable) \in Nat
          /\ BlocksNeeded(Len(tables[s].prompt)) \in Int
      BY <1>1, <2>1, SetsOfBlocks, BlocksNeededType DEF IInv, TypeOK, Evictable
    <2>6. Cardinality(free) # 0 \/ Cardinality(Evictable) # 0
      BY <2>1, <2>3, <2>4, <2>5 DEF Available
    <2>7. free # {} \/ Evictable # {}
      BY <2>6, FS_EmptySet
    <2>8. QED
      BY <1>1, <2>7, SomeLeastRecentlyUsed DEF IInv, Takeable
  <1>2. QED
    BY <1>1, Invariance, PTL

(* No table lists a block twice.                                           *)
THEOREM NoDuplicates == Spec => []NoBlockTwice
  <1>1. IInv => NoBlockTwice
    BY DEF IInv
  <1>2. QED
    BY <1>1, Invariance, PTL

(* Every block is free or evictable unless a table lists it.               *)
LEMMA CapacityStated == ASSUME IInv PROVE CapacityExact
  <1> SUFFICES ASSUME ~leaked
               PROVE  Available = Cardinality(Blocks)
                                  - Cardinality(UNION {BlocksOf(s) : s \in Live})
    BY DEF CapacityExact
  <1> DEFINE used == UNION {BlocksOf(s) : s \in Live}
  <1>1. \A b \in Blocks : ref[b] = 0 <=> b \notin used
    <2> SUFFICES ASSUME NEW b \in Blocks  PROVE ref[b] = 0 <=> b \notin used
      OBVIOUS
    <2>1. Users(b) \subseteq SeqIds /\ ref[b] = Cardinality(Users(b))
      BY DEF IInv, TypeOK, RefCounts, Users
    <2>2. ref[b] = 0 <=> Users(b) = {}
      BY <2>1, SetsOfIds
    <2>3. QED
      BY <2>2 DEF Users
  <1>2. used \subseteq Blocks
    BY TableType DEF IInv
  <1>3. /\ free \cup Evictable = Blocks \ used
        /\ free \cap Evictable = {}
        /\ free \subseteq Blocks /\ Evictable \subseteq Blocks
    BY <1>1 DEF IInv, FreeListExact, Evictable
  <1> HIDE DEF used
  <1>4. IsFiniteSet(free) /\ IsFiniteSet(Evictable) /\ Cardinality(free) \in Nat
        /\ Cardinality(Evictable) \in Nat
    BY <1>3, SetsOfBlocks
  <1>5. Cardinality(free \cup Evictable) = Cardinality(free) + Cardinality(Evictable)
    BY <1>3, <1>4, FS_Union, FS_EmptySet
  <1>6. Cardinality(Blocks \ used) = Cardinality(Blocks) - Cardinality(Blocks \cap used)
    BY BlocksAssumption, FS_Difference
  <1>7. Blocks \cap used = used
    BY <1>2
  <1>8. QED
    BY <1>3, <1>5, <1>6, <1>7 DEF Available, used

(* num_available_blocks counts the blocks no table lists.                  *)
THEOREM CapacityCorrect == Spec => []CapacityExact
  <1>1. IInv => CapacityExact
    BY CapacityStated
  <1>2. QED
    BY <1>1, Invariance, PTL

(* A block is written to, or gets other content, only by its single user.  *)
LEMMA PrivateStep ==
  ASSUME IInv, [Next]_vars, NEW b \in Blocks, (fill')[b] # fill[b] \/ (hash')[b] # hash[b],
         NEW kept, kept = Users(b) \cap (Users(b))'
  PROVE  /\ Cardinality(kept) <= 1
         /\ kept # {} => hash[b] = NoHash /\ (hash')[b] = NoHash
  <1>1. SUFFICES kept = {} \/ (hash[b] = NoHash /\ (hash')[b] = NoHash /\ ref[b] <= 1)
    <2>1. Users(b) \subseteq SeqIds /\ kept \subseteq SeqIds
      BY DEF IInv, TypeOK, Users
    <2>2. CASE kept = {}
      BY <2>2, FS_EmptySet
    <2>3. CASE ref[b] <= 1
      <3>1. \A s, t \in kept : s = t
        BY <2>3, SingleUser
      <3>2. \A s \in kept : kept = {s}
        BY <3>1
      <3>3. \A s \in kept : Cardinality({s}) = 1
        BY OneElement
      <3>4. kept = {} \/ Cardinality(kept) = 1
        BY <3>2, <3>3
      <3>5. QED
        BY <2>2, <3>4
    <2>4. QED
      BY <1>1, <2>2, <2>3
  <1>2. ASSUME b \in Takeable  PROVE kept = {}
    BY <1>2, TakeableUnused
  <1>3. CASE Allocate
    <2>1. ASSUME NEW s \in SeqIds, NEW c \in Blocks, AllocateMiss(s, c)
          PROVE  b = c /\ c \in Takeable
      BY <2>1 DEF AllocateMiss, IInv, TypeOK
    <2>2. \E s \in SeqIds, c \in Blocks : AllocateMiss(s, c)
      BY <1>3 DEF Allocate, AllocateBegin, AllocateHit, AllocateEnd
    <2>3. QED
      BY <2>1, <2>2, <1>2
  <1>4. CASE AppendToken
    <2>1. ASSUME NEW s \in SeqIds, NEW c \in Blocks,
                 AppendToNewBlock(s, c) \/ AppendCopyOnWrite(s, c)
          PROVE  b = c /\ c \in Takeable
      BY <2>1 DEF AppendToNewBlock, AppendCopyOnWrite, IInv, TypeOK
    <2>2. ASSUME NEW s \in SeqIds, AppendInPlace(s)
          PROVE  hash[b] = NoHash /\ (hash')[b] = NoHash /\ ref[b] <= 1
      <3>1. s \in Live \ loading /\ ref[LastBlock(s)] <= 1 /\ ~AtBoundary(s) /\ hash' = hash
        BY <2>2 DEF AppendInPlace, Idle
      <3>2. b = LastBlock(s)
        BY <2>2, <3>1 DEF AppendInPlace, IInv, TypeOK
      <3>3. fill[b] # BlockSize
        BY <3>1, <3>2, FinishedTable
      <3>4. hash[b] = NoHash
        BY <3>3 DEF IInv, HashedBlocksFull
      <3>5. QED
        BY <3>1, <3>2, <3>4
    <2>3. QED
      BY <2>1, <2>2, <1>2, <1>4 DEF AppendToken
  <1>5. CASE \E s, t \in SeqIds : Fork(s, t)
    BY <1>5 DEF Fork
  <1>6. ASSUME NEW s \in SeqIds, Free(s)  PROVE kept = {}
    <2>1. b \in Released(s) /\ hash' = hash /\ Live' = Live \ {s} /\ s \in Live
      BY <1>6 DEF Free, IInv, TypeOK, Live, Restrict
    <2>2. b \in BlocksOf(s) /\ ref[b] = 1
      BY <2>1 DEF Released
    <2>3. s \in Users(b)
      BY <2>1, <2>2 DEF Users
    <2>4. \A t \in Users(b) : t = s
      BY <2>2, <2>3, SingleUser
    <2>5. s \notin (Users(b))'
      BY <2>1 DEF Users
    <2>6. QED
      BY <2>4, <2>5
  <1>7. CASE Reset
    <2>1. Live' = {}
      BY <1>7 DEF Reset, Live
    <2>2. QED
      BY <2>1 DEF Users
  <1>8. CASE UNCHANGED vars
    BY <1>8 DEF vars
  <1>9. QED
    BY <1>3, <1>4, <1>5, <1>6, <1>7, <1>8 DEF Next

(* append_token, eviction and free() never touch content that is shared.   *)
THEOREM WritesPrivate == Spec => WritesArePrivate
  <1> DEFINE Private ==
        \A b \in Blocks :
          (fill'[b] # fill[b] \/ hash'[b] # hash[b]) =>
            LET kept == Users(b) \cap (Users(b))'
            IN  /\ Cardinality(kept) <= 1
                /\ kept # {} => hash[b] = NoHash /\ hash'[b] = NoHash
  <1>1. IInv /\ [Next]_vars => Private
    BY PrivateStep
  <1>2. Spec => [][Private]_vars
    BY <1>1, Invariance, PTL DEF Spec
  <1>3. QED
    BY <1>2 DEF WritesArePrivate

-----------------------------------------------------------------------------
(***************************************************************************)
(* The allocator as a pool.  It rests on the allocator's own invariant and *)
(* on live sequences sharing no block, which is kept because a hit on a    *)
(* block of another table would be a hit on a prompt that begins with the  *)
(* same block.                                                             *)
(***************************************************************************)
(* Sequences share nothing, and what the pool has left covers the prompt   *)
(* being loaded and the reserve.                                           *)
Apart ==
  /\ ~leaked
  /\ \A s, t \in Live : s # t => ~SameFirstBlock(tables[s].prompt, tables[t].prompt)
  /\ \A s, t \in Live : s # t => BlocksOf(s) \cap BlocksOf(t) = {}

Promised ==
  \A s \in loading : PoolAvailable - BlocksNeeded(Len(tables[s].prompt)) >= LeastReserve

PoolInv == IInv /\ Apart /\ Promised

(* The blocks of the finished sequences but s                              *)
Others(s) == UNION {BlocksOf(t) : t \in Finished \ {s}}

-----------------------------------------------------------------------------
(* Arithmetic.                                                             *)
LEMMA Least == LeastReserve \in Nat /\ \A reserve \in Reserves : LeastReserve <= reserve
  BY PoolAssumption, ReservesAssumption DEF LeastReserve

LEMMA NeededExactly ==
  ASSUME NEW B \in Nat \ {0}, NEW k \in Nat \ {0}, NEW f \in 1..B
  PROVE  ((k - 1) * B + f + B - 1) \div B = k
  <1>1. PICK j \in Nat : j = k - 1
    OBVIOUS
  <1>2. (j * B + f + B - 1) \div B = j + 1
    OBVIOUS
  <1> QED
    BY <1>1, <1>2

LEMMA NeededNone == ASSUME NEW B \in Nat \ {0} PROVE (0 + B - 1) \div B = 0
  OBVIOUS

LEMMA NeededBounds ==
  ASSUME NEW B \in Nat \ {0}, NEW n \in Nat, NEW c \in Nat, (n + B - 1) \div B <= c
  PROVE  n <= c * B
  OBVIOUS

-----------------------------------------------------------------------------
(* A finished sequence has the blocks its tokens need.                     *)
LEMMA FinishedNeeds ==
  IInv => \A s \in Finished :
            /\ tables[s].numTokens \in Nat
            /\ BlocksOf(s) \subseteq Blocks
            /\ Cardinality(BlocksOf(s)) = BlocksNeeded(tables[s].numTokens)
  <1> SUFFICES ASSUME IInv, NEW s \in Finished
               PROVE  /\ tables[s].numTokens \in Nat
                      /\ BlocksOf(s) \subseteq Blocks
                      /\ Cardinality(BlocksOf(s)) = BlocksNeeded(tables[s].numTokens)
    OBVIOUS
  <1>1. s \in Live \ loading
    BY DEF Finished
  <1>2. /\ LastIndex(s) \in Nat /\ tables[s].numTokens \in Nat
        /\ LastIndex(s) = 0 => tables[s].numTokens = 0
        /\ LastIndex(s) # 0 =>
             /\ fill[LastBlock(s)] \in 1..BlockSize
             /\ tables[s].numTokens = (LastIndex(s) - 1) * BlockSize + fill[LastBlock(s)]
    BY <1>1, FinishedTable
  <1>3. /\ tables[s].blocks \in Seq(Blocks) /\ BlocksOf(s) \subseteq Blocks
        /\ DOMAIN tables[s].blocks = 1..LastIndex(s)
    BY <1>1, TableType DEF IInv
  <1>4. \A i, j \in 1..LastIndex(s) : tables[s].blocks[i] = tables[s].blocks[j] => i = j
    BY <1>1, <1>3 DEF IInv, NoBlockTwice
  <1>5. Cardinality(BlocksOf(s)) = LastIndex(s)
    <2>1. PICK q : q = tables[s].blocks
      OBVIOUS
    <2>2. q \in [1..LastIndex(s) -> BlocksOf(s)]
      <3>1. q \in [1..LastIndex(s) -> Blocks]
        BY <1>3, <2>1, LenProperties DEF LastIndex
      <3>2. \A i \in 1..LastIndex(s) : q[i] \in BlocksOf(s)
        BY <1>3, <2>1 DEF BlocksOf, Range
      <3> QED
        BY <3>1, <3>2
    <2>3. q \in Injection(1..LastIndex(s), BlocksOf(s))
      BY <1>4, <2>1, <2>2 DEF Injection, IsInjective
    <2>4. q \in Surjection(1..LastIndex(s), BlocksOf(s))
      BY <1>3, <2>1, <2>2 DEF Surjection, BlocksOf, Range
    <2>5. IsFiniteSet(1..LastIndex(s)) /\ Cardinality(1..LastIndex(s)) = LastIndex(s)
      BY <1>2, FS_Interval
    <2> QED
      BY <2>3, <2>4, <2>5, FS_Surjection
  <1>6. BlocksNeeded(tables[s].numTokens) = LastIndex(s)
    <2>1. CASE LastIndex(s) = 0
      BY <1>2, <2>1, NeededNone, BlockSizeAssumption DEF BlocksNeeded
    <2>2. CASE LastIndex(s) # 0
      BY <1>2, <2>2, NeededExactly, BlockSizeAssumption DEF BlocksNeeded
    <2> QED
      BY <2>1, <2>2
  <1> QED
    BY <1>2, <1>3, <1>5, <1>6

(* The pool is what the others leave of it, less what s holds.             *)
LEMMA Shares ==
  IInv /\ Apart => \A s \in Finished :
    PoolAvailable = Cardinality(Blocks) - Cardinality(Others(s)) - BlocksNeeded(tables[s].numTokens)
  <1> SUFFICES ASSUME IInv, Apart, NEW s \in Finished
               PROVE  PoolAvailable = Cardinality(Blocks) - Cardinality(Others(s))
                                        - BlocksNeeded(tables[s].numTokens)
    OBVIOUS
  <1>1. \A t \in Finished : BlocksOf(t) \subseteq Blocks
    BY FinishedNeeds
  <1>2. Others(s) \subseteq Blocks /\ BlocksOf(s) \subseteq Blocks
    BY <1>1 DEF Others
  <1>3. Others(s) \cap BlocksOf(s) = {}
    BY DEF Apart, Others, Finished
  <1>4. InUse = Others(s) \cup BlocksOf(s)
    BY DEF InUse, Others
  <1>5. /\ IsFiniteSet(Others(s)) /\ IsFiniteSet(BlocksOf(s))
        /\ Cardinality(Others(s)) \in Nat /\ Cardinality(BlocksOf(s)) \in Nat
    BY <1>2, SetsOfBlocks
  <1>6. Cardinality(InUse) = Cardinality(Others(s)) + Cardinality(BlocksOf(s))
    <2>1. Cardinality(Others(s) \cup BlocksOf(s)) = Cardinality(Others(s)) + Cardinality(BlocksOf(s))
                                                       - Cardinality(Others(s) \cap BlocksOf(s))
      BY <1>5, FS_Union
    <2>2. Cardinality(Others(s) \cap BlocksOf(s)) = 0
      BY <1>3, FS_EmptySet
    <2> QED
      BY <1>4, <1>5, <2>1, <2>2
  <1>7. Cardinality(BlocksOf(s)) = BlocksNeeded(tables[s].numTokens)
    BY FinishedNeeds
  <1>8. Cardinality(Blocks) \in Nat
    BY BlocksAssumption, FS_CardinalityType
  <1> QED
    BY <1>5, <1>6, <1>7, <1>8 DEF PoolAvailable

LEMMA SharesNext ==
  ASSUME IInv', Apart'
  PROVE  \A s \in Finished' :
           /\ (tables')[s].numTokens \in Nat
           /\ PoolAvailable' = Cardinality(Blocks) - Cardinality(Others(s)')
                                 - BlocksNeeded((tables')[s].numTokens)
  <1>1. (IInv /\ Apart => \A s \in Finished :
           PoolAvailable = Cardinality(Blocks) - Cardinality(Others(s))
                             - BlocksNeeded(tables[s].numTokens))'
    BY Shares, PTL
  <1>2. (IInv => \A s \in Finished :
            /\ tables[s].numTokens \in Nat
            /\ BlocksOf(s) \subseteq Blocks
            /\ Cardinality(BlocksOf(s)) = BlocksNeeded(tables[s].numTokens))'
    BY FinishedNeeds, PTL
  <1> QED
    BY <1>1, <1>2 DEF BlocksNeeded

-----------------------------------------------------------------------------
(* What steps have in common.                                              *)
LEMMA StillApart ==
  ASSUME Apart, leaked' = FALSE, Live' \subseteq Live, NEW s, NEW more,
         \A t \in Live' : (tables')[t].prompt = tables[t].prompt,
         \A t \in Live' \ {s} : BlocksOf(t)' \subseteq BlocksOf(t),
         s \in Live' => BlocksOf(s)' \subseteq BlocksOf(s) \cup more,
         \A t \in Live \ {s} : BlocksOf(t) \cap more = {}
  PROVE  Apart'
  <1>1. ASSUME NEW t \in Live', NEW u \in Live', t # u
        PROVE  ~SameFirstBlock((tables')[t].prompt, (tables')[u].prompt)
    BY <1>1 DEF Apart
  <1>2. ASSUME NEW t \in Live', NEW u \in Live', t # u
        PROVE  BlocksOf(t)' \cap BlocksOf(u)' = {}
    <2>1. t \in Live /\ u \in Live /\ BlocksOf(t) \cap BlocksOf(u) = {}
      BY <1>2 DEF Apart
    <2>2. CASE t = s
      <3>1. BlocksOf(u)' \subseteq BlocksOf(u) /\ BlocksOf(u) \cap more = {}
        BY <1>2, <2>1, <2>2
      <3> QED
        BY <2>1, <2>2, <3>1
    <2>3. CASE u = s
      <3>1. BlocksOf(t)' \subseteq BlocksOf(t) /\ BlocksOf(t) \cap more = {}
        BY <1>2, <2>1, <2>3
      <3> QED
        BY <2>1, <2>3, <3>1
    <2>4. CASE t # s /\ u # s
      BY <2>1, <2>4
    <2> QED
      BY <2>2, <2>3, <2>4
  <1> QED
    BY <1>1, <1>2 DEF Apart

LEMMA Unmoved ==
  ASSUME Finished' = Finished, \A t \in Finished : (tables')[t] = tables[t]
  PROVE  PoolTokens' = PoolTokens /\ PoolAvailable' = PoolAvailable
  <1>1. \A t \in Finished : BlocksOf(t)' = BlocksOf(t)
    BY DEF BlocksOf
  <1>2. InUse' = InUse
    BY <1>1 DEF InUse
  <1> QED
    BY <1>2 DEF PoolTokens, PoolAvailable

LEMMA Resized ==
  ASSUME IInv, Apart, IInv', Apart', NEW s, NEW n \in Nat, Finished' = Finished \cup {s},
         (tables')[s].numTokens = n, \A t \in Finished \ {s} : (tables')[t] = tables[t]
  PROVE  Pool!Resize(s, n)
  <1>1. PoolTokens' =
          [t \in DOMAIN PoolTokens \cup {s} |-> IF t = s THEN n ELSE PoolTokens[t]]
    BY DEF PoolTokens
  <1>2. Others(s)' = Others(s)
    <2>1. \A t \in Finished \ {s} : BlocksOf(t)' = BlocksOf(t)
      BY DEF BlocksOf
    <2> QED
      BY <2>1 DEF Others
  <1>3. PoolAvailable' = Cardinality(Blocks) - Cardinality(Others(s)) - BlocksNeeded(n)
    BY <1>2, SharesNext
  <1>4. /\ Cardinality(Blocks) \in Nat /\ Cardinality(Others(s)) \in Nat /\ BlocksNeeded(n) \in Int
    <2>1. Others(s) \subseteq Blocks
      BY FinishedNeeds DEF Others
    <2> QED
      BY <2>1, SetsOfBlocks, BlocksNeededType
  <1>5. PoolAvailable' = PoolAvailable + Pool!Held(s) - BlocksNeeded(n)
    <2>1. CASE s \in Finished
      <3>1. Pool!Held(s) = BlocksNeeded(tables[s].numTokens)
        BY <2>1 DEF Pool!Held, Pool!BlocksNeeded, BlocksNeeded, PoolTokens
      <3>2. PoolAvailable = Cardinality(Blocks) - Cardinality(Others(s))
                              - BlocksNeeded(tables[s].numTokens)
        BY <2>1, Shares
      <3>3. BlocksNeeded(tables[s].numTokens) \in Int
        BY <2>1, FinishedNeeds, BlocksNeededType
      <3> QED
        BY <1>3, <1>4, <3>1, <3>2, <3>3
    <2>2. CASE s \notin Finished
      <3>1. Pool!Held(s) = 0
        BY <2>2 DEF Pool!Held, PoolTokens
      <3>2. Others(s) = InUse
        BY <2>2 DEF Others, InUse
      <3> QED
        BY <1>3, <1>4, <3>1, <3>2 DEF PoolAvailable
    <2> QED
      BY <2>1, <2>2
  <1> QED
    BY <1>1, <1>5 DEF Pool!Resize, Pool!BlocksNeeded, BlocksNeeded

-----------------------------------------------------------------------------
(* allocate().                                                             *)
LEMMA BeginStep ==
  ASSUME PoolInv, NEW s \in SeqIds, NEW p \in Prompts, NEW reserve \in Reserves,
         Unshared(p), AllocateBegin(s, p, reserve)
  PROVE  Apart' /\ Promised' /\ UNCHANGED <<PoolTokens, PoolAvailable>>
  <1>1. /\ loading = {} /\ loading' = {s} /\ s \notin Live /\ Live' = Live \cup {s}
        /\ (tables')[s] = [blocks |-> << >>, numTokens |-> 0, numCached |-> 0, prompt |-> p]
        /\ \A t \in Live : (tables')[t] = tables[t]
        /\ leaked' = leaked /\ CanAllocate(Len(p), reserve)
    BY DEF AllocateBegin, Idle, Live
  <1>2. Finished = Live /\ Finished' = Live
    BY <1>1 DEF Finished
  <1>3. PoolTokens' = PoolTokens /\ PoolAvailable' = PoolAvailable
    BY <1>1, <1>2, Unmoved
  <1>4. BlocksOf(s)' = {} /\ \A t \in Live : BlocksOf(t)' = BlocksOf(t)
    BY <1>1 DEF BlocksOf, Range
  <1>5. Apart'
    <2>1. \A t \in Live : /\ ~SameFirstBlock(p, tables[t].prompt)
                          /\ ~SameFirstBlock(tables[t].prompt, p)
      BY DEF Unshared, SameFirstBlock
    <2>2. ASSUME NEW t \in Live', NEW u \in Live', t # u
          PROVE  ~SameFirstBlock((tables')[t].prompt, (tables')[u].prompt)
      BY <1>1, <2>1, <2>2 DEF PoolInv, Apart
    <2>3. ASSUME NEW t \in Live', NEW u \in Live', t # u
          PROVE  BlocksOf(t)' \cap BlocksOf(u)' = {}
      BY <1>1, <1>4, <2>3 DEF PoolInv, Apart
    <2> QED
      BY <1>1, <2>2, <2>3 DEF PoolInv, Apart
  <1>6. PoolAvailable - BlocksNeeded(Len(p)) >= LeastReserve
    <2>1. Available = PoolAvailable
      BY <1>2, CapacityStated DEF PoolInv, Apart, CapacityExact, PoolAvailable, InUse
    <2>2. Available - BlocksNeeded(Len(p)) >= reserve /\ reserve >= LeastReserve
      BY <1>1, Least, ReservesAssumption DEF CanAllocate
    <2>3. Available \in Int /\ BlocksNeeded(Len(p)) \in Int /\ reserve \in Nat /\ LeastReserve \in Nat
      <3>1. Len(p) \in Nat
        BY PromptsAssumption
      <3>2. free \subseteq Blocks /\ Evictable \subseteq Blocks
        BY DEF PoolInv, IInv, TypeOK, Evictable
      <3> QED
        BY <3>1, <3>2, BlocksNeededType, SetsOfBlocks, Least, ReservesAssumption DEF Available
    <2> QED
      BY <2>1, <2>2, <2>3
  <1>7. Promised'
    BY <1>1, <1>3, <1>6 DEF Promised, BlocksNeeded
  <1> QED
    BY <1>3, <1>5, <1>7

(* A block added to the table that is being built, which no other has      *)
LEMMA LoadStep ==
  ASSUME PoolInv, NEW s \in loading, NEW b,
         Live' = Live, loading' = loading, leaked' = leaked,
         (tables')[s].prompt = tables[s].prompt, BlocksOf(s)' \subseteq BlocksOf(s) \cup {b},
         \A t \in Live \ {s} : (tables')[t] = tables[t] /\ b \notin BlocksOf(t)
  PROVE  Apart' /\ Promised' /\ UNCHANGED <<PoolTokens, PoolAvailable>>
  <1>1. loading = {s}
    BY DEF PoolInv, IInv, LoadingShape
  <1>2. Finished' = Finished /\ Finished = Live \ {s}
    BY <1>1 DEF Finished
  <1>3. PoolTokens' = PoolTokens /\ PoolAvailable' = PoolAvailable
    BY <1>2, Unmoved
  <1>4. \A t \in Live \ {s} : BlocksOf(t)' = BlocksOf(t)
    BY DEF BlocksOf
  <1>5. PICK more : more = {b}
    OBVIOUS
  <1>6. Apart'
    <2>1. /\ Apart /\ leaked' = FALSE /\ Live' \subseteq Live
          /\ \A t \in Live' : (tables')[t].prompt = tables[t].prompt
          /\ \A t \in Live' \ {s} : BlocksOf(t)' \subseteq BlocksOf(t)
          /\ BlocksOf(s)' \subseteq BlocksOf(s) \cup more
          /\ \A t \in Live \ {s} : BlocksOf(t) \cap more = {}
      BY <1>4, <1>5 DEF PoolInv, Apart
    <2> QED
      BY <2>1, StillApart
  <1>7. Promised'
    BY <1>1, <1>3 DEF PoolInv, Promised, BlocksNeeded
  <1> QED
    BY <1>3, <1>6, <1>7

(* A block that is hit caches this prompt from its first block on: no      *)
(* other live sequence lists it.                                           *)
LEMMA HitStep ==
  ASSUME PoolInv, NEW s \in loading, AllocateHit(s)
  PROVE  Apart' /\ Promised' /\ UNCHANGED <<PoolTokens, PoolAvailable>>
  <1>1. PICK b : b = index[ChunkHash(s)]
    OBVIOUS
  <1>2. s \in Live /\ LastIndex(s) \in Nat /\ tables[s] \in BlockTable
        /\ tables[s].blocks \in Seq(Blocks) /\ tables[s].prompt \in Prompts
    BY TableType DEF PoolInv, IInv, TypeOK
  <1>3. /\ Cacheable(s) /\ ChunkHash(s) \in DOMAIN index
        /\ tables' = [tables EXCEPT ![s].blocks = Append(@, b), ![s].numCached = @ + BlockSize]
        /\ loading' = loading /\ leaked' = leaked
    BY <1>1 DEF AllocateHit, Hit
  <1>4. b \in Blocks /\ hash[b] = ChunkHash(s) /\ ChunkHash(s) # NoHash
    BY <1>1, <1>3 DEF PoolInv, IInv, TypeOK, IndexExact
  <1>5. /\ Live' = Live /\ (tables')[s].blocks = Append(tables[s].blocks, b)
        /\ (tables')[s].prompt = tables[s].prompt
        /\ \A t \in Live \ {s} : (tables')[t] = tables[t]
    BY <1>2, <1>3 DEF Live, BlockTable
  <1>6. BlocksOf(s)' \subseteq BlocksOf(s) \cup {b}
    BY <1>2, <1>4, <1>5 DEF BlocksOf, Range
  <1>7. ASSUME NEW t \in Live \ {s}, b \in BlocksOf(t) PROVE FALSE
    <2>1. /\ LastIndex(t) \in Nat /\ DOMAIN tables[t].blocks = 1..LastIndex(t)
          /\ tables[t].prompt \in Prompts
      BY TableType DEF PoolInv, IInv
    <2>2. PICK i \in 1..LastIndex(t) : b = tables[t].blocks[i]
      BY <1>7, <2>1 DEF BlocksOf, Range
    <2>3. /\ IsFull(tables[t].prompt, i) /\ hash[b] = HashOf(tables[t].prompt, i)
      BY <1>4, <2>1, <2>2 DEF PoolInv, IInv, OwnHashes
    <2>4. PICK k \in Nat \ {0} : k = NextChunk(s)
      BY <1>2 DEF NextChunk, LastIndex
    <2>5. IsFull(tables[s].prompt, k) /\ hash[b] = HashOf(tables[s].prompt, k)
      BY <1>3, <1>4, <2>4 DEF Cacheable, ChunkHash
    <2>6. Chunk(tables[s].prompt, 1) = Chunk(tables[t].prompt, 1)
      <3>1. HashOf(tables[s].prompt, k) = HashOf(tables[t].prompt, i)
        BY <2>3, <2>5
      <3>2. /\ HashOf(tables[s].prompt, k)[1] = Chunk(tables[s].prompt, 1)
            /\ HashOf(tables[t].prompt, i)[1] = Chunk(tables[t].prompt, 1)
        BY <2>2, <2>4 DEF HashOf
      <3> QED
        BY <3>1, <3>2
    <2>7. \A p \in Prompts : \A n \in Nat \ {0} : IsFull(p, n) => IsFull(p, 1)
      <3>1. \A p \in Prompts : Len(p) \in Nat
        BY PromptsAssumption
      <3>2. \A n \in Nat \ {0} : BlockSize <= n * BlockSize
        BY FewerBlocksFewerTokens, BlockSizeAssumption
      <3>3. \A n \in Nat \ {0} : n * BlockSize \in Nat
        BY BlockSizeAssumption
      <3> QED
        BY <3>1, <3>2, <3>3, BlockSizeAssumption DEF IsFull
    <2>8. IsFull(tables[s].prompt, 1) /\ IsFull(tables[t].prompt, 1)
      BY <1>2, <2>1, <2>2, <2>3, <2>4, <2>5, <2>7
    <2> QED
      BY <1>2, <1>7, <2>6, <2>8 DEF SameFirstBlock, PoolInv, Apart
  <1> QED
    BY <1>3, <1>5, <1>6, <1>7, LoadStep

LEMMA MissStep ==
  ASSUME PoolInv, NEW s \in loading, NEW b \in Blocks, AllocateMiss(s, b)
  PROVE  Apart' /\ Promised' /\ UNCHANGED <<PoolTokens, PoolAvailable>>
  <1>1. s \in Live /\ tables[s] \in BlockTable /\ tables[s].blocks \in Seq(Blocks)
    BY TableType DEF PoolInv, IInv, TypeOK
  <1>2. /\ b \in Takeable /\ tables' = [tables EXCEPT ![s].blocks = Append(@, b)]
        /\ loading' = loading /\ leaked' = leaked
    BY DEF AllocateMiss
  <1>3. /\ Live' = Live /\ (tables')[s].blocks = Append(tables[s].blocks, b)
        /\ (tables')[s].prompt = tables[s].prompt
        /\ \A t \in Live \ {s} : (tables')[t] = tables[t]
    BY <1>1, <1>2 DEF Live, BlockTable
  <1>4. BlocksOf(s)' \subseteq BlocksOf(s) \cup {b}
    BY <1>1, <1>3 DEF BlocksOf, Range
  <1>5. \A t \in Live : b \notin BlocksOf(t)
    BY <1>2, TakeableUnused DEF PoolInv
  <1> QED
    BY <1>2, <1>3, <1>4, <1>5, LoadStep

(* The sequence enters the pool.                                           *)
LEMMA EndStep ==
  ASSUME PoolInv, IInv', NEW s \in loading, AllocateEnd(s)
  PROVE  /\ Apart' /\ Promised'
         /\ \E n \in 0..(Cardinality(Blocks) * BlockSize) : Pool!Allocate(s, n)
  <1>1. PICK n \in Nat : n = Len(tables[s].prompt)
    BY TableType, PromptsAssumption DEF PoolInv, IInv, TypeOK
  <1>2. s \in Live /\ tables[s] \in BlockTable /\ loading = {s}
    BY TableType DEF PoolInv, IInv, TypeOK, LoadingShape
  <1>3. /\ tables' = [tables EXCEPT ![s].numTokens = n] /\ loading' = {} /\ leaked' = leaked
    BY <1>1 DEF AllocateEnd
  <1>4. /\ Live' = Live /\ (tables')[s].numTokens = n
        /\ (tables')[s].blocks = tables[s].blocks /\ (tables')[s].prompt = tables[s].prompt
        /\ \A t \in Live \ {s} : (tables')[t] = tables[t]
    BY <1>2, <1>3 DEF Live, BlockTable
  <1>5. \A t \in Live : BlocksOf(t)' = BlocksOf(t) /\ (tables')[t].prompt = tables[t].prompt
    BY <1>4 DEF BlocksOf
  <1>6. Apart'
    BY <1>3, <1>4, <1>5 DEF PoolInv, Apart
  <1>7. Finished' = Finished \cup {s} /\ s \notin Finished /\ Finished = Live \ {s}
    BY <1>2, <1>3, <1>4 DEF Finished
  <1>8. Pool!Resize(s, n)
    BY <1>1, <1>4, <1>6, <1>7, Resized DEF PoolInv
  <1>9. PoolAvailable - BlocksNeeded(n) >= LeastReserve
    BY <1>1 DEF PoolInv, Promised
  <1>10. n <= Cardinality(Blocks) * BlockSize
    <2>1. Cardinality(Blocks) \in Nat /\ Cardinality(InUse) \in Nat
      <3>1. InUse \subseteq Blocks
        BY FinishedNeeds DEF InUse, PoolInv
      <3> QED
        BY <3>1, SetsOfBlocks
    <2>2. BlocksNeeded(n) <= Cardinality(Blocks)
      BY <1>9, <2>1, Least, BlocksNeededType DEF PoolAvailable
    <2> QED
      BY <2>1, <2>2, NeededBounds, BlockSizeAssumption DEF BlocksNeeded
  <1>11. Pool!Allocate(s, n)
    BY <1>7, <1>8, <1>9 DEF Pool!Allocate, Pool!CanAllocate, Pool!BlocksNeeded, BlocksNeeded, PoolTokens
  <1>12. n \in 0..(Cardinality(Blocks) * BlockSize)
    <2>1. Cardinality(Blocks) * BlockSize \in Int
      BY BlocksAssumption, BlockSizeAssumption, FS_CardinalityType
    <2> QED
      BY <1>10, <2>1
  <1>13. Promised'
    BY <1>3 DEF Promised
  <1> QED
    BY <1>6, <1>11, <1>12, <1>13

-----------------------------------------------------------------------------
(* append_token(), whichever way the token is put.                         *)
LEMMA OneTokenMore ==
  ASSUME PoolInv, IInv', NEW s \in Live, NEW more \in SUBSET Blocks,
         loading = {}, loading' = {}, Live' = Live, leaked' = leaked,
         (tables')[s].numTokens = tables[s].numTokens + 1,
         (tables')[s].prompt = tables[s].prompt, BlocksOf(s)' \subseteq BlocksOf(s) \cup more,
         \A t \in Live \ {s} : (tables')[t] = tables[t] /\ BlocksOf(t) \cap more = {},
         BlocksOf(s) \cap more = {}, AtBoundary(s) => more # {}
  PROVE  Apart' /\ Promised' /\ Pool!AppendToken(s)
  <1>1. Finished = Live /\ Finished' = Live
    BY DEF Finished
  <1>2. \A t \in Live \ {s} : BlocksOf(t)' = BlocksOf(t)
    BY DEF BlocksOf
  <1>3. Apart'
    <2>1. /\ Apart /\ leaked' = FALSE /\ Live' \subseteq Live
          /\ \A t \in Live' : (tables')[t].prompt = tables[t].prompt
          /\ \A t \in Live' \ {s} : BlocksOf(t)' \subseteq BlocksOf(t)
          /\ \A t \in Live \ {s} : BlocksOf(t) \cap more = {}
      BY <1>2 DEF PoolInv, Apart
    <2> QED
      BY <2>1, StillApart
  <1>4. PICK n \in Nat : n = tables[s].numTokens + 1
    BY <1>1, FinishedNeeds DEF PoolInv
  <1>5. Pool!Resize(s, n)
    BY <1>1, <1>3, <1>4, Resized DEF PoolInv
  <1>6. Pool!HasRoom(s)
    <2>1. CASE AtBoundary(s)
      <3>1. InUse \subseteq Blocks
        BY FinishedNeeds DEF InUse, PoolInv
      <3>2. PICK b \in Blocks : b \in more
        BY <2>1
      <3>3. b \notin InUse
        BY <1>1, <3>2 DEF InUse
      <3>4. Cardinality(InUse \cup {b}) = Cardinality(InUse) + 1
        BY <3>1, <3>3, SetsOfBlocks, FS_AddElement
      <3>5. Cardinality(InUse \cup {b}) <= Cardinality(Blocks)
        BY <3>1, BlocksAssumption, FS_Subset
      <3>6. Cardinality(InUse) \in Nat /\ Cardinality(Blocks) \in Nat
        BY <3>1, SetsOfBlocks
      <3>7. PoolAvailable > 0
        BY <3>4, <3>5, <3>6 DEF PoolAvailable
      <3> QED
        BY <3>7 DEF Pool!HasRoom
    <2>2. CASE ~AtBoundary(s)
      BY <1>1, <2>2 DEF Pool!HasRoom, AtBoundary, PoolTokens
    <2> QED
      BY <2>1, <2>2
  <1>7. Pool!AppendToken(s)
    <2>1. s \in DOMAIN PoolTokens /\ PoolTokens[s] + 1 = n
      BY <1>1, <1>4 DEF PoolTokens
    <2> QED
      BY <1>5, <1>6, <2>1 DEF Pool!AppendToken
  <1>8. Promised'
    BY DEF Promised
  <1> QED
    BY <1>3, <1>7, <1>8

LEMMA NewBlockStep ==
  ASSUME PoolInv, IInv', NEW s \in SeqIds, NEW b \in Blocks, AppendToNewBlock(s, b)
  PROVE  Apart' /\ Promised' /\ Pool!AppendToken(s)
  <1>1. /\ loading = {} /\ loading' = {} /\ leaked' = leaked /\ s \in Live /\ b \in Takeable
        /\ tables' = [tables EXCEPT ![s].blocks = Append(@, b), ![s].numTokens = @ + 1]
    BY DEF AppendToNewBlock, Idle
  <1>2. tables[s] \in BlockTable /\ tables[s].blocks \in Seq(Blocks)
    BY <1>1, TableType DEF PoolInv, IInv
  <1>3. /\ Live' = Live /\ (tables')[s].blocks = Append(tables[s].blocks, b)
        /\ (tables')[s].prompt = tables[s].prompt
        /\ (tables')[s].numTokens = tables[s].numTokens + 1
        /\ \A t \in Live \ {s} : (tables')[t] = tables[t]
    BY <1>1, <1>2 DEF Live, BlockTable
  <1>4. BlocksOf(s)' \subseteq BlocksOf(s) \cup {b}
    BY <1>2, <1>3 DEF BlocksOf, Range
  <1>5. \A t \in Live : b \notin BlocksOf(t)
    BY <1>1, TakeableUnused DEF PoolInv
  <1>6. PICK more \in SUBSET Blocks : more = {b}
    OBVIOUS
  <1>7. /\ BlocksOf(s)' \subseteq BlocksOf(s) \cup more /\ more # {}
        /\ \A t \in Live : BlocksOf(t) \cap more = {}
    BY <1>4, <1>5, <1>6
  <1>8. loading = {} /\ loading' = {} /\ leaked' = leaked /\ s \in Live
    BY <1>1
  <1> QED
    BY <1>3, <1>7, <1>8, OneTokenMore

LEMMA CopyStep ==
  ASSUME PoolInv, IInv', NEW s \in SeqIds, NEW b \in Blocks, AppendCopyOnWrite(s, b)
  PROVE  Apart' /\ Promised' /\ Pool!AppendToken(s)
  <1>1. /\ loading = {} /\ loading' = {} /\ leaked' = leaked /\ s \in Live /\ b \in Takeable
        /\ tables' = [tables EXCEPT ![s].blocks = [@ EXCEPT ![LastIndex(s)] = b],
                                    ![s].numTokens = @ + 1]
    BY DEF AppendCopyOnWrite, Idle
  <1>2. tables[s] \in BlockTable /\ tables[s].blocks \in Seq(Blocks)
    BY <1>1, TableType DEF PoolInv, IInv
  <1>3. /\ Live' = Live /\ (tables')[s].blocks = [tables[s].blocks EXCEPT ![LastIndex(s)] = b]
        /\ (tables')[s].prompt = tables[s].prompt
        /\ (tables')[s].numTokens = tables[s].numTokens + 1
        /\ \A t \in Live \ {s} : (tables')[t] = tables[t]
    BY <1>1, <1>2 DEF Live, BlockTable
  <1>4. BlocksOf(s)' \subseteq BlocksOf(s) \cup {b}
    BY <1>2, <1>3 DEF BlocksOf, Range
  <1>5. \A t \in Live : b \notin BlocksOf(t)
    BY <1>1, TakeableUnused DEF PoolInv
  <1>6. PICK more \in SUBSET Blocks : more = {b}
    OBVIOUS
  <1>7. /\ BlocksOf(s)' \subseteq BlocksOf(s) \cup more /\ more # {}
        /\ \A t \in Live : BlocksOf(t) \cap more = {}
    BY <1>4, <1>5, <1>6
  <1>8. loading = {} /\ loading' = {} /\ leaked' = leaked /\ s \in Live
    BY <1>1
  <1> QED
    BY <1>3, <1>7, <1>8, OneTokenMore

LEMMA InPlaceStep ==
  ASSUME PoolInv, IInv', NEW s \in SeqIds, AppendInPlace(s)
  PROVE  Apart' /\ Promised' /\ Pool!AppendToken(s)
  <1>1. /\ loading = {} /\ loading' = {} /\ leaked' = leaked /\ s \in Live /\ ~AtBoundary(s)
        /\ tables' = [tables EXCEPT ![s].numTokens = @ + 1]
    BY DEF AppendInPlace, Idle
  <1>2. tables[s] \in BlockTable
    BY <1>1, TableType DEF PoolInv, IInv
  <1>3. /\ Live' = Live /\ (tables')[s].blocks = tables[s].blocks
        /\ (tables')[s].prompt = tables[s].prompt
        /\ (tables')[s].numTokens = tables[s].numTokens + 1
        /\ \A t \in Live \ {s} : (tables')[t] = tables[t]
    BY <1>1, <1>2 DEF Live, BlockTable
  <1>4. BlocksOf(s)' = BlocksOf(s)
    BY <1>3 DEF BlocksOf
  <1>5. PICK more \in SUBSET Blocks : more = {}
    OBVIOUS
  <1> QED
    BY <1>1, <1>3, <1>4, <1>5, OneTokenMore

-----------------------------------------------------------------------------
(* free() and reset().                                                     *)
LEMMA LeaveStep ==
  ASSUME PoolInv, NEW s \in SeqIds, Free(s)
  PROVE  Apart' /\ Promised' /\ Pool!Free(s)
  <1>1. /\ loading = {} /\ loading' = {} /\ leaked' = leaked /\ s \in Live
        /\ Live' = Live \ {s} /\ \A t \in Live \ {s} : (tables')[t] = tables[t]
    BY DEF Free, Idle, Live, Restrict
  <1>2. Finished = Live /\ Finished' = Live \ {s}
    BY <1>1 DEF Finished
  <1>3. \A t \in Live \ {s} : BlocksOf(t)' = BlocksOf(t)
    BY <1>1 DEF BlocksOf
  <1>4. Apart'
    BY <1>1, <1>3 DEF PoolInv, Apart
  <1>5. PoolTokens' = Restrict(PoolTokens, DOMAIN PoolTokens \ {s})
    BY <1>1, <1>2 DEF PoolTokens, Restrict
  <1>6. PoolAvailable' = PoolAvailable + Pool!Held(s)
    <2>1. InUse' = Others(s)
      BY <1>2, <1>3 DEF InUse, Others
    <2>2. PoolAvailable = Cardinality(Blocks) - Cardinality(Others(s))
                            - BlocksNeeded(tables[s].numTokens)
      BY <1>1, <1>2, Shares DEF PoolInv
    <2>3. Pool!Held(s) = BlocksNeeded(tables[s].numTokens)
      BY <1>1, <1>2 DEF Pool!Held, Pool!BlocksNeeded, BlocksNeeded, PoolTokens
    <2>4. /\ Cardinality(Blocks) \in Nat /\ Cardinality(Others(s)) \in Nat
          /\ BlocksNeeded(tables[s].numTokens) \in Int
      <3>1. Others(s) \subseteq Blocks /\ tables[s].numTokens \in Nat
        BY <1>1, <1>2, FinishedNeeds DEF Others, PoolInv
      <3> QED
        BY <3>1, SetsOfBlocks, BlocksNeededType
    <2> QED
      BY <2>1, <2>2, <2>3, <2>4 DEF PoolAvailable
  <1>7. Pool!Free(s)
    <2>1. s \in DOMAIN PoolTokens
      BY <1>1, <1>2 DEF PoolTokens
    <2> QED
      BY <1>5, <1>6, <2>1 DEF Pool!Free, Pool!Release, Pool!Restrict, Restrict
  <1>8. Promised'
    BY <1>1 DEF Promised
  <1> QED
    BY <1>4, <1>7, <1>8

LEMMA Emptied == tables = << >> => PoolTokens = << >> /\ PoolAvailable = Cardinality(Blocks)
  <1> SUFFICES ASSUME tables = << >>
               PROVE  PoolTokens = << >> /\ PoolAvailable = Cardinality(Blocks)
    OBVIOUS
  <1>1. Finished = {}
    BY DEF Finished, Live
  <1>2. PoolTokens = << >>
    BY <1>1 DEF PoolTokens
  <1>3. Cardinality(InUse) = 0
    BY <1>1, FS_EmptySet DEF InUse
  <1> QED
    BY <1>2, <1>3, BlocksAssumption, FS_CardinalityType DEF PoolAvailable

LEMMA EmptyStep ==
  ASSUME PoolInv, Reset
  PROVE  Apart' /\ Promised' /\ Pool!ReleaseAll
  <1>1. tables' = << >> /\ loading' = {} /\ leaked' = FALSE /\ Live' = {}
    BY DEF Reset, Idle, Live
  <1>2. PoolTokens' = << >> /\ PoolAvailable' = Cardinality(Blocks)
    <2>1. (tables = << >> => PoolTokens = << >> /\ PoolAvailable = Cardinality(Blocks))'
      BY Emptied, PTL
    <2> QED
      BY <1>1, <2>1
  <1> QED
    BY <1>1, <1>2 DEF Apart, Promised, Pool!ReleaseAll

-----------------------------------------------------------------------------
(* The refinement.                                                         *)
LEMMA InitPool == ASSUME Init PROVE PoolInv /\ Pool!Init
  <1>1. /\ tables = << >> /\ loading = {} /\ leaked = FALSE /\ Live = {}
    BY DEF Init, Live
  <1>2. IInv
    <2>1. lastUsed \in [Blocks -> Nat] /\ clock \in Nat
      BY DEF Init
    <2> QED
      BY <2>1, EmptyPool DEF Init
  <1> QED
    BY <1>1, <1>2, Emptied DEF PoolInv, Apart, Promised, Pool!Init

LEMMA CallerIsNext == ASSUME PoolInv, [CallerNext]_vars PROVE [Next]_vars
  <1>1. loading \subseteq SeqIds
    BY DEF PoolInv, IInv, TypeOK
  <1> QED
    BY <1>1 DEF CallerNext, Next, Allocate

LEMMA PoolStep ==
  ASSUME PoolInv, [CallerNext]_vars
  PROVE  PoolInv' /\ [Pool!Next]_(Pool!poolVars)
  <1>1. IInv'
    BY CallerIsNext, InvariantStep DEF PoolInv
  <1>2. CASE UNCHANGED vars
    <2>1. UNCHANGED <<tables, loading, leaked>>
      BY <1>2 DEF vars
    <2>2. Finished' = Finished /\ Live' = Live /\ \A t \in Live : BlocksOf(t)' = BlocksOf(t)
      BY <2>1 DEF Finished, Live, BlocksOf
    <2>3. PoolTokens' = PoolTokens /\ PoolAvailable' = PoolAvailable
      BY <2>1, <2>2, Unmoved
    <2>4. Apart' /\ Promised'
      BY <2>1, <2>2, <2>3 DEF PoolInv, Apart, Promised, BlocksNeeded
    <2> QED
      BY <1>1, <2>3, <2>4 DEF PoolInv, Pool!poolVars
  <1>3. ASSUME NEW s \in SeqIds, NEW p \in Prompts, NEW reserve \in Reserves, Unshared(p),
               AllocateBegin(s, p, reserve)
        PROVE  PoolInv' /\ [Pool!Next]_(Pool!poolVars)
    BY <1>1, <1>3, BeginStep DEF PoolInv, Pool!poolVars
  <1>4. ASSUME NEW s \in loading, AllocateHit(s)
        PROVE  PoolInv' /\ [Pool!Next]_(Pool!poolVars)
    BY <1>1, <1>4, HitStep DEF PoolInv, Pool!poolVars
  <1>5. ASSUME NEW s \in loading, NEW b \in Blocks, AllocateMiss(s, b)
        PROVE  PoolInv' /\ [Pool!Next]_(Pool!poolVars)
    BY <1>1, <1>5, MissStep DEF PoolInv, Pool!poolVars
  <1>6. ASSUME NEW s \in loading, AllocateEnd(s)
        PROVE  PoolInv' /\ [Pool!Next]_(Pool!poolVars)
    <2>1. s \in SeqIds
      BY DEF PoolInv, IInv, TypeOK
    <2> QED
      BY <1>1, <1>6, <2>1, EndStep DEF PoolInv, Pool!Next
  <1>7. ASSUME NEW s \in SeqIds,
               \/ \E b \in Blocks : AppendToNewBlock(s, b) \/ AppendCopyOnWrite(s, b)
               \/ AppendInPlace(s)
        PROVE  PoolInv' /\ [Pool!Next]_(Pool!poolVars)
    <2>1. Apart' /\ Promised' /\ Pool!AppendToken(s)
      BY <1>1, <1>7, NewBlockStep, CopyStep, InPlaceStep
    <2> QED
      BY <1>1, <2>1 DEF PoolInv, Pool!Next
  <1>8. ASSUME NEW s \in SeqIds, Free(s)
        PROVE  PoolInv' /\ [Pool!Next]_(Pool!poolVars)
    <2>1. Apart' /\ Promised' /\ Pool!Free(s)
      BY <1>8, LeaveStep
    <2> QED
      BY <1>1, <2>1 DEF PoolInv, Pool!Next
  <1>9. CASE Reset
    BY <1>1, <1>9, EmptyStep DEF PoolInv, Pool!Next
  <1> QED
    BY <1>2, <1>3, <1>4, <1>5, <1>6, <1>7, <1>8, <1>9 DEF CallerNext, AppendToken

(* Called without fork(), for prompts that share no first block, the       *)
(* allocator keeps its invariant and its sequences apart.                  *)
THEOREM PoolInvariance == CallerSpec => []PoolInv
  BY InitPool, PoolStep, PTL DEF CallerSpec

(* To the scheduler and the engine the allocator of model/kv_cache.py is   *)
(* a pool of blocks: whatever is hit, evicted or left cached, a sequence   *)
(* takes just the blocks its tokens need, and gives them back.             *)
THEOREM PoolImplemented == CallerSpec => ImplementsPool
  <1>1. Init => Pool!Init
    BY InitPool
  <1>2. PoolInv /\ [CallerNext]_vars => [Pool!Next]_(Pool!poolVars)
    BY PoolStep
  <1> QED
    BY <1>1, <1>2, PoolInvariance, PTL DEF CallerSpec, ImplementsPool, Pool!Spec
=============================================================================
