----------------------------- MODULE BlockPool -----------------------------
(***************************************************************************)
(* What the KV-cache allocator promises its callers, for sequences that    *)
(* share no block: a pool of NumBlocks blocks of BlockSize tokens, from    *)
(* which a sequence of n tokens takes just the blocks its tokens need.     *)
(* KVCacheAsPool shows that PagedKVCache implements this specification;    *)
(* Scheduler and Engine use it in place of the allocator.                  *)
(***************************************************************************)
EXTENDS Integers, FiniteSets, Sequences, Functions

CONSTANTS
  Seqs,       (* sequence (request) ids                                    *)
  NumBlocks,  (* blocks of the pool                                        *)
  BlockSize,  (* tokens per block                                          *)
  Reserve,    (* blocks the watermark keeps: int(num_blocks * watermark)   *)
  MaxLength   (* bound: tokens of an allocation                            *)

VARIABLES
  tokens,     (* num_tokens of the block table of each live sequence       *)
  available   (* num_available_blocks                                      *)

poolVars == <<tokens, available>>

BlocksNeeded(n) == (n + BlockSize - 1) \div BlockSize

CanAllocate(n) == available - BlocksNeeded(n) >= Reserve

(* append_token finds room in the last block or a block to start.          *)
HasRoom(s) == tokens[s] % BlockSize # 0 \/ available > 0

Held(s) == IF s \in DOMAIN tokens THEN BlocksNeeded(tokens[s]) ELSE 0

(* The table of s holds n tokens from now on.                              *)
Resize(s, n) ==
  /\ tokens' = [t \in DOMAIN tokens \cup {s} |-> IF t = s THEN n ELSE tokens[t]]
  /\ available' = available + Held(s) - BlocksNeeded(n)

Release(s) ==
  /\ tokens' = Restrict(tokens, DOMAIN tokens \ {s})
  /\ available' = available + Held(s)

ReleaseAll == tokens' = << >> /\ available' = NumBlocks

-----------------------------------------------------------------------------
Init == tokens = << >> /\ available = NumBlocks

Allocate(s, n) == s \notin DOMAIN tokens /\ CanAllocate(n) /\ Resize(s, n)

AppendToken(s) == s \in DOMAIN tokens /\ HasRoom(s) /\ Resize(s, tokens[s] + 1)

Free(s) == s \in DOMAIN tokens /\ Release(s)

Next ==
  \/ \E s \in Seqs : (\E n \in 0..MaxLength : Allocate(s, n)) \/ AppendToken(s) \/ Free(s)
  \/ ReleaseAll

Spec == Init /\ [][Next]_poolVars

-----------------------------------------------------------------------------
(* No block is lost or lent twice.                                         *)
BlocksAccounted ==
  available >= 0 /\ available = NumBlocks - SumFunction([s \in DOMAIN tokens |-> Held(s)])
=============================================================================
