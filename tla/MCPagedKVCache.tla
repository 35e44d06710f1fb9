--------------------------- MODULE MCPagedKVCache ---------------------------
(* A small instance of PagedKVCache: blocks and sequence ids are           *)
(* interchangeable, the prompts share prefixes of one and of two blocks.   *)
EXTENDS PagedKVCache, TLC

CONSTANTS x, y

MCPrompts == {<<x, x>>, <<x, x, y>>, <<x, x, x, x>>, <<y>>}

MCSymmetry == Permutations(Blocks) \cup Permutations(SeqIds)
=============================================================================
