-------------------------- MODULE MCKVCacheAsPool --------------------------
(* A small instance of KVCacheAsPool: two prompts with a full block of     *)
(* their own each, one of them also with a second block, and a short one.  *)
EXTENDS KVCacheAsPool, TLC

CONSTANTS x, y

MCPrompts == {<<x, x>>, <<x, x, y>>, <<y, y, x, x>>, <<y>>}

MCSymmetry == Permutations(Blocks)
=============================================================================
