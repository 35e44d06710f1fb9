------------------------------ MODULE MCServer ------------------------------
(* A small instance of Server: the first request has a key of its own.     *)
EXTENDS Server, TLC

CONSTANTS k1, k2, r1, r2, r3

MCKeys == {k1, k2}
MCRequests == {r1, r2, r3}
MCKeyOf == [r \in MCRequests |-> IF r = r1 THEN k1 ELSE k2]
MCSymmetry == Permutations({r2, r3})
=============================================================================
