------------------------------ MODULE MCEngine ------------------------------
(* A small instance of Engine; the requests are interchangeable.           *)
EXTENDS Engine, TLC

MCSymmetry == Permutations(Requests)
=============================================================================
