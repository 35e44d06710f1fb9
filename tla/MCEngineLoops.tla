---------------------------- MODULE MCEngineLoops ----------------------------
(* A small instance of EngineLoops.                                        *)
EXTENDS EngineLoops, TLC
=============================================================================
