------------------------------ MODULE PriceFeed ------------------------------
(***************************************************************************)
(* The synthetic price feed, experimental/investor.py: a path of closes    *)
(* per symbol, grown to the day that is asked for from a generator seeded  *)
(* by the symbol, and cached.                                              *)
(*                                                                         *)
(* Abstractions: prices are integers and a step adds its draw; day 0 is    *)
(* the anchor, and earlier days are taken for it.  last() and quote() are  *)
(* functions of the day's close and of the hour.                           *)
(***************************************************************************)
EXTENDS Integers, Sequences, FiniteSets

CONSTANTS
  Equities, Coins,      (* instruments, of which coins trade every day      *)
  Weekend,              (* days equities do not trade                       *)
  ReferencePrice, Floor,
  Draws,                (* symbol |-> what its generator gives, from the    *)
                        (*   seed                                           *)
  Counts,               (* lengths of history asked for                     *)
  MaxDay                (* bound: the last day asked for                    *)

ASSUME FeedAssumption ==
  /\ MaxDay \in Nat /\ Counts \subseteq Int
  /\ \A s \in Equities \cup Coins : Len(Draws[s]) >= 2 * MaxDay

VARIABLES
  paths,                (* SyntheticFeed._paths                             *)
  told                  (* <<symbol, day, close>> of every answer so far    *)

feedVars == <<paths, told>>

Steps(s, d) == s \in Coins \/ d \notin Weekend

(* mutant: the generator is carried from one call to the next              *)
RegrownCarried(s, days) ==
  LET carried == Cardinality({d \in 1..(Len(paths[s]) - 1) : Steps(s, d)})
      walk[d \in 0..days] ==
        IF d = 0 THEN [close |-> ReferencePrice, drawn |-> carried]
        ELSE IF ~Steps(s, d) THEN walk[d - 1]
        ELSE LET next == walk[d - 1].close + Draws[s][walk[d - 1].drawn + 1]
             IN [close |-> IF next < Floor THEN Floor ELSE next, drawn |-> walk[d - 1].drawn + 1]
  IN [i \in 1..(days + 1) |-> walk[i - 1].close]

(* _path(), where what is cached does not reach: grown again from the      *)
(* reference price and a generator seeded anew                             *)
Regrown(s, days) ==
  LET walk[d \in 0..days] ==
        IF d = 0 THEN [close |-> ReferencePrice, drawn |-> 0]
        ELSE IF ~Steps(s, d) THEN walk[d - 1]
        ELSE LET next == walk[d - 1].close + Draws[s][walk[d - 1].drawn + 1]
             IN [close |-> IF next < Floor THEN Floor ELSE next, drawn |-> walk[d - 1].drawn + 1]
  IN [i \in 1..(days + 1) |-> walk[i - 1].close]

FeedInit == paths = [s \in Equities \cup Coins |-> <<>>] /\ told = {}

(* closes() of the n days up to a day, or of one                           *)
Closes(s, d, n) ==
  LET path == IF Len(paths[s]) > d THEN SubSeq(paths[s], 1, d + 1) ELSE Regrown(s, d)
      first == IF n < 1 THEN d ELSE IF n > d THEN 0 ELSE d - n + 1
  IN /\ told' = told \cup {<<s, i, path[i + 1]>> : i \in first..d}
     /\ paths' = IF Len(paths[s]) > d THEN paths ELSE [paths EXCEPT ![s] = path]

FeedNext == \E s \in Equities \cup Coins, d \in 0..MaxDay, n \in Counts : Closes(s, d, n)

FeedSpec == FeedInit /\ [][FeedNext]_feedVars

-----------------------------------------------------------------------------
(* History does not depend on the order of the calls: what was ever told   *)
(* of a day is one close, it repeats over a weekend, and it moves from one *)
(* day of trading to the next by the draw that is due, counted from the    *)
(* anchor.                                                                 *)
SamePast ==
  \A a, b \in told : a[1] = b[1] =>
    /\ a[2] = b[2] => a[3] = b[3]
    /\ b[2] = a[2] + 1 =>
         LET s == b[1]
             move == a[3] + Draws[s][Cardinality({d \in 1..b[2] : Steps(s, d)})]
         IN b[3] = IF ~Steps(s, b[2]) THEN a[3] ELSE IF move < Floor THEN Floor ELSE move
=============================================================================
