---------------------------- MODULE ExpertRouting ----------------------------
(***************************************************************************)
(* Mixture-of-experts routing, model/moe.py: every token of a batch takes  *)
(* its best experts that are not full yet, in the order of the batch.      *)
(*                                                                         *)
(* Abstractions: router logits are integers; their softmax has the same    *)
(* order, and the weights it gives the experts chosen are left out, as is  *)
(* the order in which these are listed.  The capacity factor is in percent.*)
(***************************************************************************)
EXTENDS Integers, Sequences, FiniteSets

CONSTANTS
  Experts,              (* 0..num_experts-1                                 *)
  ExpertsPerToken,
  CapacityFactor,
  DropPolicies,         (* "rightmost", "none"                              *)
  Batches,              (* sequences of router logits per token             *)
  MaxSteps              (* bound: forward passes                            *)

ASSUME RoutingAssumption ==
  /\ IsFiniteSet(Experts) /\ Experts \subseteq Int
  /\ ExpertsPerToken \in 1..Cardinality(Experts)
  /\ Batches \subseteq Seq([Experts -> Int])
  /\ CapacityFactor \in Nat /\ MaxSteps \in Nat

VARIABLES
  dropPolicy,
  batch, decision,      (* the last forward pass                            *)
  cumulativeLoad, steps

routingVars == <<dropPolicy, batch, decision, cumulativeLoad, steps>>

NoLoad == [e \in Experts |-> 0]

(* mutant: rounded down                                                    *)
CapacityFloor(tokens) ==
  IF dropPolicy = "none" THEN tokens
  ELSE LET ideal == (tokens * ExpertsPerToken * CapacityFactor) \div (100 * Cardinality(Experts))
       IN IF ideal < 1 THEN 1 ELSE ideal

(* capacity(): rounded up, and at least one                                *)
Capacity(tokens) ==
  IF dropPolicy = "none" THEN tokens
  ELSE LET all == 100 * Cardinality(Experts)
           ideal == (tokens * ExpertsPerToken * CapacityFactor + all - 1) \div all
       IN IF ideal < 1 THEN 1 ELSE ideal

(* The sort by weight is stable                                            *)
Better(logits, e, f) == logits[e] > logits[f] \/ (logits[e] = logits[f] /\ e < f)

(* The experts that come first, of some                                    *)
TopK(logits, experts) ==
  {e \in experts : Cardinality({f \in experts : Better(logits, f, e)}) < ExpertsPerToken}

(* One token of route(): full experts are passed over                      *)
Assign(cap, sofar, logits) ==
  LET chosen == TopK(logits, {e \in Experts : sofar.load[e] < cap})
      token == Len(sofar.experts) + 1
  IN [experts |-> Append(sofar.experts, chosen),
      dropped |-> sofar.dropped \cup (IF Cardinality(chosen) < ExpertsPerToken THEN {token} ELSE {}),
      load |-> [e \in Experts |-> sofar.load[e] + (IF e \in chosen THEN 1 ELSE 0)]]

(* The decision as it grows, a token of the batch at a time                *)
Deciding(logits) ==
  LET after[n \in 0..Len(logits)] ==
        IF n = 0 THEN [experts |-> <<>>, dropped |-> {}, load |-> NoLoad]
        ELSE Assign(Capacity(Len(logits)), after[n - 1], logits[n])
  IN after

Decision(logits) == Deciding(logits)[Len(logits)]

RoutingInit ==
  /\ dropPolicy \in DropPolicies
  /\ batch = <<>> /\ decision = Decision(<<>>)
  /\ cumulativeLoad = NoLoad /\ steps = 0

Route(logits) ==
  /\ steps < MaxSteps
  /\ batch' = logits
  /\ decision' = Decision(logits)
  /\ cumulativeLoad' = [e \in Experts |-> cumulativeLoad[e] + decision'.load[e]]
  /\ steps' = steps + 1
  /\ UNCHANGED dropPolicy

ResetStats ==
  /\ cumulativeLoad' = NoLoad /\ steps' = 0
  /\ UNCHANGED <<dropPolicy, batch, decision>>

RoutingNext == (\E logits \in Batches : Route(logits)) \/ ResetStats

RoutingSpec == RoutingInit /\ [][RoutingNext]_routingVars

-----------------------------------------------------------------------------
Took(token, e) == e \in decision.experts[token]

(* The tokens, of the first n, that an expert has                          *)
Takers(e, n) == {i \in 1..n : Took(i, e)}

(* What a batch is promised, said of the whole assignment.  No expert gets *)
(* more than its capacity, and no token more experts than it may have.  A  *)
(* token does without an expert it would rather have than one it got, or   *)
(* has too few, only where earlier tokens filled that expert up ("arrived  *)
(* late, loses"), and is listed as dropped just when it has too few.  At a *)
(* capacity factor of 100 per cent or more the batch fits: no token is     *)
(* left without an expert, and one is short of some only while another     *)
(* expert has room; under "none" none is short.                            *)
RoutingFair ==
  LET cap == Capacity(Len(batch))
  IN /\ Len(decision.experts) = Len(batch)
     /\ \A e \in Experts :
          decision.load[e] = Cardinality(Takers(e, Len(batch))) /\ decision.load[e] <= cap
     /\ \A i \in DOMAIN batch :
          /\ Cardinality(decision.experts[i]) <= ExpertsPerToken
          /\ i \in decision.dropped <=> Cardinality(decision.experts[i]) < ExpertsPerToken
          /\ \A e \in Experts :
               ~Took(i, e) /\ (i \in decision.dropped \/ \E f \in Experts : Took(i, f) /\ Better(batch[i], e, f))
                 => Cardinality(Takers(e, i - 1)) = cap
          /\ CapacityFactor >= 100 => decision.experts[i] # {}
     /\ CapacityFactor >= 100 /\ decision.dropped # {} => \E e \in Experts : decision.load[e] < cap
     /\ dropPolicy = "none" => decision.dropped = {}
=============================================================================
