----------------------------- MODULE Speculation -----------------------------
(***************************************************************************)
(* Speculative decoding, inference/speculative.py: a draft model proposes  *)
(* tokens, the target model verifies them, under the greedy rule or under  *)
(* the typical one.                                                        *)
(*                                                                         *)
(* Abstractions: a model is its logits as a function of the last token of  *)
(* the context; the two generators are any choice of what they may give;   *)
(* a probability is its numerator over a common denominator.               *)
(***************************************************************************)
EXTENDS Sampling

CONSTANTS
  TargetLogits, DraftLogits,    (* token |-> logits                         *)
  NumTokens,                    (* num_tokens                               *)
  MaxProduced                   (* bound: tokens produced                   *)

ASSUME SpeculationAssumption ==
  /\ {TargetLogits, DraftLogits} \subseteq [Tokens -> [Tokens -> Int]]
  /\ NumTokens \in Nat \ {0} /\ MaxProduced \in Nat

VARIABLES
  acceptance,           (* "greedy" or "typical"                            *)
  gen,
  context,              (* the prompt, one token, and what was produced     *)
  stats

speculationVars == <<acceptance, gen, context, stats>>

(* p_target and p_draft over a common denominator, untouched by filters.   *)
(* A temperature of 0 is taken for 1e-6, where all but the best underflow. *)
Scaled(logits) ==
  IF gen.temperature = 0
  THEN [t \in Tokens |-> IF \A u \in Tokens : logits[u] <= logits[t] THEN 1 ELSE 0]
  ELSE Softmax(ApplyTemperature(logits, gen.temperature))

PTarget(last) ==
  LET p == Scaled(TargetLogits[last]) q == Scaled(DraftLogits[last])
  IN [t \in Tokens |-> p[t] * Mass(q, Tokens)]

PDraft(last) ==
  LET p == Scaled(TargetLogits[last]) q == Scaled(DraftLogits[last])
  IN [t \in Tokens |-> q[t] * Mass(p, Tokens)]

(* mutant: what is left over is the target's own distribution              *)
ResidualWhole(p, q) == p

(* _residual()                                                             *)
Residual(p, q) ==
  LET diff == [t \in Tokens |-> IF p[t] > q[t] THEN p[t] - q[t] ELSE 0]
  IN IF Mass(diff, Tokens) = 0 THEN p ELSE diff

(* What sample() may give after a context                                  *)
Samples(logits, past) == Drawable(logits, past, gen)

(* The context before the i-th drafted token                               *)
ContextBefore(drafted, i) == context \o SubSeq(drafted, 1, i - 1)

(* propose(): what the draft may say                                       *)
Drafts ==
  {drafted \in [1..NumTokens -> Tokens] :
     \A i \in 1..NumTokens :
       LET past == ContextBefore(drafted, i)
       IN drafted[i] \in Samples(DraftLogits[Last(past)], past)}

(* mutant: judged by what the target says after the context alone          *)
MayAcceptStale(drafted, i) ==
  IF acceptance = "greedy" THEN drafted[i] = Argmax(TargetLogits[Last(context)])
  ELSE PTarget(Last(context))[drafted[i]] > 0 /\ PDraft(Last(context))[drafted[i]] > 0

(* min(1, ratio) is not zero, or is not one; it is zero if p_draft is      *)
MayAccept(drafted, i) ==
  LET last == Last(ContextBefore(drafted, i))
  IN IF acceptance = "greedy" THEN drafted[i] = Argmax(TargetLogits[last])
     ELSE PTarget(last)[drafted[i]] > 0 /\ PDraft(last)[drafted[i]] > 0

MayReject(drafted, i) ==
  LET last == Last(ContextBefore(drafted, i))
  IN IF acceptance = "greedy" THEN drafted[i] # Argmax(TargetLogits[last])
     ELSE \/ PDraft(last)[drafted[i]] = 0
          \/ PTarget(last)[drafted[i]] < PDraft(last)[drafted[i]]

(* What replaces a rejected token                                          *)
Corrections(drafted, i) ==
  LET past == ContextBefore(drafted, i)
      residual == Residual(PTarget(Last(past)), PDraft(Last(past)))
  IN IF acceptance = "greedy" THEN Samples(TargetLogits[Last(past)], past)
     ELSE {t \in Tokens : residual[t] > 0}

SpeculationInit ==
  /\ acceptance \in {"greedy", "typical"}
  /\ gen \in GenConfigs
  /\ \E t \in Tokens : context = <<t>>
  /\ stats = [rounds |-> 0, proposed |-> 0, accepted |-> 0, rejected |-> 0]

(* verify(), a drafted token is rejected: the next is sampled in its place *)
RejectAt(drafted, n) ==
  /\ \A i \in 1..(n - 1) : MayAccept(drafted, i)
  /\ MayReject(drafted, n)
  /\ \E t \in Corrections(drafted, n) : context' = Append(ContextBefore(drafted, n), t)
  /\ stats' = [rounds |-> stats.rounds + 1, proposed |-> stats.proposed + NumTokens,
               accepted |-> stats.accepted + n - 1, rejected |-> stats.rejected + 1]
  /\ UNCHANGED <<acceptance, gen>>

(* verify(), all are accepted: a bonus token follows, counted as accepted  *)
AcceptAll(drafted) ==
  LET past == context \o drafted
  IN /\ \A i \in DOMAIN drafted : MayAccept(drafted, i)
     /\ \E t \in Samples(TargetLogits[Last(past)], past) : context' = Append(past, t)
     /\ stats' = [stats EXCEPT !.rounds = @ + 1, !.proposed = @ + NumTokens,
                               !.accepted = @ + NumTokens + 1]
     /\ UNCHANGED <<acceptance, gen>>

More == Len(context) <= MaxProduced

Rejecting == More /\ \E drafted \in Drafts, n \in 1..NumTokens : RejectAt(drafted, n)

Accepting == More /\ \E drafted \in Drafts : AcceptAll(drafted)

SpeculativeStep == Rejecting \/ Accepting

SpeculationSpec == SpeculationInit /\ [][SpeculativeStep]_speculationVars

-----------------------------------------------------------------------------
Unpenalized == gen.repetition = 100 /\ gen.frequency = 0 /\ gen.presence = 0 /\ gen.bias = <<>>

(* "Output is bit-identical to non-speculative greedy decoding": under the *)
(* greedy rule at temperature 0 and without penalties, each token produced *)
(* is the one the target takes after those before it, whatever was drafted.*)
(* The counters tell every token produced: it was accepted, the bonus      *)
(* included, or it replaced one that was rejected, at most one in a round. *)
SpeculationExact ==
  /\ acceptance = "greedy" /\ gen.temperature = 0 /\ Unpenalized =>
       \A i \in 2..Len(context) :
         context[i] = Argmax(Suppress(TargetLogits[context[i - 1]], gen.suppress))
  /\ stats.accepted + stats.rejected = Len(context) - 1
  /\ stats.rejected <= stats.rounds /\ stats.accepted <= stats.proposed + stats.rounds - stats.rejected

(* "Preserves the target's distribution exactly": what the typical rule    *)
(* gives for a token, accepted as drafted or drawn from the residual, has  *)
(* the target's probability, if the draft is drawn from p_draft as it      *)
(* stands, without filters or penalties.                                   *)
TargetPreserved ==
  LET p == PTarget(Last(context))
      q == PDraft(Last(context))
      residual == Residual(p, q)
      kept == [t \in Tokens |-> IF p[t] < q[t] THEN p[t] ELSE q[t]]
      rejected == Mass(q, Tokens) - Mass(kept, Tokens)
  IN acceptance = "typical" =>
       \A t \in Tokens :
         kept[t] * Mass(residual, Tokens) + rejected * residual[t] = p[t] * Mass(residual, Tokens)
=============================================================================
