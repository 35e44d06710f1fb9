------------------------------ MODULE Sampling ------------------------------
(***************************************************************************)
(* Token sampling, inference/sampler.py: bias, suppression, penalties,     *)
(* temperature, top-k, top-p, min-p, and the draw.                         *)
(*                                                                         *)
(* Abstractions: logits are integers, of which softmax() takes powers of   *)
(* two; one that is -inf is left out of the vector.  Quotients are rounded *)
(* down; top_p, min_p and the repetition penalty are in percent; and a     *)
(* draw may give any token that has a weight.                              *)
(***************************************************************************)
EXTENDS Integers, SequencesExt

CONSTANTS
  Tokens,               (* token ids: an interval of integers               *)
  LogitVectors,         (* what the model may answer                        *)
  GenConfigs,           (* [bias, suppress, repetition, frequency,          *)
                        (* presence, window, temperature, topK, topP, minP] *)
  MaxHistory            (* bound: tokens sampled                            *)

ASSUME SamplingAssumption ==
  /\ IsFiniteSet(Tokens) /\ Tokens \subseteq Int
  /\ LogitVectors \subseteq [Tokens -> Int]
  /\ \A cfg \in GenConfigs :
       /\ {cfg.temperature, cfg.window} \subseteq Nat /\ cfg.repetition \in Nat \ {0}
       /\ {cfg.frequency, cfg.presence, cfg.topK} \subseteq Int
       /\ cfg.topP \in 1..100 /\ cfg.minP \in 0..99
       /\ \A t \in DOMAIN cfg.bias : cfg.bias[t] \in Int
       /\ Tokens \ cfg.suppress # {}
  /\ MaxHistory \in Nat

VARIABLES genConfig, history, answered

samplingVars == <<genConfig, history, answered>>

PowerOfTwo[n \in Nat] == IF n = 0 THEN 1 ELSE 2 * PowerOfTwo[n - 1]

(* softmax(), but for the common denominator                               *)
Softmax(logits) ==
  LET least == CHOOSE l \in Range(logits) : \A k \in Range(logits) : l <= k
  IN [t \in Tokens |-> IF t \in DOMAIN logits THEN PowerOfTwo[logits[t] - least] ELSE 0]

Mass(weights, ts) == SumFunctionOnSet(weights, ts)

ApplyLogitBias(logits, bias) ==
  [t \in DOMAIN logits |-> IF t \in DOMAIN bias THEN logits[t] + bias[t] ELSE logits[t]]

Suppress(logits, ids) == [t \in DOMAIN logits \ ids |-> logits[t]]

Window(past, cfg) ==
  IF cfg.window = 0 \/ Len(past) <= cfg.window THEN past
  ELSE SubSeq(past, Len(past) - cfg.window + 1, Len(past))

(* mutant: a negative logit is divided too                                 *)
RepeatedDivides(logit, repetition) ==
  IF logit > 0 THEN (100 * logit) \div repetition ELSE -((100 * (-logit)) \div repetition)

Repetition(logit, repetition) ==
  IF logit > 0 THEN (100 * logit) \div repetition ELSE (logit * repetition) \div 100

ApplyPenalties(logits, past, cfg) ==
  LET Count(t) == Cardinality({i \in DOMAIN Window(past, cfg) : Window(past, cfg)[i] = t})
  IN [t \in DOMAIN logits |->
       IF Count(t) = 0 THEN logits[t]
       ELSE Repetition(logits[t], cfg.repetition) - cfg.frequency * Count(t) - cfg.presence]

(* Temperature 0 is greedy                                                 *)
ApplyTemperature(logits, temperature) ==
  [t \in DOMAIN logits |-> IF temperature = 0 THEN logits[t] ELSE logits[t] \div temperature]

Keep(logits, kept) == [t \in kept |-> logits[t]]

(* What comes before a token in sorted(reverse=True), which is stable      *)
Preferred(logits, t) ==
  {u \in DOMAIN logits : logits[u] > logits[t] \/ (logits[u] = logits[t] /\ u < t)}

Sorted(logits) ==
  CHOOSE order \in [1..Cardinality(DOMAIN logits) -> DOMAIN logits] :
    \A j \in DOMAIN order : \A i \in 1..(j - 1) : order[i] \in Preferred(logits, order[j])

(* The best token; of several, max() takes the first                       *)
Argmax(logits) ==
  CHOOSE t \in DOMAIN logits :
    \A u \in DOMAIN logits : logits[u] < logits[t] \/ (logits[u] = logits[t] /\ t <= u)

TopKFilter(logits, k) ==
  IF k <= 0 \/ k >= Cardinality(DOMAIN logits) THEN logits
  ELSE Keep(logits, {t \in DOMAIN logits : logits[t] >= logits[Sorted(logits)[k]]})

(* The nucleus: tokens are kept until their probabilities reach p          *)
TopPFilter(logits, p) ==
  LET weights == Softmax(logits)
      order == Sorted(logits)
      Include(acc, t) ==
        IF acc.kept # {} /\ 100 * acc.mass >= p * Mass(weights, Tokens) THEN acc
        ELSE [mass |-> acc.mass + weights[t], kept |-> acc.kept \cup {t}]
      upTo[i \in 0..Cardinality(DOMAIN logits)] ==
        IF i = 0 THEN [mass |-> 0, kept |-> {}] ELSE Include(upTo[i - 1], order[i])
  IN IF p >= 100 THEN logits ELSE Keep(logits, upTo[Cardinality(DOMAIN logits)].kept)

MinPFilter(logits, p) ==
  IF p <= 0 THEN logits
  ELSE Keep(logits, {t \in DOMAIN logits :
                       100 * Softmax(logits)[t] >= p * Softmax(logits)[Argmax(logits)]})

Adjusted(logits, past, cfg) ==
  ApplyPenalties(Suppress(ApplyLogitBias(logits, cfg.bias), cfg.suppress), past, cfg)

(* sample(): the tokens the draw may give                                  *)
Drawable(logits, past, cfg) ==
  LET work == Adjusted(logits, past, cfg)
      filtered == MinPFilter(TopPFilter(TopKFilter(ApplyTemperature(work, cfg.temperature),
                                                   cfg.topK), cfg.topP), cfg.minP)
  IN IF cfg.temperature = 0 THEN {Argmax(work)}
     ELSE {t \in Tokens : Softmax(filtered)[t] > 0}

SamplingInit ==
  /\ genConfig \in GenConfigs
  /\ history = <<>>
  /\ answered \in LogitVectors

(* The model answers again                                                 *)
Sample(logits) ==
  /\ Len(history) < MaxHistory
  /\ \E t \in Drawable(answered, history, genConfig) : history' = Append(history, t)
  /\ answered' = logits
  /\ UNCHANGED genConfig

SamplingNext == \E logits \in LogitVectors : Sample(logits)

SamplingSpec == SamplingInit /\ [][SamplingNext]_samplingVars

-----------------------------------------------------------------------------
Penalizes(cfg) == cfg.repetition >= 100 /\ {cfg.frequency, cfg.presence} \subseteq Nat

(* Which tokens can be drawn, said of the tokens and not of the filters: a *)
(* token of the k best, ties included, with less than p of their mass      *)
(* ahead of it, and not much less likely than the best.  So some token can *)
(* always be drawn, the best of all among them, and never a suppressed     *)
(* one; and penalties, none of them negative and the repetition's 100 or   *)
(* more, never make a token they are for more likely, nor touch another.   *)
SamplesAsAsked ==
  LET cfg == genConfig
      biased == Suppress(ApplyLogitBias(answered, cfg.bias), cfg.suppress)
      work == Adjusted(answered, history, cfg)
      logits == ApplyTemperature(work, cfg.temperature)
      weights == Softmax(logits)
      best == CHOOSE t \in DOMAIN logits : Preferred(logits, t) = {}
      k == IF cfg.topK <= 0 THEN Cardinality(Tokens) ELSE cfg.topK
      top == {t \in DOMAIN logits : Cardinality({u \in DOMAIN logits : logits[u] > logits[t]}) < k}
      drawable == Drawable(answered, history, cfg)
  IN /\ best \in drawable
     /\ drawable \cap cfg.suppress = {}
     /\ drawable = IF cfg.temperature = 0 THEN {best}
                   ELSE {t \in top :
                           /\ cfg.topP < 100 =>
                                100 * Mass(weights, top \cap Preferred(logits, t)) < cfg.topP * Mass(weights, top)
                           /\ 100 * weights[t] >= cfg.minP * weights[best]}
     /\ \A t \in DOMAIN work :
          /\ Penalizes(cfg) => work[t] <= biased[t]
          /\ t \notin Range(Window(history, cfg)) => work[t] = biased[t]
=============================================================================
