---------------------------- MODULE SafetyPolicy ----------------------------
(***************************************************************************)
(* The policy engine and its filters, safety/policy.py and filters.py, as  *)
(* functions of a text and of the configuration.                           *)
(*                                                                         *)
(* A text is the set of the marks a filter's patterns would find in it:    *)
(* "pii" (an address, a card number with a valid checksum, ...),           *)
(* "injection", "token" (a control token), "secret" (a key).  Redaction    *)
(* removes a mark; what is left never matches again.                       *)
(***************************************************************************)
EXTENDS Integers, Sequences

Marks == {"pii", "injection", "token", "secret"}

PIIFilter(text) == [text |-> text \ {"pii"}, blocked |-> FALSE]

InjectionFilter(text) == [text |-> text, blocked |-> "injection" \in text]

LeakageFilter(text) == [text |-> text \ {"token"}, blocked |-> "secret" \in text]

Apply(name, text) ==
  CASE name = "pii" -> PIIFilter(text)
    [] name = "injection" -> InjectionFilter(text)
    [] name = "leakage" -> LeakageFilter(text)

(* build_filters(): names it does not know are skipped                     *)
Known(name) == name \in {"pii", "injection", "leakage"}

(* run_filters(): in order, each on what the last one left, to the first   *)
(* one that blocks                                                         *)
RunFilters(text, names) ==
  LET found[i \in 0..Len(names)] ==
        IF i = 0 THEN [text |-> text, blocked |-> FALSE]
        ELSE IF found[i - 1].blocked \/ ~Known(names[i]) THEN found[i - 1]
        ELSE Apply(names[i], found[i - 1].text)
  IN found[Len(names)]

(* _evaluate(): "redact" replaces a blocked text by the refusal            *)
Evaluate(policy, text, names) ==
  IF ~policy.enabled THEN [allowed |-> TRUE, text |-> text]
  ELSE LET found == RunFilters(text, names)
       IN IF found.blocked /\ policy.onBlock = "redact"
          THEN [allowed |-> TRUE, text |-> {}]
          ELSE [allowed |-> ~found.blocked, text |-> found.text]

(* check_input(): the classifier, never available, is asked as well        *)
CheckInput(policy, text) ==
  LET decision == Evaluate(policy, text, policy.inputFilters)
  IN [decision EXCEPT !.allowed = @ /\ policy.onClassifierError # "block"]

CheckOutput(policy, text) == Evaluate(policy, text, policy.outputFilters)

CheckToolArgs(policy, args) == Evaluate(policy, args, policy.toolArgFilters)

(* mutant: the result is passed on as the tool gave it                     *)
CheckToolResultOnly(policy, result) ==
  [allowed |-> Evaluate(policy, result, policy.inputFilters).allowed, text |-> result]

(* check_tool_result(): "same as a user turn", but for the classifier      *)
CheckToolResult(policy, result) == Evaluate(policy, result, policy.inputFilters)
=============================================================================
