--------------------------- MODULE WorkingMemory ---------------------------
(***************************************************************************)
(* The agent's working memory, agent/memory.py: turns kept within a token  *)
(* budget by one of three eviction strategies, and a bounded summary of    *)
(* what was evicted, which takes its tokens from the same budget.          *)
(*                                                                         *)
(* Abstractions: a text is its number of tokens and the marks a safety     *)
(* filter would find in it; the tokens of a summary are those of its       *)
(* fragments; a single fragment over the bound is cut to the bound.  The   *)
(* tokens of a turn are those of its content; its tool calls are rendered  *)
(* into the prompt beside it, and add() does not count them.               *)
(***************************************************************************)
EXTENDS Integers, Sequences, FiniteSets, Functions

CONSTANTS
  MaxTokens, ReserveForOutput, SystemTokens,
  MaxSummaryTokens,
  FragmentTokens,       (* the 160 characters of a turn that are kept       *)
  BigTurn,              (* 4000 tokens                                      *)
  RecentTurns,          (* 4                                                *)
  TurnTokens,           (* tokens the content of a turn may have            *)
  CallTokens,           (* tokens the calls of a turn may be rendered as    *)
  MaxAdded              (* bound: turns added                               *)

ASSUME MemoryAssumption ==
  /\ {MaxTokens, ReserveForOutput, SystemTokens, MaxSummaryTokens, FragmentTokens, BigTurn,
      MaxAdded} \subseteq Nat
  /\ RecentTurns \in Nat \ {0} /\ TurnTokens \cup CallTokens \subseteq Nat

VARIABLES
  strategy,
  turns, summary, evicted,
  added                 (* history: turns added since the last clear()      *)

memoryVars == <<strategy, turns, summary, evicted, added>>

Sum(f) == SumFunction(f)

TokensOf(ts) == Sum([i \in DOMAIN ts |-> ts[i].tokens])

(* What the system prompt and the output leave for the conversation         *)
Space ==
  IF MaxTokens < ReserveForOutput + SystemTokens THEN 0
  ELSE MaxTokens - (ReserveForOutput + SystemTokens)

Budget == IF Space < TokensOf(summary) THEN 0 ELSE Space - TokensOf(summary)

RoleOf(turn) ==
  CASE turn.kind = "prompt" -> "user"
    [] turn.kind \in {"answer", "calling"} -> "assistant"
    [] turn.kind \in {"result", "error"} -> "tool"

(* mutant: the newest turns get no bonus                                   *)
PriorityFlat(ts, i) ==
  LET total == Len(ts)
      unit == IF total > 1 THEN total - 1 ELSE 1
  IN 20 * (i - 1)
     + unit * (CASE RoleOf(ts[i]) = "user" -> 7 [] RoleOf(ts[i]) = "tool" -> 2 [] OTHER -> 0)
     - unit * (IF ts[i].tokens > BigTurn THEN 5 ELSE 0)

(* _priority(), in units of 1 / (20 * (total - 1))                         *)
Priority(ts, i) ==
  LET total == Len(ts)
      unit == IF total > 1 THEN total - 1 ELSE 1
  IN 20 * (i - 1)
     + unit * (CASE RoleOf(ts[i]) = "user" -> 7 [] RoleOf(ts[i]) = "tool" -> 2 [] OTHER -> 0)
     + unit * (IF i > total - RecentTurns THEN 20 ELSE 0)
     - unit * (IF ts[i].tokens > BigTurn THEN 5 ELSE 0)

Lower(ts, j, i) ==
  \/ Priority(ts, j) < Priority(ts, i)
  \/ Priority(ts, j) = Priority(ts, i) /\ j < i

Unpinned(ts) == {i \in DOMAIN ts : ~ts[i].pinned}

(* What is left when the turns in a set are gone                           *)
Without(ts, gone) == Sum([i \in DOMAIN ts \ gone |-> ts[i].tokens])

(* The turns _enforce_budget() evicts: in the order of their priority, or  *)
(* from the oldest on and not past a pinned one, while they do not fit     *)
Victims(ts) ==
  IF TokensOf(ts) <= Budget THEN {}
  ELSE IF strategy = "priority"
  THEN {i \in Unpinned(ts) : Without(ts, {j \in Unpinned(ts) : Lower(ts, j, i)}) > Budget}
  ELSE {i \in DOMAIN ts : 1..i \subseteq Unpinned(ts) /\ Without(ts, 1..(i - 1)) > Budget}

(* The turns at a set of places, in their order                            *)
Nth(is, k) == CHOOSE i \in is : Cardinality({j \in is : j <= i}) = k

TurnsAt(ts, is) == [k \in 1..Cardinality(is) |-> ts[Nth(is, k)]]

Fragment(turn) ==
  [turn EXCEPT !.tokens = IF @ > FragmentTokens THEN FragmentTokens ELSE @]

(* mutant: the summary is not trimmed                                      *)
Untrimmed(fragments) == fragments

(* _trim_summary(): the oldest fragments go first                          *)
TrimSummary(fragments) ==
  LET Suffix(k) == SubSeq(fragments, k, Len(fragments))
      fits == {k \in DOMAIN fragments : TokensOf(Suffix(k)) <= MaxSummaryTokens}
  IN IF fragments = <<>> THEN <<>>
     ELSE IF fits = {} THEN <<[fragments[Len(fragments)] EXCEPT !.tokens = MaxSummaryTokens]>>
     ELSE Suffix(CHOOSE k \in fits : \A l \in fits : k <= l)

(* _fold_into_summary()                                                    *)
Condense(ts, gone) ==
  LET victims == TurnsAt(ts, gone)
  IN TrimSummary(summary \o [i \in DOMAIN victims |-> Fragment(victims[i])])

(* add(): the turn may itself be evicted at once.  truncate counts a       *)
(* pinned turn at the head as evicted although it goes back in             *)
Remember(kind, tokens, uncounted, marks) ==
  LET ts == Append(turns, [id |-> added + 1, kind |-> kind, tokens |-> tokens,
                           uncounted |-> uncounted, marks |-> marks, pinned |-> FALSE])
      gone == Victims(ts)
      stuck == LET rest == DOMAIN ts \ gone
               IN /\ strategy = "truncate" /\ Without(ts, gone) > Budget /\ rest # {}
  IN /\ added' = added + 1
     /\ turns' = TurnsAt(ts, DOMAIN ts \ gone)
     /\ summary' = IF strategy = "truncate" THEN summary ELSE Condense(ts, gone)
     /\ evicted' = evicted + Cardinality(gone) + (IF stuck THEN 1 ELSE 0)
     /\ UNCHANGED strategy

Pin(i) ==
  /\ turns' = [turns EXCEPT ![i].pinned = TRUE]
  /\ UNCHANGED <<strategy, summary, evicted, added>>

Clear ==
  /\ turns' = <<>> /\ summary' = <<>> /\ evicted' = 0 /\ added' = 0
  /\ UNCHANGED strategy

MemoryInit ==
  /\ strategy \in {"priority", "summarize", "truncate"}
  /\ turns = <<>> /\ summary = <<>> /\ evicted = 0 /\ added = 0

(* The memory on its own, whatever its user does                           *)
RememberAny ==
  /\ added < MaxAdded
  /\ \E kind \in {"prompt", "calling", "result"}, n \in TurnTokens :
       \E m \in IF kind = "calling" THEN CallTokens ELSE {0} : Remember(kind, n, m, {})

PinAny == \E i \in Unpinned(turns) : Pin(i)

MemoryNext == RememberAny \/ PinAny \/ Clear

-----------------------------------------------------------------------------
(***************************************************************************)
(* Properties.                                                             *)
(***************************************************************************)

(* What messages() sends, the calls of the turns with it                   *)
UncountedIn(ts) == Sum([i \in DOMAIN ts |-> ts[i].uncounted])

Sent == SystemTokens + TokensOf(summary) + TokensOf(turns) + UncountedIn(turns)

(* The victims are chosen before the summary grows by what they leave in   *)
(* it, so the budget is not kept; but however often that happens, what is  *)
(* sent exceeds the system prompt and the space beside it by one summary   *)
(* at most, and by the calls of the turns kept, which nothing counts and   *)
(* nothing bounds; unless pinned turns stand in the way.  (Where a summary *)
(* may be larger than the reserve for the output, as in the presets deep   *)
(* and research, that is more than the context.)  Nothing is lost without  *)
(* being counted, and what is left, in the turns and in the summary, is in *)
(* no place twice.                                                         *)
OverrunBounded ==
  /\ \/ /\ TokensOf(turns) <= Space
        /\ Sent <= SystemTokens + Space + MaxSummaryTokens + UncountedIn(turns)
     \/ IF strategy = "priority" THEN Unpinned(turns) = {} ELSE 1 \notin Unpinned(turns)
  /\ \A i, j \in DOMAIN turns : i < j => turns[i].id < turns[j].id
  /\ evicted + Len(turns) >= added
  /\ strategy # "truncate" => evicted + Len(turns) = added
  /\ \A f \in Range(summary), t \in Range(turns) : f.id # t.id

(* "never evict the last few": a score, not a rule, yet no older turn that *)
(* can go outlives one of the newest, and a pinned turn outlives them all. *)
RecentKept ==
  [][added' > added /\ strategy = "priority" =>
       LET kept == {t.id : t \in Range(turns')}
           recent == {id \in 1..added' : \E i \in DOMAIN turns :
                        turns[i].id = id /\ i > Len(turns) + 1 - RecentTurns}
       IN \A t \in Range(turns) :
            /\ t.pinned => t.id \in kept
            /\ t.id \in kept /\ t.id \notin recent /\ ~t.pinned =>
                 recent \cup {added'} \subseteq kept]_memoryVars
=============================================================================
