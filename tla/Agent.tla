------------------------------- MODULE Agent -------------------------------
(***************************************************************************)
(* The agent loop, agent/loop.py, over its memory, its policy, its tools   *)
(* and their sandbox: chat with the engine, run the calls the completion   *)
(* asks for, remember the results, until an answer or a limit.             *)
(*                                                                         *)
(* Abstractions: a completion is what the call regexes find in it: the     *)
(* marks of its prose, its call blocks in order, and what follows an open  *)
(* tag at its end.  The engine answers every chat.                         *)
(***************************************************************************)
EXTENDS WorkingMemory, SafetyPolicy, Sandbox

CONSTANTS
  Tools,                (* name |-> [dangerous, result, size, ends, says]   *)
  Prompts, Completions, Policies, None,
  TokensOfKind,         (* tokens of the turns of a kind                    *)
  MaxIterations, MaxToolCalls, MaxConsecutiveFailures,
  MaxRuns               (* bound: runs with one agent                       *)

ASSUME AgentAssumption ==
  /\ {MaxIterations, MaxToolCalls, MaxConsecutiveFailures, MaxRuns} \subseteq Nat \ {0}
  /\ TokensOfKind \in [{"prompt", "calling", "answer", "result", "error"} -> Nat]
  /\ Prompts \subseteq SUBSET Marks /\ \A c \in Completions : c.prose \subseteq Marks

ASSUME ToolsAssumption ==
  \A name \in DOMAIN Tools :
    /\ Tools[name].result \in {"ok", "error", "none"}
    /\ Tools[name].size \in Nat \ {0} /\ Tools[name].ends \in BOOLEAN
    /\ Tools[name].says \subseteq Marks

(* A policy that is in force has the filters it has by default, and maybe  *)
(* others.                                                                 *)
ASSUME PoliciesAssumption ==
  \A p \in Policies :
    /\ p.enabled \in BOOLEAN
    /\ p.inputFilters \in Seq(STRING) /\ p.outputFilters \in Seq(STRING)
    /\ p.enabled => /\ {"pii", "injection"} \subseteq Range(p.inputFilters)
                    /\ {"pii", "leakage"} \subseteq Range(p.outputFilters)

VARIABLES
  policy,
  phase,                (* where run() is; "idle" outside of it             *)
  iteration, calls, lastCall, failures, total,
  stopped, answer,      (* AgentResult                                      *)
  lastError,            (* what a filter finds in the error of the last call that failed *)
  runs,                 (* runs so far                                      *)
  recent                (* history: whether each call of the run succeeded  *)

runVars == <<iteration, calls, lastCall, failures, total, stopped, answer, lastError, recent>>
vars == <<memoryVars, sandboxVars, policy, phase, runVars, runs>>

(***************************************************************************)
(* parse_tool_calls(): a block that is not a JSON object with a name is    *)
(* skipped; an open tag is salvaged if there is no call.  Arguments that   *)
(* are not an object become {} in a block, and are kept in the open tag.   *)
(***************************************************************************)
ParseToolCalls(completion) ==
  LET named == SelectSeq(completion.blocks, LAMBDA b : b.json)
      found == [i \in DOMAIN named |->
                 IF named[i].args = "list" THEN [named[i] EXCEPT !.args = "none"] ELSE named[i]]
      tail == completion.tail
  IN IF found # <<>> THEN found
     ELSE IF tail # None /\ tail.json THEN <<tail>> ELSE <<>>

(* What a filter finds in the arguments of a call                          *)
ArgMarks(call) == IF call.args = "injected" THEN {"injection"} ELSE {}

(* Tool.validate_args(): arguments that are "wrong" are missing, of another *)
(* type or not in the enum; int() of a "huge" one overflows                *)
ValidateArgs(call) ==
  CASE call.args = "wrong" -> "error" [] call.args = "huge" -> "exception" [] OTHER -> "run"

(* _execute() up to the sandbox: "run", or the error or exception instead; *)
(* arguments that are a list have no items() for the policy                *)
Vetted(call) ==
  IF call.args = "list" THEN "exception"
  ELSE IF ~CheckToolArgs(policy, ArgMarks(call)).allowed \/ call.name \notin DOMAIN Tools
          \/ Tools[call.name].dangerous
       THEN "error"
  ELSE ValidateArgs(call)

Add(kind, marks) ==
  \E n \in IF kind = "calling" THEN CallTokens ELSE {0} : Remember(kind, TokensOfKind[kind], n, marks)

LoopInit ==
  /\ SandboxInit
  /\ policy \in Policies
  /\ phase = "idle" /\ iteration = 0 /\ calls = <<>> /\ lastCall = None
  /\ failures = 0 /\ total = 0 /\ stopped = "completed" /\ answer = {} /\ lastError = {}
  /\ runs = 0 /\ recent = <<>>

(* An agent never asks for another strategy                                *)
Init == MemoryInit /\ strategy = "priority" /\ LoopInit

(* run(): a prompt the policy lets through; another raises SafetyBlocked   *)
(* and leaves no trace                                                     *)
Start(prompt) ==
  LET decision == CheckInput(policy, prompt)
  IN /\ phase = "idle"
     /\ runs < MaxRuns
     /\ decision.allowed
     /\ Add("prompt", decision.text)
     /\ phase' = "chat" /\ runs' = runs + 1
     /\ iteration' = 0 /\ calls' = <<>> /\ lastCall' = None /\ failures' = 0 /\ total' = 0
     /\ stopped' = "completed" /\ answer' = {} /\ lastError' = {} /\ recent' = <<>>
     /\ UNCHANGED <<sandboxVars, policy>>

(* A completion with no call is the answer                                 *)
Chat(completion) ==
  LET found == ParseToolCalls(completion)
      out == CheckOutput(policy, completion.prose)
      final == IF out.allowed THEN out.text ELSE {}
  IN /\ phase = "chat"
     /\ iteration < MaxIterations
     /\ iteration' = iteration + 1
     /\ IF found = <<>>
        THEN /\ Add("answer", final)
             /\ answer' = final /\ phase' = "idle"
             /\ UNCHANGED calls
        ELSE /\ Add("calling", completion.prose)
             /\ calls' = found /\ phase' = "calls"
             /\ UNCHANGED answer
     /\ UNCHANGED <<sandboxVars, policy, lastCall, failures, total, stopped, lastError, runs, recent>>

OutOfIterations ==
  /\ phase = "chat"
  /\ iteration = MaxIterations
  /\ phase' = "idle" /\ stopped' = "iterations"
  /\ UNCHANGED <<memoryVars, sandboxVars, policy, iteration, calls, lastCall, failures, total,
                 answer, lastError, runs, recent>>

(* What run() does with the outcome of the first call                      *)
Outcome(ok, marks) ==
  /\ Add(IF ok THEN "result" ELSE "error", marks)
  /\ lastCall' = Head(calls)
  /\ calls' = Tail(calls)
  /\ total' = total + 1
  /\ failures' = IF ok THEN 0 ELSE failures + 1
  /\ lastError' = IF ok THEN lastError ELSE marks
  /\ recent' = Append(recent, ok)
  /\ phase' = "calls"
  /\ UNCHANGED <<policy, iteration, stopped, answer, runs>>

NextCall == phase = "calls" /\ calls # <<>> /\ total < MaxToolCalls

(* The calls that are left are dropped; they stay in the conversation      *)
BudgetSpent ==
  /\ phase = "calls"
  /\ calls # <<>>
  /\ total >= MaxToolCalls
  /\ calls' = <<>> /\ stopped' = "budget"
  /\ UNCHANGED <<memoryVars, sandboxVars, policy, phase, iteration, lastCall, failures, total,
                 answer, lastError, runs, recent>>

(* mutant: an identical call is no failure                                 *)
RepeatedHarmless ==
  /\ NextCall
  /\ Head(calls) = lastCall
  /\ Add("error", {})
  /\ calls' = Tail(calls) /\ total' = total + 1 /\ recent' = Append(recent, FALSE) /\ lastError' = {}
  /\ UNCHANGED <<sandboxVars, policy, phase, iteration, lastCall, failures, stopped, answer, runs>>

(* Identical to the last call, whatever became of that                     *)
Repeated ==
  /\ NextCall
  /\ Head(calls) = lastCall
  /\ Outcome(FALSE, {})
  /\ UNCHANGED sandboxVars

RefusedCall ==
  /\ NextCall
  /\ Head(calls) # lastCall
  /\ Vetted(Head(calls)) = "error"
  /\ Outcome(FALSE, {})
  /\ UNCHANGED sandboxVars

Execute ==
  /\ NextCall
  /\ Head(calls) # lastCall
  /\ Vetted(Head(calls)) = "run"
  /\ Run(Tools[Head(calls).name])
  /\ phase' = "tool"
  /\ UNCHANGED <<memoryVars, policy, runVars, runs>>

(* The sandbox has answered; what a tool says passes the policy, the text  *)
(* of an error does not                                                    *)
Executed ==
  LET says == Tools[Head(calls).name].says
      checked == CheckToolResult(policy, says)
  IN /\ phase = "tool"
     /\ parent = "idle"
     /\ outcome # "exception"
     /\ IF outcome = "ok"
        THEN Outcome(checked.allowed, IF checked.allowed THEN checked.text ELSE {})
        ELSE Outcome(FALSE, IF outcome = "error" THEN says ELSE {})
     /\ UNCHANGED sandboxVars

(* An exception that is not a ToolError leaves run()                       *)
Raises ==
  /\ \/ NextCall /\ Head(calls) # lastCall /\ Vetted(Head(calls)) = "exception"
     \/ phase = "tool" /\ parent = "idle" /\ outcome = "exception"
  /\ phase' = "idle" /\ stopped' = "raised"
  /\ UNCHANGED <<memoryVars, sandboxVars, policy, iteration, calls, lastCall, failures, total,
                 answer, lastError, runs, recent>>

(* All calls of the completion are done: the limits are looked at, the     *)
(* failures first.  The answer then has the text of the last error, past   *)
(* no filter and not remembered                                            *)
StepEnds ==
  /\ phase = "calls"
  /\ calls = <<>>
  /\ LET failed == failures >= MaxConsecutiveFailures
     IN /\ stopped' = IF failed THEN "failures" ELSE stopped
        /\ answer' = IF failed THEN lastError ELSE answer
        /\ phase' = IF failed \/ stopped # "completed" THEN "idle" ELSE "chat"
  /\ UNCHANGED <<memoryVars, sandboxVars, policy, iteration, calls, lastCall, failures, total,
                 lastError, runs, recent>>

Tooling ==
  /\ phase = "tool"
  /\ UNCHANGED <<memoryVars, policy, phase, runVars, runs>>

TickPasses ==
  /\ Tick
  /\ UNCHANGED <<memoryVars, policy, phase, runVars, runs>>

LeftThreadEnds ==
  /\ LeakEnds
  /\ UNCHANGED <<memoryVars, policy, phase, runVars, runs>>

(* The caller, between runs                                                *)
Reset ==
  /\ phase = "idle"
  /\ turns # <<>>
  /\ Clear
  /\ UNCHANGED <<sandboxVars, policy, phase, runVars, runs>>

LoopStep ==
  \/ \E completion \in Completions : Chat(completion)
  \/ OutOfIterations
  \/ BudgetSpent
  \/ Repeated
  \/ RefusedCall
  \/ Execute
  \/ Executed
  \/ Raises
  \/ StepEnds
  \/ Tooling /\ Finish
  \/ Tooling /\ Write
  \/ Tooling /\ Deadline
  \/ Tooling /\ Read
  \/ Tooling /\ EndOfFile
  \/ Tooling /\ Join
  \/ Tooling /\ JoinTimeout

Next ==
  \/ \E prompt \in Prompts : Start(prompt)
  \/ LoopStep
  \/ TickPasses
  \/ LeftThreadEnds
  \/ Reset

Spec == Init /\ [][Next]_vars

-----------------------------------------------------------------------------
(***************************************************************************)
(* Properties.                                                             *)
(***************************************************************************)

(* What a failing model can cost.  The failures are counted only between   *)
(* completions, so as many as one completion asks for may exceed the       *)
(* limit, but the model is not asked again after MaxConsecutiveFailures of *)
(* them, in one completion or over many; no run asks it, or runs a tool,   *)
(* more often than the limits say.                                         *)
RunBounded ==
  /\ iteration <= MaxIterations /\ Len(recent) <= MaxToolCalls
  /\ phase = "chat" /\ Len(recent) >= MaxConsecutiveFailures =>
       \E i \in (Len(recent) - MaxConsecutiveFailures + 1)..Len(recent) : recent[i]

(* What the input filters take out of a prompt they take out of what the   *)
(* tools return; and what the output filters forbid no answer has, unless  *)
(* failures ended the run: that answer quotes the last error, which no     *)
(* filter has seen.  Text beside calls and texts of errors are not filtered*)
(* either, and stay in memory.                                             *)
BlockedStaysOut ==
  policy.enabled =>
    /\ \A turn \in Range(turns) \cup Range(summary) : turn.kind \in {"prompt", "result"} =>
         turn.marks \cap {"pii", "injection"} = {}
    /\ stopped # "failures" => answer \cap {"pii", "token", "secret"} = {}
=============================================================================
