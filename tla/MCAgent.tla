------------------------------ MODULE MCAgent ------------------------------
(* A small instance of Agent: five tools, of which one fails, one says too *)
(* much, one is dangerous, one never ends; and completions that answer,    *)
(* call well, call badly, or call twice.                                   *)
EXTENDS Agent

Tool(dangerous, result, size, ends, says) ==
  [dangerous |-> dangerous, result |-> result, size |-> size, ends |-> ends, says |-> says]

MCTools ==
  [search |-> Tool(FALSE, "ok", 2, TRUE, {"pii"}),
   fetch |-> Tool(FALSE, "error", 1, TRUE, {"injection", "secret"}),
   dump |-> Tool(FALSE, "ok", 3, TRUE, {"injection"}),
   trade |-> Tool(TRUE, "ok", 1, TRUE, {}),
   hang |-> Tool(FALSE, "ok", 1, FALSE, {})]

Block(name, args) == [json |-> TRUE, name |-> name, args |-> args]

Broken == [json |-> FALSE, name |-> "", args |-> "none"]

Completion(prose, blocks, tail) == [prose |-> prose, blocks |-> blocks, tail |-> tail]

MCCompletions ==
  {Completion({"secret"}, <<Broken>>, None),
   Completion({"token"}, <<Block("search", "a")>>, None),
   Completion({}, <<Block("trade", "a"), Block("trade", "a"), Block("dump", "list"), Block("fetch", "a")>>, None),
   Completion({}, <<Block("hang", "a")>>, None),
   Completion({}, <<>>, Block("search", "list"))}

MCPrompts == {{"pii"}, {"injection"}}

Policy(enabled, onBlock) ==
  [enabled |-> enabled, onBlock |-> onBlock, onClassifierError |-> "allow",
   inputFilters |-> <<"pii", "injection">>, outputFilters |-> <<"pii", "leakage", "other">>,
   toolArgFilters |-> <<"injection">>]

MCPolicies == {Policy(TRUE, "refuse"), Policy(TRUE, "redact")}

MCTokensOfKind == [prompt |-> 2, calling |-> 1, answer |-> 1, result |-> 3, error |-> 1]

(* The memory on its own, under every strategy, beside the loop            *)
AloneInit ==
  /\ MemoryInit
  /\ SandboxInit /\ platform = "thread"
  /\ policy = Policy(TRUE, "refuse")
  /\ phase = "alone" /\ iteration = 0 /\ calls = <<>> /\ lastCall = None
  /\ failures = 0 /\ total = 0 /\ stopped = "completed" /\ answer = {} /\ lastError = {}
  /\ runs = 0 /\ recent = <<>>

Alone ==
  /\ phase = "alone"
  /\ UNCHANGED <<sandboxVars, policy, phase, runVars, runs>>

MCNext ==
  \/ Next
  \/ Alone /\ RememberAny
  \/ Alone /\ PinAny
  \/ Alone /\ Clear

MCSpec == (Init \/ AloneInit) /\ [][MCNext]_vars
=============================================================================
