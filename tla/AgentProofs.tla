---------------------------- MODULE AgentProofs -----------------------------
(***************************************************************************)
(* The agent, for any limits, tools, completions and policies.  AgentInv   *)
(* is inductive for the loop and its sandbox: the sandbox's answers and    *)
(* the loop's limits follow from it.  TalkInv is inductive for the memory  *)
(* and what is put into it: that the conversation fits, that the newest    *)
(* turns are spared and that what the filters look for stays out.          *)
(***************************************************************************)
EXTENDS Agent, Sums, SequenceTheorems, TLAPS

(* What the child writes in all                                            *)
Output == IF tool.size > MaxOutput THEN MaxOutput ELSE tool.size

SandboxTypes ==
  /\ platform \in {"posix", "thread"}
  /\ tool.result \in {"ok", "error", "none"} /\ tool.size \in Nat \ {0} /\ tool.ends \in BOOLEAN
  /\ child \in {"gone", "running", "writing", "exited"}
  /\ parent \in {"idle", "check", "read", "join"}
  /\ toWrite \in Nat /\ pipe \in Nat /\ got \in Nat /\ elapsed \in Nat
  /\ outcome \in {"ok", "error", "exception", "timeout"}
  /\ leaked \in [ending : Nat, hanging : Nat]

(* Who is where, and what is on its way: nothing is lost between the child *)
(* and the parent.                                                         *)
Handover ==
  /\ parent = "idle" <=> child = "gone"
  /\ parent \in {"check", "read"} => platform = "posix"
  /\ parent = "join" => platform = "thread"
  /\ child = "gone" => pipe = 0 /\ toWrite = 0
  /\ child = "running" => pipe = 0 /\ toWrite = 0 /\ got = 0
  /\ child = "writing" =>
       /\ platform = "posix" /\ tool.ends /\ tool.result # "none"
       /\ toWrite > 0 /\ pipe + got + toWrite = Output
  /\ child = "exited" =>
       /\ toWrite = 0 /\ tool.ends
       /\ platform = "thread" => pipe = 0
       /\ platform = "posix" /\ tool.result = "none" => pipe = 0 /\ got = 0
       /\ platform = "posix" /\ tool.result # "none" => pipe + got = Output

Answered ==
  /\ parent = "idle" =>
       /\ outcome = "timeout" => elapsed >= WallClock
       /\ platform = "posix" =>
            /\ outcome \in {"ok", "exception"} => tool.ends /\ tool.result # "none"
            /\ outcome = "ok" => tool.result = "ok" /\ tool.size <= MaxOutput
            /\ got > 0 /\ outcome \in {"ok", "error"} => got = tool.size
  /\ platform = "posix" => leaked = NoThreads

SandboxInv == SandboxTypes /\ Handover /\ Answered

-----------------------------------------------------------------------------
(* The failures in a row are the last results of the run.                  *)
InARow ==
  /\ failures \in 0..Len(recent)
  /\ \A i \in 1..Len(recent) : i > Len(recent) - failures => ~recent[i]
  /\ failures < Len(recent) => recent[Len(recent) - failures]

LoopInv ==
  /\ phase \in {"idle", "chat", "calls", "tool"}
  /\ phase # "tool" => parent = "idle"
  /\ iteration \in 0..MaxIterations
  /\ recent \in Seq(BOOLEAN) /\ Len(recent) = total
  /\ total <= MaxToolCalls
  /\ phase = "tool" => total < MaxToolCalls
  /\ InARow
  /\ phase = "chat" => failures < MaxConsecutiveFailures

AgentInv == SandboxInv /\ LoopInv

-----------------------------------------------------------------------------
(* The sandbox on its own.                                                 *)
LEMMA InitSandbox == ASSUME SandboxInit PROVE SandboxInv
  BY SandboxAssumption DEF SandboxInit, SandboxInv, SandboxTypes, Handover, Answered, Output, NoThreads

LEMMA RunKeeps ==
  ASSUME SandboxInv, NEW name \in DOMAIN Tools, Run(Tools[name])
  PROVE  SandboxInv'
  <1>1. tool' = Tools[name] /\ child' = "running" /\ parent' \in {"check", "join"}
        /\ toWrite' = 0 /\ pipe' = 0 /\ got' = 0 /\ elapsed' = 0
        /\ UNCHANGED <<platform, outcome, leaked>>
        /\ (parent' = "check" <=> platform = "posix")
    BY DEF Run
  <1>2. tool'.result \in {"ok", "error", "none"} /\ tool'.size \in Nat \ {0} /\ tool'.ends \in BOOLEAN
    BY <1>1, ToolsAssumption
  <1>3. SandboxTypes'
    BY <1>1, <1>2 DEF SandboxInv, SandboxTypes
  <1>4. Handover'
    BY <1>1 DEF SandboxInv, SandboxTypes, Handover
  <1>5. Answered'
    BY <1>1 DEF SandboxInv, Answered
  <1> QED
    BY <1>3, <1>4, <1>5 DEF SandboxInv

LEMMA TickKeeps == ASSUME SandboxInv, Tick PROVE SandboxInv'
  BY SandboxAssumption DEF Tick, SandboxInv, SandboxTypes, Handover, Answered, Output

LEMMA FinishKeeps == ASSUME SandboxInv, Finish PROVE SandboxInv'
  <1>1. /\ child = "running" /\ tool.ends /\ pipe = 0 /\ got = 0 /\ toWrite = 0
        /\ UNCHANGED <<platform, tool, pipe, got, parent, elapsed, outcome, leaked>>
    BY DEF Finish, SandboxInv, Handover
  <1>2. CASE platform = "thread" \/ tool.result = "none"
    <2>1. child' = "exited" /\ UNCHANGED toWrite
      BY <1>2 DEF Finish
    <2>2. SandboxTypes' /\ Answered'
      BY <1>1, <2>1 DEF SandboxInv, SandboxTypes, Answered
    <2>3. Handover'
      BY <1>1, <1>2, <2>1 DEF SandboxInv, Handover
    <2> QED
      BY <2>2, <2>3 DEF SandboxInv
  <1>3. CASE platform = "posix" /\ tool.result # "none"
    <2>1. child' = "writing" /\ toWrite' = Output
      BY <1>3 DEF Finish, Output
    <2>2. Output \in Nat /\ Output > 0 /\ Output' = Output
      BY <1>1, SandboxAssumption DEF Output, SandboxInv, SandboxTypes
    <2>3. SandboxTypes' /\ Answered'
      BY <1>1, <2>1, <2>2 DEF SandboxInv, SandboxTypes, Handover, Answered
    <2>4. Handover'
      BY <1>1, <1>3, <2>1, <2>2 DEF SandboxInv, Handover
    <2> QED
      BY <2>3, <2>4 DEF SandboxInv
  <1> QED
    BY <1>2, <1>3 DEF SandboxInv, SandboxTypes

LEMMA WriteKeeps == ASSUME SandboxInv, Write PROVE SandboxInv'
  BY SandboxAssumption DEF Write, SandboxInv, SandboxTypes, Handover, Answered, Output

LEMMA DeadlineKeeps == ASSUME SandboxInv, Deadline PROVE SandboxInv'
  BY SandboxAssumption DEF Deadline, Answer, SandboxInv, SandboxTypes, Handover, Answered, Output

LEMMA ReadKeeps == ASSUME SandboxInv, Read PROVE SandboxInv'
  BY SandboxAssumption DEF Read, SandboxInv, SandboxTypes, Handover, Answered, Output

LEMMA EndOfFileKeeps == ASSUME SandboxInv, EndOfFile PROVE SandboxInv'
  <1>1. /\ parent = "read" /\ pipe = 0 /\ child = "exited"
        /\ child' = "gone" /\ parent' = "idle"
        /\ UNCHANGED <<platform, tool, toWrite, pipe, got, elapsed, leaked>>
    BY DEF EndOfFile, Answer
  <1>2. \/ got = 0 /\ outcome' = "error"
        \/ got # 0 /\ tool.size > MaxOutput /\ outcome' = "exception"
        \/ got # 0 /\ ~(tool.size > MaxOutput) /\ outcome' = tool.result
    BY DEF EndOfFile, Answer
  <1>3. platform = "posix" /\ tool.ends /\ toWrite = 0
    BY <1>1 DEF SandboxInv, Handover
  <1>4. IF tool.result = "none" THEN got = 0 ELSE got = Output
    BY <1>1, <1>3 DEF SandboxInv, SandboxTypes, Handover, Output
  <1>5. SandboxTypes'
    <2>1. outcome' \in {"ok", "error", "exception", "timeout"}
      BY <1>2, <1>4 DEF SandboxInv, SandboxTypes
    <2> QED
      BY <1>1, <2>1 DEF SandboxInv, SandboxTypes
  <1>6. Handover'
    BY <1>1, <1>3 DEF SandboxInv, Handover, Output
  <1>7. Answered'
    <2>1. /\ tool.size \in Nat /\ MaxOutput \in Nat /\ got \in Nat
          /\ tool.result \in {"ok", "error", "none"}
      BY SandboxAssumption DEF SandboxInv, SandboxTypes
    <2>2. leaked' = leaked /\ (platform = "posix" => leaked = NoThreads)
      BY <1>1 DEF SandboxInv, Answered
    <2>3. outcome' # "timeout"
      BY <1>2, <2>1
    <2>4. outcome' \in {"ok", "exception"} => tool.result # "none"
      BY <1>2, <1>4, <2>1
    <2>5. outcome' = "ok" => tool.result = "ok" /\ tool.size <= MaxOutput
      BY <1>2, <2>1
    <2>6. got > 0 /\ outcome' \in {"ok", "error"} => got = tool.size
      BY <1>2, <1>4, <2>1 DEF Output
    <2> QED
      BY <1>1, <1>3, <2>2, <2>3, <2>4, <2>5, <2>6 DEF Answered
  <1> QED
    BY <1>5, <1>6, <1>7 DEF SandboxInv

LEMMA JoinKeeps == ASSUME SandboxInv, Join PROVE SandboxInv'
  BY SandboxAssumption DEF Join, Answer, SandboxInv, SandboxTypes, Handover, Answered, Output

LEMMA JoinTimeoutKeeps == ASSUME SandboxInv, JoinTimeout PROVE SandboxInv'
  BY SandboxAssumption DEF JoinTimeout, Answer, SandboxInv, SandboxTypes, Handover, Answered, Output

LEMMA LeakEndsKeeps == ASSUME SandboxInv, LeakEnds PROVE SandboxInv'
  <1>1. /\ leaked.ending > 0 /\ leaked' = [leaked EXCEPT !.ending = @ - 1]
        /\ UNCHANGED <<platform, tool, child, toWrite, pipe, got, parent, elapsed, outcome>>
    BY DEF LeakEnds
  <1>2. leaked' \in [ending : Nat, hanging : Nat]
    BY <1>1 DEF SandboxInv, SandboxTypes
  <1>3. platform # "posix"
    BY <1>1 DEF SandboxInv, Answered, NoThreads
  <1> QED
    BY <1>1, <1>2, <1>3 DEF SandboxInv, SandboxTypes, Handover, Answered, Output

LEMMA SandboxRests == ASSUME SandboxInv, UNCHANGED sandboxVars PROVE SandboxInv'
  BY DEF sandboxVars, SandboxInv, SandboxTypes, Handover, Answered, Output
-----------------------------------------------------------------------------
(* The loop.                                                               *)
LEMMA OneMoreResult ==
  ASSUME LoopInv, NEW ok \in BOOLEAN,
         recent' = Append(recent, ok), failures' = IF ok THEN 0 ELSE failures + 1
  PROVE  recent' \in Seq(BOOLEAN) /\ Len(recent') = Len(recent) + 1 /\ InARow'
  <1>1. recent \in Seq(BOOLEAN) /\ Len(recent) \in Nat /\ failures \in 0..Len(recent)
    BY DEF LoopInv, InARow
  <1>2. /\ recent' \in Seq(BOOLEAN) /\ Len(recent') = Len(recent) + 1
        /\ recent'[Len(recent) + 1] = ok
        /\ \A i \in 1..Len(recent) : recent'[i] = recent[i]
    BY <1>1
  <1>3. CASE ok
    BY <1>1, <1>2, <1>3 DEF InARow
  <1>4. CASE ~ok
    <2>1. failures' = failures + 1 /\ failures' \in 0..Len(recent')
      BY <1>1, <1>2, <1>4
    <2>2. ASSUME NEW i \in 1..Len(recent'), i > Len(recent') - failures'
          PROVE  ~recent'[i]
      <3>1. CASE i = Len(recent) + 1
        BY <1>2, <1>4, <3>1
      <3>2. CASE i \in 1..Len(recent)
        BY <1>1, <1>2, <2>1, <2>2, <3>2 DEF LoopInv, InARow
      <3> QED
        BY <1>1, <1>2, <3>1, <3>2
    <2>3. ASSUME failures' < Len(recent') PROVE recent'[Len(recent') - failures']
      <3>1. failures < Len(recent) /\ Len(recent') - failures' = Len(recent) - failures
        BY <1>1, <1>2, <2>1, <2>3
      <3>2. recent[Len(recent) - failures] /\ Len(recent) - failures \in 1..Len(recent)
        BY <1>1, <3>1 DEF LoopInv, InARow
      <3> QED
        BY <1>2, <3>1, <3>2
    <2> QED
      BY <1>2, <2>1, <2>2, <2>3 DEF InARow
  <1> QED
    BY <1>2, <1>3, <1>4

LEMMA OutcomeKeeps ==
  ASSUME AgentInv, NEW ok \in BOOLEAN, NEW marks, Outcome(ok, marks), total < MaxToolCalls,
         parent = "idle", UNCHANGED sandboxVars
  PROVE  LoopInv'
  <1>1. /\ total' = total + 1 /\ recent' = Append(recent, ok) /\ phase' = "calls"
        /\ failures' = (IF ok THEN 0 ELSE failures + 1)
        /\ UNCHANGED iteration
    BY DEF Outcome
  <1>2. recent' \in Seq(BOOLEAN) /\ Len(recent') = Len(recent) + 1 /\ InARow'
    BY <1>1, OneMoreResult DEF AgentInv
  <1>3. parent' = "idle"
    BY DEF sandboxVars
  <1>4. total' <= MaxToolCalls /\ Len(recent') = total'
    <2>1. total \in Nat /\ MaxToolCalls \in Nat
      BY AgentAssumption DEF AgentInv, LoopInv
    <2> QED
      BY <1>1, <1>2, <2>1 DEF AgentInv, LoopInv
  <1> QED
    BY <1>1, <1>2, <1>3, <1>4 DEF AgentInv, LoopInv

LEMMA Allowed == ASSUME NEW text PROVE CheckToolResult(policy, text).allowed \in BOOLEAN
  BY DEF CheckToolResult, Evaluate

LEMMA InitAgentInv == ASSUME Init PROVE AgentInv
  <1>1. SandboxInv
    BY InitSandbox DEF Init, LoopInit
  <1>2. LoopInv
    BY AgentAssumption DEF Init, LoopInit, SandboxInit, LoopInv, InARow
  <1> QED
    BY <1>1, <1>2 DEF AgentInv

(* A step of the sandbox that leaves the loop alone, while a tool runs or  *)
(* with no answer to give.                                                 *)
LEMMA SandboxMoves ==
  ASSUME AgentInv, SandboxInv', UNCHANGED <<phase, runVars>>, phase = "tool" \/ UNCHANGED parent
  PROVE  AgentInv'
  BY DEF AgentInv, LoopInv, InARow, runVars

LEMMA NextAgentInv == ASSUME AgentInv, [Next]_vars PROVE AgentInv'
  <1> USE DEF AgentInv
  <1>1. CASE UNCHANGED vars
    BY <1>1, SandboxRests, SandboxMoves DEF vars, sandboxVars
  <1>2. ASSUME NEW prompt \in Prompts, Start(prompt) PROVE AgentInv'
    <2>1. SandboxInv' /\ UNCHANGED parent
      BY <1>2, SandboxRests DEF Start, sandboxVars
    <2>2. /\ phase' = "chat" /\ iteration' = 0 /\ failures' = 0 /\ total' = 0 /\ recent' = << >>
          /\ parent = "idle"
      BY <1>2 DEF Start, LoopInv
    <2> QED
      BY <2>1, <2>2, AgentAssumption DEF LoopInv, InARow
  <1>3. ASSUME NEW completion \in Completions, Chat(completion) PROVE AgentInv'
    <2>1. SandboxInv' /\ UNCHANGED <<parent, failures, total, recent>>
      BY <1>3, SandboxRests DEF Chat, sandboxVars
    <2>2. /\ phase' \in {"idle", "calls"} /\ parent = "idle"
          /\ iteration' \in 0..MaxIterations
      BY <1>3, AgentAssumption DEF Chat, LoopInv
    <2> QED
      BY <2>1, <2>2 DEF LoopInv, InARow
  <1>4. CASE OutOfIterations \/ BudgetSpent \/ Raises
    <2>1. SandboxInv' /\ UNCHANGED <<parent, iteration, failures, total, recent>>
      BY <1>4, SandboxRests DEF OutOfIterations, BudgetSpent, Raises, sandboxVars
    <2>2. phase' \in {"idle", "calls"} /\ parent = "idle"
      BY <1>4 DEF OutOfIterations, BudgetSpent, Raises, NextCall, LoopInv
    <2> QED
      BY <2>1, <2>2 DEF LoopInv, InARow
  <1>5. CASE Repeated \/ RefusedCall
    <2>1. UNCHANGED sandboxVars /\ Outcome(FALSE, {}) /\ total < MaxToolCalls /\ parent = "idle"
      BY <1>5 DEF Repeated, RefusedCall, NextCall, LoopInv
    <2> QED
      BY <2>1, OutcomeKeeps, SandboxRests
  <1>6. CASE Execute
    <2>1. PICK name \in DOMAIN Tools : Run(Tools[name])
      BY <1>6 DEF Execute, Vetted
    <2>2. SandboxInv'
      BY <2>1, RunKeeps
    <2>3. phase' = "tool" /\ total < MaxToolCalls /\ UNCHANGED <<iteration, failures, total, recent>>
      BY <1>6 DEF Execute, NextCall, runVars
    <2> QED
      BY <2>2, <2>3 DEF LoopInv, InARow
  <1>7. CASE Executed
    <2>1. \E ok \in BOOLEAN : \E marks : Outcome(ok, marks)
      BY <1>7, Allowed DEF Executed
    <2> QED
      BY <1>7, <2>1, OutcomeKeeps, SandboxRests DEF Executed, LoopInv
  <1>8. CASE StepEnds
    <2>1. SandboxInv' /\ UNCHANGED <<parent, iteration, failures, total, recent>>
      BY <1>8, SandboxRests DEF StepEnds, sandboxVars
    <2>2. /\ parent = "idle" /\ phase' \in {"idle", "chat"}
          /\ phase' = "chat" => ~(failures >= MaxConsecutiveFailures)
      BY <1>8 DEF StepEnds, LoopInv
    <2>3. failures \in Nat /\ MaxConsecutiveFailures \in Nat
      BY AgentAssumption DEF LoopInv, InARow
    <2> QED
      BY <2>1, <2>2, <2>3 DEF LoopInv, InARow
  <1>9. CASE \/ Tooling /\ Finish
             \/ Tooling /\ Write
             \/ Tooling /\ Deadline
             \/ Tooling /\ Read
             \/ Tooling /\ EndOfFile
             \/ Tooling /\ Join
             \/ Tooling /\ JoinTimeout
    <2>1. phase = "tool" /\ UNCHANGED <<phase, runVars>>
      BY <1>9 DEF Tooling
    <2>2. SandboxInv'
      BY <1>9, FinishKeeps, WriteKeeps, DeadlineKeeps, ReadKeeps, EndOfFileKeeps, JoinKeeps, JoinTimeoutKeeps
    <2> QED
      BY <2>1, <2>2, SandboxMoves
  <1>10. CASE TickPasses \/ LeftThreadEnds
    <2>1. SandboxInv'
      BY <1>10, TickKeeps, LeakEndsKeeps DEF TickPasses, LeftThreadEnds
    <2>2. UNCHANGED <<phase, runVars>> /\ UNCHANGED parent
      BY <1>10 DEF TickPasses, LeftThreadEnds, Tick, LeakEnds
    <2> QED
      BY <2>1, <2>2, SandboxMoves
  <1>11. CASE Reset
    <2>1. UNCHANGED sandboxVars /\ UNCHANGED <<phase, runVars>> /\ UNCHANGED parent
      BY <1>11 DEF Reset, sandboxVars
    <2> QED
      BY <2>1, SandboxRests, SandboxMoves
  <1> QED
    BY <1>1, <1>2, <1>3, <1>4, <1>5, <1>6, <1>7, <1>8, <1>9, <1>10, <1>11 DEF Next, LoopStep

-----------------------------------------------------------------------------
(* The inductive invariant holds in every behaviour.                       *)
THEOREM AgentInvariance == Spec => []AgentInv
  BY InitAgentInv, NextAgentInv, PTL DEF Spec

(* A call that is answered leaves no child behind and returns no piece of  *)
(* a result, whatever the tool does, the limits and the pipe: run() and    *)
(* _run_forked() of tools/sandbox.py.                                      *)
THEOREM SandboxAnswersAlways == Spec => []SandboxAnswers
  <1>1. AgentInv => SandboxAnswers
    BY DEF AgentInv, SandboxInv, SandboxTypes, Handover, Answered, SandboxAnswers
  <1> QED
    BY <1>1, AgentInvariance, PTL

(* A run of the agent asks the model and runs tools no more often than its *)
(* limits say, and does not go on after too many failures in a row: run()  *)
(* of agent/loop.py.                                                       *)
THEOREM RunsBounded == Spec => []RunBounded
  <1>1. ASSUME AgentInv PROVE RunBounded
    <2>1. iteration <= MaxIterations /\ Len(recent) <= MaxToolCalls
      BY <1>1 DEF AgentInv, LoopInv
    <2>2. ASSUME phase = "chat", Len(recent) >= MaxConsecutiveFailures
          PROVE  \E i \in (Len(recent) - MaxConsecutiveFailures + 1)..Len(recent) : recent[i]
      <3>1. /\ failures < MaxConsecutiveFailures /\ failures \in Nat /\ Len(recent) \in Nat
            /\ MaxConsecutiveFailures \in Nat
        BY <1>1, <2>2, AgentAssumption DEF AgentInv, LoopInv, InARow
      <3>2. recent[Len(recent) - failures]
        BY <1>1, <2>2, <3>1 DEF AgentInv, LoopInv, InARow
      <3>3. Len(recent) - failures \in (Len(recent) - MaxConsecutiveFailures + 1)..Len(recent)
        BY <3>1
      <3> QED
        BY <3>2, <3>3
    <2> QED
      BY <2>1, <2>2 DEF RunBounded
  <1> QED
    BY <1>1, AgentInvariance, PTL

-----------------------------------------------------------------------------
(***************************************************************************)
(* Parts of a sequence.                                                    *)
(***************************************************************************)
Rank(is, i) == Cardinality({j \in is : j <= i})

LEMMA RankFacts ==
  ASSUME NEW n \in Nat, NEW is \in SUBSET (1..n)
  PROVE  /\ IsFiniteSet(is) /\ Cardinality(is) \in Nat
         /\ \A i \in is : Rank(is, i) \in 1..Cardinality(is)
         /\ \A i, j \in is : i < j => Rank(is, i) < Rank(is, j)
  <1>1. IsFiniteSet(is) /\ Cardinality(is) \in Nat /\ is \subseteq Int
    <2>1. IsFiniteSet(1..n)
      BY FS_Interval
    <2>2. IsFiniteSet(is)
      BY <2>1, FS_Subset
    <2>3. QED
      BY <2>2, FS_CardinalityType
  <1>2. ASSUME NEW i \in is PROVE Rank(is, i) \in 1..Cardinality(is)
    <2>1. PICK S : S = {j \in is : j <= i}
      OBVIOUS
    <2>2. S \subseteq is /\ i \in S
      BY <1>1, <2>1
    <2>3. IsFiniteSet(S) /\ Cardinality(S) \in Nat /\ Cardinality(S) <= Cardinality(is) /\ Cardinality(S) # 0
      BY <1>1, <2>2, FS_Subset, FS_CardinalityType, FS_EmptySet
    <2>4. QED
      BY <1>1, <2>1, <2>3 DEF Rank
  <1>3. ASSUME NEW i \in is, NEW j \in is, i < j PROVE Rank(is, i) < Rank(is, j)
    <2>1. PICK S : S = {x \in is : x <= i}
      OBVIOUS
    <2>2. PICK T : T = {x \in is : x <= j}
      OBVIOUS
    <2>3. i \in Int /\ j \in Int /\ \A x \in is : x \in Int
      BY <1>1
    <2>4. S \subseteq T /\ T \subseteq is
      <3>1. ASSUME NEW x \in S PROVE x \in T
        <4>1. x \in is /\ x \in Int /\ x <= i
          BY <2>1, <2>3
        <4>2. x <= j
          BY <1>3, <2>3, <4>1
        <4>3. QED
          BY <2>2, <4>1, <4>2
      <3>2. QED
        BY <2>2, <3>1
    <2>5. j \in T /\ j \notin S
      BY <1>3, <2>1, <2>2, <2>3
    <2>6. IsFiniteSet(T) /\ IsFiniteSet(S)
      BY <1>1, <2>4, FS_Subset
    <2>7. Cardinality(S) \in Nat /\ Cardinality(T) \in Nat
      BY <2>6, FS_CardinalityType
    <2>8. Cardinality(S) <= Cardinality(T) /\ (Cardinality(S) = Cardinality(T) => S = T)
      BY <2>4, <2>6, FS_Subset
    <2>9. Cardinality(S) < Cardinality(T)
      BY <2>5, <2>7, <2>8
    <2>10. QED
      BY <2>1, <2>2, <2>9 DEF Rank
  <1>4. QED
    BY <1>1, <1>2, <1>3

LEMMA RanksTaken ==
  ASSUME NEW n \in Nat, NEW is \in SUBSET (1..n), NEW k \in 1..Cardinality(is)
  PROVE  \E i \in is : Rank(is, i) = k
  <1> DEFINE Up(m) == is \cap (1..m)
             N == {m \in Nat : \A l \in 1..Cardinality(Up(m)) : \E i \in Up(m) : Rank(is, i) = l}
  <1>1. is \subseteq Int /\ \A i \in is : 1 <= i /\ i <= n
    OBVIOUS
  <1>2. 0 \in N
    <2>1. Up(0) = {} /\ Cardinality(Up(0)) = 0
      BY FS_EmptySet
    <2>2. QED
      BY <2>1
  <1>3. ASSUME NEW m \in Nat, m \in N PROVE m + 1 \in N
    <2>1. PICK S : S = Up(m)
      OBVIOUS
    <2>2. IsFiniteSet(S) /\ Cardinality(S) \in Nat /\ m + 1 \notin S
      <3>1. IsFiniteSet(1..m)
        BY FS_Interval
      <3>2. S \subseteq 1..m
        BY <2>1
      <3>3. IsFiniteSet(S)
        BY <3>1, <3>2, FS_Subset
      <3>4. QED
        BY <3>2, <3>3, FS_CardinalityType
    <2>3. \A l \in 1..Cardinality(S) : \E i \in S : Rank(is, i) = l
      BY <1>3, <2>1
    <2>4. CASE m + 1 \in is
      <3>1. Up(m + 1) = S \cup {m + 1}
        BY <2>1, <2>4
      <3>2. Cardinality(Up(m + 1)) = Cardinality(S) + 1
        BY <2>2, <3>1, FS_AddElement
      <3>3. {j \in is : j <= m + 1} = Up(m + 1)
        <4>1. \A j \in is : j \in Int /\ 1 <= j
          BY <1>1
        <4>2. \A j \in is : j <= m + 1 <=> j \in 1..(m + 1)
          BY <4>1
        <4>3. QED
          BY <4>2
      <3>4. Rank(is, m + 1) = Cardinality(S) + 1
        BY <3>2, <3>3 DEF Rank
      <3>5. ASSUME NEW l \in 1..Cardinality(Up(m + 1)) PROVE \E i \in Up(m + 1) : Rank(is, i) = l
        <4>1. CASE l = Cardinality(S) + 1
          BY <3>1, <3>4, <4>1
        <4>2. CASE l # Cardinality(S) + 1
          <5>1. l \in 1..Cardinality(S)
            BY <2>2, <3>2, <4>2
          <5>2. QED
            BY <2>3, <3>1, <5>1
        <4>3. QED
          BY <4>1, <4>2
      <3>6. QED
        BY <3>5
    <2>5. CASE m + 1 \notin is
      <3>1. Up(m + 1) = S
        BY <2>1, <2>5
      <3>2. QED
        BY <2>3, <3>1
    <2>6. QED
      BY <2>4, <2>5
  <1>4. n \in N
    <2> HIDE DEF N
    <2>1. QED
      BY <1>2, <1>3, Induction
  <1>5. Up(n) = is
    BY <1>1
  <1>6. QED
    BY <1>4, <1>5

LEMMA NthFacts ==
  ASSUME NEW n \in Nat, NEW is \in SUBSET (1..n)
  PROVE  /\ \A k \in 1..Cardinality(is) : Nth(is, k) \in is
         /\ \A i \in is : Rank(is, i) \in 1..Cardinality(is) /\ Nth(is, Rank(is, i)) = i
         /\ \A k, l \in 1..Cardinality(is) : k < l => Nth(is, k) < Nth(is, l)
  <1>1. is \subseteq Int /\ Cardinality(is) \in Nat
    BY RankFacts
  <1>2. ASSUME NEW k \in 1..Cardinality(is) PROVE Nth(is, k) \in is /\ Rank(is, Nth(is, k)) = k
    <2>1. PICK i \in is : Rank(is, i) = k
      BY RanksTaken
    <2>2. Cardinality({j \in is : j <= i}) = k
      BY <2>1 DEF Rank
    <2>3. QED
      BY <2>2 DEF Nth, Rank
  <1>3. ASSUME NEW i \in is PROVE Rank(is, i) \in 1..Cardinality(is) /\ Nth(is, Rank(is, i)) = i
    <2>1. PICK k \in 1..Cardinality(is) : k = Rank(is, i)
      BY RankFacts
    <2>2. PICK j \in is : j = Nth(is, k) /\ Rank(is, j) = k
      BY <1>2
    <2>3. i \in Int /\ j \in Int /\ k \in Int
      BY <1>1
    <2>4. \A x, y \in is : x < y => Rank(is, x) < Rank(is, y)
      BY RankFacts
    <2>5. ~(i < j)
      <3>1. i < j => k < k
        BY <2>1, <2>2, <2>4
      <3>2. QED
        BY <2>3, <3>1
    <2>6. ~(j < i)
      <3>1. j < i => k < k
        BY <2>1, <2>2, <2>4
      <3>2. QED
        BY <2>3, <3>1
    <2>7. i = j
      BY <2>3, <2>5, <2>6
    <2>8. QED
      BY <2>1, <2>2, <2>7
  <1>4. ASSUME NEW k \in 1..Cardinality(is), NEW l \in 1..Cardinality(is), k < l
        PROVE  Nth(is, k) < Nth(is, l)
    <2>1. PICK i \in is : i = Nth(is, k) /\ Rank(is, i) = k
      BY <1>2
    <2>2. PICK j \in is : j = Nth(is, l) /\ Rank(is, j) = l
      BY <1>2
    <2>3. i \in Int /\ j \in Int /\ k \in Int /\ l \in Int
      BY <1>1
    <2>4. \A x, y \in is : x < y => Rank(is, x) < Rank(is, y)
      BY RankFacts
    <2>5. j < i => l < k
      BY <2>1, <2>2, <2>4
    <2>6. i = j => k = l
      BY <2>1, <2>2
    <2>7. i < j
      BY <1>4, <2>3, <2>5, <2>6
    <2>8. QED
      BY <2>1, <2>2, <2>7
  <1>5. QED
    BY <1>2, <1>3, <1>4

(* What is left of a conversation when some of it is taken: the turns that *)
(* are, in their order, and their tokens.                                  *)
Weighed(ts) == [i \in DOMAIN ts |-> ts[i].tokens]

LEMMA TurnsAtFacts ==
  ASSUME NEW T, NEW ts \in Seq(T), NEW is \in SUBSET (DOMAIN ts)
  PROVE  /\ TurnsAt(ts, is) \in Seq(T) /\ Len(TurnsAt(ts, is)) = Cardinality(is)
         /\ DOMAIN TurnsAt(ts, is) = 1..Cardinality(is)
         /\ \A k \in 1..Cardinality(is) : Nth(is, k) \in is /\ TurnsAt(ts, is)[k] = ts[Nth(is, k)]
         /\ \A i \in is : \E k \in 1..Cardinality(is) : TurnsAt(ts, is)[k] = ts[i]
         /\ \A k, l \in 1..Cardinality(is) : k < l => Nth(is, k) < Nth(is, l)
  <1>1. PICK n \in Nat : n = Len(ts) /\ DOMAIN ts = 1..n
    OBVIOUS
  <1>2. is \in SUBSET (1..n)
    BY <1>1
  <1>3. /\ \A k \in 1..Cardinality(is) : Nth(is, k) \in is
        /\ \A i \in is : Rank(is, i) \in 1..Cardinality(is) /\ Nth(is, Rank(is, i)) = i
        /\ \A k, l \in 1..Cardinality(is) : k < l => Nth(is, k) < Nth(is, l)
    BY <1>2, NthFacts
  <1>4. Cardinality(is) \in Nat
    BY <1>2, RankFacts
  <1>5. \A i \in DOMAIN ts : ts[i] \in T
    OBVIOUS
  <1>6. \A k \in 1..Cardinality(is) : ts[Nth(is, k)] \in T
    BY <1>3, <1>5
  <1>7. TurnsAt(ts, is) \in Seq(T) /\ Len(TurnsAt(ts, is)) = Cardinality(is)
        /\ DOMAIN TurnsAt(ts, is) = 1..Cardinality(is)
    BY <1>4, <1>6 DEF TurnsAt
  <1>8. \A k \in 1..Cardinality(is) : TurnsAt(ts, is)[k] = ts[Nth(is, k)]
    BY DEF TurnsAt
  <1>9. ASSUME NEW i \in is PROVE \E k \in 1..Cardinality(is) : TurnsAt(ts, is)[k] = ts[i]
    <2>1. PICK k \in 1..Cardinality(is) : Nth(is, k) = i
      BY <1>3
    <2>2. QED
      BY <1>8, <2>1
  <1>10. QED
    BY <1>3, <1>7, <1>8, <1>9

Kinds == {"prompt", "calling", "answer", "result", "error"}

Turns ==
  [id : Nat \ {0}, kind : Kinds, tokens : Nat, uncounted : Nat, marks : SUBSET Marks, pinned : BOOLEAN]

Spent(ts, is) == SumFunctionOnSet(Weighed(ts), is)

LEMMA WeighedType ==
  ASSUME NEW ts \in Seq(Turns)
  PROVE  /\ DOMAIN Weighed(ts) = DOMAIN ts /\ IsFiniteSet(DOMAIN ts)
         /\ \A i \in DOMAIN ts : ts[i] \in Turns /\ Weighed(ts)[i] = ts[i].tokens /\ Weighed(ts)[i] \in Nat
  <1>1. PICK n \in Nat : n = Len(ts) /\ DOMAIN ts = 1..n
    OBVIOUS
  <1>2. IsFiniteSet(1..n)
    BY FS_Interval
  <1>3. \A i \in DOMAIN ts : ts[i] \in Turns
    OBVIOUS
  <1>4. \A i \in DOMAIN ts : ts[i].tokens \in Nat
    BY <1>3 DEF Turns
  <1>5. QED
    BY <1>1, <1>2, <1>3, <1>4 DEF Weighed

LEMMA SpentType ==
  ASSUME NEW ts \in Seq(Turns), NEW is \in SUBSET (DOMAIN ts)
  PROVE  IsFiniteSet(is) /\ Spent(ts, is) \in Nat
  <1>1. IsFiniteSet(is)
    BY WeighedType, FS_Subset
  <1>2. PICK w : w = Weighed(ts)
    OBVIOUS
  <1>3. \A i \in is : w[i] \in Nat
    BY <1>2, WeighedType
  <1>4. SumFunctionOnSet(w, is) \in Nat
    BY <1>1, <1>3, SumNat
  <1>5. QED
    BY <1>1, <1>2, <1>4 DEF Spent

LEMMA SpentLess ==
  ASSUME NEW ts \in Seq(Turns), NEW is \in SUBSET (DOMAIN ts), NEW js \in SUBSET is
  PROVE  Spent(ts, js) <= Spent(ts, is)
  <1>1. IsFiniteSet(is)
    BY SpentType
  <1>2. PICK w : w = Weighed(ts)
    OBVIOUS
  <1>3. \A i \in is : w[i] \in Nat
    BY <1>2, WeighedType
  <1>4. SumFunctionOnSet(w, js) <= SumFunctionOnSet(w, is)
    BY <1>1, <1>3, SumPart
  <1>5. QED
    BY <1>2, <1>4 DEF Spent

LEMMA TokensOfAll == ASSUME NEW ts \in Seq(Turns) PROVE TokensOf(ts) = Spent(ts, DOMAIN ts)
  <1>1. DOMAIN Weighed(ts) = DOMAIN ts
    BY WeighedType
  <1>2. QED
    BY <1>1 DEF TokensOf, Sum, SumFunction, Weighed, Spent

LEMMA WithoutIs ==
  ASSUME NEW ts \in Seq(Turns), NEW gone
  PROVE  Without(ts, gone) = Spent(ts, DOMAIN ts \ gone)
  <1>1. PICK is : is = DOMAIN ts \ gone
    OBVIOUS
  <1>2. PICK w : w = Weighed(ts)
    OBVIOUS
  <1>3. PICK v : v = [i \in is |-> ts[i].tokens]
    OBVIOUS
  <1>4. IsFiniteSet(is)
    BY <1>1, SpentType
  <1>5. \A i \in is : w[i] = v[i]
    BY <1>1, <1>2, <1>3 DEF Weighed
  <1>6. SumFunctionOnSet(w, is) = SumFunctionOnSet(v, is)
    BY <1>4, <1>5, SumSame
  <1>7. Without(ts, gone) = SumFunctionOnSet(v, is)
    BY <1>1, <1>3 DEF Without, Sum, SumFunction
  <1>8. QED
    BY <1>1, <1>2, <1>6, <1>7 DEF Spent

LEMMA TokensOfPart ==
  ASSUME NEW ts \in Seq(Turns), NEW is \in SUBSET (DOMAIN ts)
  PROVE  TokensOf(TurnsAt(ts, is)) = Spent(ts, is)
  <1>1. PICK m \in Nat : m = Cardinality(is)
    <2>1. IsFiniteSet(is)
      BY SpentType
    <2>2. QED
      BY <2>1, FS_CardinalityType
  <1>2. PICK b : b = [k \in 1..m |-> Nth(is, k)]
    OBVIOUS
  <1>3. PICK us : us = TurnsAt(ts, is)
    OBVIOUS
  <1>4. /\ us \in Seq(Turns) /\ DOMAIN us = 1..m
        /\ \A k \in 1..m : Nth(is, k) \in is /\ us[k] = ts[Nth(is, k)]
        /\ \A i \in is : \E k \in 1..m : us[k] = ts[i]
        /\ \A k, l \in 1..m : k < l => Nth(is, k) < Nth(is, l)
    BY <1>1, <1>3, TurnsAtFacts
  <1>5. {b[k] : k \in 1..m} = is
    <2>1. \A i \in is : Nth(is, Rank(is, i)) = i /\ Rank(is, i) \in 1..m
      <3>1. PICK n \in Nat : DOMAIN ts = 1..n
        OBVIOUS
      <3>2. is \in SUBSET (1..n)
        BY <3>1
      <3>3. QED
        BY <1>1, <3>2, NthFacts
    <2>2. \A i \in is : \E k \in 1..m : b[k] = i
      BY <1>2, <2>1
    <2>3. \A k \in 1..m : b[k] \in is
      BY <1>2, <1>4
    <2>4. QED
      BY <2>2, <2>3
  <1>6. \A k, l \in 1..m : b[k] = b[l] => k = l
    <2>1. SUFFICES ASSUME NEW k \in 1..m, NEW l \in 1..m, k # l PROVE b[k] # b[l]
      OBVIOUS
    <2>2. b[k] \in Int /\ b[l] \in Int
      <3>1. PICK n \in Nat : DOMAIN ts = 1..n
        OBVIOUS
      <3>2. b[k] \in is /\ b[l] \in is
        BY <1>2, <1>4
      <3>3. \A i \in is : i \in 1..n
        BY <3>1
      <3>4. b[k] \in 1..n /\ b[l] \in 1..n
        BY <3>2, <3>3
      <3>5. QED
        BY <3>1, <3>4
    <2>3. b[k] < b[l] \/ b[l] < b[k]
      <3>1. k < l \/ l < k
        BY <1>1, <2>1
      <3>2. QED
        BY <1>2, <1>4, <3>1
    <2>4. QED
      BY <2>2, <2>3
  <1>7. PICK f : f = Weighed(ts)
    OBVIOUS
  <1>8. PICK g : g = Weighed(us)
    OBVIOUS
  <1>9. \A k \in 1..m : g[k] = f[b[k]] /\ g[k] \in Int
    <2>1. SUFFICES ASSUME NEW k \in 1..m PROVE g[k] = f[b[k]] /\ g[k] \in Int
      OBVIOUS
    <2>2. g[k] = us[k].tokens /\ g[k] \in Nat
      BY <1>4, <1>8, WeighedType
    <2>3. b[k] \in DOMAIN ts /\ us[k] = ts[b[k]]
      BY <1>2, <1>4
    <2>4. f[b[k]] = ts[b[k]].tokens
      BY <1>7, <2>3, WeighedType
    <2>5. QED
      BY <2>2, <2>3, <2>4
  <1>10. IsFiniteSet(1..m)
    BY FS_Interval
  <1>11. SumFunctionOnSet(g, 1..m) = SumFunctionOnSet(f, {b[k] : k \in 1..m})
    <2>1. PICK K : K = 1..m
      OBVIOUS
    <2>2. IsFiniteSet(K)
      BY <1>10, <2>1
    <2>3. \A k, l \in K : b[k] = b[l] => k = l
      BY <1>6, <2>1
    <2>4. \A k \in K : g[k] = f[b[k]] /\ g[k] \in Int
      BY <1>9, <2>1
    <2>5. SumFunctionOnSet(g, K) = SumFunctionOnSet(f, {b[k] : k \in K})
      BY ONLY <2>2, <2>3, <2>4, SumRenamed
    <2>6. QED
      BY <2>1, <2>5
  <1>12. TokensOf(us) = Spent(us, DOMAIN us)
    BY <1>4, TokensOfAll
  <1>13. QED
    BY <1>3, <1>4, <1>5, <1>7, <1>8, <1>11, <1>12 DEF Spent

-----------------------------------------------------------------------------
(***************************************************************************)
(* The turns that are evicted: the lowest, or the oldest, until the rest   *)
(* fits or cannot go.                                                      *)
(***************************************************************************)
LEMMA PriorityType ==
  ASSUME NEW ts \in Seq(Turns), NEW i \in DOMAIN ts
  PROVE  Priority(ts, i) \in Int
  <1>1. PICK n \in Nat : n = Len(ts) /\ DOMAIN ts = 1..n
    OBVIOUS
  <1>2. PICK u \in Int : u = IF n > 1 THEN n - 1 ELSE 1
    OBVIOUS
  <1>3. PICK a \in Int : a = CASE RoleOf(ts[i]) = "user" -> 7 [] RoleOf(ts[i]) = "tool" -> 2 [] OTHER -> 0
    OBVIOUS
  <1>4. PICK b \in Int : b = IF i > n - RecentTurns THEN 20 ELSE 0
    OBVIOUS
  <1>5. PICK c \in Int : c = IF ts[i].tokens > BigTurn THEN 5 ELSE 0
    OBVIOUS
  <1>6. i \in Int /\ u * a \in Int /\ u * b \in Int /\ u * c \in Int
    BY <1>1
  <1>7. 20 * (i - 1) + u * a + u * b - u * c \in Int
    BY <1>6
  <1>8. Priority(ts, i) = 20 * (i - 1) + u * a + u * b - u * c
    BY <1>1, <1>2, <1>3, <1>4, <1>5 DEF Priority
  <1>9. QED
    BY <1>7, <1>8

Under(ts, i) == {j \in Unpinned(ts) : Lower(ts, j, i)}

LEMMA LowerOrders ==
  ASSUME NEW ts \in Seq(Turns)
  PROVE  /\ \A i, j, k \in DOMAIN ts : Lower(ts, i, j) /\ Lower(ts, j, k) => Lower(ts, i, k)
         /\ \A R \in SUBSET (DOMAIN ts) : R # {} => \E m \in R : \A i \in R : ~Lower(ts, i, m)
  <1>1. PICK n \in Nat : DOMAIN ts = 1..n
    OBVIOUS
  <1>2. PICK p : p = [i \in DOMAIN ts |-> Priority(ts, i)]
    OBVIOUS
  <1>3. \A i \in DOMAIN ts : p[i] = Priority(ts, i) /\ p[i] \in Int /\ i \in Int
    BY <1>1, <1>2, PriorityType
  <1>4. \A i, j \in DOMAIN ts : Lower(ts, j, i) <=> p[j] < p[i] \/ (p[j] = p[i] /\ j < i)
    BY <1>3 DEF Lower
  <1>5. \A i, j, k \in DOMAIN ts : Lower(ts, i, j) /\ Lower(ts, j, k) => Lower(ts, i, k)
    <2>1. SUFFICES ASSUME NEW i \in DOMAIN ts, NEW j \in DOMAIN ts, NEW k \in DOMAIN ts,
                          Lower(ts, i, j), Lower(ts, j, k)
                   PROVE  Lower(ts, i, k)
      OBVIOUS
    <2>2. PICK a \in Int, b \in Int, c \in Int : a = p[i] /\ b = p[j] /\ c = p[k]
      BY <1>3
    <2>3. (a < b \/ (a = b /\ i < j)) /\ (b < c \/ (b = c /\ j < k))
      BY <1>4, <2>1, <2>2
    <2>4. i \in Int /\ j \in Int /\ k \in Int
      BY <1>3
    <2>5. a < c \/ (a = c /\ i < k)
      BY <2>3, <2>4
    <2>6. QED
      BY <1>4, <2>2, <2>5
  <1>6. ASSUME NEW R \in SUBSET (DOMAIN ts), R # {} PROVE \E m \in R : \A i \in R : ~Lower(ts, i, m)
    <2>1. IsFiniteSet(R)
      BY SpentType
    <2>2. \A x \in R : p[x] \in Int
      BY <1>3
    <2>3. PICK l \in R : \A x \in R : p[l] <= p[x]
      BY <1>6, <2>1, <2>2, LeastOf
    <2>4. PICK Q : Q = {x \in R : p[x] = p[l]}
      OBVIOUS
    <2>5. PICK e : e = [x \in R |-> x]
      OBVIOUS
    <2>6. IsFiniteSet(Q) /\ Q # {} /\ \A x \in Q : e[x] \in Int
      <3>1. Q \subseteq R /\ l \in Q
        BY <2>4
      <3>2. \A x \in Q : e[x] = x /\ x \in DOMAIN ts
        BY <2>5, <3>1
      <3>3. QED
        BY <1>3, <2>1, <3>1, <3>2, FS_Subset
    <2>7. PICK m \in Q : \A x \in Q : e[m] <= e[x]
      BY <2>6, LeastOf
    <2>8. ASSUME NEW i \in R PROVE ~Lower(ts, i, m)
      <3>1. m \in R /\ p[m] = p[l] /\ e[m] = m /\ e[i] = i
        BY <2>4, <2>5
      <3>2. p[m] <= p[i]
        BY <2>3, <3>1
      <3>3. p[m] = p[i] => m <= i
        BY <2>4, <2>7, <3>1
      <3>4. p[m] \in Int /\ p[i] \in Int /\ m \in Int /\ i \in Int
        BY <1>3, <3>1
      <3>5. ~(p[i] < p[m]) /\ ~(p[i] = p[m] /\ i < m)
        BY <3>2, <3>3, <3>4
      <3>6. QED
        BY <1>4, <3>1, <3>5
    <2>9. QED
      BY <2>4, <2>8
  <1>7. QED
    BY <1>5, <1>6

LEMMA WithoutMore ==
  ASSUME NEW ts \in Seq(Turns), NEW S \in SUBSET (DOMAIN ts), NEW T \in SUBSET S
  PROVE  Without(ts, S) <= Without(ts, T) /\ Without(ts, S) \in Nat /\ Without(ts, T) \in Nat
  <1>1. PICK a : a = DOMAIN ts \ S
    OBVIOUS
  <1>2. PICK b : b = DOMAIN ts \ T
    OBVIOUS
  <1>3. a \subseteq b /\ b \subseteq DOMAIN ts
    BY <1>1, <1>2
  <1>4. Spent(ts, a) <= Spent(ts, b) /\ Spent(ts, a) \in Nat /\ Spent(ts, b) \in Nat
    BY <1>3, SpentLess, SpentType
  <1>5. QED
    BY <1>1, <1>2, <1>4, WithoutIs

LEMMA NothingToEvict ==
  ASSUME NEW ts \in Seq(Turns), TokensOf(ts) <= Budget
  PROVE  Victims(ts) = {} /\ Without(ts, Victims(ts)) <= Budget
  <1>1. Victims(ts) = {}
    BY DEF Victims
  <1>2. Without(ts, {}) = Spent(ts, DOMAIN ts \ {})
    BY WithoutIs
  <1>3. DOMAIN ts \ {} = DOMAIN ts
    OBVIOUS
  <1>4. Without(ts, {}) = TokensOf(ts)
    BY <1>2, <1>3, TokensOfAll
  <1>5. QED
    BY <1>1, <1>4

LEMMA LowestGo ==
  ASSUME NEW ts \in Seq(Turns), Budget \in Nat, strategy = "priority"
  PROVE  /\ Victims(ts) \subseteq Unpinned(ts)
         /\ \A i \in Victims(ts), j \in Unpinned(ts) : Lower(ts, j, i) => j \in Victims(ts)
         /\ Without(ts, Victims(ts)) <= Budget \/ Victims(ts) = Unpinned(ts)
  <1>1. CASE TokensOf(ts) <= Budget
    BY <1>1, NothingToEvict
  <1>2. CASE ~(TokensOf(ts) <= Budget)
    <2>1. PICK V : V = Victims(ts)
      OBVIOUS
    <2>2. V = {i \in Unpinned(ts) : Without(ts, Under(ts, i)) > Budget}
      BY <1>2, <2>1 DEF Victims, Under
    <2>3. Unpinned(ts) \subseteq DOMAIN ts
      BY DEF Unpinned
    <2>4. ASSUME NEW i \in V, NEW j \in Unpinned(ts), Lower(ts, j, i) PROVE j \in V
      <3>1. i \in DOMAIN ts /\ j \in DOMAIN ts
        BY <2>2, <2>3
      <3>2. \A k \in Under(ts, j) : k \in Under(ts, i)
        <4>1. SUFFICES ASSUME NEW k \in Under(ts, j) PROVE k \in Under(ts, i)
          OBVIOUS
        <4>2. k \in DOMAIN ts /\ k \in Unpinned(ts) /\ Lower(ts, k, j)
          BY <2>3 DEF Under
        <4>3. Lower(ts, k, i)
          BY <2>4, <3>1, <4>2, LowerOrders
        <4>4. QED
          BY <4>2, <4>3 DEF Under
      <3>3. Under(ts, i) \subseteq DOMAIN ts
        BY <2>3 DEF Under
      <3>4. PICK S \in SUBSET (DOMAIN ts) : S = Under(ts, i)
        BY <3>3
      <3>5. PICK T \in SUBSET S : T = Under(ts, j)
        BY <3>2, <3>4
      <3>6. Without(ts, S) <= Without(ts, T) /\ Without(ts, S) \in Nat /\ Without(ts, T) \in Nat
        BY WithoutMore
      <3>7. Without(ts, S) > Budget
        BY <2>2, <3>4
      <3>8. Without(ts, T) > Budget
        BY <3>6, <3>7
      <3>9. QED
        BY <2>2, <3>5, <3>8
    <2>5. ASSUME V # Unpinned(ts) PROVE Without(ts, V) <= Budget
      <3>1. PICK R : R = Unpinned(ts) \ V
        OBVIOUS
      <3>2. R \subseteq DOMAIN ts /\ R # {}
        BY <2>2, <2>3, <2>5, <3>1
      <3>3. PICK m \in R : \A i \in R : ~Lower(ts, i, m)
        BY <3>2, LowerOrders
      <3>4. PICK S : S = Under(ts, m)
        OBVIOUS
      <3>5. S \subseteq V
        BY <3>1, <3>3, <3>4 DEF Under
      <3>6. ~(Without(ts, S) > Budget)
        BY <2>2, <3>1, <3>4
      <3>7. V \subseteq DOMAIN ts
        BY <2>2, <2>3
      <3>8. Without(ts, V) <= Without(ts, S) /\ Without(ts, V) \in Nat /\ Without(ts, S) \in Nat
        BY <3>5, <3>7, WithoutMore
      <3>9. QED
        BY <3>6, <3>8
    <2>6. QED
      BY <2>1, <2>2, <2>4, <2>5
  <1>3. QED
    BY <1>1, <1>2

LEMMA OldestGo ==
  ASSUME NEW ts \in Seq(Turns), Budget \in Nat, strategy # "priority"
  PROVE  /\ Victims(ts) \subseteq Unpinned(ts)
         /\ \/ Without(ts, Victims(ts)) <= Budget
            \/ \E m \in DOMAIN ts \ Victims(ts) :
                 ts[m].pinned /\ \A i \in DOMAIN ts \ Victims(ts) : m <= i
  <1>1. CASE TokensOf(ts) <= Budget
    BY <1>1, NothingToEvict
  <1>2. CASE ~(TokensOf(ts) <= Budget)
    <2>1. PICK V : V = Victims(ts)
      OBVIOUS
    <2>2. V = {i \in DOMAIN ts : 1..i \subseteq Unpinned(ts) /\ Without(ts, 1..(i - 1)) > Budget}
      BY <1>2, <2>1 DEF Victims
    <2>3. Unpinned(ts) \subseteq DOMAIN ts
      BY DEF Unpinned
    <2>4. PICK n \in Nat : DOMAIN ts = 1..n
      OBVIOUS
    <2>5. V \subseteq Unpinned(ts)
      BY <2>2, <2>4
    <2>6. ASSUME NEW i \in V, NEW j \in 1..i PROVE j \in V
      <3>1. i \in 1..n /\ j \in 1..n /\ 1..j \subseteq 1..i
        BY <2>2, <2>4
      <3>2. 1..j \subseteq Unpinned(ts)
        BY <2>2, <3>1
      <3>3. PICK S : S = 1..(i - 1)
        OBVIOUS
      <3>4. PICK T : T = 1..(j - 1)
        OBVIOUS
      <3>5. T \subseteq S /\ S \subseteq DOMAIN ts
        BY <2>4, <3>1, <3>3, <3>4
      <3>6. Without(ts, S) <= Without(ts, T) /\ Without(ts, S) \in Nat /\ Without(ts, T) \in Nat
        BY <3>5, WithoutMore
      <3>7. Without(ts, S) > Budget
        BY <2>2, <3>3
      <3>8. Without(ts, T) > Budget
        BY <3>6, <3>7
      <3>9. QED
        BY <2>2, <2>4, <3>1, <3>2, <3>4, <3>8
    <2>7. CASE V = DOMAIN ts
      <3>1. Without(ts, V) = Spent(ts, DOMAIN ts \ V)
        BY WithoutIs
      <3>2. DOMAIN ts \ V = {}
        BY <2>7
      <3>3. Without(ts, V) = 0
        BY <3>1, <3>2, SumOfNone DEF Spent
      <3>4. QED
        BY <2>1, <2>5, <3>3
    <2>8. CASE V # DOMAIN ts
      <3>1. PICK R : R = DOMAIN ts \ V
        OBVIOUS
      <3>2. R \subseteq DOMAIN ts /\ R # {}
        BY <2>2, <2>8, <3>1
      <3>3. PICK e : e = [x \in R |-> x]
        OBVIOUS
      <3>4. IsFiniteSet(R) /\ \A x \in R : e[x] \in Int
        BY <2>4, <3>2, <3>3, SpentType
      <3>5. PICK m \in R : \A x \in R : e[m] <= e[x]
        BY <3>2, <3>4, LeastOf
      <3>6. m \in 1..n /\ \A x \in R : m <= x
        BY <2>4, <3>2, <3>3, <3>5
      <3>7. 1..(m - 1) \subseteq V
        <4>1. SUFFICES ASSUME NEW x \in 1..(m - 1) PROVE x \in V
          OBVIOUS
        <4>2. x \in 1..n /\ ~(m <= x)
          BY <3>6
        <4>3. QED
          BY <2>4, <3>1, <3>6, <4>2
      <3>8. CASE Without(ts, 1..(m - 1)) <= Budget
        <4>1. PICK S : S = 1..(m - 1)
          OBVIOUS
        <4>2. S \subseteq V /\ V \subseteq DOMAIN ts
          BY <2>2, <3>7, <4>1
        <4>3. Without(ts, V) <= Without(ts, S) /\ Without(ts, V) \in Nat /\ Without(ts, S) \in Nat
          BY <4>2, WithoutMore
        <4>4. Without(ts, V) <= Budget
          BY <3>8, <4>1, <4>3
        <4>5. QED
          BY <2>1, <2>5, <4>4
      <3>9. CASE ~(Without(ts, 1..(m - 1)) <= Budget)
        <4>1. Without(ts, 1..(m - 1)) \in Nat
          <5>1. PICK S : S = 1..(m - 1)
            OBVIOUS
          <5>2. S \subseteq DOMAIN ts
            BY <2>2, <3>7, <5>1
          <5>3. Without(ts, S) \in Nat
            BY <5>2, WithoutMore
          <5>4. QED
            BY <5>1, <5>3
        <4>2. Without(ts, 1..(m - 1)) > Budget
          BY <3>9, <4>1
        <4>3. ~(1..m \subseteq Unpinned(ts))
          BY <2>2, <3>1, <3>2, <4>2
        <4>4. 1..m = (1..(m - 1)) \cup {m}
          BY <3>6
        <4>5. m \notin Unpinned(ts)
          BY <2>5, <3>7, <4>3, <4>4
        <4>6. ts[m].pinned
          BY <3>2, <4>5 DEF Unpinned
        <4>7. QED
          BY <2>1, <2>5, <3>1, <3>6, <4>6
      <3>10. QED
        BY <3>8, <3>9
    <2>9. QED
      BY <2>7, <2>8
  <1>3. QED
    BY <1>1, <1>2

-----------------------------------------------------------------------------
(***************************************************************************)
(* What is left of the turns that go: fragments, which no trimming lets    *)
(* exceed the bound of the summary.                                        *)
(***************************************************************************)
Like(f, g) == f.id = g.id /\ f.kind = g.kind /\ f.marks = g.marks

LEMMA NoTokens == TokensOf(<<>>) = 0
  <1>1. <<>> \in Seq(Turns) /\ DOMAIN <<>> = {}
    OBVIOUS
  <1>2. TokensOf(<<>>) = Spent(<<>>, {})
    BY <1>1, TokensOfAll
  <1>3. QED
    BY <1>2, SumOfNone DEF Spent

LEMMA OneFragment == ASSUME NEW f \in Turns PROVE TokensOf(<<f>>) = f.tokens
  <1>1. PICK fs \in Seq(Turns) : fs = <<f>>
    <2>1. <<f>> \in Seq(Turns)
      OBVIOUS
    <2>2. QED
      BY <2>1
  <1>2. DOMAIN fs = {1} /\ fs[1] = f
    BY <1>1
  <1>3. PICK w : w = Weighed(fs)
    OBVIOUS
  <1>4. w[1] = f.tokens /\ f.tokens \in Nat
    BY <1>2, <1>3 DEF Weighed, Turns
  <1>5. PICK E : E = {} /\ IsFiniteSet(E)
    BY FS_EmptySet
  <1>6. 1 \notin E /\ \A y \in E \cup {1} : w[y] \in Int
    BY <1>4, <1>5
  <1>7. SumFunctionOnSet(w, E \cup {1}) = SumFunctionOnSet(w, E) + w[1]
    BY <1>5, <1>6, SumWith
  <1>8. SumFunctionOnSet(w, {1}) = w[1]
    BY <1>4, <1>5, <1>7, SumOfNone
  <1>9. TokensOf(fs) = SumFunctionOnSet(w, {1})
    BY <1>2, <1>3, TokensOfAll DEF Spent
  <1>10. QED
    BY <1>1, <1>4, <1>8, <1>9

LEMMA Trimmed ==
  ASSUME NEW fs \in Seq(Turns)
  PROVE  /\ TrimSummary(fs) \in Seq(Turns)
         /\ TokensOf(TrimSummary(fs)) <= MaxSummaryTokens
         /\ \A k \in DOMAIN TrimSummary(fs) : \E l \in DOMAIN fs : Like(TrimSummary(fs)[k], fs[l])
  <1> DEFINE Suffix(k) == SubSeq(fs, k, Len(fs))
             fits == {k \in DOMAIN fs : TokensOf(Suffix(k)) <= MaxSummaryTokens}
  <1>1. MaxSummaryTokens \in Nat
    BY MemoryAssumption
  <1>2. CASE fs = <<>>
    <2>1. TrimSummary(fs) = <<>>
      BY <1>2 DEF TrimSummary
    <2>2. QED
      BY <1>1, <2>1, NoTokens
  <1>3. CASE fs # <<>> /\ fits = {}
    <2>1. PICK n \in Nat \ {0} : n = Len(fs)
      BY <1>3
    <2>2. PICK g \in Turns : g = fs[n]
      BY <2>1
    <2>3. PICK f : f = [g EXCEPT !.tokens = MaxSummaryTokens]
      OBVIOUS
    <2>4. f \in Turns /\ f.tokens = MaxSummaryTokens /\ Like(f, g)
      BY <1>1, <2>2, <2>3 DEF Turns, Like
    <2>5. TrimSummary(fs) = <<f>>
      BY <1>3, <2>1, <2>2, <2>3 DEF TrimSummary
    <2>6. <<f>> \in Seq(Turns) /\ DOMAIN <<f>> = {1} /\ <<f>>[1] = f
      BY <2>4
    <2>7. n \in DOMAIN fs
      BY <2>1
    <2>8. TokensOf(<<f>>) = MaxSummaryTokens
      BY <2>4, OneFragment
    <2>9. QED
      BY <1>1, <2>2, <2>4, <2>5, <2>6, <2>7, <2>8
  <1>4. CASE fs # <<>> /\ fits # {}
    <2>1. PICK n \in Nat : n = Len(fs) /\ DOMAIN fs = 1..n
      OBVIOUS
    <2>2. \E k \in fits : \A l \in fits : k <= l
      <3>1. PICK R : R = fits
        OBVIOUS
      <3>2. R \in SUBSET (DOMAIN fs) /\ R # {}
        BY <1>4, <3>1
      <3>3. PICK e : e = [x \in R |-> x]
        OBVIOUS
      <3>4. IsFiniteSet(R) /\ \A x \in R : e[x] \in Int
        BY <2>1, <3>2, <3>3, SpentType
      <3>5. PICK m \in R : \A x \in R : e[m] <= e[x]
        BY <3>2, <3>4, LeastOf
      <3>6. \A x \in R : m <= x
        BY <3>3, <3>5
      <3>7. QED
        BY <3>1, <3>6
    <2>3. PICK k \in fits : k = CHOOSE j \in fits : \A l \in fits : j <= l
      BY <2>2
    <2>4. TrimSummary(fs) = Suffix(k)
      BY <1>4, <2>3 DEF TrimSummary
    <2>5. k \in 1..n /\ TokensOf(Suffix(k)) <= MaxSummaryTokens
      BY <2>1, <2>3
    <2>6. PICK us : us = SubSeq(fs, k, n)
      OBVIOUS
    <2>7. us \in Seq(Turns) /\ Len(us) = n - k + 1 /\ \A i \in 1..(n - k + 1) : us[i] = fs[k + i - 1]
      BY <2>1, <2>5, <2>6, SubSeqProperties
    <2>8. DOMAIN us = 1..(n - k + 1)
      BY <2>7
    <2>9. ASSUME NEW i \in DOMAIN us PROVE \E l \in DOMAIN fs : Like(us[i], fs[l])
      <3>1. k + i - 1 \in DOMAIN fs
        BY <2>1, <2>5, <2>8
      <3>2. us[i] = fs[k + i - 1]
        BY <2>7, <2>8
      <3>3. QED
        BY <3>1, <3>2 DEF Like
    <2>10. QED
      BY <2>1, <2>4, <2>5, <2>6, <2>7, <2>9
  <1>5. QED
    BY <1>2, <1>3, <1>4

LEMMA Condensed ==
  ASSUME summary \in Seq(Turns), NEW ts \in Seq(Turns), NEW is \in SUBSET (DOMAIN ts)
  PROVE  /\ Condense(ts, is) \in Seq(Turns)
         /\ TokensOf(Condense(ts, is)) <= MaxSummaryTokens
         /\ \A k \in DOMAIN Condense(ts, is) :
              \/ \E l \in DOMAIN summary : Like(Condense(ts, is)[k], summary[l])
              \/ \E i \in is : Like(Condense(ts, is)[k], ts[i])
  <1>1. PICK m : m = Cardinality(is)
    OBVIOUS
  <1>2. PICK vs : vs = TurnsAt(ts, is)
    OBVIOUS
  <1>3. /\ vs \in Seq(Turns) /\ DOMAIN vs = 1..m /\ Len(vs) = m
        /\ \A k \in 1..m : Nth(is, k) \in is /\ vs[k] = ts[Nth(is, k)]
    BY <1>1, <1>2, TurnsAtFacts
  <1>4. m \in Nat
    BY <1>3
  <1>5. PICK us : us = [i \in 1..m |-> Fragment(vs[i])]
    OBVIOUS
  <1>6. \A i \in 1..m : us[i] \in Turns /\ Like(us[i], vs[i])
    <2>1. SUFFICES ASSUME NEW i \in 1..m PROVE us[i] \in Turns /\ Like(us[i], vs[i])
      OBVIOUS
    <2>2. PICK g \in Turns : g = vs[i]
      BY <1>3
    <2>3. FragmentTokens \in Nat
      BY MemoryAssumption
    <2>4. us[i] = [g EXCEPT !.tokens = IF @ > FragmentTokens THEN FragmentTokens ELSE @]
      BY <1>5, <2>2 DEF Fragment
    <2>5. us[i] \in Turns
      BY <2>2, <2>3, <2>4 DEF Turns
    <2>6. Like(us[i], g)
      BY <2>2, <2>4 DEF Turns, Like
    <2>7. QED
      BY <2>2, <2>5, <2>6
  <1>7. us \in Seq(Turns) /\ Len(us) = m
    BY <1>4, <1>5, <1>6
  <1>8. PICK s \in Seq(Turns) : s = summary
    OBVIOUS
  <1>9. PICK fs : fs = s \o us
    OBVIOUS
  <1>10. /\ fs \in Seq(Turns) /\ DOMAIN fs = 1..(Len(s) + m)
         /\ \A k \in DOMAIN fs : fs[k] = IF k <= Len(s) THEN s[k] ELSE us[k - Len(s)]
    BY <1>4, <1>7, <1>9
  <1>11. Condense(ts, is) = TrimSummary(fs)
    BY <1>2, <1>3, <1>5, <1>8, <1>9 DEF Condense
  <1>12. PICK cs : cs = TrimSummary(fs)
    OBVIOUS
  <1>13. /\ cs \in Seq(Turns) /\ TokensOf(cs) <= MaxSummaryTokens
         /\ \A k \in DOMAIN cs : \E l \in DOMAIN fs : Like(cs[k], fs[l])
    BY <1>10, <1>12, Trimmed
  <1>14. ASSUME NEW k \in DOMAIN cs
         PROVE  \/ \E l \in DOMAIN s : Like(cs[k], s[l])
                \/ \E i \in is : Like(cs[k], ts[i])
    <2>1. PICK l \in DOMAIN fs : Like(cs[k], fs[l])
      BY <1>13
    <2>2. CASE l <= Len(s)
      <3>1. l \in DOMAIN s /\ fs[l] = s[l]
        BY <1>8, <1>10, <2>2
      <3>2. QED
        BY <2>1, <3>1
    <2>3. CASE ~(l <= Len(s))
      <3>1. PICK j \in 1..m : j = l - Len(s)
        BY <1>4, <1>8, <1>10, <2>3
      <3>2. fs[l] = us[j]
        BY <1>10, <2>3, <3>1
      <3>3. Like(us[j], vs[j]) /\ Nth(is, j) \in is /\ vs[j] = ts[Nth(is, j)]
        BY <1>3, <1>6
      <3>4. Like(cs[k], ts[Nth(is, j)])
        BY <2>1, <3>2, <3>3 DEF Like
      <3>5. QED
        BY <3>3, <3>4
    <2>4. QED
      BY <2>2, <2>3
  <1>15. QED
    BY <1>8, <1>11, <1>12, <1>13, <1>14

-----------------------------------------------------------------------------
(***************************************************************************)
(* The memory, whatever is added to it.                                    *)
(***************************************************************************)
MemoryTypes ==
  /\ strategy \in {"priority", "summarize", "truncate"}
  /\ turns \in Seq(Turns) /\ summary \in Seq(Turns)
  /\ evicted \in Nat /\ added \in Nat

(* The summary keeps to its bound, and what is kept was added, in order,   *)
(* and is in one place.                                                    *)
MemoryInv ==
  /\ MemoryTypes
  /\ TokensOf(summary) <= MaxSummaryTokens
  /\ \A i \in DOMAIN turns : turns[i].id <= added
  /\ \A i \in DOMAIN summary : summary[i].id <= added
  /\ OverrunBounded

(* What the memory's count leaves out cancels.                             *)
LEMMA UncountedType == ASSUME NEW ts \in Seq(Turns) PROVE UncountedIn(ts) \in Nat
  <1>1. PICK D : D = DOMAIN ts /\ IsFiniteSet(D)
    BY WeighedType
  <1>2. PICK w : w = [i \in D |-> ts[i].uncounted]
    OBVIOUS
  <1>3. \A i \in D : w[i] \in Nat
    <2>1. \A i \in D : ts[i] \in Turns
      BY <1>1, WeighedType
    <2>2. QED
      BY <1>2, <2>1 DEF Turns
  <1>4. SumFunctionOnSet(w, D) \in Nat
    BY <1>1, <1>3, SumNat
  <1>5. UncountedIn(ts) = SumFunctionOnSet(w, D)
    BY <1>1, <1>2 DEF UncountedIn, Sum, SumFunction
  <1>6. QED
    BY <1>4, <1>5

LEMMA SpaceType == Space \in Nat
  BY MemoryAssumption DEF Space

LEMMA SentBounded ==
  ASSUME NEW ts \in Seq(Turns), NEW ss \in Seq(Turns),
         TokensOf(ss) <= MaxSummaryTokens, TokensOf(ts) <= Space
  PROVE  SystemTokens + TokensOf(ss) + TokensOf(ts) + UncountedIn(ts)
           <= SystemTokens + Space + MaxSummaryTokens + UncountedIn(ts)
  <1>1. PICK a \in Nat, b \in Nat, c \in Nat : a = TokensOf(ss) /\ b = TokensOf(ts) /\ c = UncountedIn(ts)
    BY TokensOfAll, SpentType, UncountedType
  <1>2. PICK sys \in Nat, most \in Nat, space \in Nat :
          sys = SystemTokens /\ most = MaxSummaryTokens /\ space = Space
    BY SpaceType, MemoryAssumption
  <1>3. a <= most /\ b <= space
    BY <1>1, <1>2
  <1>4. sys + a + b + c <= sys + space + most + c
    BY <1>3
  <1>5. QED
    BY <1>1, <1>2, <1>4

LEMMA BudgetType == ASSUME summary \in Seq(Turns) PROVE Budget \in Nat /\ Budget <= Space
  <1>1. PICK t \in Nat : t = TokensOf(summary)
    BY TokensOfAll, SpentType
  <1>2. Space \in Nat
    BY SpaceType
  <1>3. QED
    BY <1>1, <1>2 DEF Budget

LEMMA InitMemory == ASSUME MemoryInit PROVE MemoryInv
  <1>1. <<>> \in Seq(Turns) /\ DOMAIN <<>> = {} /\ Len(<<>>) = 0
    OBVIOUS
  <1>2. /\ Space \in Nat
        /\ SystemTokens + TokensOf(<<>>) + TokensOf(<<>>) + UncountedIn(<<>>)
             <= SystemTokens + Space + MaxSummaryTokens + UncountedIn(<<>>)
    <2>1. PICK e \in Seq(Turns) : e = <<>>
      BY <1>1
    <2>2. TokensOf(e) = 0 /\ 0 <= MaxSummaryTokens /\ 0 <= Space
      BY <2>1, NoTokens, SpaceType, MemoryAssumption
    <2>3. SystemTokens + TokensOf(e) + TokensOf(e) + UncountedIn(e)
            <= SystemTokens + Space + MaxSummaryTokens + UncountedIn(e)
      BY <2>2, SentBounded
    <2>4. QED
      BY <2>1, <2>3, SpaceType
  <1>3. OverrunBounded
    BY <1>1, <1>2, NoTokens DEF MemoryInit, OverrunBounded, Sent, Range
  <1>4. QED
    BY <1>1, <1>3, NoTokens, MemoryAssumption DEF MemoryInit, MemoryInv, MemoryTypes

LEMMA ClearKeeps == ASSUME MemoryInv, Clear PROVE MemoryInv'
  <1>1. <<>> \in Seq(Turns) /\ DOMAIN <<>> = {} /\ Len(<<>>) = 0
    OBVIOUS
  <1>2. /\ Space \in Nat
        /\ SystemTokens + TokensOf(<<>>) + TokensOf(<<>>) + UncountedIn(<<>>)
             <= SystemTokens + Space + MaxSummaryTokens + UncountedIn(<<>>)
    <2>1. PICK e \in Seq(Turns) : e = <<>>
      BY <1>1
    <2>2. TokensOf(e) = 0 /\ 0 <= MaxSummaryTokens /\ 0 <= Space
      BY <2>1, NoTokens, SpaceType, MemoryAssumption
    <2>3. SystemTokens + TokensOf(e) + TokensOf(e) + UncountedIn(e)
            <= SystemTokens + Space + MaxSummaryTokens + UncountedIn(e)
      BY <2>2, SentBounded
    <2>4. QED
      BY <2>1, <2>3, SpaceType
  <1>3. turns' = <<>> /\ summary' = <<>> /\ evicted' = 0 /\ added' = 0 /\ strategy' = strategy
    BY DEF Clear
  <1>4. TokensOf(turns') = 0 /\ TokensOf(summary') = 0
    BY <1>3, NoTokens
  <1>5. OverrunBounded'
    BY <1>1, <1>2, <1>3, <1>4 DEF OverrunBounded, Sent, Range
  <1>6. QED
    BY <1>1, <1>3, <1>4, <1>5, MemoryAssumption DEF MemoryInv, MemoryTypes

LEMMA PinKeeps == ASSUME MemoryInv, NEW i \in DOMAIN turns, Pin(i) PROVE MemoryInv'
  <1>1. PICK n \in Nat : n = Len(turns) /\ DOMAIN turns = 1..n
    BY DEF MemoryInv, MemoryTypes
  <1>2. turns \in Seq(Turns) /\ \A j \in DOMAIN turns : turns[j] \in Turns
    BY DEF MemoryInv, MemoryTypes
  <1>3. turns' = [turns EXCEPT ![i].pinned = TRUE] /\ UNCHANGED <<strategy, summary, evicted, added>>
    BY DEF Pin
  <1>4. \A j \in 1..n : /\ turns'[j] \in Turns
                        /\ turns'[j].id = turns[j].id /\ turns'[j].tokens = turns[j].tokens
                        /\ turns[j].pinned => turns'[j].pinned
    BY <1>1, <1>2, <1>3 DEF Turns
  <1>5. turns' \in Seq(Turns) /\ Len(turns') = n /\ DOMAIN turns' = 1..n
    <2>1. DOMAIN turns' = 1..n
      BY <1>1, <1>3
    <2>2. turns' = [j \in 1..n |-> turns'[j]]
      BY <1>1, <1>2, <1>3
    <2>3. \A j \in 1..n : turns'[j] \in Turns
      BY <1>4
    <2>4. PICK us : us = [j \in 1..n |-> turns'[j]]
      OBVIOUS
    <2>5. us \in Seq(Turns) /\ Len(us) = n
      BY <1>1, <2>3, <2>4
    <2>6. QED
      BY <2>1, <2>2, <2>4, <2>5
  <1>6. PICK us : us = turns'
    OBVIOUS
  <1>7. TokensOf(us) = TokensOf(turns)
    BY <1>1, <1>4, <1>5, <1>6 DEF TokensOf
  <1>8. TokensOf(turns)' = TokensOf(turns) /\ TokensOf(summary)' = TokensOf(summary)
    BY <1>3, <1>6, <1>7
  <1>9. Unpinned(us) \subseteq Unpinned(turns)
    BY <1>1, <1>4, <1>5, <1>6 DEF Unpinned
  <1>10. \A k \in DOMAIN us : us[k].id = turns[k].id
    BY <1>4, <1>5, <1>6
  <1>11. OverrunBounded'
    <2>1. \/ TokensOf(turns) <= Space
          \/ IF strategy = "priority" THEN Unpinned(turns) = {} ELSE 1 \notin Unpinned(turns)
      BY DEF MemoryInv, OverrunBounded
    <2>2. \/ TokensOf(turns)' <= Space /\ (Sent <= SystemTokens + Space + MaxSummaryTokens + UncountedIn(turns))'
          \/ IF strategy' = "priority" THEN Unpinned(turns)' = {} ELSE 1 \notin Unpinned(turns)'
      <3>1. CASE TokensOf(turns) <= Space
        <4>1. us \in Seq(Turns) /\ summary \in Seq(Turns) /\ TokensOf(summary) <= MaxSummaryTokens
          BY <1>5, <1>6 DEF MemoryInv, MemoryTypes
        <4>2. SystemTokens + TokensOf(summary) + TokensOf(us) + UncountedIn(us)
                <= SystemTokens + Space + MaxSummaryTokens + UncountedIn(us)
          BY <1>7, <3>1, <4>1, SentBounded
        <4>3. QED
          BY <1>3, <1>6, <1>8, <3>1, <4>2 DEF Sent
      <3>2. CASE ~(TokensOf(turns) <= Space)
        BY <1>3, <1>6, <1>9, <2>1, <3>2
      <3>3. QED
        BY <3>1, <3>2
    <2>3. \A j, k \in DOMAIN turns' : j < k => turns'[j].id < turns'[k].id
      BY <1>1, <1>5, <1>6, <1>10 DEF MemoryInv, OverrunBounded
    <2>4. evicted' + Len(turns') >= added' /\ (strategy' # "truncate" => evicted' + Len(turns') = added')
      BY <1>1, <1>3, <1>5 DEF MemoryInv, OverrunBounded
    <2>5. ASSUME NEW f \in Range(summary'), NEW t \in Range(turns') PROVE f.id # t.id
      <3>1. f \in Range(summary)
        BY <1>3, <2>5
      <3>2. PICK j \in 1..n : t = turns'[j]
        BY <1>5, <2>5 DEF Range
      <3>3. turns[j] \in Range(turns) /\ t.id = turns[j].id
        BY <1>1, <1>4, <3>2 DEF Range
      <3>4. QED
        BY <3>1, <3>3 DEF MemoryInv, OverrunBounded
    <2>6. QED
      BY <2>2, <2>3, <2>4, <2>5 DEF OverrunBounded
  <1>12. QED
    BY <1>1, <1>3, <1>5, <1>6, <1>8, <1>10, <1>11 DEF MemoryInv, MemoryTypes

Grown(kind, tokens, uncounted, marks) ==
  Append(turns, [id |-> added + 1, kind |-> kind, tokens |-> tokens,
                 uncounted |-> uncounted, marks |-> marks, pinned |-> FALSE])

LEMMA GrownFacts ==
  ASSUME MemoryInv, NEW kind \in Kinds, NEW tokens \in Nat, NEW uncounted \in Nat,
         NEW marks \in SUBSET Marks,
         NEW ts, ts = Grown(kind, tokens, uncounted, marks)
  PROVE  /\ ts \in Seq(Turns) /\ Len(ts) = Len(turns) + 1 /\ DOMAIN ts = 1..(Len(turns) + 1)
         /\ \A i \in DOMAIN turns : ts[i] = turns[i]
         /\ ts[Len(turns) + 1] = [id |-> added + 1, kind |-> kind, tokens |-> tokens,
                                  uncounted |-> uncounted, marks |-> marks, pinned |-> FALSE]
         /\ \A i \in DOMAIN ts : ts[i].id \in Nat /\ ts[i].id <= added + 1
         /\ \A i, j \in DOMAIN ts : i < j => ts[i].id < ts[j].id
  <1>1. PICK n \in Nat : n = Len(turns) /\ DOMAIN turns = 1..n
    BY DEF MemoryInv, MemoryTypes
  <1>2. PICK t : t = [id |-> added + 1, kind |-> kind, tokens |-> tokens,
                      uncounted |-> uncounted, marks |-> marks, pinned |-> FALSE]
    OBVIOUS
  <1>3. added \in Nat /\ turns \in Seq(Turns)
    BY DEF MemoryInv, MemoryTypes
  <1>4. t \in Turns /\ t.id = added + 1
    BY <1>2, <1>3 DEF Turns
  <1>5. ts = Append(turns, t)
    BY <1>2 DEF Grown
  <1>6. ts \in Seq(Turns) /\ Len(ts) = n + 1 /\ DOMAIN ts = 1..(n + 1) /\ ts[n + 1] = t
    BY <1>1, <1>3, <1>4, <1>5
  <1>7. \A i \in 1..n : ts[i] = turns[i]
    BY <1>1, <1>3, <1>5
  <1>8. \A i \in 1..n : turns[i].id \in Nat /\ turns[i].id <= added
    <2>1. \A i \in 1..n : turns[i] \in Turns
      BY <1>1, <1>3
    <2>2. QED
      BY <1>1, <2>1 DEF MemoryInv, Turns
  <1>9. \A i, j \in 1..n : i < j => turns[i].id < turns[j].id
    BY <1>1 DEF MemoryInv, OverrunBounded
  <1>10. ASSUME NEW i \in 1..(n + 1) PROVE ts[i].id \in Nat /\ ts[i].id <= added + 1
    <2>1. CASE i = n + 1
      BY <1>3, <1>4, <1>6, <2>1
    <2>2. CASE i \in 1..n
      BY <1>3, <1>7, <1>8, <2>2
    <2>3. QED
      BY <1>1, <2>1, <2>2
  <1>11. ASSUME NEW i \in 1..(n + 1), NEW j \in 1..(n + 1), i < j PROVE ts[i].id < ts[j].id
    <2>1. i \in 1..n /\ ts[i] = turns[i]
      BY <1>1, <1>7, <1>11
    <2>2. CASE j = n + 1
      BY <1>3, <1>4, <1>6, <1>8, <2>1, <2>2
    <2>3. CASE j \in 1..n
      BY <1>7, <1>9, <1>11, <2>1, <2>3
    <2>4. QED
      BY <1>1, <2>2, <2>3
  <1>12. QED
    BY <1>1, <1>2, <1>6, <1>7, <1>10, <1>11

LEMMA Counted ==
  ASSUME NEW ts \in Seq(Turns), NEW V \in SUBSET (DOMAIN ts)
  PROVE  /\ Cardinality(V) \in Nat /\ Cardinality(DOMAIN ts \ V) \in Nat
         /\ Cardinality(V) + Cardinality(DOMAIN ts \ V) = Len(ts)
  <1>1. PICK n \in Nat : n = Len(ts) /\ DOMAIN ts = 1..n
    OBVIOUS
  <1>2. IsFiniteSet(1..n) /\ Cardinality(1..n) = n
    BY FS_Interval
  <1>3. PICK D : D = 1..n
    OBVIOUS
  <1>4. IsFiniteSet(D) /\ Cardinality(D) = n /\ D = DOMAIN ts /\ V \subseteq D
    BY <1>1, <1>2, <1>3
  <1>5. IsFiniteSet(D \ V) /\ Cardinality(D \ V) = Cardinality(D) - Cardinality(D \cap V)
    BY <1>4, FS_Difference
  <1>6. D \cap V = V /\ IsFiniteSet(V)
    BY <1>4, FS_Subset
  <1>7. Cardinality(V) \in Nat /\ Cardinality(D \ V) \in Nat
    BY <1>5, <1>6, FS_CardinalityType
  <1>8. PICK a \in Nat, b \in Nat : a = Cardinality(V) /\ b = Cardinality(D \ V)
    BY <1>7
  <1>9. b = n - a
    BY <1>4, <1>5, <1>6, <1>8
  <1>10. QED
    BY <1>1, <1>4, <1>8, <1>9

(* What remember leaves: of the turns with the new one, those that do not  *)
(* go; of those that go, fragments.                                        *)
Leaves(ts, V, R) ==
  /\ V = Victims(ts) /\ R = DOMAIN ts \ V
  /\ V \subseteq Unpinned(ts)
  /\ added' = added + 1 /\ strategy' = strategy
  /\ turns' = TurnsAt(ts, R)
  /\ summary' = IF strategy = "truncate" THEN summary ELSE Condense(ts, V)
  /\ evicted' \in {evicted + Cardinality(V), evicted + Cardinality(V) + 1}
  /\ strategy # "truncate" => evicted' = evicted + Cardinality(V)

LEMMA Remembered ==
  ASSUME MemoryInv, NEW kind \in Kinds, NEW tokens \in Nat, NEW uncounted \in Nat,
         NEW marks \in SUBSET Marks,
         Remember(kind, tokens, uncounted, marks)
  PROVE  \E ts \in Seq(Turns) : /\ ts = Grown(kind, tokens, uncounted, marks)
                               /\ \E V, R \in SUBSET (DOMAIN ts) : Leaves(ts, V, R)
  <1>1. PICK ts : ts = Grown(kind, tokens, uncounted, marks)
    OBVIOUS
  <1>2. ts \in Seq(Turns)
    BY <1>1, GrownFacts
  <1>3. PICK V : V = Victims(ts)
    OBVIOUS
  <1>4. V \subseteq Unpinned(ts)
    BY <1>2, <1>3, LowestGo, OldestGo, BudgetType DEF MemoryInv, MemoryTypes
  <1>5. V \in SUBSET (DOMAIN ts) /\ DOMAIN ts \ V \in SUBSET (DOMAIN ts)
    BY <1>4 DEF Unpinned
  <1>6. Cardinality(V) \in Nat /\ evicted \in Nat
    BY <1>2, <1>5, Counted DEF MemoryInv, MemoryTypes
  <1>7. /\ added' = added + 1 /\ strategy' = strategy
        /\ turns' = TurnsAt(ts, DOMAIN ts \ V)
        /\ summary' = IF strategy = "truncate" THEN summary ELSE Condense(ts, V)
    BY <1>1, <1>3 DEF Remember, Grown
  <1>8. PICK stuck \in BOOLEAN : /\ evicted' = evicted + Cardinality(V) + (IF stuck THEN 1 ELSE 0)
                                 /\ stuck => strategy = "truncate"
    <2>1. PICK stuck : stuck = (LET rest == DOMAIN ts \ V
                                IN strategy = "truncate" /\ Without(ts, V) > Budget /\ rest # {})
      OBVIOUS
    <2>2. evicted' = evicted + Cardinality(V) + (IF stuck THEN 1 ELSE 0)
      BY <1>1, <1>3, <2>1 DEF Remember, Grown
    <2>3. QED
      BY <2>1, <2>2
  <1>9. /\ evicted' \in {evicted + Cardinality(V), evicted + Cardinality(V) + 1}
        /\ strategy # "truncate" => evicted' = evicted + Cardinality(V)
    BY <1>6, <1>8
  <1>10. PICK R \in SUBSET (DOMAIN ts) : R = DOMAIN ts \ V
    BY <1>5
  <1>11. Leaves(ts, V, R)
    BY <1>3, <1>4, <1>7, <1>9, <1>10 DEF Leaves
  <1>12. QED
    BY <1>1, <1>2, <1>5, <1>11

LEMMA RememberKeeps ==
  ASSUME MemoryInv, NEW kind \in Kinds, NEW tokens \in Nat, NEW uncounted \in Nat,
         NEW marks \in SUBSET Marks,
         Remember(kind, tokens, uncounted, marks)
  PROVE  MemoryInv'
  <1>1. PICK ts \in Seq(Turns) : /\ ts = Grown(kind, tokens, uncounted, marks)
                                 /\ \E V, R \in SUBSET (DOMAIN ts) : Leaves(ts, V, R)
    BY Remembered
  <1>2. PICK V \in SUBSET (DOMAIN ts), R \in SUBSET (DOMAIN ts) :
           /\ V = Victims(ts) /\ R = DOMAIN ts \ V
           /\ V \subseteq Unpinned(ts)
           /\ added' = added + 1 /\ strategy' = strategy
           /\ turns' = TurnsAt(ts, R)
           /\ summary' = IF strategy = "truncate" THEN summary ELSE Condense(ts, V)
           /\ evicted' \in {evicted + Cardinality(V), evicted + Cardinality(V) + 1}
           /\ strategy # "truncate" => evicted' = evicted + Cardinality(V)
    BY <1>1 DEF Leaves
  <1>3. MemoryTypes
    BY DEF MemoryInv
  <1>4. PICK n \in Nat : n = Len(turns) /\ DOMAIN turns = 1..n
    BY <1>3 DEF MemoryTypes
  <1>5. /\ Len(ts) = n + 1 /\ DOMAIN ts = 1..(n + 1)
        /\ \A i \in 1..n : ts[i] = turns[i]
        /\ ts[n + 1].id = added + 1
        /\ \A i \in DOMAIN ts : ts[i].id \in Nat /\ ts[i].id <= added + 1
        /\ \A i, j \in DOMAIN ts : i < j => ts[i].id < ts[j].id
    <2>1. /\ Len(ts) = Len(turns) + 1 /\ DOMAIN ts = 1..(Len(turns) + 1)
          /\ \A i \in DOMAIN turns : ts[i] = turns[i]
          /\ ts[Len(turns) + 1] = [id |-> added + 1, kind |-> kind, tokens |-> tokens,
                                   uncounted |-> uncounted, marks |-> marks, pinned |-> FALSE]
          /\ \A i \in DOMAIN ts : ts[i].id \in Nat /\ ts[i].id <= added + 1
          /\ \A i, j \in DOMAIN ts : i < j => ts[i].id < ts[j].id
      BY <1>1, GrownFacts
    <2>2. QED
      BY <1>4, <2>1
  <1>6. PICK m \in Nat : m = Cardinality(R)
    BY <1>2, Counted
  <1>7. PICK us : us = turns'
    OBVIOUS
  <1>8. /\ us \in Seq(Turns) /\ Len(us) = m /\ DOMAIN us = 1..m
        /\ \A k \in 1..m : Nth(R, k) \in R /\ us[k] = ts[Nth(R, k)]
        /\ \A k, l \in 1..m : k < l => Nth(R, k) < Nth(R, l)
    <2>1. us = TurnsAt(ts, R)
      BY <1>2, <1>7
    <2>2. QED
      BY <1>6, <2>1, TurnsAtFacts
  <1>9. PICK ss : ss = summary'
    OBVIOUS
  <1>10. /\ ss \in Seq(Turns) /\ TokensOf(ss) <= MaxSummaryTokens
         /\ \A k \in DOMAIN ss : \/ \E l \in DOMAIN summary : Like(ss[k], summary[l])
                                 \/ \E i \in V : Like(ss[k], ts[i])
    <2>1. CASE strategy = "truncate"
      <3>1. ss = summary
        BY <1>2, <1>9, <2>1
      <3>2. QED
        BY <1>3, <3>1 DEF MemoryInv, MemoryTypes, Like
    <2>2. CASE strategy # "truncate"
      <3>1. ss = Condense(ts, V)
        BY <1>2, <1>9, <2>2
      <3>2. QED
        BY <1>3, <3>1, Condensed DEF MemoryTypes
    <2>3. QED
      BY <2>1, <2>2
  <1>11. added \in Nat /\ evicted \in Nat
    BY <1>3 DEF MemoryTypes
  <1>12. Cardinality(V) \in Nat /\ m \in Nat /\ Cardinality(V) + m = n + 1
    BY <1>2, <1>5, <1>6, Counted
  <1>13. evicted' \in Nat /\ evicted' + m >= added' /\ (strategy # "truncate" => evicted' + m = added')
    <2>1. PICK e \in Nat, a \in Nat : e = evicted /\ a = added
      BY <1>11
    <2>2. e + n >= a /\ (strategy # "truncate" => e + n = a)
      BY <1>4, <2>1 DEF MemoryInv, OverrunBounded
    <2>3. PICK v \in Nat : v = Cardinality(V)
      BY <1>12
    <2>4. v + m = n + 1
      BY <1>12, <2>3
    <2>5. PICK d : d = evicted'
      OBVIOUS
    <2>6. d \in {e + v, e + v + 1} /\ (strategy # "truncate" => d = e + v)
      BY <1>2, <2>1, <2>3, <2>5
    <2>7. d \in Nat /\ d + m >= a + 1 /\ (strategy # "truncate" => d + m = a + 1)
      BY <2>2, <2>4, <2>6
    <2>8. QED
      BY <1>2, <2>1, <2>5, <2>7
  <1>14. \A l \in DOMAIN summary : summary[l].id \in Nat /\ summary[l].id <= added
    <2>1. \A l \in DOMAIN summary : summary[l] \in Turns
      BY <1>3 DEF MemoryTypes
    <2>2. QED
      BY <2>1 DEF MemoryInv, Turns
  <1>15. \A f \in Range(summary), t \in Range(turns) : f.id # t.id
    BY DEF MemoryInv, OverrunBounded
  <1>16. \A k \in DOMAIN us : us[k].id <= added'
    BY <1>2, <1>5, <1>8
  <1>17. \A k \in DOMAIN ss : ss[k].id <= added'
    <2>1. SUFFICES ASSUME NEW k \in DOMAIN ss PROVE ss[k].id <= added + 1
      BY <1>2
    <2>2. CASE \E l \in DOMAIN summary : Like(ss[k], summary[l])
      <3>1. PICK l \in DOMAIN summary : ss[k].id = summary[l].id
        BY <2>2 DEF Like
      <3>2. summary[l].id \in Nat /\ summary[l].id <= added
        BY <1>14
      <3>3. QED
        BY <1>11, <3>1, <3>2
    <2>3. CASE \E i \in V : Like(ss[k], ts[i])
      BY <1>5, <2>3 DEF Like
    <2>4. QED
      BY <1>10, <2>2, <2>3
  <1>18. \A j, k \in DOMAIN us : j < k => us[j].id < us[k].id
    <2>1. SUFFICES ASSUME NEW j \in 1..m, NEW k \in 1..m, j < k PROVE us[j].id < us[k].id
      BY <1>8
    <2>2. Nth(R, j) < Nth(R, k) /\ Nth(R, j) \in DOMAIN ts /\ Nth(R, k) \in DOMAIN ts
      BY <1>8, <2>1
    <2>3. QED
      BY <1>5, <1>8, <2>2
  <1>19. \A k \in DOMAIN ss, j \in DOMAIN us : ss[k].id # us[j].id
    <2>1. SUFFICES ASSUME NEW k \in DOMAIN ss, NEW j \in 1..m PROVE ss[k].id # us[j].id
      BY <1>8
    <2>2. PICK i \in R : us[j] = ts[i]
      BY <1>8
    <2>3. CASE \E l \in DOMAIN summary : Like(ss[k], summary[l])
      <3>1. PICK l \in DOMAIN summary : ss[k].id = summary[l].id
        BY <2>3 DEF Like
      <3>2. CASE i \in 1..n
        <4>1. ts[i] = turns[i] /\ i \in DOMAIN turns
          BY <1>4, <1>5, <3>2
        <4>2. summary[l] \in Range(summary) /\ turns[i] \in Range(turns)
          BY <4>1 DEF Range
        <4>3. QED
          BY <1>15, <2>2, <3>1, <4>1, <4>2
      <3>3. CASE i = n + 1
        <4>1. summary[l].id \in Nat /\ summary[l].id <= added
          BY <1>14
        <4>2. QED
          BY <1>5, <1>11, <2>2, <3>1, <3>3, <4>1
      <3>4. QED
        BY <1>5, <3>2, <3>3
    <2>4. CASE \E l \in V : Like(ss[k], ts[l])
      <3>1. PICK l \in V : ss[k].id = ts[l].id
        BY <2>4 DEF Like
      <3>2. l # i /\ l \in 1..(n + 1) /\ i \in 1..(n + 1)
        BY <1>2, <1>5
      <3>3. l < i \/ i < l
        BY <3>2
      <3>4. ts[l].id < ts[i].id \/ ts[i].id < ts[l].id
        BY <1>5, <3>2, <3>3
      <3>5. ts[l].id \in Nat /\ ts[i].id \in Nat
        BY <1>5, <3>2
      <3>6. QED
        BY <2>2, <3>1, <3>4, <3>5
    <2>5. QED
      BY <1>10, <2>3, <2>4
  <1>20. \/ /\ TokensOf(us) <= Space
            /\ SystemTokens + TokensOf(ss) + TokensOf(us) + UncountedIn(us)
                 <= SystemTokens + Space + MaxSummaryTokens + UncountedIn(us)
         \/ IF strategy = "priority" THEN Unpinned(us) = {} ELSE 1 \notin Unpinned(us)
    <2>1. Budget \in Nat /\ Budget <= Space
      BY <1>3, BudgetType DEF MemoryTypes
    <2>2. PICK u \in Nat : u = TokensOf(us) /\ u = Without(ts, V)
      <3>1. TokensOf(us) = Spent(ts, R)
        BY <1>2, <1>7, TokensOfPart
      <3>2. Without(ts, V) = Spent(ts, R)
        BY <1>2, WithoutIs
      <3>3. Spent(ts, R) \in Nat
        BY SpentType
      <3>4. QED
        BY <3>1, <3>2, <3>3
    <2>4. CASE Without(ts, V) <= Budget
      <3>1. TokensOf(us) <= Space
        BY <2>1, <2>2, <2>4, SpaceType
      <3>2. QED
        BY <1>8, <1>10, <3>1, SentBounded
    <2>5. CASE ~(Without(ts, V) <= Budget) /\ strategy = "priority"
      <3>1. V = Unpinned(ts)
        BY <1>2, <2>1, <2>5, LowestGo
      <3>2. \A k \in 1..m : us[k].pinned
        BY <1>2, <1>8, <3>1 DEF Unpinned
      <3>3. Unpinned(us) = {}
        BY <1>8, <3>2 DEF Unpinned
      <3>4. QED
        BY <2>5, <3>3
    <2>6. CASE ~(Without(ts, V) <= Budget) /\ strategy # "priority"
      <3>1. PICK l \in R : ts[l].pinned /\ \A i \in R : l <= i
        BY <1>2, <2>1, <2>6, OldestGo
      <3>2. PICK k \in 1..m : us[k] = ts[l] /\ Nth(R, k) = l
        <4>1. \A i \in R : Rank(R, i) \in 1..Cardinality(R) /\ Nth(R, Rank(R, i)) = i
          <5>1. R \in SUBSET (1..(n + 1)) /\ n + 1 \in Nat
            BY <1>5
          <5>2. QED
            BY <5>1, NthFacts
        <4>2. QED
          BY <1>6, <1>8, <4>1
      <3>3. k = 1
        <4>1. ASSUME k # 1 PROVE FALSE
          <5>1. 1 \in 1..m /\ 1 < k
            BY <1>12, <4>1
          <5>2. Nth(R, 1) < l /\ Nth(R, 1) \in R
            BY <1>8, <3>2, <5>1
          <5>3. l <= Nth(R, 1)
            BY <3>1, <5>2
          <5>4. l \in Int /\ Nth(R, 1) \in Int
            BY <1>5, <5>2
          <5>5. QED
            BY <5>2, <5>3, <5>4
        <4>2. QED
          BY <4>1
      <3>4. 1 \notin Unpinned(us)
        BY <3>1, <3>2, <3>3 DEF Unpinned
      <3>5. QED
        BY <2>6, <3>4
    <2>7. QED
      BY <2>4, <2>5, <2>6
  <1>21. OverrunBounded'
    <2>1. TokensOf(us) = TokensOf(turns)' /\ TokensOf(ss) = TokensOf(summary)' /\ Unpinned(us) = Unpinned(turns)'
      BY <1>7, <1>9
    <2>2. \A f \in Range(summary'), t \in Range(turns') : f.id # t.id
      BY <1>7, <1>9, <1>19 DEF Range
    <2>3. \/ TokensOf(turns)' <= Space /\ (Sent <= SystemTokens + Space + MaxSummaryTokens + UncountedIn(turns))'
          \/ IF strategy' = "priority" THEN Unpinned(turns)' = {} ELSE 1 \notin Unpinned(turns)'
      <3>1. UncountedIn(us) = UncountedIn(turns)'
        BY <1>7
      <3>2. QED
        BY <1>2, <1>20, <2>1, <3>1 DEF Sent
    <2>4. \A j, k \in DOMAIN turns' : j < k => turns'[j].id < turns'[k].id
      BY <1>7, <1>18
    <2>5. evicted' + Len(turns') >= added' /\ (strategy' # "truncate" => evicted' + Len(turns') = added')
      BY <1>2, <1>7, <1>8, <1>13
    <2>6. QED
      BY <2>2, <2>3, <2>4, <2>5 DEF OverrunBounded
  <1>22. MemoryTypes'
    <2>1. strategy \in {"priority", "summarize", "truncate"}
      BY <1>3 DEF MemoryTypes
    <2>2. QED
      BY <1>2, <1>7, <1>8, <1>9, <1>10, <1>11, <1>13, <2>1 DEF MemoryTypes
  <1>23. TokensOf(summary)' = TokensOf(ss)
    BY <1>9
  <1>24. QED
    BY <1>7, <1>9, <1>10, <1>16, <1>17, <1>21, <1>22, <1>23 DEF MemoryInv

(* A turn below the newest has a lower score than any of those.            *)
LEMMA OlderIsLower ==
  ASSUME NEW ts \in Seq(Turns), NEW i \in DOMAIN ts, NEW j \in DOMAIN ts,
         i <= Len(ts) - RecentTurns, j > Len(ts) - RecentTurns
  PROVE  Lower(ts, i, j)
  <1>1. PICK n \in Nat : n = Len(ts) /\ DOMAIN ts = 1..n
    OBVIOUS
  <1>2. i \in 1..n /\ j \in 1..n /\ i < j /\ n > 1 /\ RecentTurns \in Nat
    BY <1>1, MemoryAssumption
  <1>3. PICK u \in Nat : u = n - 1 /\ u = IF n > 1 THEN n - 1 ELSE 1
    BY <1>2
  <1>4. ASSUME NEW k \in DOMAIN ts
        PROVE  \E a \in {0, 2 * u, 7 * u}, c \in {0, 5 * u} :
                 Priority(ts, k) = 20 * (k - 1) + a + (IF k > n - RecentTurns THEN 20 * u ELSE 0) - c
    <2>1. PICK a \in {0, 2, 7} :
            a = CASE RoleOf(ts[k]) = "user" -> 7 [] RoleOf(ts[k]) = "tool" -> 2 [] OTHER -> 0
      OBVIOUS
    <2>2. PICK b \in {0, 20} : b = IF k > n - RecentTurns THEN 20 ELSE 0
      OBVIOUS
    <2>3. PICK c \in {0, 5} : c = IF ts[k].tokens > BigTurn THEN 5 ELSE 0
      OBVIOUS
    <2>4. Priority(ts, k) = 20 * (k - 1) + u * a + u * b - u * c
      BY <1>1, <1>3, <2>1, <2>2, <2>3 DEF Priority
    <2>5. u * a \in {0, 2 * u, 7 * u}
      BY <2>1
    <2>6. u * b = IF k > n - RecentTurns THEN 20 * u ELSE 0
      BY <2>2
    <2>7. u * c \in {0, 5 * u}
      BY <2>3
    <2>8. QED
      BY <2>4, <2>5, <2>6, <2>7
  <1>5. PICK a \in {0, 2 * u, 7 * u}, c \in {0, 5 * u} : Priority(ts, i) = 20 * (i - 1) + a + 0 - c
    <2>1. ~(i > n - RecentTurns)
      BY <1>1, <1>2
    <2>2. QED
      BY <1>4, <2>1
  <1>6. PICK b \in {0, 2 * u, 7 * u}, d \in {0, 5 * u} : Priority(ts, j) = 20 * (j - 1) + b + 20 * u - d
    BY <1>1, <1>4
  <1>7. a <= 7 * u /\ 0 <= c /\ 0 <= b /\ d <= 5 * u
        /\ a \in Int /\ b \in Int /\ c \in Int /\ d \in Int
    BY <1>5, <1>6
  <1>8. 20 * (i - 1) + a + 0 - c < 20 * (j - 1) + b + 20 * u - d
    <2>1. i \in Int /\ j \in Int /\ i < j /\ u \in Int /\ 0 <= u
      BY <1>2
    <2>2. PICK p \in Int, q \in Int : p = 20 * (i - 1) /\ q = 20 * (j - 1) /\ p + 20 <= q
      BY <2>1
    <2>3. PICK v \in Int : v = 5 * u /\ 7 * u <= 2 * v /\ 20 * u = 4 * v /\ 0 <= v
      BY <2>1
    <2>4. p + a + 0 - c <= p + 2 * v
      BY <1>7, <2>3
    <2>5. q + 3 * v <= q + b + 20 * u - d
      BY <1>7, <2>3
    <2>6. p + a + 0 - c < q + b + 20 * u - d
      <3>1. PICK x \in Int : x = p + a + 0 - c
        BY <1>7
      <3>2. PICK y \in Int : y = q + b + 20 * u - d
        BY <1>7
      <3>3. x <= p + 2 * v /\ q + 3 * v <= y
        BY <2>4, <2>5, <3>1, <3>2
      <3>4. x < y
        BY <2>2, <2>3, <3>3
      <3>5. QED
        BY <3>1, <3>2, <3>4
    <2>7. QED
      BY <2>2, <2>6
  <1>9. QED
    BY <1>5, <1>6, <1>8 DEF Lower

RecentStays ==
  LET kept == {t.id : t \in Range(turns')}
      newest == {id \in 1..added' : \E i \in DOMAIN turns :
                   turns[i].id = id /\ i > Len(turns) + 1 - RecentTurns}
  IN \A t \in Range(turns) :
       /\ t.pinned => t.id \in kept
       /\ t.id \in kept /\ t.id \notin newest /\ ~t.pinned =>
            newest \cup {added'} \subseteq kept

LEMMA RememberSpares ==
  ASSUME MemoryInv, NEW kind \in Kinds, NEW tokens \in Nat, NEW uncounted \in Nat,
         NEW marks \in SUBSET Marks,
         Remember(kind, tokens, uncounted, marks), strategy = "priority"
  PROVE  RecentStays
  <1> DEFINE kept == {t.id : t \in Range(turns')}
             newest == {id \in 1..added' : \E i \in DOMAIN turns :
                          turns[i].id = id /\ i > Len(turns) + 1 - RecentTurns}
  <1>1. PICK ts \in Seq(Turns) : /\ ts = Grown(kind, tokens, uncounted, marks)
                                 /\ \E V, R \in SUBSET (DOMAIN ts) : Leaves(ts, V, R)
    BY Remembered
  <1>2. PICK V \in SUBSET (DOMAIN ts), R \in SUBSET (DOMAIN ts) :
           /\ V = Victims(ts) /\ R = DOMAIN ts \ V /\ V \subseteq Unpinned(ts)
           /\ added' = added + 1 /\ turns' = TurnsAt(ts, R)
    BY <1>1 DEF Leaves
  <1>3. PICK n \in Nat : n = Len(turns) /\ DOMAIN turns = 1..n
    BY DEF MemoryInv, MemoryTypes
  <1>4. /\ Len(ts) = n + 1 /\ DOMAIN ts = 1..(n + 1)
        /\ \A i \in 1..n : ts[i] = turns[i]
        /\ ts[n + 1].id = added + 1
        /\ \A i \in DOMAIN ts : ts[i].id \in Nat /\ ts[i].id <= added + 1
        /\ \A i, j \in DOMAIN ts : i < j => ts[i].id < ts[j].id
    <2>1. /\ Len(ts) = Len(turns) + 1 /\ DOMAIN ts = 1..(Len(turns) + 1)
          /\ \A i \in DOMAIN turns : ts[i] = turns[i]
          /\ ts[Len(turns) + 1] = [id |-> added + 1, kind |-> kind, tokens |-> tokens,
                                   uncounted |-> uncounted, marks |-> marks, pinned |-> FALSE]
          /\ \A i \in DOMAIN ts : ts[i].id \in Nat /\ ts[i].id <= added + 1
          /\ \A i, j \in DOMAIN ts : i < j => ts[i].id < ts[j].id
      BY <1>1, GrownFacts
    <2>2. QED
      BY <1>3, <2>1
  <1>5. PICK us : us = turns'
    OBVIOUS
  <1>6. PICK m : m = Cardinality(R)
    OBVIOUS
  <1>7. /\ DOMAIN us = 1..m
        /\ \A k \in 1..m : Nth(R, k) \in R /\ us[k] = ts[Nth(R, k)]
        /\ \A i \in R : \E k \in 1..m : us[k] = ts[i]
    <2>1. us = TurnsAt(ts, R)
      BY <1>2, <1>5
    <2>2. QED
      BY <1>6, <2>1, TurnsAtFacts
  <1>8. \A i \in DOMAIN ts : ts[i].id \in kept <=> i \in R
    <2>1. ASSUME NEW i \in R PROVE ts[i].id \in kept
      <3>1. PICK k \in 1..m : us[k] = ts[i]
        BY <1>7
      <3>2. us[k] \in Range(turns')
        BY <1>5, <1>7 DEF Range
      <3>3. QED
        BY <3>1, <3>2
    <2>2. ASSUME NEW i \in DOMAIN ts, ts[i].id \in kept PROVE i \in R
      <3>1. PICK t \in Range(turns') : t.id = ts[i].id
        BY <2>2
      <3>2. PICK k \in 1..m : t = us[k]
        BY <1>5, <1>7 DEF Range
      <3>3. PICK l \in R : t = ts[l]
        BY <1>7, <3>2
      <3>4. ~(i < l) /\ ~(l < i)
        BY <1>4, <3>1, <3>3
      <3>5. i \in Int /\ l \in Int
        BY <1>4
      <3>6. QED
        BY <3>4, <3>5
    <2>3. QED
      BY <2>1, <2>2
  <1>9. ASSUME NEW t \in Range(turns)
        PROVE  /\ t.pinned => t.id \in kept
               /\ t.id \in kept /\ t.id \notin newest /\ ~t.pinned =>
                    newest \cup {added'} \subseteq kept
    <2>1. PICK i \in 1..n : t = turns[i]
      BY <1>3 DEF Range
    <2>2. i \in DOMAIN ts /\ ts[i] = t
      BY <1>4, <2>1
    <2>3. ASSUME t.pinned PROVE t.id \in kept
      <3>1. i \notin V
        BY <1>2, <2>2, <2>3 DEF Unpinned
      <3>2. QED
        BY <1>2, <1>8, <2>2, <3>1
    <2>4. ASSUME t.id \in kept, t.id \notin newest, ~t.pinned PROVE newest \cup {added'} \subseteq kept
      <3>1. i \in Unpinned(ts) /\ i \notin V
        BY <1>2, <1>8, <2>2, <2>4 DEF Unpinned
      <3>2. t.id \in 1..added'
        <4>1. ts[i] \in Turns
          BY <2>2
        <4>2. ts[i].id \in Nat \ {0} /\ ts[i].id <= added + 1 /\ added \in Nat
          BY <1>4, <2>2, <4>1 DEF Turns, MemoryInv, MemoryTypes
        <4>3. QED
          BY <1>2, <2>2, <4>2
      <3>3. ~(i > n + 1 - RecentTurns)
        BY <1>3, <2>1, <2>4, <3>2
      <3>4. RecentTurns \in Nat \ {0}
        BY MemoryAssumption
      <3>5. ASSUME NEW j \in DOMAIN ts, j > n + 1 - RecentTurns PROVE j \in R
        <4>1. i <= Len(ts) - RecentTurns /\ j > Len(ts) - RecentTurns
          BY <1>4, <2>1, <3>3, <3>4, <3>5
        <4>2. Lower(ts, i, j)
          BY <2>2, <4>1, OlderIsLower
        <4>3. Budget \in Nat
          BY BudgetType DEF MemoryInv, MemoryTypes
        <4>4. j \notin V
          BY <1>2, <3>1, <4>2, <4>3, LowestGo
        <4>5. QED
          BY <1>2, <4>4
      <3>6. ASSUME NEW id \in newest PROVE id \in kept
        <4>1. PICK j \in 1..n : turns[j].id = id /\ j > n + 1 - RecentTurns
          BY <1>3
        <4>2. j \in DOMAIN ts /\ ts[j].id = id
          BY <1>4, <4>1
        <4>3. QED
          BY <1>8, <3>5, <4>1, <4>2
      <3>7. added' \in kept
        <4>1. n + 1 \in DOMAIN ts /\ n + 1 > n + 1 - RecentTurns
          BY <1>4, <3>4
        <4>2. QED
          BY <1>2, <1>4, <1>8, <3>5, <4>1
      <3>8. QED
        BY <3>6, <3>7
    <2>5. QED
      BY <2>3, <2>4
  <1>10. QED
    BY <1>9 DEF RecentStays
-----------------------------------------------------------------------------
(***************************************************************************)
(* The filters of a policy.                                                *)
(***************************************************************************)
NoFinding(text) == [text |-> text, blocked |-> FALSE]

FilterOnce(name, before) ==
  IF before.blocked \/ ~Known(name) THEN before ELSE Apply(name, before.text)

(* What the first n filters find in a text                                 *)
Filtering(text, names, n, w) ==
  w = [i \in 0..n |-> IF i = 0 THEN NoFinding(text) ELSE FilterOnce(names[i], w[i - 1])]

Filtered(text, names, n) == CHOOSE w : Filtering(text, names, n, w)

LEMMA FilteredExists ==
  ASSUME NEW text, NEW names, NEW n \in Nat
  PROVE  Filtering(text, names, n, Filtered(text, names, n))
  <1> DEFINE N == {m \in Nat : \E w : Filtering(text, names, m, w)}
  <1>1. 0 \in N
    <2>1. Filtering(text, names, 0, [i \in 0..0 |-> NoFinding(text)])
      BY DEF Filtering
    <2>2. QED
      BY <2>1
  <1>2. ASSUME NEW m \in Nat, m \in N PROVE m + 1 \in N
    <2>1. PICK w : Filtering(text, names, m, w)
      BY <1>2
    <2> DEFINE Then(v, i) == IF i = 0 THEN NoFinding(text) ELSE FilterOnce(names[i], v[i - 1])
               v == [i \in 0..(m + 1) |-> Then(w, i)]
    <2>2. w = [i \in 0..m |-> Then(w, i)]
      BY <2>1 DEF Filtering
    <2>3. ASSUME NEW i \in 0..(m + 1) PROVE Then(v, i) = Then(w, i)
      <3>1. CASE i = 0
        BY <3>1
      <3>2. CASE i # 0
        <4>1. i - 1 \in 0..m /\ i - 1 \in 0..(m + 1)
          BY <3>2
        <4>2. v[i - 1] = w[i - 1]
          <5> HIDE DEF Then
          <5>1. v[i - 1] = Then(w, i - 1)
            BY <4>1
          <5>2. w[i - 1] = Then(w, i - 1)
            BY <2>2, <4>1
          <5>3. QED
            BY <5>1, <5>2
        <4>3. QED
          <5> HIDE DEF v
          <5>1. QED
            BY <4>2
      <3>3. QED
        BY <3>1, <3>2
    <2>4. v = [i \in 0..(m + 1) |-> Then(v, i)]
      <3> HIDE DEF Then
      <3>1. QED
        BY <2>3
    <2>5. Filtering(text, names, m + 1, v)
      <3> HIDE DEF v
      <3>1. QED
        BY <2>4 DEF Filtering
    <2>6. QED
      BY <2>5
  <1>3. n \in N
    <2> HIDE DEF N
    <2>1. QED
      BY <1>1, <1>2, Induction
  <1>4. QED
    BY <1>3 DEF Filtered

(* What a filter takes out of a text that it does not block                *)
TakenOutBy(name) ==
  CASE name = "pii" -> {"pii"} [] name = "injection" -> {"injection"}
    [] name = "leakage" -> {"token", "secret"} [] OTHER -> {}

Finding == [text : SUBSET Marks, blocked : BOOLEAN]

LEMMA OneFilter ==
  ASSUME NEW name, NEW before \in Finding
  PROVE  LET after == FilterOnce(name, before)
         IN /\ after \in Finding
            /\ after.text \subseteq before.text
            /\ ~after.blocked => ~before.blocked /\ after.text \cap TakenOutBy(name) = {}
  <1>1. CASE before.blocked \/ ~Known(name)
    BY <1>1 DEF FilterOnce, Known, TakenOutBy, Finding
  <1>2. CASE ~(before.blocked \/ ~Known(name))
    <2>1. FilterOnce(name, before) = Apply(name, before.text) /\ name \in {"pii", "injection", "leakage"}
      BY <1>2 DEF FilterOnce, Known
    <2>2. PICK t \in SUBSET Marks : t = before.text
      BY DEF Finding
    <2>3. CASE name = "pii"
      BY <1>2, <2>1, <2>2, <2>3 DEF Apply, PIIFilter, TakenOutBy, Finding
    <2>4. CASE name = "injection"
      <3>1. PICK b \in BOOLEAN : b <=> "injection" \in t
        OBVIOUS
      <3>2. FilterOnce(name, before) = [text |-> t, blocked |-> b]
        BY <2>1, <2>2, <2>4, <3>1 DEF Apply, InjectionFilter
      <3>3. TakenOutBy(name) = {"injection"}
        BY <2>4 DEF TakenOutBy
      <3>4. QED
        BY <1>2, <2>2, <3>1, <3>2, <3>3 DEF Finding
    <2>5. CASE name = "leakage"
      <3>1. PICK b \in BOOLEAN : b <=> "secret" \in t
        OBVIOUS
      <3>2. FilterOnce(name, before) = [text |-> t \ {"token"}, blocked |-> b]
        BY <2>1, <2>2, <2>5, <3>1 DEF Apply, LeakageFilter
      <3>3. TakenOutBy(name) = {"token", "secret"}
        BY <2>5 DEF TakenOutBy
      <3>4. QED
        BY <1>2, <2>2, <3>1, <3>2, <3>3 DEF Finding
    <2>6. QED
      BY <2>1, <2>3, <2>4, <2>5
  <1>3. QED
    BY <1>1, <1>2

LEMMA FiltersTakeOut ==
  ASSUME NEW text \in SUBSET Marks, NEW names \in Seq(STRING)
  PROVE  LET found == RunFilters(text, names)
         IN /\ found \in Finding
            /\ ~found.blocked => \A i \in DOMAIN names : found.text \cap TakenOutBy(names[i]) = {}
  <1>1. PICK n \in Nat : n = Len(names) /\ DOMAIN names = 1..n
    OBVIOUS
  <1>2. PICK w : w = Filtered(text, names, n)
    OBVIOUS
  <1>3. w = [i \in 0..n |-> IF i = 0 THEN NoFinding(text) ELSE FilterOnce(names[i], w[i - 1])]
    BY <1>2, FilteredExists DEF Filtering
  <1>4. RunFilters(text, names) = w[n]
    BY <1>1, <1>2 DEF RunFilters, Filtered, Filtering, FilterOnce, NoFinding
  <1> DEFINE Clean(i) == /\ w[i] \in Finding
                         /\ ~w[i].blocked =>
                              \A j \in 1..i : w[i].text \cap TakenOutBy(names[j]) = {}
             N == {m \in Nat : m <= n => Clean(m)}
  <1>5. 0 \in N
    <2>1. w[0] = NoFinding(text)
      BY <1>3
    <2>2. w[0] \in Finding /\ \A j \in 1..0 : FALSE
      BY <2>1 DEF NoFinding, Finding
    <2>3. QED
      BY <2>2
  <1>6. ASSUME NEW m \in Nat, m \in N PROVE m + 1 \in N
    <2>1. SUFFICES ASSUME m + 1 <= n PROVE Clean(m + 1)
      OBVIOUS
    <2>2. Clean(m)
      BY <1>6, <2>1
    <2>3. w[m + 1] = FilterOnce(names[m + 1], w[m])
      <3>1. m + 1 \in 0..n /\ m + 1 # 0 /\ (m + 1) - 1 = m
        BY <2>1
      <3>2. QED
        BY <1>3, <3>1
    <2>4. PICK a \in Finding : a = w[m]
      BY <2>2
    <2>5. PICK b : b = w[m + 1]
      OBVIOUS
    <2>6. /\ b \in Finding /\ b.text \subseteq a.text
          /\ ~b.blocked => ~a.blocked /\ b.text \cap TakenOutBy(names[m + 1]) = {}
      BY <2>3, <2>4, <2>5, OneFilter
    <2>7. ASSUME ~b.blocked, NEW j \in 1..(m + 1) PROVE b.text \cap TakenOutBy(names[j]) = {}
      <3>1. CASE j = m + 1
        BY <2>6, <2>7, <3>1
      <3>2. CASE j \in 1..m
        BY <2>2, <2>4, <2>6, <2>7, <3>2
      <3>3. QED
        BY <3>1, <3>2
    <2>8. QED
      BY <2>5, <2>6, <2>7
  <1>7. n \in N
    <2> HIDE DEF N
    <2>1. QED
      BY <1>5, <1>6, Induction
  <1>8. QED
    BY <1>1, <1>4, <1>7

(* What a decision lets pass has nothing in it that the filters look for   *)
Passed(p, names, d) ==
  /\ d.allowed \in BOOLEAN /\ d.text \in SUBSET Marks
  /\ p.enabled /\ d.allowed => \A name \in Range(names) : d.text \cap TakenOutBy(name) = {}

LEMMA Evaluated ==
  ASSUME NEW p, p.enabled \in BOOLEAN, NEW text \in SUBSET Marks, NEW names \in Seq(STRING),
         NEW d, d = Evaluate(p, text, names)
  PROVE  Passed(p, names, d)
  <1> USE DEF Passed
  <1>1. PICK f \in Finding : f = RunFilters(text, names)
    BY FiltersTakeOut
  <1>2. d = Evaluate(p, text, names)
    OBVIOUS
  <1>3. CASE ~p.enabled
    <2>1. d = [allowed |-> TRUE, text |-> text]
      BY <1>2, <1>3 DEF Evaluate
    <2>2. QED
      BY <1>2, <1>3, <2>1
  <1>4. CASE p.enabled /\ f.blocked /\ p.onBlock = "redact"
    <2>1. d = [allowed |-> TRUE, text |-> {}]
      BY <1>1, <1>2, <1>4 DEF Evaluate
    <2>2. QED
      BY <1>2, <2>1
  <1>5. CASE p.enabled /\ ~(f.blocked /\ p.onBlock = "redact")
    <2>1. PICK a \in BOOLEAN : a = ~f.blocked
      OBVIOUS
    <2>2. d = [allowed |-> a, text |-> f.text]
      BY <1>1, <1>2, <1>5, <2>1 DEF Evaluate
    <2>3. d.allowed = a /\ d.text = f.text /\ f.text \in SUBSET Marks
      BY <2>2 DEF Finding
    <2>4. ASSUME a, NEW name \in Range(names) PROVE f.text \cap TakenOutBy(name) = {}
      <3>1. PICK i \in DOMAIN names : name = names[i]
        BY <2>4 DEF Range
      <3>2. \A k \in DOMAIN names : f.text \cap TakenOutBy(names[k]) = {}
        BY <1>1, <2>1, <2>4, FiltersTakeOut
      <3>3. QED
        BY <3>1, <3>2
    <2>5. QED
      BY <2>3, <2>4
  <1>6. QED
    BY <1>3, <1>4, <1>5

-----------------------------------------------------------------------------
(***************************************************************************)
(* The memory and what the agent puts into it.                             *)
(***************************************************************************)

(* What is in the memory came with the marks it has now.                   *)
LEMMA RememberTells ==
  ASSUME MemoryInv, NEW kind \in Kinds, NEW tokens \in Nat, NEW uncounted \in Nat,
         NEW marks \in SUBSET Marks,
         Remember(kind, tokens, uncounted, marks), NEW t \in Range(turns') \cup Range(summary')
  PROVE  \/ t.kind = kind /\ t.marks = marks
         \/ \E g \in Range(turns) \cup Range(summary) : t.kind = g.kind /\ t.marks = g.marks
  <1>1. PICK ts \in Seq(Turns) : /\ ts = Grown(kind, tokens, uncounted, marks)
                                 /\ \E V, R \in SUBSET (DOMAIN ts) : Leaves(ts, V, R)
    BY Remembered
  <1>2. PICK V \in SUBSET (DOMAIN ts), R \in SUBSET (DOMAIN ts) :
           /\ turns' = TurnsAt(ts, R)
           /\ summary' = IF strategy = "truncate" THEN summary ELSE Condense(ts, V)
    BY <1>1 DEF Leaves
  <1>3. \A i \in DOMAIN ts : \/ ts[i].kind = kind /\ ts[i].marks = marks
                             \/ ts[i] \in Range(turns)
    <2>1. /\ DOMAIN ts = 1..(Len(turns) + 1)
          /\ \A i \in DOMAIN turns : ts[i] = turns[i]
          /\ ts[Len(turns) + 1] = [id |-> added + 1, kind |-> kind, tokens |-> tokens,
                                   uncounted |-> uncounted, marks |-> marks, pinned |-> FALSE]
      BY <1>1, GrownFacts
    <2>2. PICK n \in Nat : n = Len(turns) /\ DOMAIN turns = 1..n
      BY DEF MemoryInv, MemoryTypes
    <2>3. \A i \in DOMAIN ts : i \in DOMAIN turns \/ i = n + 1
      BY <2>1, <2>2
    <2>4. QED
      BY <2>1, <2>2, <2>3 DEF Range
  <1>4. \A i \in DOMAIN ts : \A f : Like(f, ts[i]) =>
          \/ f.kind = kind /\ f.marks = marks
          \/ \E g \in Range(turns) \cup Range(summary) : f.kind = g.kind /\ f.marks = g.marks
    BY <1>3 DEF Like
  <1>5. CASE t \in Range(turns')
    <2>1. PICK us : us = TurnsAt(ts, R)
      OBVIOUS
    <2>2. PICK k \in DOMAIN us : t = us[k]
      BY <1>2, <1>5, <2>1 DEF Range
    <2>3. PICK i \in DOMAIN ts : t = ts[i]
      <3>1. R \in SUBSET (DOMAIN ts) /\ DOMAIN us = 1..Cardinality(R)
        BY <2>1 DEF TurnsAt
      <3>2. Nth(R, k) \in R /\ us[k] = ts[Nth(R, k)]
        BY <2>1, <2>2, <3>1, TurnsAtFacts
      <3>3. QED
        BY <2>2, <3>1, <3>2
    <2>4. Like(t, ts[i])
      BY <2>3 DEF Like
    <2>5. QED
      BY <1>4, <2>4
  <1>6. CASE t \in Range(summary') /\ strategy = "truncate"
    BY <1>2, <1>6
  <1>7. CASE t \in Range(summary') /\ strategy # "truncate"
    <2>1. PICK cs : cs = Condense(ts, V)
      OBVIOUS
    <2>2. PICK k \in DOMAIN cs : t = cs[k]
      BY <1>2, <1>7, <2>1 DEF Range
    <2>3. \/ \E l \in DOMAIN summary : Like(t, summary[l])
          \/ \E i \in V : Like(t, ts[i])
      BY <2>1, <2>2, Condensed DEF MemoryInv, MemoryTypes
    <2>4. CASE \E l \in DOMAIN summary : Like(t, summary[l])
      BY <2>4 DEF Like, Range
    <2>5. CASE \E i \in V : Like(t, ts[i])
      BY <1>4, <2>5
    <2>6. QED
      BY <2>3, <2>4, <2>5
  <1>8. QED
    BY <1>5, <1>6, <1>7

Forbidden == {"pii", "injection"}

Heard == policy.enabled =>
  \A turn \in Range(turns) \cup Range(summary) :
    turn.kind \in {"prompt", "result"} => turn.marks \cap Forbidden = {}

Said ==
  /\ policy.enabled /\ stopped # "failures" => answer \cap {"pii", "token", "secret"} = {}
  /\ stopped = "failures" => phase = "idle"

TalkInv ==
  /\ MemoryInv /\ policy \in Policies /\ Heard /\ Said
  /\ phase = "tool" => Head(calls).name \in DOMAIN Tools

(* A turn the agent adds: what it was told passed the input filters        *)
Told(kind, marks) ==
  /\ Add(kind, marks)
  /\ policy.enabled /\ kind \in {"prompt", "result"} => marks \cap Forbidden = {}

LEMMA InputFiltered ==
  ASSUME policy \in Policies, NEW text \in SUBSET Marks
  PROVE  LET decision == Evaluate(policy, text, policy.inputFilters)
         IN /\ decision.allowed \in BOOLEAN /\ decision.text \in SUBSET Marks
            /\ policy.enabled /\ decision.allowed => decision.text \cap Forbidden = {}
  <1>1. /\ policy.enabled \in BOOLEAN /\ policy.inputFilters \in Seq(STRING)
        /\ policy.enabled => {"pii", "injection"} \subseteq Range(policy.inputFilters)
    BY PoliciesAssumption
  <1>2. PICK names \in Seq(STRING) : names = policy.inputFilters
    BY <1>1
  <1>3. PICK d : d = Evaluate(policy, text, names)
    OBVIOUS
  <1>4. /\ d.allowed \in BOOLEAN /\ d.text \in SUBSET Marks
        /\ policy.enabled /\ d.allowed =>
             \A name \in Range(names) : d.text \cap TakenOutBy(name) = {}
    <2>1. PICK p : p = policy
      OBVIOUS
    <2>2. p.enabled \in BOOLEAN
      BY <1>1, <2>1
    <2>3. d = Evaluate(p, text, names)
      BY <1>3, <2>1
    <2>4. Passed(p, names, d)
      BY <2>2, <2>3, Evaluated
    <2>5. QED
      BY <2>1, <2>4 DEF Passed
  <1>5. TakenOutBy("pii") = {"pii"} /\ TakenOutBy("injection") = {"injection"}
    BY DEF TakenOutBy
  <1>6. ASSUME policy.enabled, d.allowed PROVE d.text \cap Forbidden = {}
    <2>1. d.text \cap {"pii"} = {} /\ d.text \cap {"injection"} = {}
      BY <1>1, <1>2, <1>4, <1>5, <1>6
    <2>2. QED
      BY <2>1 DEF Forbidden
  <1>7. QED
    BY <1>2, <1>3, <1>4, <1>6

LEMMA OutputFiltered ==
  ASSUME policy \in Policies, NEW text \in SUBSET Marks
  PROVE  LET decision == CheckOutput(policy, text)
         IN /\ decision.allowed \in BOOLEAN /\ decision.text \in SUBSET Marks
            /\ policy.enabled /\ decision.allowed => decision.text \cap {"pii", "token", "secret"} = {}
  <1>1. /\ policy.enabled \in BOOLEAN /\ policy.outputFilters \in Seq(STRING)
        /\ policy.enabled => {"pii", "leakage"} \subseteq Range(policy.outputFilters)
    BY PoliciesAssumption
  <1>2. PICK names \in Seq(STRING) : names = policy.outputFilters
    BY <1>1
  <1>3. PICK d : d = Evaluate(policy, text, names)
    OBVIOUS
  <1>4. /\ d.allowed \in BOOLEAN /\ d.text \in SUBSET Marks
        /\ policy.enabled /\ d.allowed =>
             \A name \in Range(names) : d.text \cap TakenOutBy(name) = {}
    <2>1. PICK p : p = policy
      OBVIOUS
    <2>2. p.enabled \in BOOLEAN
      BY <1>1, <2>1
    <2>3. d = Evaluate(p, text, names)
      BY <1>3, <2>1
    <2>4. Passed(p, names, d)
      BY <2>2, <2>3, Evaluated
    <2>5. QED
      BY <2>1, <2>4 DEF Passed
  <1>5. TakenOutBy("pii") = {"pii"} /\ TakenOutBy("leakage") = {"token", "secret"}
    BY DEF TakenOutBy
  <1>6. ASSUME policy.enabled, d.allowed PROVE d.text \cap {"pii", "token", "secret"} = {}
    <2>1. d.text \cap {"pii"} = {} /\ d.text \cap {"token", "secret"} = {}
      BY <1>1, <1>2, <1>4, <1>5, <1>6
    <2>2. QED
      BY <2>1
  <1>7. QED
    BY <1>2, <1>3, <1>4, <1>6 DEF CheckOutput

LEMMA AddRemembers ==
  ASSUME NEW kind \in Kinds, NEW marks \in SUBSET Marks, Add(kind, marks)
  PROVE  \E tokens, uncounted \in Nat : Remember(kind, tokens, uncounted, marks)
  <1>1. PICK n \in IF kind = "calling" THEN CallTokens ELSE {0} : Remember(kind, TokensOfKind[kind], n, marks)
    BY DEF Add
  <1>2. n \in Nat /\ TokensOfKind[kind] \in Nat
    BY MemoryAssumption, AgentAssumption DEF Kinds
  <1>3. QED
    BY <1>1, <1>2

LEMMA AddKeeps ==
  ASSUME MemoryInv, Heard, NEW kind \in Kinds, NEW marks \in SUBSET Marks, Told(kind, marks),
         UNCHANGED policy
  PROVE  MemoryInv' /\ Heard'
  <1>1. PICK tokens, uncounted \in Nat : Remember(kind, tokens, uncounted, marks)
    BY AddRemembers DEF Told
  <1>2. Remember(kind, tokens, uncounted, marks)
    BY <1>1
  <1>3. MemoryInv'
    BY <1>2, RememberKeeps
  <1>4. ASSUME policy.enabled, NEW t \in Range(turns') \cup Range(summary'),
               t.kind \in {"prompt", "result"}
        PROVE  t.marks \cap Forbidden = {}
    <2>1. \/ t.kind = kind /\ t.marks = marks
          \/ \E g \in Range(turns) \cup Range(summary) : t.kind = g.kind /\ t.marks = g.marks
      BY <1>2, RememberTells
    <2>2. QED
      BY <1>4, <2>1 DEF Told, Heard
  <1>5. Heard'
    BY <1>4 DEF Heard, Forbidden
  <1>6. QED
    BY <1>3, <1>5

(* What a step of the agent does to its memory.                            *)
TalkStep ==
  /\ \/ UNCHANGED memoryVars
     \/ Clear
     \/ \E kind \in Kinds, marks \in SUBSET Marks : Told(kind, marks)
  /\ policy' = policy
  /\ Said'
  /\ phase' = "tool" => Head(calls').name \in DOMAIN Tools

LEMMA MemorySteps == ASSUME TalkInv, [Next]_vars PROVE TalkStep
  <1>1. policy \in Policies /\ Said /\ (phase = "tool" => Head(calls).name \in DOMAIN Tools)
    BY DEF TalkInv
  <1>2. CASE UNCHANGED vars
    BY <1>1, <1>2 DEF vars, runVars, Said, TalkStep
  <1>3. ASSUME NEW prompt \in Prompts, Start(prompt) PROVE TalkStep
    <2>1. PICK text \in SUBSET Marks : text = prompt
      BY AgentAssumption
    <2>2. PICK d : d = Evaluate(policy, text, policy.inputFilters)
      OBVIOUS
    <2>3. /\ d.allowed \in BOOLEAN /\ d.text \in SUBSET Marks
          /\ policy.enabled /\ d.allowed => d.text \cap Forbidden = {}
      BY <1>1, <2>2, InputFiltered
    <2>4. PICK c : c = CheckInput(policy, prompt)
      OBVIOUS
    <2>5. c.text = d.text /\ (c.allowed => d.allowed)
      BY <2>1, <2>2, <2>3, <2>4 DEF CheckInput, Evaluate
    <2>6. /\ Add("prompt", c.text) /\ c.allowed /\ policy' = policy /\ answer' = {} /\ phase' = "chat"
          /\ stopped' = "completed"
      BY <1>3, <2>4 DEF Start
    <2>7. Told("prompt", d.text)
      BY <2>3, <2>5, <2>6 DEF Told
    <2>8. Said'
      BY <2>6 DEF Said
    <2>9. QED
      BY <2>3, <2>6, <2>7, <2>8 DEF Kinds, TalkStep
  <1>4. ASSUME NEW completion \in Completions, Chat(completion) PROVE TalkStep
    <2>1. PICK text \in SUBSET Marks : text = completion.prose
      BY AgentAssumption
    <2>2. PICK out : out = CheckOutput(policy, text)
      OBVIOUS
    <2>3. /\ out.allowed \in BOOLEAN /\ out.text \in SUBSET Marks
          /\ policy.enabled /\ out.allowed => out.text \cap {"pii", "token", "secret"} = {}
      BY <1>1, <2>2, OutputFiltered
    <2>4. PICK final : final = IF out.allowed THEN out.text ELSE {}
      OBVIOUS
    <2>5. final \in SUBSET Marks /\ (policy.enabled => final \cap {"pii", "token", "secret"} = {})
      BY <2>3, <2>4
    <2>6. policy' = policy /\ phase' # "tool" /\ phase = "chat" /\ stopped' = stopped
      BY <1>4 DEF Chat
    <2>7. \/ Add("answer", final) /\ answer' = final
          \/ Add("calling", text) /\ answer' = answer
      BY <1>4, <2>1, <2>2, <2>4 DEF Chat
    <2>8. \E kind \in Kinds, marks \in SUBSET Marks : Told(kind, marks)
      BY <2>5, <2>7 DEF Told, Kinds
    <2>9. Said'
      BY <1>1, <2>5, <2>6, <2>7 DEF Said
    <2>10. QED
      BY <2>6, <2>8, <2>9 DEF TalkStep
  <1>5. CASE OutOfIterations \/ BudgetSpent \/ Raises \/ StepEnds
    <2>1. UNCHANGED <<memoryVars, policy>> /\ phase' # "tool" /\ phase \in {"chat", "calls", "tool"}
      BY <1>5 DEF OutOfIterations, BudgetSpent, Raises, StepEnds, NextCall
    <2>2. \/ stopped' = "failures" /\ phase' = "idle"
          \/ answer' = answer /\ stopped' \in {stopped, "iterations", "budget", "raised"}
      BY <1>5 DEF OutOfIterations, BudgetSpent, Raises, StepEnds
    <2>3. QED
      BY <1>1, <2>1, <2>2 DEF Said, TalkStep
  <1>6. CASE Repeated \/ RefusedCall
    <2>1. Outcome(FALSE, {})
      BY <1>6 DEF Repeated, RefusedCall
    <2>2. /\ Add("error", {}) /\ policy' = policy /\ answer' = answer /\ phase' = "calls"
          /\ stopped' = stopped /\ phase = "calls"
      BY <1>6, <2>1 DEF Outcome, Repeated, RefusedCall, NextCall
    <2>3. Told("error", {})
      BY <2>2 DEF Told
    <2>4. QED
      BY <1>1, <2>2, <2>3 DEF Said, Kinds, TalkStep
  <1>7. CASE Execute
    <2>1. UNCHANGED <<memoryVars, policy, calls, answer, stopped>> /\ phase = "calls"
      BY <1>7 DEF Execute, NextCall, runVars
    <2>2. Head(calls).name \in DOMAIN Tools
      BY <1>7 DEF Execute, Vetted
    <2>3. QED
      BY <1>1, <2>1, <2>2 DEF Said, TalkStep
  <1>8. CASE Executed
    <2>1. PICK name \in DOMAIN Tools : name = Head(calls).name
      BY <1>1, <1>8 DEF Executed
    <2>2. PICK says \in SUBSET Marks : says = Tools[name].says
      BY ToolsAssumption
    <2>3. PICK d : d = Evaluate(policy, says, policy.inputFilters)
      OBVIOUS
    <2>4. /\ d.allowed \in BOOLEAN /\ d.text \in SUBSET Marks
          /\ policy.enabled /\ d.allowed => d.text \cap Forbidden = {}
      BY <1>1, <2>3, InputFiltered
    <2>5. IF outcome = "ok"
          THEN Outcome(d.allowed, IF d.allowed THEN d.text ELSE {})
          ELSE Outcome(FALSE, IF outcome = "error" THEN says ELSE {})
      BY <1>8, <2>1, <2>2, <2>3 DEF Executed, CheckToolResult
    <2>6. policy' = policy /\ answer' = answer /\ phase' = "calls" /\ stopped' = stopped /\ phase = "tool"
      BY <1>8, <2>5 DEF Executed, Outcome
    <2>7. CASE outcome = "ok" /\ d.allowed
      <3>1. Add("result", d.text)
        BY <2>5, <2>7 DEF Outcome
      <3>2. Told("result", d.text)
        BY <2>4, <2>7, <3>1 DEF Told
      <3>3. QED
        BY <1>1, <2>4, <2>6, <3>2 DEF Said, Kinds, TalkStep
    <2>8. CASE ~(outcome = "ok" /\ d.allowed)
      <3>1. PICK marks \in SUBSET Marks : Add("error", marks)
        <4>1. CASE outcome = "ok"
          <5>1. Add("error", {})
            BY <2>4, <2>5, <2>8, <4>1 DEF Outcome
          <5>2. QED
            BY <5>1
        <4>2. CASE outcome # "ok"
          <5>1. PICK marks \in SUBSET Marks : marks = IF outcome = "error" THEN says ELSE {}
            OBVIOUS
          <5>2. Add("error", marks)
            BY <2>5, <4>2, <5>1 DEF Outcome
          <5>3. QED
            BY <5>2
        <4>3. QED
          BY <4>1, <4>2
      <3>2. Told("error", marks)
        BY <3>1 DEF Told
      <3>3. QED
        BY <1>1, <2>6, <3>2 DEF Said, Kinds, TalkStep
    <2>9. QED
      BY <2>7, <2>8
  <1>9. CASE \/ Tooling /\ Finish
             \/ Tooling /\ Write
             \/ Tooling /\ Deadline
             \/ Tooling /\ Read
             \/ Tooling /\ EndOfFile
             \/ Tooling /\ Join
             \/ Tooling /\ JoinTimeout
             \/ TickPasses
             \/ LeftThreadEnds
    <2>1. UNCHANGED <<memoryVars, policy, phase, runVars>>
      BY <1>9 DEF Tooling, TickPasses, LeftThreadEnds
    <2>2. QED
      BY <1>1, <2>1 DEF Said, runVars, TalkStep
  <1>10. CASE Reset
    <2>1. Clear /\ UNCHANGED <<policy, phase, calls, answer, stopped>>
      BY <1>10 DEF Reset, runVars
    <2>2. QED
      BY <1>1, <2>1 DEF Said, TalkStep
  <1>11. QED
    BY <1>2, <1>3, <1>4, <1>5, <1>6, <1>7, <1>8, <1>9, <1>10 DEF Next, LoopStep

LEMMA InitTalk == ASSUME Init PROVE TalkInv
  <1>1. MemoryInv
    BY InitMemory DEF Init
  <1>2. turns = <<>> /\ summary = <<>> /\ policy \in Policies /\ answer = {} /\ phase = "idle"
        /\ stopped = "completed"
    BY DEF Init, MemoryInit, LoopInit
  <1>3. Heard /\ Said
    BY <1>2 DEF Heard, Said, Range
  <1>4. QED
    BY <1>1, <1>2, <1>3 DEF TalkInv

LEMMA NextTalk == ASSUME TalkInv, [Next]_vars PROVE TalkInv'
  <1>1. /\ \/ UNCHANGED memoryVars
           \/ Clear
           \/ \E kind \in Kinds, marks \in SUBSET Marks : Told(kind, marks)
        /\ policy' = policy
        /\ Said'
        /\ phase' = "tool" => Head(calls').name \in DOMAIN Tools
    BY MemorySteps DEF TalkStep
  <1>2. MemoryInv /\ Heard /\ policy \in Policies
    BY DEF TalkInv
  <1>3. MemoryInv' /\ Heard'
    <2>1. CASE UNCHANGED memoryVars
      BY <1>1, <1>2, <2>1 DEF memoryVars, MemoryInv, MemoryTypes, OverrunBounded, Sent, UncountedIn, Heard, Unpinned, TokensOf
    <2>2. CASE Clear
      <3>1. turns' = <<>> /\ summary' = <<>>
        BY <2>2 DEF Clear
      <3>2. QED
        BY <1>2, <2>2, <3>1, ClearKeeps DEF Heard, Range
    <2>3. ASSUME NEW kind \in Kinds, NEW marks \in SUBSET Marks, Told(kind, marks)
          PROVE  MemoryInv' /\ Heard'
      BY <1>1, <1>2, <2>3, AddKeeps
    <2>4. QED
      BY <1>1, <2>1, <2>2, <2>3
  <1>4. QED
    BY <1>1, <1>2, <1>3 DEF TalkInv

(* A step that adds a turn spares the newest.                              *)
LEMMA StepSpares ==
  ASSUME MemoryInv,
         \/ UNCHANGED memoryVars \/ Clear \/ PinAny
         \/ \E kind \in Kinds, tokens, uncounted \in Nat, marks \in SUBSET Marks : Remember(kind, tokens, uncounted, marks),
         added' > added, strategy = "priority"
  PROVE  RecentStays
  <1>1. added \in Nat
    BY DEF MemoryInv, MemoryTypes
  <1>2. ~UNCHANGED memoryVars
    BY <1>1 DEF memoryVars
  <1>3. ~Clear
    BY <1>1 DEF Clear
  <1>4. ~PinAny
    BY <1>1 DEF PinAny, Pin
  <1>5. PICK kind \in Kinds, tokens, uncounted \in Nat, marks \in SUBSET Marks : Remember(kind, tokens, uncounted, marks)
    BY <1>2, <1>3, <1>4
  <1>6. QED
    BY <1>5, RememberSpares

LEMMA SparedIsKept ==
  RecentKept <=> [][added' > added /\ strategy = "priority" => RecentStays]_memoryVars
  BY DEF RecentKept, RecentStays

(* A step of the memory on its own keeps its invariant.                    *)
LEMMA NextMemory == ASSUME MemoryInv, [MemoryNext]_memoryVars PROVE MemoryInv'
  <1>1. CASE UNCHANGED memoryVars
    BY <1>1 DEF memoryVars, MemoryInv, MemoryTypes, OverrunBounded, Sent, UncountedIn, Unpinned, TokensOf
  <1>2. CASE RememberAny
    <2>1. PICK kind \in Kinds, tokens, uncounted \in Nat : Remember(kind, tokens, uncounted, {})
      BY <1>2, MemoryAssumption DEF RememberAny, Kinds
    <2>2. QED
      BY <2>1, RememberKeeps
  <1>3. CASE PinAny
    <2>1. PICK i \in DOMAIN turns : Pin(i)
      BY <1>3 DEF PinAny, Unpinned
    <2>2. QED
      BY <2>1, PinKeeps
  <1>4. CASE Clear
    BY <1>4, ClearKeeps
  <1>5. QED
    BY <1>1, <1>2, <1>3, <1>4 DEF MemoryNext

(* Whatever is added to the memory, pinned or cleared, under any strategy, *)
(* budget and bound of the summary: what is sent exceeds the system prompt *)
(* and the space beside it by one summary and the calls of the turns kept  *)
(* at most, nothing is lost without being counted, and no older turn       *)
(* outlives a newest one (agent/memory.py).                                *)
THEOREM MemoryAlone ==
  MemoryInit /\ [][MemoryNext]_memoryVars => []OverrunBounded /\ RecentKept
  <1>1. MemoryInit => MemoryInv
    BY InitMemory
  <1>2. MemoryInv /\ [MemoryNext]_memoryVars => MemoryInv'
    BY NextMemory
  <1>3. MemoryInv => OverrunBounded
    BY DEF MemoryInv
  <1>4. MemoryInv /\ [MemoryNext]_memoryVars =>
          [added' > added /\ strategy = "priority" => RecentStays]_memoryVars
    <2>1. SUFFICES ASSUME MemoryInv, [MemoryNext]_memoryVars, added' > added, strategy = "priority"
                   PROVE  RecentStays
      OBVIOUS
    <2>2. \/ UNCHANGED memoryVars \/ Clear \/ PinAny
          \/ \E kind \in Kinds, tokens, uncounted \in Nat, marks \in SUBSET Marks : Remember(kind, tokens, uncounted, marks)
      <3>1. CASE RememberAny
        BY <3>1, MemoryAssumption DEF RememberAny, Kinds
      <3>2. QED
        BY <2>1, <3>1 DEF MemoryNext
    <2>3. QED
      BY <2>1, <2>2, StepSpares
  <1>5. QED
    BY <1>1, <1>2, <1>3, <1>4, SparedIsKept, PTL

(* The invariant of the memory and of what the agent says holds in every   *)
(* behaviour.                                                              *)
THEOREM TalkInvariance == Spec => []TalkInv
  <1>1. QED
    BY InitTalk, NextTalk, PTL DEF Spec

(* The agent's conversation overruns its budget by one summary and the     *)
(* calls of the turns kept at most, and its books balance.                 *)
THEOREM ConversationBounded == Spec => []OverrunBounded
  <1>1. TalkInv => OverrunBounded
    BY DEF TalkInv, MemoryInv
  <1>2. QED
    BY <1>1, TalkInvariance, PTL

(* The agent never forgets one of its newest turns for an older one.       *)
THEOREM NewestSpared == Spec => RecentKept
  <1>1. TalkInv /\ [Next]_vars =>
          [added' > added /\ strategy = "priority" => RecentStays]_memoryVars
    <2>1. SUFFICES ASSUME TalkInv, [Next]_vars, added' > added, strategy = "priority"
                   PROVE  RecentStays
      OBVIOUS
    <2>2. MemoryInv
      BY <2>1 DEF TalkInv
    <2>3. \/ UNCHANGED memoryVars \/ Clear
          \/ \E kind \in Kinds, marks \in SUBSET Marks : Told(kind, marks)
      BY <2>1, MemorySteps DEF TalkStep
    <2>4. ASSUME NEW kind \in Kinds, NEW marks \in SUBSET Marks, Told(kind, marks)
          PROVE  \E tokens, uncounted \in Nat : Remember(kind, tokens, uncounted, marks)
      BY <2>4, AddRemembers DEF Told
    <2>5. \/ UNCHANGED memoryVars \/ Clear \/ PinAny
          \/ \E kind \in Kinds, tokens, uncounted \in Nat, marks \in SUBSET Marks : Remember(kind, tokens, uncounted, marks)
      BY <2>3, <2>4
    <2>6. QED
      BY <2>1, <2>2, <2>5, StepSpares
  <1>2. QED
    BY <1>1, TalkInvariance, SparedIsKept, PTL DEF Spec

(* What the filters take out stays out of the prompts and results in the   *)
(* memory, of their fragments in the summary, and of the answers, but for  *)
(* the one that quotes the last error when failures end the run            *)
(* (loop.py:252-257).                                                      *)
THEOREM BlockedKeptOut == Spec => []BlockedStaysOut
  <1>1. TalkInv => BlockedStaysOut
    BY DEF TalkInv, Heard, Said, Forbidden, BlockedStaysOut
  <1>2. QED
    BY <1>1, TalkInvariance, PTL
=============================================================================
