----------------------------- MODULE EngineLoops -----------------------------
(***************************************************************************)
(* Who drives the engine, inference/engine.py: the loops of stream(), of   *)
(* generate(), which reads a stream to its end, and of benchmark_step().   *)
(* Nobody steps the engine but these loops, and each of them has an end of *)
(* its own: a stream's is the first final chunk of any request, so that    *)
(* requests it leaves behind, its own among them, wait for the next loop.  *)
(*                                                                         *)
(* Abstractions: one loop at a time, as under the server's lock and in the *)
(* command line's; a stream that is closed and one that is never resumed   *)
(* are the same to the engine.  The benchmark may give up after any step,  *)
(* where the code counts num_requests * output_tokens * 4 of them.         *)
(***************************************************************************)
EXTENDS Engine

VARIABLES
  loop,   (* the loop that drives the engine                               *)
  final   (* its current step has emitted a final chunk                    *)

loopVars == <<vars, loop, final>>

Nobody == <<"nobody">>
Benchmark == <<"benchmark">>
Loading == <<"loading">>          (* the benchmark adds its requests        *)
Stream(r) == <<"stream", r>>
Generate(r) == <<"generate", r>>

Streams == {Stream(r) : r \in Requests} \cup {Generate(r) : r \in Requests}
Loops == Streams \cup {Benchmark}

LoopsInit == Init /\ loop = Nobody /\ final = FALSE

HasWork == arrived # << >>

(***************************************************************************)
(* A call of stream() or generate() adds its request, or is refused.       *)
(***************************************************************************)
StreamBegins(r) ==
  /\ loop = Nobody /\ raises < MaxRaises
  /\ \E n \in PromptLengths : Add(r, n)
  /\ loop' \in {Stream(r), Generate(r)}
  /\ final' = FALSE

(* benchmark_step() adds its requests one by one, which may be too many.   *)
BenchmarkBegins ==
  /\ loop = Nobody /\ raises < MaxRaises
  /\ loop' = Loading
  /\ UNCHANGED <<vars, final>>

BenchmarkAdds(r) ==
  /\ loop = Loading
  /\ \E n \in PromptLengths : Add(r, n)
  /\ UNCHANGED <<loop, final>>

BenchmarkLoaded ==
  /\ loop = Loading
  /\ loop' \in {Benchmark} \cup (IF WaitingHasRoom THEN {} ELSE {Nobody})
  /\ UNCHANGED <<vars, final>>

-----------------------------------------------------------------------------
(***************************************************************************)
(* while has_work: _step().  A stream stops at a final chunk; the          *)
(* exception a step ends with ends the loop too.                           *)
(***************************************************************************)
StopsAtFinal(d) == d \in Streams /\ final

Over(d) == pc = "idle" /\ (~HasWork \/ StopsAtFinal(d))

LoopSteps(d) ==
  /\ loop = d /\ ~Over(d)
  /\ Step
  /\ final' = (pc # "idle" /\ (final \/ Len(arrived') < Len(arrived)))
  /\ loop' = IF raised' # "none" THEN Nobody ELSE d

LoopReturns(d) ==
  /\ loop = d /\ Over(d)
  /\ loop' = Nobody /\ final' = FALSE
  /\ IF d \in {Generate(r) : r \in Requests} THEN DropAssembler(d[2]) ELSE UNCHANGED vars

LoopRuns(d) == LoopSteps(d) \/ LoopReturns(d)

(* What ends a loop early: a stream is no longer read; the benchmark finds *)
(* that it does not converge.                                              *)
LoopStops(d) ==
  /\ loop = d /\ pc = "idle"
  /\ d = Benchmark \/ \E r \in Requests : d = Stream(r)
  /\ loop' = Nobody /\ final' = FALSE
  /\ UNCHANGED vars

(* Between two loops, or two chunks of a stream, requests may be aborted   *)
(* or all of them dropped.                                                 *)
Interrupt ==
  /\ loop = Nobody \/ \E r \in Requests : loop = Stream(r)
  /\ Reset \/ \E r \in Requests : AbortRequest(r)
  /\ UNCHANGED <<loop, final>>

LoopsNext ==
  \/ \E r \in Requests : StreamBegins(r) \/ BenchmarkAdds(r)
  \/ BenchmarkBegins \/ BenchmarkLoaded
  \/ \E d \in Loops : LoopRuns(d) \/ LoopStops(d)
  \/ Interrupt

(* A loop runs on until it is over, or is stopped; nobody has to begin     *)
(* one, so that requests left behind may never be stepped again.           *)
LoopsSpec ==
  /\ LoopsInit /\ [][LoopsNext]_loopVars
  /\ \A d \in Loops : WF_loopVars(LoopRuns(d))

-----------------------------------------------------------------------------
(***************************************************************************)
(* Properties.                                                             *)
(***************************************************************************)
(* Nothing runs, and the prompt at the head of the queue is too long for   *)
(* any step: without chunked prefill it has to fit one step's budget and   *)
(* the pool, also after a preemption folded its output into it.            *)
Wedged ==
  /\ running = << >> /\ waiting # << >>
  /\ LET n == promptLen[Head(waiting)]
     IN  ~chunked /\ (n > MaxBatchedTokens \/ Pool!BlocksNeeded(n) > NumBlocks - Reserve)

(* Every loop ends, whoever was left in the engine before it: preemptions  *)
(* back and forth, and requests that are decoded without an assembler and  *)
(* never finished, end in a final chunk, in no work or in an exception.    *)
(* Only a prompt no step can take keeps `while has_work` spinning.         *)
LoopsReturn == \A d \in Loops : loop = d ~> loop # d \/ Wedged
=============================================================================
