------------------------------- MODULE Engine -------------------------------
(***************************************************************************)
(* The engine's step loop, Engine._step of inference/engine.py, composed   *)
(* with the scheduler: plan a step, run its prefill chunks through the     *)
(* cache, sample a token for every request that is ready, finish those     *)
(* that are done.  Requests are added, aborted and reset between steps;    *)
(* EngineLoops says who drives the steps, and for how long.                *)
(*                                                                         *)
(* Abstractions: which token is sampled is left out, except that it may    *)
(* end the request (a stop token, or a stop string its text completes);    *)
(* what the assemblers hold is StreamAssembly's.  An exception out of      *)
(* _step loses the rest of the plan and leaves the queues and the cache as *)
(* they are.                                                               *)
(***************************************************************************)
EXTENDS Scheduler

CONSTANTS
  MaxSampled,  (* bound: tokens of a request until no step is begun any more *)
  MaxRaises    (* bound: exceptions until the engine is reset               *)

VARIABLES
  assemblers, (* the requests with an assembler, _assemblers               *)
  ready,     (* the requests still to sample for in this step              *)
  raised,    (* the exception the last step ended with, or "none"          *)
  raises,    (* history: exceptions since the last reset                   *)
  asked,     (* history: prompt length the request came with               *)
  sampled,   (* history: tokens sampled for it, in all its attempts        *)
  torn,      (* history: requests whose last token missed the cache        *)
  spent      (* history: tokens the current step has put through the model *)

history == <<raises, asked, sampled, torn, spent>>
vars == <<schedulerVars, assemblers, ready, raised, history>>

Init ==
  /\ SchedulerInit
  /\ assemblers = {}
  /\ ready = << >> /\ raised = "none" /\ raises = 0
  /\ asked = [r \in Requests |-> 0]
  /\ sampled = [r \in Requests |-> 0]
  /\ torn = {} /\ spent = 0

(***************************************************************************)
(* stream() and benchmark_step() add a request and its assembler, abort()  *)
(* aborts it, reset() drops all.  generate() drops the assembler of its    *)
(* own request when its stream has ended, which may be with the last chunk *)
(* of another request: its own is then still queued.                       *)
(***************************************************************************)
Add(r, n) ==
  /\ AddRequest(r, n) /\ asked[r] = 0
  /\ assemblers' = assemblers \cup {r}
  /\ asked' = [asked EXCEPT ![r] = n]
  /\ sampled' = [sampled EXCEPT ![r] = 0]
  /\ UNCHANGED <<ready, raised, raises, torn, spent>>

AbortRequest(r) ==
  /\ Abort(r)
  /\ assemblers' = assemblers \ {r}
  /\ UNCHANGED <<ready, raised, history>>

DropAssembler(r) ==
  /\ pc = "idle" /\ r \in assemblers
  /\ assemblers' = assemblers \ {r}
  /\ UNCHANGED <<schedulerVars, ready, raised, history>>

Reset ==
  /\ pc = "idle"
  /\ Pool!ReleaseAll /\ waiting' = << >> /\ running' = << >> /\ arrived' = << >>
  /\ assemblers' = {}
  /\ raises' = 0
  /\ UNCHANGED <<requests, pc, todo, budget, plan, ready, raised, asked, sampled, torn, spent, chunked>>

-----------------------------------------------------------------------------
(* The step is over: its local variables are gone.                         *)
Return ==
  /\ pc' = "idle"
  /\ todo' = << >> /\ ready' = << >> /\ budget' = 0 /\ spent' = 0
  /\ decode' = << >> /\ prefill' = << >> /\ chunkSizes' = << >>

Raise(exception) == raised' = exception /\ raises' = raises + 1 /\ Return

Plan ==
  /\ Schedule
  /\ pc = "idle" => raises < MaxRaises /\ \A r \in Range(arrived) : sampled[r] < MaxSampled
  /\ raised' = "none"
  /\ torn' = torn \ {r \in Requests : state'[r] = "PREEMPTED"}
  /\ UNCHANGED <<assemblers, ready, raises, asked, sampled, spent>>

(***************************************************************************)
(* A prefill chunk: get_table() once per token, and a slot for every token *)
(* that has none yet.  When blocks run out the slots got so far stay.      *)
(***************************************************************************)
ChunkEnd(r) == MinOf(promptLen[r], offset[r] + chunkSizes[r])

(* mutant: the block being filled counts as free                           *)
RoomPlusOne(r) == (Pool!BlocksNeeded(tokens[r]) + available + 1) * BlockSize

RoomFor(r) == (Pool!BlocksNeeded(tokens[r]) + available) * BlockSize

MaxTo(m, n) == IF m >= n THEN m ELSE n

(* mutant: a slot for every token of the chunk                             *)
SlotPerToken(r) == tokens[r] + ChunkEnd(r) - offset[r]

SlotsAfter(r) == MaxTo(tokens[r], ChunkEnd(r))

Executing == pc = "execute" /\ todo # << >>

PrefillChunk ==
  /\ Executing
  /\ LET r == Head(todo) IN
       /\ \/ ChunkEnd(r) <= offset[r] /\ UNCHANGED cache
          \/ /\ ChunkEnd(r) > offset[r] /\ r \in DOMAIN tokens
             /\ ChunkEnd(r) <= RoomFor(r)
             /\ Pool!Resize(r, SlotsAfter(r))
       /\ offset' = [offset EXCEPT ![r] = ChunkEnd(r)]
       /\ state' = IF ChunkEnd(r) >= promptLen[r] THEN [state EXCEPT ![r] = "RUNNING"] ELSE state
       /\ spent' = spent + ChunkEnd(r) - offset[r]
  /\ todo' = Tail(todo)
  /\ UNCHANGED <<queues, promptLen, generated, pc, budget, plan, arrived,
                 ready, raised, raises, asked, sampled, torn, chunked, assemblers>>

PrefillWithoutTable ==
  /\ Executing
  /\ ChunkEnd(Head(todo)) > offset[Head(todo)] /\ Head(todo) \notin DOMAIN tokens
  /\ Raise("SequenceNotFound")
  /\ UNCHANGED <<queues, requests, cache, arrived, asked, sampled, torn, chunked, assemblers>>

PrefillOutOfBlocks ==
  /\ Executing
  /\ LET r == Head(todo) IN
       /\ ChunkEnd(r) > offset[r] /\ r \in DOMAIN tokens
       /\ ChunkEnd(r) > RoomFor(r)
       /\ Pool!Resize(r, RoomFor(r))
  /\ Raise("OutOfCacheBlocks")
  /\ UNCHANGED <<queues, requests, arrived, asked, sampled, torn, chunked, assemblers>>

(***************************************************************************)
(* The requests to sample for: the decodes, unless preempted since they    *)
(* were planned and not prefilled again, and the prefills now done.        *)
(***************************************************************************)
PrefillsExecuted ==
  /\ pc = "execute" /\ todo = << >>
  /\ pc' = "collect" /\ todo' = decode \o prefill
  /\ UNCHANGED <<queues, requests, cache, budget, plan, arrived,
                 ready, raised, raises, asked, sampled, torn, spent, chunked, assemblers>>

FromDecode == Len(todo) > Len(prefill)

IsReady(r) == PrefillDone(r) /\ (FromDecode \/ r \notin Range(decode))

Collect ==
  /\ pc = "collect" /\ todo # << >>
  /\ ready' = IF IsReady(Head(todo)) THEN Append(ready, Head(todo)) ELSE ready
  /\ spent' = IF FromDecode /\ IsReady(Head(todo)) THEN spent + 1 ELSE spent
  /\ todo' = Tail(todo)
  /\ UNCHANGED <<queues, requests, cache, pc, budget, plan, arrived,
                 raised, raises, asked, sampled, torn, chunked, assemblers>>

Collected ==
  /\ pc = "collect" /\ todo = << >>
  /\ pc' = "sample"
  /\ UNCHANGED <<queues, requests, cache, todo, budget, plan, arrived,
                 ready, raised, raises, asked, sampled, torn, spent, chunked, assemblers>>

(***************************************************************************)
(* One sampled token.  append_token() records it before it asks the cache  *)
(* for a slot, which may fail; then the request goes on or is finished,    *)
(* which only a request with an assembler ever is.                         *)
(***************************************************************************)
Sampling == pc = "sample" /\ ready # << >>

Record(r) ==
  /\ generated' = [generated EXCEPT ![r] = @ + 1]
  /\ sampled' = [sampled EXCEPT ![r] = @ + 1]

(* max_tokens is compared with the tokens since the last preemption.       *)
MustFinish(r) == r \in assemblers /\ generated[r] + 1 >= MaxTokens

SampleGoOn ==
  /\ Sampling
  /\ LET r == Head(ready) IN
       /\ r \in DOMAIN tokens /\ Pool!HasRoom(r)
       /\ ~MustFinish(r)
       /\ Record(r)
       /\ Pool!Resize(r, tokens[r] + 1)
  /\ ready' = Tail(ready)
  /\ UNCHANGED <<queues, state, promptLen, offset, pc, todo, budget, plan, arrived,
                 raised, raises, asked, torn, spent, chunked, assemblers>>

(* The token takes its slot and finish() frees the request's blocks.       *)
SampleFinish ==
  /\ Sampling
  /\ LET r == Head(ready) IN
       /\ r \in assemblers
       /\ r \in DOMAIN tokens /\ Pool!HasRoom(r)
       /\ Record(r)
       /\ Leave(r)
  /\ ready' = Tail(ready)
  /\ UNCHANGED <<promptLen, offset, pc, todo, budget, plan,
                 raised, raises, asked, torn, spent, chunked, assemblers>>

SampleRaise ==
  /\ Sampling
  /\ LET r == Head(ready) IN
       /\ Record(r)
       /\ \/ r \notin DOMAIN tokens /\ Raise("SequenceNotFound")
          \/ r \in DOMAIN tokens /\ ~Pool!HasRoom(r) /\ Raise("OutOfCacheBlocks")
       /\ torn' = torn \cup {r}
  /\ UNCHANGED <<queues, state, promptLen, offset, cache, arrived, asked, chunked, assemblers>>

StepEnd ==
  /\ pc = "sample" /\ ready = << >>
  /\ Return
  /\ UNCHANGED <<queues, requests, cache, arrived,
                 raised, raises, asked, sampled, torn, chunked, assemblers>>

Execute ==
  \/ PrefillChunk \/ PrefillWithoutTable \/ PrefillOutOfBlocks \/ PrefillsExecuted
  \/ Collect \/ Collected
  \/ SampleGoOn \/ SampleFinish \/ SampleRaise
  \/ StepEnd

Step == Plan \/ Execute

Next ==
  \/ Step
  \/ \E r \in Requests :
       (\E n \in PromptLengths : Add(r, n)) \/ AbortRequest(r) \/ DropAssembler(r)
  \/ Reset

Spec == Init /\ [][Next]_vars

-----------------------------------------------------------------------------
(***************************************************************************)
(* Properties.                                                             *)
(***************************************************************************)
TypeOK ==
  /\ {waiting, running, todo, decode, prefill, ready, arrived} \subseteq Seq(Requests)
  /\ state \in [Requests -> States]
  /\ {promptLen, generated, offset, asked, sampled} \subseteq [Requests -> Nat]
  /\ DOMAIN tokens \subseteq Requests /\ \A r \in DOMAIN tokens : tokens[r] \in Nat
  /\ available \in Nat
  /\ pc \in {"idle", "decodes", "prefills", "admissions", "execute", "collect", "sample"}
  /\ budget \in Nat /\ spent \in Nat
  /\ DOMAIN chunkSizes \subseteq Requests
  /\ \A r \in DOMAIN chunkSizes : chunkSizes[r] \in Nat \ {0}
  /\ assemblers \subseteq Requests
  /\ raised \in {"none", "OutOfCacheBlocks", "SequenceNotFound"}
  /\ torn \subseteq Requests

(* Whatever preemptions and re-admissions do, the running batch followed   *)
(* by the waiting queue is the requests alive in order of arrival: nobody  *)
(* is lost, queued twice or overtaken.                                     *)
ServedInOrder == running \o waiting = arrived

(* The cache holds a table for each running request and for no other: no   *)
(* preemption, completion, abort or exception leaks blocks or drops them.  *)
TablesAreRunning == DOMAIN tokens = Range(running)

(* The tables never hold more blocks than the pool has, though a step      *)
(* plans several appends against the same free block, and none is lost.    *)
BlocksAccounted == Pool!BlocksAccounted

(* Preemption bypasses max_waiting, but only as far as max_running.        *)
QueuesBounded ==
  /\ Len(running) <= MaxRunning
  /\ Len(waiting) + Len(running) <= MaxWaiting + MaxRunning

(* While decodes are planned, preempting for one never takes the blocks of *)
(* another that is already in the batch, nor plans a request twice.        *)
PlannedDecodesRun ==
  pc = "decodes" =>
    /\ Range(decode) \subseteq Range(running)
    /\ IsInjective(decode)

(* The cache has a slot for every token of a running request that went     *)
(* through the model, and for no other once its prompt is done: its next   *)
(* token is at the right position, unless an exception tore them apart.    *)
CacheInStep ==
  \A r \in Range(running) \ torn :
    /\ tokens[r] >= offset[r] + generated[r]
    /\ PrefillDone(r) => tokens[r] = promptLen[r] + generated[r]

(* Recompute preemption loses no token and repeats none: a request's       *)
(* prompt and output are what it came with and what was sampled for it.    *)
TokensKept ==
  \A r \in Requests : promptLen[r] + generated[r] = asked[r] + sampled[r]

(* Every step ends: its loops get shorter, and where admissions preempt    *)
(* and preempted requests are admitted again, each round costs budget.     *)
LoopsEnd ==
  [][pc' = pc =>
       /\ pc \in {"decodes", "prefills", "execute", "collect"} => Len(todo') < Len(todo)
       /\ pc = "admissions" => \/ budget' < budget
                               \/ budget' = budget /\ Len(running') < Len(running)
       /\ pc = "sample" => Len(ready') < Len(ready)]_vars

(* "It should never escape to a caller" (errors.py:43).                    *)
NoCacheExceptionEscapes == raised # "OutOfCacheBlocks"

(* At most max_tokens tokens are generated (tests/test_engine.py:46), here *)
(* for the requests of steps that ended without an exception, as long as   *)
(* they have an assembler.                                                 *)
MaxTokensRespected ==
  raises = 0 => \A r \in Range(arrived) \cap assemblers : sampled[r] <= MaxTokens

(* A step puts at most max_batched_tokens tokens through the model.        *)
BudgetRespected == spent <= MaxBatchedTokens

-----------------------------------------------------------------------------
(***************************************************************************)
(* The inductive invariant behind the safety properties.                   *)
(***************************************************************************)
ArrivedOnce == IsInjective(arrived)

Lengths ==
  /\ \A r \in Requests : offset[r] <= promptLen[r]
  /\ \A r \in Range(arrived) : promptLen[r] >= 1

(* Waiting requests start over, running ones sample after their prompt.    *)
Progress ==
  /\ \A r \in Range(waiting) : offset[r] = 0 /\ generated[r] = 0
  /\ \A r \in Range(running) :
       /\ state[r] \in {"PREFILL", "RUNNING"}
       /\ ~PrefillDone(r) => generated[r] = 0 /\ tokens[r] <= promptLen[r]

(* The decodes planned precede those to come in the running batch, and of  *)
(* those to come only preempted ones have left it.                         *)
DecodeOrder ==
  pc = "decodes" =>
    /\ \A q \in DOMAIN todo : todo[q] \in Range(running) \/ ~PrefillDone(todo[q])
    /\ \A q \in DOMAIN todo, i, j \in DOMAIN running :
         running[j] = todo[q] =>
           /\ running[i] \in Range(decode) => i < j
           /\ \A p \in DOMAIN todo : p < q /\ running[i] = todo[p] => i < j

PlannedChunks ==
  /\ Range(prefill) \subseteq DOMAIN chunkSizes
  /\ pc = "execute" => Range(todo) \subseteq DOMAIN chunkSizes

ReadyPrefilled ==
  /\ ready # << >> => pc \in {"collect", "sample"}
  /\ \A r \in Range(ready) : PrefillDone(r)

IInv ==
  /\ TypeOK
  /\ ServedInOrder
  /\ ArrivedOnce
  /\ TablesAreRunning
  /\ QueuesBounded
  /\ Lengths
  /\ Progress
  /\ PlannedDecodesRun
  /\ DecodeOrder
  /\ PlannedChunks
  /\ ReadyPrefilled
  /\ CacheInStep
  /\ TokensKept
=============================================================================
