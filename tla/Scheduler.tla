----------------------------- MODULE Scheduler -----------------------------
(***************************************************************************)
(* The continuous-batching scheduler, inference/scheduler.py: a waiting    *)
(* queue, the running batch, and schedule(), which plans one step of the   *)
(* engine under a token budget and the cache's capacity and preempts the   *)
(* most recently admitted request when blocks run short.                   *)
(*                                                                         *)
(* schedule() is modelled one loop iteration at a time; the engine calls   *)
(* everything from one thread, so nothing comes between two iterations.    *)
(* Engine executes the plans made here.                                    *)
(*                                                                         *)
(* Abstractions: a prompt is its length, so prompts share no cache blocks, *)
(* and the cache is a BlockPool, the part of PagedKVCache the scheduler    *)
(* uses.  Requests are the Request objects, each of them used once.        *)
(***************************************************************************)
EXTENDS Integers, FiniteSets, Sequences, Functions

CONSTANTS
  Requests,
  PromptLengths,     (* lengths of the prompts clients send                *)
  MaxTokens,         (* gen_config.max_tokens                              *)
  MaxContext, MaxRunning, MaxWaiting, MaxBatchedTokens,
  ChunkedModes,      (* settings of chunked_prefill                        *)
  ChunkSize,
  NumBlocks, BlockSize, Reserve

ASSUME SchedulerAssumption ==
  /\ IsFiniteSet(Requests)
  /\ PromptLengths \subseteq Nat \ {0}
  /\ {MaxTokens, MaxContext, MaxRunning, MaxWaiting, MaxBatchedTokens} \subseteq Nat
  /\ {NumBlocks, Reserve} \subseteq Nat
  /\ {ChunkSize, BlockSize} \subseteq Nat \ {0}
  /\ ChunkedModes \subseteq BOOLEAN

VARIABLES
  waiting, running,  (* the queues                                         *)
  state,             (* Request.state                                      *)
  promptLen,         (* len(prompt_token_ids)                              *)
  generated,         (* len(output_token_ids)                              *)
  offset,            (* prefill_offset                                     *)
  tokens,            (* the block tables of the cache: their num_tokens    *)
  available,         (* the cache's num_available_blocks                   *)
  pc,                (* where the engine's thread is                       *)
  todo,              (* the requests the current loop has yet to visit     *)
  budget,            (* token_budget                                       *)
  decode, prefill,   (* SchedulerOutput                                    *)
  chunkSizes,        (* SchedulerOutput.chunk_sizes                        *)
  chunked,           (* chunked_prefill, which never changes               *)
  arrived            (* history: the live requests, in order of arrival    *)

queues == <<waiting, running>>
requests == <<state, promptLen, generated, offset>>
cache == <<tokens, available>>
plan == <<decode, prefill, chunkSizes>>
schedulerVars == <<queues, requests, cache, pc, todo, budget, plan, chunked, arrived>>

Pool == INSTANCE BlockPool WITH Seqs <- Requests, MaxLength <- MaxContext

States == {"WAITING", "PREFILL", "RUNNING", "PREEMPTED", "FINISHED"}

PrefillDone(r) == offset[r] >= promptLen[r]

(* list.remove()                                                           *)
Remove(seq, r) ==
  LET i == CHOOSE j \in DOMAIN seq : seq[j] = r
  IN  [j \in 1..Len(seq) - 1 |-> IF j < i THEN seq[j] ELSE seq[j + 1]]

Queued(r) == r \in Range(waiting) \cup Range(running)

-----------------------------------------------------------------------------
SchedulerInit ==
  /\ waiting = << >> /\ running = << >>
  /\ state = [r \in Requests |-> "FINISHED"]
  /\ promptLen = [r \in Requests |-> 0]
  /\ generated = [r \in Requests |-> 0]
  /\ offset = [r \in Requests |-> 0]
  /\ Pool!Init
  /\ pc = "idle"
  /\ todo = << >> /\ budget = 0
  /\ decode = << >> /\ prefill = << >> /\ chunkSizes = << >>
  /\ chunked \in ChunkedModes
  /\ arrived = << >>

(***************************************************************************)
(* add_request(); a request it rejects leaves no trace.                    *)
(***************************************************************************)
WaitingHasRoom == Len(waiting) < MaxWaiting

AddRequest(r, n) ==
  /\ pc = "idle" /\ ~Queued(r)
  /\ n + MaxTokens <= MaxContext
  /\ WaitingHasRoom
  /\ waiting' = Append(waiting, r)
  /\ state' = [state EXCEPT ![r] = "WAITING"]
  /\ promptLen' = [promptLen EXCEPT ![r] = n]
  /\ generated' = [generated EXCEPT ![r] = 0]
  /\ offset' = [offset EXCEPT ![r] = 0]
  /\ arrived' = Append(arrived, r)
  /\ UNCHANGED <<running, cache, pc, todo, budget, plan, chunked>>

(***************************************************************************)
(* abort(), and the part it shares with finish(): r leaves the queue it    *)
(* is in, and its blocks return to the cache.                              *)
(***************************************************************************)
Leave(r) ==
  /\ IF r \in Range(waiting)
       THEN waiting' = Remove(waiting, r) /\ UNCHANGED running
       ELSE running' = Remove(running, r) /\ UNCHANGED waiting
  /\ state' = [state EXCEPT ![r] = "FINISHED"]
  /\ Pool!Release(r)
  /\ arrived' = Remove(arrived, r)

Abort(r) ==
  /\ pc = "idle" /\ Queued(r)
  /\ Leave(r)
  /\ UNCHANGED <<promptLen, generated, offset, pc, todo, budget, plan, chunked>>

(***************************************************************************)
(* _preempt(): the last of the running requests goes back to the front of  *)
(* the waiting queue, with what it generated folded into its prompt.       *)
(***************************************************************************)
Victim == running[Len(running)]

VictimLast == Append(waiting, Victim)  (* mutant: to the end of the queue *)

VictimFirst == <<Victim>> \o waiting

OutputDropped == promptLen[Victim]  (* mutant: the output is cleared before it is folded *)

OutputFolded == promptLen[Victim] + generated[Victim]

Preempt ==
  /\ running' = SubSeq(running, 1, Len(running) - 1)
  /\ waiting' = VictimFirst
  /\ Pool!Release(Victim)
  /\ state' = [state EXCEPT ![Victim] = "PREEMPTED"]
  /\ promptLen' = [promptLen EXCEPT ![Victim] = OutputFolded]
  /\ generated' = [generated EXCEPT ![Victim] = 0]
  /\ offset' = [offset EXCEPT ![Victim] = 0]

(***************************************************************************)
(* schedule().                                                             *)
(***************************************************************************)
ScheduleBegin ==
  /\ pc = "idle" /\ running \o waiting # << >>
  /\ pc' = "decodes"
  /\ todo' = running
  /\ budget' = MaxBatchedTokens
  /\ decode' = << >> /\ prefill' = << >> /\ chunkSizes' = << >>
  /\ UNCHANGED <<queues, requests, cache, arrived, chunked>>

(***************************************************************************)
(* 1. Decodes.  When even one block is short, the last running request is  *)
(* preempted, which may be the one that was to decode.                     *)
(***************************************************************************)
DecodeSkip ==
  /\ pc = "decodes" /\ todo # << >>
  /\ ~PrefillDone(Head(todo))
  /\ todo' = Tail(todo)
  /\ UNCHANGED <<queues, requests, cache, pc, budget, plan, arrived, chunked>>

DecodeNext == pc = "decodes" /\ todo # << >> /\ PrefillDone(Head(todo)) /\ budget > 0

DecodeAdd ==
  /\ decode' = Append(decode, Head(todo))
  /\ budget' = budget - 1

Decode ==
  /\ DecodeNext /\ Pool!CanAllocate(1)
  /\ DecodeAdd
  /\ todo' = Tail(todo)
  /\ UNCHANGED <<queues, requests, cache, pc, prefill, chunkSizes, arrived, chunked>>

(* mutant: the preempted request is decoded all the same                   *)
DecodePreemptAny ==
  /\ DecodeNext /\ ~Pool!CanAllocate(1)
  /\ Preempt
  /\ DecodeAdd
  /\ todo' = Tail(todo)
  /\ UNCHANGED <<pc, prefill, chunkSizes, arrived, chunked>>

DecodePreempt ==
  /\ DecodeNext /\ ~Pool!CanAllocate(1)
  /\ Preempt
  /\ IF Victim = Head(todo) THEN UNCHANGED <<decode, budget>> ELSE DecodeAdd
  /\ todo' = Tail(todo)
  /\ UNCHANGED <<pc, prefill, chunkSizes, arrived, chunked>>

DecodesDone ==
  /\ pc = "decodes"
  /\ todo # << >> => PrefillDone(Head(todo)) /\ budget = 0
  /\ pc' = "prefills"
  /\ todo' = running
  /\ UNCHANGED <<queues, requests, cache, budget, plan, arrived, chunked>>

(***************************************************************************)
(* _plan_chunk(): how much of r's prompt to process next, 0 for none.      *)
(***************************************************************************)
MinOf(m, n) == IF m <= n THEN m ELSE n

AllButLast(r) == promptLen[r] - offset[r] - 1  (* mutant: off by one *)

Remaining(r) == promptLen[r] - offset[r]

PlanChunk(r) ==
  IF chunked THEN MinOf(MinOf(Remaining(r), ChunkSize), budget)
  ELSE IF Remaining(r) <= budget THEN Remaining(r) ELSE 0

(* mutant: a chunk costs no budget                                         *)
PlanForFree(r, n) ==
  /\ prefill' = Append(prefill, r)
  /\ chunkSizes' = [q \in DOMAIN chunkSizes \cup {r} |-> IF q = r THEN n ELSE chunkSizes[q]]
  /\ budget' = budget

PlanPrefill(r, n) ==
  /\ prefill' = Append(prefill, r)
  /\ chunkSizes' = [q \in DOMAIN chunkSizes \cup {r} |-> IF q = r THEN n ELSE chunkSizes[q]]
  /\ budget' = budget - n

(***************************************************************************)
(* 2. In-flight prefills; the cache is not asked for room.                 *)
(***************************************************************************)
Prefilling(r) == ~PrefillDone(r) /\ budget > 0 /\ PlanChunk(r) > 0

PrefillPlan ==
  /\ pc = "prefills" /\ todo # << >>
  /\ Prefilling(Head(todo))
  /\ PlanPrefill(Head(todo), PlanChunk(Head(todo)))
  /\ todo' = Tail(todo)
  /\ UNCHANGED <<queues, requests, cache, pc, decode, arrived, chunked>>

PrefillSkip ==
  /\ pc = "prefills" /\ todo # << >>
  /\ ~Prefilling(Head(todo))
  /\ todo' = Tail(todo)
  /\ UNCHANGED <<queues, requests, cache, pc, budget, plan, arrived, chunked>>

PrefillsDone ==
  /\ pc = "prefills" /\ todo = << >>
  /\ pc' = "admissions"
  /\ UNCHANGED <<queues, requests, cache, todo, budget, plan, arrived, chunked>>

(***************************************************************************)
(* 3. Admissions.  The head of the queue is admitted, or a running request *)
(* preempted for it, which is then the new head.  A waiting request has    *)
(* processed nothing of its prompt, so its chunk is all it has to allocate *)
(* with chunked prefill or without.                                        *)
(***************************************************************************)
CanAdmit ==
  /\ waiting # << >> /\ budget > 0
  /\ Len(running) < MaxRunning
  /\ PlanChunk(Head(waiting)) > 0

Admit ==
  /\ pc = "admissions" /\ CanAdmit
  /\ LET r == Head(waiting)
         n == PlanChunk(r)
     IN  /\ Pool!CanAllocate(n)
         /\ waiting' = Tail(waiting)
         /\ Pool!Resize(r, n)
         /\ state' = [state EXCEPT ![r] = "PREFILL"]
         /\ running' = Append(running, r)
         /\ PlanPrefill(r, n)
  /\ UNCHANGED <<promptLen, generated, offset, pc, todo, decode, arrived, chunked>>

AdmitPreempt ==
  /\ pc = "admissions" /\ CanAdmit
  /\ ~Pool!CanAllocate(PlanChunk(Head(waiting)))
  /\ running # << >>
  /\ Preempt
  /\ UNCHANGED <<pc, todo, budget, plan, arrived, chunked>>

AdmissionsDone ==
  /\ pc = "admissions"
  /\ CanAdmit => ~Pool!CanAllocate(PlanChunk(Head(waiting))) /\ running = << >>
  /\ pc' = "execute"
  /\ todo' = prefill
  /\ UNCHANGED <<queues, requests, cache, budget, plan, arrived, chunked>>

Schedule ==
  \/ ScheduleBegin
  \/ DecodeSkip \/ Decode \/ DecodePreempt \/ DecodesDone
  \/ PrefillPlan \/ PrefillSkip \/ PrefillsDone
  \/ Admit \/ AdmitPreempt \/ AdmissionsDone
=============================================================================
