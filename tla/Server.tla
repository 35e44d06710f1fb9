------------------------------- MODULE Server -------------------------------
(***************************************************************************)
(* The HTTP server, serve/api.py, with the generators of the engine,       *)
(* Engine.stream and Engine.generate: handler threads that pass the rate   *)
(* limiter, take turns at the engine under engine_lock, and relay to their *)
(* clients the chunks of every step they drive.                            *)
(*                                                                         *)
(* A step returns chunks for all requests alive in the engine; the one     *)
(* who drives it relays them all and is done at the first final chunk,     *)
(* whosever it is.  A request whose client has gone stays alive.           *)
(*                                                                         *)
(* Abstractions: a step of the engine is one action, which says whom it    *)
(* emits a chunk for and who is finished (Engine has the details): maybe   *)
(* nobody, and the loop of stream() may come to a state in which no step   *)
(* ever does anything.  Which chunks have text to be written is left out.  *)
(* The limiter's clock stands still.  What precedes the limiter (routing,  *)
(* authentication, parsing) changes no state.                              *)
(***************************************************************************)
EXTENDS RateLimiter, Sequences

CONSTANTS
  Requests,    (* HTTP requests, each in a handler thread                   *)
  None,        (* who holds engine_lock when it is free                     *)
  KeyOf,       (* the key a request comes with                              *)
  MaxChunks    (* bound: chunks a request gets before it is finished        *)

ASSUME RequestsAssumption == IsFiniteSet(Requests) /\ KeyOf \in [Requests -> Keys]
ASSUME ChunksAssumption == MaxChunks \in Nat \ {0}
ASSUME NoneAssumption == None \notin Requests

VARIABLES
  streaming,   (* the requests being served that asked for a stream         *)
  phase,       (* where a request's handler is                              *)
  lock,        (* who holds engine_lock                                     *)
  live,        (* the requests alive in the engine                          *)
  assemblers,  (* the requests with an assembler in the engine              *)
  chunks,      (* chunks of the current step still to be relayed            *)
  left,        (* bound: chunks a request may still get                     *)
  stuck,       (* stream() steps the engine for ever and nothing comes of it*)
  abandoned    (* history: requests given up with their answer unfinished   *)

engine == <<live, assemblers, left>>
serverVars == <<limiterVars, streaming, phase, lock, engine, chunks, stuck, abandoned>>

Init ==
  /\ LimiterInit
  /\ streaming = {}
  /\ phase = [r \in Requests |-> "new"]
  /\ lock = None
  /\ live = {} /\ assemblers = {} /\ chunks = << >>
  /\ left = [r \in Requests |-> 0]
  /\ stuck = FALSE /\ abandoned = 0

Go(r, to) == phase' = [phase EXCEPT ![r] = to]

(***************************************************************************)
(* do_POST(): the limiter's check, then the checks of size and contents,   *)
(* which refuse a request that has paid, then a slot until the answer is   *)
(* sent or the error is reported.                                          *)
(***************************************************************************)
CheckGranted(r) ==
  /\ phase[r] = "new"
  /\ \E n \in Estimates : Grant(KeyOf[r], n)
  /\ Go(r, "checked")
  /\ UNCHANGED <<streaming, lock, engine, chunks, stuck, abandoned>>

CheckRefused(r) ==
  /\ phase[r] = "new"
  /\ \E n \in Estimates : Refuse(KeyOf[r], n)
  /\ Go(r, "closed")
  /\ UNCHANGED <<streaming, lock, engine, chunks, stuck, abandoned>>

Reject(r) ==
  /\ phase[r] = "checked"
  /\ Go(r, "closed")
  /\ UNCHANGED <<limiterVars, streaming, lock, engine, chunks, stuck, abandoned>>

Enter(r) ==
  /\ phase[r] = "checked"
  /\ Acquire(KeyOf[r])
  /\ Go(r, "guarded")
  /\ streaming' \in {streaming, streaming \cup {r}}
  /\ UNCHANGED <<lock, engine, chunks, stuck, abandoned>>

Leave(r) ==
  /\ phase[r] = "leaving"
  /\ Release(KeyOf[r])
  /\ Go(r, "closed")
  /\ streaming' = streaming \ {r}
  /\ UNCHANGED <<lock, engine, chunks, stuck, abandoned>>

(* The client of a stream is gone before its first chunk.                  *)
HeadersLost(r) ==
  /\ phase[r] = "guarded" /\ r \in streaming
  /\ Go(r, "leaving")
  /\ UNCHANGED <<limiterVars, streaming, lock, engine, chunks, stuck, abandoned>>

-----------------------------------------------------------------------------
(***************************************************************************)
(* Under engine_lock: the request is added to the engine, or refused by it *)
(* (empty, too long, or the queue is full).                                *)
(***************************************************************************)
Begin(r) ==
  /\ phase[r] = "guarded" /\ lock = None
  /\ lock' = r
  /\ live' = live \cup {r} /\ assemblers' = assemblers \cup {r}
  /\ left' = [left EXCEPT ![r] = MaxChunks]
  /\ Go(r, "driving")
  /\ UNCHANGED <<limiterVars, streaming, chunks, stuck, abandoned>>

BeginRefused(r) ==
  /\ phase[r] = "guarded" /\ lock = None
  /\ Go(r, "leaving")
  /\ UNCHANGED <<limiterVars, streaming, lock, engine, chunks, stuck, abandoned>>

(***************************************************************************)
(* A step: chunks for some of the live requests that have an assembler, in *)
(* any order (prefills come after decodes), the last one for some.  A      *)
(* request without an assembler is decoded for ever and never finished.    *)
(* A step may emit nothing, and so may all that follow: without chunked    *)
(* prefill a request, preempted or left behind, can outgrow the budget of  *)
(* a step or the pool, and then it is never scheduled again.               *)
(***************************************************************************)
Emitters == live \cap assemblers

Drives(r) == phase[r] = "driving" /\ chunks = << >> /\ ~stuck

Emit(order, done) ==
  /\ done \subseteq Range(order)
  /\ \A q \in Range(order) : left[q] = 1 => q \in done
  /\ chunks' = [i \in DOMAIN order |-> [from |-> order[i], final |-> order[i] \in done]]
  /\ live' = live \ done
  /\ left' = [q \in Requests |-> IF q \in Range(order) THEN left[q] - 1 ELSE left[q]]

Step(r) ==
  /\ Drives(r)
  /\ \E n \in 0..Cardinality(Emitters) : \E order \in [1..n -> Emitters] :
       IsInjective(order) /\ \E done \in SUBSET Emitters : Emit(order, done)
  /\ UNCHANGED <<limiterVars, streaming, phase, lock, assemblers, stuck, abandoned>>

Spin(r) ==
  /\ Drives(r)
  /\ stuck' = TRUE
  /\ UNCHANGED <<limiterVars, streaming, phase, lock, engine, chunks, abandoned>>

(* Whatever ends the turn of r, its lock is released on the way out.       *)
EndTurn(r) == lock' = None /\ chunks' = << >> /\ Go(r, "leaving")

(* mutant: only the turns that end well release the lock                   *)
TurnKeepsLock(r) == UNCHANGED lock /\ chunks' = << >> /\ Go(r, "leaving")

BrokenTurn(r) == EndTurn(r)

(* A step that raises loses the chunks of whom it had finished already.    *)
StepRaises(r) ==
  /\ Drives(r)
  /\ \E done \in SUBSET Emitters : live' = live \ done
  /\ BrokenTurn(r)
  /\ abandoned' = abandoned + 1
  /\ UNCHANGED <<limiterVars, streaming, assemblers, left, stuck>>

(***************************************************************************)
(* stream() yields a chunk, which goes to r's client if that asked for a   *)
(* stream and into r's answer otherwise; the first final chunk ends the    *)
(* turn, and generate() then drops r's assembler.                          *)
(***************************************************************************)
(* mutant: any chunk ends the turn                                         *)
EndsAtOnce(chunk) == TRUE

Ends(chunk) == chunk.final

AssemblersAfter(r) == IF r \in streaming THEN assemblers ELSE assemblers \ {r}

Relay(r) ==
  /\ phase[r] = "driving" /\ chunks # << >>
  /\ ~Ends(Head(chunks))
  /\ chunks' = Tail(chunks)
  /\ UNCHANGED <<limiterVars, streaming, phase, lock, engine, stuck, abandoned>>

RelayLast(r) ==
  /\ phase[r] = "driving" /\ chunks # << >>
  /\ Ends(Head(chunks))
  /\ EndTurn(r)
  /\ assemblers' = AssemblersAfter(r)
  /\ UNCHANGED <<limiterVars, streaming, live, left, stuck, abandoned>>

(* The write of a chunk fails: its client is gone.                         *)
Disconnect(r) ==
  /\ phase[r] = "driving" /\ chunks # << >> /\ r \in streaming
  /\ BrokenTurn(r)
  /\ abandoned' = abandoned + 1
  /\ UNCHANGED <<limiterVars, streaming, engine, stuck>>

-----------------------------------------------------------------------------
Handle(r) ==
  \/ CheckGranted(r) \/ CheckRefused(r) \/ Reject(r) \/ Enter(r)
  \/ HeadersLost(r) \/ Begin(r) \/ BeginRefused(r)
  \/ Step(r) \/ StepRaises(r)
  \/ Relay(r) \/ RelayLast(r) \/ Disconnect(r)
  \/ Leave(r)

Next == \E r \in Requests : Handle(r) \/ Spin(r)

Spec == Init /\ [][Next]_serverVars

(* A write to a client that no longer reads waits, for ever if need be: a  *)
(* chunk of a stream (under engine_lock), or the end of any answer.  The   *)
(* headers of a stream are the first bytes sent, and always fit.           *)
WritesChunk(r) == r \in streaming /\ phase[r] = "driving" /\ chunks # << >>

Writes(r) == WritesChunk(r) \/ phase[r] = "leaving"

(* Threads run on, but for those that wait for a client to read.           *)
FairSpec == Spec /\ \A r \in Requests : WF_serverVars(Handle(r) /\ ~Writes(r))

-----------------------------------------------------------------------------
(***************************************************************************)
(* Properties.                                                             *)
(***************************************************************************)
Phases == {"new", "checked", "guarded", "driving", "leaving", "closed"}

HandlersTypeOK ==
  /\ streaming \subseteq Requests
  /\ phase \in [Requests -> Phases]
  /\ lock \in Requests \cup {None}
  /\ live \subseteq Requests /\ assemblers \subseteq Requests
  /\ chunks \in Seq([from : Requests, final : BOOLEAN])
  /\ left \in [Requests -> Nat]
  /\ stuck \in BOOLEAN /\ abandoned \in Nat

TypeOK == LimiterTypeOK /\ HandlersTypeOK

(* A key's slots are the handlers it has inside their Guards, whatever     *)
(* ends them: errors and disconnects leak none and return none twice.      *)
Holders(k) == {r \in Requests : KeyOf[r] = k /\ phase[r] \in {"guarded", "driving", "leaving"}}

SlotsExact == \A k \in Keys : Slots(k) = Cardinality(Holders(k))

(* One handler drives the engine at a time, and has the lock.              *)
LockExact == \A r \in Requests : phase[r] = "driving" <=> lock = r

(* While stream() loops, its own request is alive unless the answer is     *)
(* about to end: the loop never runs out of work without a final chunk.    *)
HasFinal == \E i \in DOMAIN chunks : chunks[i].final

DriverAlive == \A r \in Requests : phase[r] = "driving" => r \in live \/ HasFinal

(* Abandoned requests do not multiply: between turns, the engine has at    *)
(* most one live request for each answer that broke off, though the turns  *)
(* they cut short leave their own request behind.                          *)
OrphansBounded == lock = None => Cardinality(live) <= abandoned

(* As long as no answer broke off, a client is sent only the chunks of its *)
(* own request, though every chunk of a step is relayed to it.             *)
OwnAnswer ==
  abandoned = 0 => \A i \in DOMAIN chunks : chunks[i].from = lock

(* A request is answered, refused or given up, unless its own client does  *)
(* not read, or the engine lock is pinned for everyone, in one of two ways:*)
(* the client of the stream that has it does not read ("Known",            *)
(* api.py:239-240), or the engine's loop goes round for nothing.  Nothing  *)
(* else pins it: no error, no client that goes away, no orphan, and no     *)
(* client that does not read an answer that is not a stream.               *)
Pinned == stuck \/ \E q \in Requests : WritesChunk(q)

ClosedUnlessPinned ==
  \A r \in Requests : <>(phase[r] = "closed") \/ <>[](Pinned \/ Writes(r))

(* "At most N concurrent requests per key" (serve/ratelimit.py:103): check  *)
(* and acquire are apart, so two requests may pass the check on one slot.  *)
ConcurrencyLimited == \A k \in Keys : Slots(k) <= ConcurrentPerKey

-----------------------------------------------------------------------------
(***************************************************************************)
(* The inductive invariant.  A turn adds one live request and, by the time *)
(* its final chunk is there, a step has finished one: the driver's own or  *)
(* an orphan, which then pays for the driver that it leaves behind.        *)
(***************************************************************************)
ChunksInTurn == lock = None => chunks = << >>

LiveCounted ==
  Cardinality(live) <= IF lock = None \/ HasFinal THEN abandoned ELSE abandoned + 1

DriverAlone == abandoned = 0 => live \subseteq {lock}

MoreToCome == \A q \in Emitters : left[q] > 0

EngineInv ==
  LockExact /\ DriverAlive /\ ChunksInTurn /\ LiveCounted /\ DriverAlone /\ OwnAnswer /\ MoreToCome

ServerInv == LimiterInv /\ HandlersTypeOK /\ SlotsExact /\ EngineInv
=============================================================================
