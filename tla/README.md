# GrocBot in TLA+

TLA+ specifications of GrocBot's core logic, model-checked with TLC on small
instances and, where it matters most, proved with TLAPS for every value of the
constants. Every definition is translated from the source; `PROJECT.json` maps
each to the lines it stands for. Paths below are relative to
`src/src/grokbot/` in the repository.

## The system

GrocBot is an inference stack in one Python process. An HTTP server
(`serve/`) or the command line (`cli.py`) hands prompts to an **engine**
(`inference/engine.py`), which adds them to a **scheduler**
(`inference/scheduler.py`). Each engine step asks the scheduler for a plan,
runs the planned prompt chunks and decodes, samples tokens, and returns text
chunks. Scheduler and engine share a **paged KV cache**
(`model/kv_cache.py`). On top of the engine sit an **agent loop** with tools
and working memory (`agent/`, `tools/`), safety filters (`safety/`), and two
experimental applications (a paper-trading bot and virtual pets).

| Component | State it keeps | Operations | What is hard | What makes it correct |
|:--|:--|:--|:--|:--|
| Paged KV-cache allocator `model/kv_cache.py` | blocks with reference counts, content hashes and timestamps; free list; hash index; block tables | allocate, append_token, fork, free, reset | prefix sharing, copy on write and eviction over long sequences of calls; one capacity check for many takes | no block in two private places, exact reference counts and free list, a shared block holds the sequence's own prefix, allocate never fails after its check |
| Scheduler `inference/scheduler.py` | waiting queue, running batch, each request's state and progress | add_request, abort, schedule, advance_prefill, append_token, finish | preemption inside the loops that iterate over the queues; capacity checked and not reserved; re-admission in the same step | order of arrival, blocks of running requests only, bounded queues, no token lost, every step ends |
| Engine `inference/engine.py` | scheduler, cache, one text assembler per request | stream, generate, _step, abort, reset | exceptions half way through a step; abandoned streams and who drives what they leave | cache and token positions agree; a loop that drives the engine ends |
| Stream assembly `inference/stream.py`, with `decode` of `tokenizer/bpe.py` | pending tokens, held-back suffix | push, finalize | a character split over tokens, a stop string split over pieces | the client gets the text up to the first stop string, once, whatever the pieces |
| Sampler `inference/sampler.py` | random state | sample | filters that work on what the one before left | some token can be drawn, and only those the settings ask for |
| Speculative decoding `inference/speculative.py` | context, counters | propose, verify, step | the place of the rejection; the token after it | the output is the target's |
| Draft trees `experimental/tree_attention.py` | nodes | add, expand_greedy, prune | renumbering what pruning leaves | the likeliest nodes stay, none without its parent |
| Mixture-of-experts router `model/moe.py` | cumulative load | route, reset_stats | capacity, and what overflows it | no expert over capacity, nobody passed over for nothing |
| HTTP server `serve/api.py` | the engine lock | chat completions, streaming | handler threads, slow readers and disconnects | a slot and a lock released on every path, requests closed unless a stream's reader or a spinning engine pins the lock |
| Rate limiter `serve/ratelimit.py` | buckets per key, concurrency counts | check, acquire, release, gc | check and acquire apart; gc of idle keys | limits hold for each key |
| Agent loop `agent/loop.py` | conversation, call budget, last call, failures in a row | run, reset | limits reached in the middle of a batch of calls; exceptions that are not tool errors | a failing model costs no more than the limits say |
| Working memory `agent/memory.py` | turns, summary | add, pin, clear | the summary it grows shrinks its budget | pinned and recent turns stay, the prompt outgrows its budget by no more than a summary and the calls nothing counts |
| Tool registry and sandbox `tools/` | registered tools; child process and pipe | validate_args; run | deadline against a child that hangs or floods the pipe | a call that is answered leaves no child behind and returns no piece of a result |
| Safety policy `safety/` | configuration | check_input, check_output, check_tool_args, check_tool_result | which stage filters what, and what no stage filters | what is blocked reaches neither memory nor answer, the text of a last error apart |
| Trading session `experimental/investor.py` | portfolio, proposals, journal, halted flag, counters of the day | propose, approve, reject, mark, halt, resume | limits checked at proposal and again at approval, against a state and a day that have moved | cash and positions match the fills, the journal tells them, no limit is exceeded |
| Price feed `experimental/investor.py` | price paths | closes | a path grown again when a longer one is asked for | the past does not change |
| Pets `experimental/pets.py` | hunger, energy, affection, hour of the last look | adopt, feed, play, pet, nap, look | every look decays first | looking changes nothing |
| Tokenizer `tokenizer/bpe.py` | cache of chunks | encode | merge order; overlapping special tokens; the cache | ids spell the text, as the training order has it |
| Configuration `config.py`, `cli.py` | a tree of settings | load, overrides, validate | a chain of files, the environment over each, options over all | the last word wins at every path, of those that are passed on |
| Metrics `telemetry/metrics.py` | buckets, sum, count | observe, render | observed and rendered at once, without a lock | a scrape shows what was observed between its begin and its end |
| Checkpoint loading `model/loader.py`, `model/transformer.py` | manifest | discover, read headers, validate, count parameters | two lists of the same matrices | strict loads accept exactly the right tensors; memory is planned for the model that loads |
| Backend `model/backend.py` and numerics, personas | tensors, static text | - | numerics and text | - |

Interactions: the engine calls the scheduler and the cache directly, in the
thread that runs `stream()`; the scheduler calls `can_allocate`, `allocate`
and `free` of the cache; the engine calls `append_token` and `free` through
the scheduler, and `append_token` directly for prompt chunks. The server
serialises its handler threads on one lock around the engine. The agent calls
the engine as a function from a conversation to a completion, its memory and its
policy directly, and a tool through the sandbox, a child process at the other end
of a pipe (a thread where there is no fork). Scrapes of `/metrics` read what
handler threads write. There are no callbacks. The other components share no state
with each other.

`PROJECT.json` lists what can go wrong at which line (`hazards`) and the
properties that watch over it.

## Modules

| Module | Models |
|:--|:--|
| `PagedKVCache` | the allocator: allocate, append_token (three cases), fork, free, reset, with prefix caching and eviction |
| `BlockPool` | what the allocator promises callers whose sequences share nothing: lengths, and a number of free blocks |
| `KVCacheAsPool` | the allocator, called the way the scheduler calls it, and its refinement mapping to `BlockPool` |
| `PagedKVCacheProofs` | the allocator's type correctness, all of its safety properties and that refinement, proved |
| `Scheduler` | the scheduler over a `BlockPool` |
| `Engine` | the step loop, composed with `Scheduler` |
| `EngineLoops` | who drives the steps: the loops of `stream()`, `generate()` and `benchmark_step()`, over `Engine` |
| `EngineProofs` | the engine's inductive invariant and ten properties, proved, for `EngineLoops` as well |
| `RateLimiter` | the token buckets and slots of every key under a moving clock: check, acquire, release, gc |
| `Server` | handler threads, composed with `RateLimiter`, the engine lock, and the generators `stream()` and `generate()` |
| `ServerProofs` | the inductive invariants and the safety properties of limiter and server, proved |
| `Agent` | the agent loop, composed with `WorkingMemory`, `SafetyPolicy` and `Sandbox` |
| `AgentProofs` | the inductive invariants of the loop and its sandbox, of the memory, and of what the policy lets into it, proved |
| `WorkingMemory` | turns, eviction under three strategies, the bounded summary |
| `SafetyPolicy` | filters, chains and stages, as functions |
| `Sandbox` | parent, child, pipe and deadline; the thread where there is no fork |
| `StreamAssembly` | incremental decoding and stop strings |
| `Sampling`, `Speculation` | the sampler's stages; drafting and verification on top of them |
| `SamplingProofs` | what a draw may give, and speculative decoding, proved |
| `ExpertRouting`, `DraftTree` | routing under capacity; growing, pruning and masking a draft tree |
| `TradingSession`, `PriceFeed` | the paper trading session with its limits, broker and portfolio; its prices |
| `Pets` | a household under a moving clock |
| `ExperimentalProofs` | the trading session, the price feed, the pets and the draft trees, proved |
| `Tokenization` | encoding: special tokens, chunks, merges, the cache |
| `ConfigLoading` | files that extend files, environment, options, validation |
| `Metrics` | a histogram between observing and scraping threads |
| `StandaloneProofs` | the histogram, the configuration, expert routing, checkpoints and streams, proved |
| `Sums` | lemmas about sums over tables and about recursive functions, which the other proofs cite |
| `Checkpoint` | shards, manifest, expected tensors and the parameter count |
| `MC*` | small instances for TLC |

### PagedKVCache

The variables are the fields of `PagedKVCache` and of its blocks: `ref`, `fill`,
`hash` and `lastUsed` per block, `free` (a set: which free block is popped is
immaterial, they are all empty), `index` and the block `tables`; `loading` and
`leaked` are history. A content hash is the sequence of chunks hashed so far,
which is what a chain of collision-free hashes identifies. `allocate` is
modelled a chunk at a time (`AllocateBegin`, `AllocateHit`, `AllocateMiss`,
`AllocateEnd`) because its loop takes blocks after one check up front;
`append_token` has one action for each of its branches, copy on write
included; `fork` onto a live child is allowed, as in the code.

The invariant (`IInv`, proved inductive in `PagedKVCacheProofs`) adds to the
properties the facts on which they rest: while `allocate` runs, the blocks
available cover the chunks it still has to load; every hash in the index is the
hash of exactly the block it names; a block shared by two tables is full.

`KVCacheAsPool` has the calls that the scheduler makes, for prompts of which no two
that are live begin with the same full block (`Unshared`: where they share, a sequence
takes fewer blocks than its tokens need, and is no worse off). Its mapping to `BlockPool`
forgets what is loading: a sequence enters the pool with the tokens of its prompt
when its `allocate` returns (`Finished`, `PoolTokens`), and the pool has left what no
finished sequence lists (`PoolAvailable`).

### Scheduler and Engine

`pc` is the position of the engine's thread: `idle` between steps, `decodes`,
`prefills` and `admissions` inside `schedule()`, then `execute`, `collect` and
`sample` inside `_step`. One action is one iteration of a loop, `todo` what
the loop has still to visit. `budget` is the local `token_budget`, `decode`,
`prefill` and `chunkSizes` the `SchedulerOutput`. `state`, `promptLen`,
`generated` and `offset` are the fields of a request; `tokens` and `available`
the cache. Requests arrive, are aborted and are reset between steps only,
because one thread does all of it. The list of finished requests, which only
grows and which nothing reads, is left out. `assemblers` are the keys of
`_assemblers`: a request that has none (`generate()` drops its own when its stream
has ended, which may be with another's last chunk) is still decoded, and never
finished (`engine.py:203-205`).

`EngineLoops` adds the `loop` that drives the engine: of a `stream()` or a `generate()`
call or of the benchmark. `LoopSteps` goes on while there is work; a stream returns at
the first final chunk of any request (`LoopReturns`), an exception ends the loop with
the step, and a stream may be closed by its consumer (`LoopStops`). What it leaves
behind waits for the next loop, if there is one.

Abstractions: a prompt is its length; which token is sampled matters only in
that it may end the request; an exception ends the step where the code raises
it and leaves queues and cache as they were at that point. The swap mode of
preemption does not exist: the constructor refuses it.
Variables marked *history* record what the properties speak of and no action
reads them, except for the two bounds.

### RateLimiter and Server

Every limiter call holds the limiter's lock, so each is one action; `Grant`
and `Refuse` are the two ways `check` ends. A dict is a function whose domain
is its keys. The levels of buckets, floats in the code, are whole multiples of
what a tick refills, and one call reads the clock once. `windowStart` opens
a period at any time, and `windowRequests` and `windowTokens` count what is
granted in it, so that the two rates hold of every period. `gc` is public,
though nothing in the repository calls it.

In `Server`, `phase` is where the handler of a request is: `new`, `checked` by
the limiter, `guarded` (inside its `Guard`), `driving` the engine, `leaving`,
`closed`. `lock` is `engine_lock`. The engine is reduced to what its callers
see: `live` are the requests it has not finished, `assemblers` those whose text it
still assembles, `chunks` what the current step returned and stream() has
still to yield. `stream()` is entered by `Begin`, steps with `Step` and yields
with `Relay`, `RelayLast`; it leaves by a final chunk, an exception of the step
(`StepRaises`) or because the client is gone (`Disconnect`). One action emits
at most one chunk for a request: the text and the final chunk of a last token
are one. A step may emit nothing, and `Spin` is the engine coming to a state in
which no further step does anything though it has work, as `EngineLoops` finds
it can. Whether a chunk has text to write is left out. The clock stands still in
`Server`; `RateLimiter` moves it.

What the composition shows is not obvious from the code. `stream()` yields
every request's chunks to whoever drives the engine and returns on the first
final chunk, whosever it is. After one client has gone, its request is an orphan
that the next handler drives; if the orphan finishes first, that handler
returns with the other's answer and leaves its own request behind, and so on.
`OrphansBounded` says that this passes an orphan on and never adds one,
`OwnAnswer` that nothing is mixed up before the first answer breaks off.

### Agent, WorkingMemory, SafetyPolicy, Sandbox

`phase` is where `run()` is: `chat` with the engine, going through the `calls` of a
completion, waiting for a `tool`, or `idle`. One action is one call of the
engine or one tool call; `Repeated`, `RefusedCall`, `Execute` and `Executed` are the ways
through `_execute`, `Raises` those on which an exception that is not a
`ToolError` leaves `run()`: arguments that are a list, an integer too large for
`int()`, a result whose pickle was cut. The engine answers every chat with one of a
set of completions. A text is the set of marks a filter's patterns would find in it,
so that `SafetyPolicy` is about which stage looks at what: prompts
and tool results pass the input filters, arguments and answers their own, and
prose beside a call and the texts of errors pass none. `lastError` is what such a text
has in it: the answer quotes it when failures in a row end the run. Refused arguments are
`ValidateArgs`, from the registry.

`WorkingMemory` counts tokens: `turns` with their kind, size and pin, `summary`
as the fragments it is made of. `add()` counts the content of a turn; what its tool calls
are rendered as in the prompt is `uncounted`. Nothing in the agent pins a turn or asks for another
strategy than "priority"; both are there for others, and `MCAgent` runs the memory on
its own as well.

`Sandbox` has `parent` (`check` the deadline, `read`, or `join`), `child`, and the
result on its way: `toWrite`, `pipe`, `got`, counted in reads. A read blocks,
so the parent in `read` waits for the pipe or for its end, whatever the clock
says. `tool` says what the call would return, how much of it and whether it ever
ends; `result = "none"` is a child that a resource limit kills.

### Components that stand alone

* `StreamAssembly`: a token is its bytes: characters of one byte, or the first of two,
  three or four bytes of a character (`lead2`, `lead3`, `lead4`) and those that continue it
  (`cont`). Which character it is does not matter, all longer ones are `wide`; bytes that UTF-8
  does not have, and forms longer than needed, are left out. `Push` and `Finalize` are those of `StreamAssembler`, with what `StopChecker` does in them. `decode_incremental`
  is modelled with its window of two decodings. What `decode` has of a text so far, and
  whether a character is open, is a fold over the tokens, told as a recursive function.
* `Sampling`: logits are integers whose softmax takes powers of two, so that all
  comparisons of the filters are exact; one that is minus infinity is left out of the vector,
  and a quotient is rounded down. `top_p`, `min_p` and the repetition penalty are in percent.
  A draw is any token with a weight. `Drawable`
  is `sample()` up to the draw. `Speculation` steps a whole round: any drafts,
  a rejection at one of them (`RejectAt`), or none and the bonus token (`AcceptAll`). At
  temperature 0 the code divides by 1e-6, and all but the best tokens underflow to 0.
* `ExpertRouting` routes a batch at a time; what a token gets is a set of experts, those
  with fewer better ones not yet full than it may have. `DraftTree` keeps the list of nodes and
  derives masks and positions from it as the code does.
* `TradingSession`: every call is synchronous and one action, but for `propose()`
  under "auto", which proposes and then approves and may raise in between
  (`ApproveRaises`). Prices follow the hour and money is whole. `PriceFeed` is where
  prices come from: the generator of a symbol is the sequence `Draws`.
* `Pets`: every action but `Watch` is an interaction. `unwatched` is history: the
  same household, never looked at.
* `Tokenization`: a token id is the bytes it spells. The merge loop of the code
  takes the lowest rank that occurs, again and again; the reference applies
  each merge once, in the order of the training.
* `ConfigLoading`: a tree is a function from paths to values. `Read` goes up the
  chain of files, `Return` merges down it and applies the environment, `Override`
  the options that `_load()` passes on: of all but the seed it asks whether they are
  true, so that `--max-running 0` says nothing (`Heard`). A path is a sequence of names. An option that was not given is `Unset`;
  a variable always has a value, if only null.
* `Metrics`: `observe()` adds to the sum and the count before it looks for the
  bucket (`Observe`, `Place`); a scrape renders a line at a time. Only these two
  sides interleave: Python switches threads at calls and loops.
* `Checkpoint`: a checkpoint is its shards' headers; `ExpectedTensors` and
  `ParamCount` are the two lists of the model's matrices. The names are tuples, so that
  a layer's tensors are those of its parts under a prefix (`Named`), put together
  (`Together`): no two parts have a name in common.

## What TLC checks

| Run | Shows |
|:--|:--|
| `kv_cache` | six properties of the allocator over every sequence of calls |
| `kv_cache_as_pool` | `PagedKVCache` implements `BlockPool` when sequences share nothing |
| `engine` | order, blocks, positions, tokens and termination of a step |
| `engine_loops` | liveness: every loop that drives the engine ends, unless a prompt is too long for any step |
| `rate_limiter` | the two rates of every period, whatever is refused or collected in it |
| `server` | slots, the lock and answers, over every interleaving of three handlers; what alone can keep a request from being closed |
| `agent` | the loop's limits, what the memory may overrun its budget by, what the policy keeps out, and the sandbox |
| `standalone` | twelve components side by side, sixteen properties |
| `cache_exception_escapes`, `max_tokens`, `step_budget`, `key_concurrency` | four statements of the repository that the code does not keep |

Type invariants and invariants that are only steps of a proof are not run, as far as
they are proved: `TypeOK` of the allocator, the engine and the server,
`LimiterTypeOK`, `NoBlockTwice`, `CapacityExact`, `IndexExact`,
`TablesAreRunning`, `QueuesBounded`, `OnlyGrantsCost`, `DriverAlive`.

`standalone` is one run of components that share nothing: `scene` says which of
them moves, the others rest in one of their initial states, so that its states are
the sum of theirs and not the product.

Bounds. `kv_cache`: three blocks of two tokens and two sequence ids are the
least that share a prefix, copy on write, evict and run out at once; the
clock allows five allocations or appends, and `MaxRef` 3 lets a block be shared
three ways. The four prompts have a common full block, a common second block
and none. `kv_cache_as_pool` has a fourth block, one of them reserved.
`engine`: four requests, two running and one waiting, so that preemption
overfills the queue, with three blocks of one token, so that decodes compete
for blocks; prompts of one and three tokens, the latter longer than a chunk, under
a budget of four. `MaxSampled` bounds the tokens of a request: no step begins once
one has so many (recompute preemption, or a missing assembler, would let it go on);
`MaxRaises` the exceptions before a reset. `engine_loops` has three requests, two of which
may run at once and one of which may lose its assembler, with three blocks of two
tokens and a budget of three, so that they are preempted and grow until a step cannot take
them. Its `MaxSampled` of twenty is never reached: a loop that came to it would
stop short of its end and break `LoopsReturn`. `cache_exception_escapes` has two
requests whose third tokens need a block each where one is free.

`rate_limiter`: two keys and four points in time, with buckets that are full again
after two ticks and an idle time of two, so that keys are collected and come
back within a period. `server`: three requests of up to two chunks, two with
one key that may run one at a time; two chunks let a request outlive a step, three
requests let an orphan be passed on.

`agent`: two runs of three iterations and four tool calls, so that both limits and two
failures in a row are reached, by five completions (an answer, a call, four calls
at once, a call that hangs, a call left in an open tag), under a policy that
refuses and one that redacts. The memory holds eleven tokens, two of them reserved for the
output; a turn takes up to three and the summary three, more than the reserve, as in
the presets; the calls of a turn add two. Five turns added at will reach
every strategy. A tool's result is up to three reads, the pipe holds one, the output cap
is two, and the deadline is one tick.

`standalone`: *trading* has three hours on two days, a share and a coin that doubles, three
proposals and five journal entries, with a cap of one order a day;
*prices* four days with a weekend; *pets* ten hours, two pets, two meetings;
*streaming* eleven tokens of a vocabulary that splits characters of three and four
bytes, in the code's window of eight, and stop strings that overlap; only sequences in which
no character is cut short are gone through, of which `StreamExact` speaks (ten tokens are the
fewest with which special tokens drown a character); *sampling* three tokens, three draws; *speculation* two drafts a round;
*routing* batches of one and of five for three experts; *drafting* five nodes,
three levels; *loading* chains of up to four files, one endless, one broken;
*encoding* two of thirteen texts with overlapping merges and specials;
*metering* three observations, two scrapes; *restoring* four models, nine
checkpoints each.

Fairness. Nobody steps the engine but the loops that drive it, so in `EngineLoops`
each loop is weakly fair as long as it is not over (`LoopRuns`), and nothing else is:
nobody has to begin a loop, and no request left behind has a right to one. That every request
is served is therefore no property of the engine, and none is stated. `LoopsReturn` says that
each loop comes to its end: in a final chunk, in no work or in an exception. What stands against it
is one state (`Wedged`): without chunked prefill a prompt must fit one step's budget and
the pool (`scheduler.py:220-224, 251-254`), and a request that was preempted, its output folded
into its prompt, or is left without an assembler and grows, may not; then `while has_work`
(`engine.py:158`) goes round for ever. The run bounds exceptions before a reset to one.

In `server` a handler is weakly fair except where it writes to a client (`Writes`): a
client that does not read may hold that up for ever. `serve/api.py:239` says of a stream's
chunk, which is written under the engine lock, that "a slow reader blocks this write and pins the
engine lock for everyone. Known." (so do `docs/deployment.md:109` and `SECURITY.md:56`).
`ClosedUnlessPinned` says that this, and an engine that goes round for nothing, is all that can keep
others from being closed, and that a client keeps itself from it by not
reading. The headers of a stream are taken to fit the socket's buffer, as the first bytes
written. The lock needs no strong fairness, because each handler takes it once.

Without fairness the runs check safety only: so do `agent` and `standalone`. A tool may hang for
ever.

### Disagreements found

* **`OutOfCacheBlocks` escapes.** `errors.py:43` says it "should never escape
  to a caller". `schedule()` asks `can_allocate(1)` for each decode in turn and
  reserves nothing. Two decodes that both cross a block boundary pass the check on one free
  block, and the second `append_token` raises out of `_step`. (Nor does it ask for blocks for
  prompt chunks in flight; `engine` has exceptions there as well.)
* **`max_tokens` is exceeded.** `tests/test_engine.py:48` asserts that no more
  than `max_tokens` are returned. `_preempt` folds the output into the prompt
  and clears it, and the limit is compared with the length of the output.
* **`max_batched_tokens` is exceeded.** `docs/deployment.md:71` calls it the
  budget of a step. A request preempted and admitted again in the admission
  loop is listed twice in `prefill` while `chunk_sizes` has one entry for it,
  so that the second size is executed twice.

* **More requests of a key run than the limit.** `ratelimit.py:103` promises
  "at most N concurrent requests per key". `do_POST` checks the count
  (`api.py:166`) and takes the slot later (`api.py:174`); requests of one key
  in between all pass.

Smaller ones, met while modelling, which no run is spent on:

* `tools/sandbox.py:3` says that a wall-clock budget is enforced. A child that keeps
  the pipe open and writes nothing holds the parent in `read` (`sandbox.py:136`)
  for as long as it lives.
* `tokenizer/bpe.py:197` says that an 8-token lookback is always enough. It is for
  ordinary tokens, and special ones count as well. In F0, 9F, 98, 80, S, S, F0, 9F, 98, 80 (a
  token for each byte, S special) the window begins within the first character; what is
  stripped of `before` then leaves nothing the lengths could be compared by, and replacement
  characters are emitted. Two special tokens in a row suffice. `StreamExact` is about texts
  without (`Undrowned`); `Lookback - 6` in a row is the fewest, for any lookback of seven or more.
* `agent/loop.py:252`: when failures in a row end a run, the answer quotes the last error as it
  is, though `docs/architecture.md:18` has output filters over what the engine says and
  `docs/tools.md:109` has tool output filtered on its way in: errors pass no filter
  (`BlockedStaysOut` excepts that answer).
* `agent/memory.py:88` counts the content of a turn, and `tokenizer/special.py:71-80` renders
  its tool calls into the prompt too; the summary may grow after the victims were chosen, so that
  what `tests/test_tools_and_safety.py:222` asserts, `used_tokens() <= budget`, need not hold;
  and in the presets `deep` and `research` (`agent/presets.py:141`, `:165`) its bound, an eighth of
  the context, exceeds the 4096 tokens reserved for the output. What is sent may be more than
  the context holds, by no more than `OverrunBounded` says.
* `docs/deployment.md:62` puts the flags of the command line last, over all. `cli.py:46-51` drops those
  that are false, `--max-running 0` and `--weights ""` (`LastWordWins` is about those passed on).
* `serve/api.py:239`: the slow reader above, and `engine.py:158`: the loop that goes round.
* The repeated-call guard (`agent/loop.py:227`) tells the model that a call which failed, or was
  refused, "returned the same thing".
* `tokenizer/special.py:91`: `strip_thinking` looks for the think tokens in a text
  from which `decode` has already dropped special tokens, so nothing is stripped
  from a completion that spells them as such.
* `inference/speculative.py` says that typical acceptance preserves the target's
  distribution exactly. It compares unfiltered probabilities, while drafts are drawn
  after penalties, temperature and filters: `TargetPreserved` holds of drafts drawn from
  the unfiltered distribution.
* `experimental/tree_attention.py:89` says that pruning may orphan a subtree. For
  probabilities of at most 1 it cannot: a parent is at least as likely as its child
  and comes first in a stable sort (`PrunesLeastLikely`).
* `experimental/investor.py:906`: `approve()` compares the cap of orders per day with
  the counter of the last mark, which may be yesterday's; one fill more than the cap is
  possible on a new day, no second one (`FillsPerDay`).
* `model/transformer.py:98` counts two matrices for an MLP whose activation is not gated, and
  `model/loader.py:119` expects three whatever the activation is; `CheckpointExact`
  speaks of gated ones. `load_backend` is never called strict, so the mismatch its
  docstring says fails in seconds is a warning.
* A path set through a value in a parent file raises, though a file that extends it
  replaces the value; `validate()` accepts a block size of zero as a power of two.
* If every token is suppressed, `softmax` is undefined; `PetBot.stream` does
  not record the turn; `BotPreset.memory_strategy` is never passed on by `build_agent`.

## What is proved

Constants are arbitrary: any finite set of requests or blocks, any lengths and
limits (natural numbers; block and chunk size positive), any prompts. These
assumptions are `SchedulerAssumption` and the ones named in `PagedKVCache`, and, of
the other modules, the ones named below or in their module; TLC evaluates each in the
runs of its module.

* `PagedKVCacheProofs`: `IInv` is inductive, and ten properties follow: the six of
  `kv_cache`, the action property `WritesArePrivate` included, the types, and that
  no table has a block twice, the capacity and the index are exact.
* `EngineProofs`: the argument of `IInv` in `Engine`. The queues in order of
  arrival (`ServedInOrder`) and without repetition make "the last of the running
  requests" one request, so that releasing its blocks keeps
  `TablesAreRunning`. `DecodeOrder` says that decodes already planned precede,
  in the batch, those still to come: the victim, being last, is never one that
  is planned already, unless it is the one being looked at, which the code
  skips (`PlannedDecodesRun`). `Progress` and `Lengths` give `CacheInStep`:
  a waiting request has processed and generated nothing, and a running one generates
  only once its prompt is done. `LoopsEnd` follows from the same invariant,
  because every admission costs budget.

  `BlocksAccounted` is about the sum over all tables: each action changes one table, and
  the sum by as much (`Sums`).
* `ServerProofs`: of the limiter, what a key was granted in a period plus what it could
  be granted now never exceeds the burst plus the refill (`Covered`). A grant
  moves from one to the other, a tick adds at most one refill to each side, and a
  collected key is one whose buckets are full, which is where
  `IdleAssumption` is needed: an hour refills every bucket. `GrantedRates` is
  `RequestRate` and `TokenRate`. Of the server, the live requests are at most the
  broken-off answers, and one more while a turn has no final chunk yet (`LiveCounted`). A
  final chunk means that a step finished one, the driver's own or an orphan that pays
  for the driver.
* `PagedKVCacheProofs`, the pool: every step of the allocator maps to a step of `BlockPool` or to
  a stutter. Besides `IInv` this takes `Apart`, that no two live sequences list
  the same block (a hit on a block of another table would mean that the two
  prompts begin with the same block), and `Promised`: while a prompt is loading, the
  blocks not in use cover it and the reserve, so that the check made when
  `allocate` began still holds when its step in the pool is taken. A finished
  sequence has exactly the blocks its tokens need, which gives the pool's arithmetic.
  `PoolAssumption`: of the watermarks that callers use there is a least.
* `AgentProofs`: `Handover` says who is where, and that what the child has still to write,
  what is in the pipe and what the parent has read make up the output; hence
  `SandboxAnswers`, whatever the deadline, the cap and the pipe. `InARow` says that
  the failures counted are the last results of the run, hence `RunBounded`.
  `ToolsAssumption`: a tool's result takes at least one read.
  `MemoryInv` is the memory's: eviction, which walks over the turns it has ranked
  before it gives up the first, ends with turns that fit into what the system prompt, the
  output and the summary of before leave, and the summary grows to its bound at most, hence
  `OverrunBounded`, for every size of context, reserve and summary. It is proved of the
  memory on its own, under every strategy and with pins, and of the agent's.
  `RecentKept` follows from the ranking: the newest turns come last in it. `TalkInv` adds that every
  turn and fragment the filters have to pass has passed them, hence `BlockedStaysOut`, an answer that quotes the last error apart;
  `PoliciesAssumption`: an enabled policy has its default filters (`pii` and `injection`
  of what comes in, `pii` and `leakage` of what goes out), which nothing in the code takes
  away.
* `ExperimentalProofs`, trading: `SessionInv` relates books, journal, proposals and the
  counters of the day. A fill is appended to the portfolio, recorded in its proposal and
  journalled in one call, so that the three lists agree in order and number
  (`FillsAudited`), and the sums of what was bought, sold and paid follow the fills
  (`BookBalances`). `NoOverdraft` is the hard one: the limits are checked at the touch,
  and the broker adds slippage and commission. The largest position a buy may leave is a
  share of the equity, so what its fill costs beyond the touch is a share of the equity too;
  `BufferAssumption` says that the cash buffer, which the limits keep, covers that share. It
  holds of the defaults (25%, 5%, 5 and 2 basis points). `FillsPerDay` takes
  the fills of a day to be those `approve()` counted, and one that it counted for
  the day before.
* Price feed: `FeedInv` says that every price cached or told is that of the walk from the
  anchor at that day, which no request changes (`SamePast`).
* Pets: the household and the one that was never looked at are alike once both
  are brought to the present (`Alike`). It rests on clamped drift being the same in one
  stretch as in two (`ClampUp`, `ClampDown`, `LookingBetween`), and on names telling
  pets apart, which `adopt` sees to.
* Draft trees: every tree has parents before their children (`IsTree`), so what holds of the
  root, and of a node if it does of its parent, holds of all nodes (`TreeInduction`), and the recursive
  functions over trees exist (`DescentExists`). A child is no likelier than its parent and
  comes later, so a node's parent is ahead of it in the order, and the first so many nodes are
  closed under parents (`BestIs`): the orphan case of `prune` never happens. By then what
  is left is what was kept under other numbers (`Relabelled`), with the same branches
  (`BranchesKept`); equal branches are equally likely (`BranchTells`), hence
  `PrunesLeastLikely`. `DraftTreeAssumption`: probabilities are at most 1.
* `StandaloneProofs`, metrics: `MetricsInv` says that buckets and the observations not yet
  placed add up to what has been observed, that the sum is that of the values, and, of each
  scrape under way, that what it has shown lies between its beginning and now. The
  counts only grow, so a line stays honest after it is rendered (`ScrapesHonest`).
* `SamplingProofs`, sampling: every order of tokens by logit exists and is the only one
  (`SortedIs`: the i-th token has i - 1 preferred to it), so top-k keeps what fewer than k surpass
  (`TopKIs`). The loop of top-p has collected, after every token, those with less than p
  ahead of them, and enough once there was one with more (`NucleusCollected`). A filter works
  on weights whose greatest is one again, but weights of fewer tokens are those of all but for a
  factor (`KeptAre`, from powers of two), so the thresholds can be put in terms of the weights
  before any filter (`FiltersLeave`), as `SamplesAsAsked` has them. `SamplingAssumption`:
  finitely many tokens, finite logits, `top_p` over 0 and `min_p` below 1, a repetition penalty over 0,
  and not every token suppressed. `GenerationConfig` checks none of the penalties, and one of 0.5
  makes a repeated token more likely: that a penalty makes nothing more likely is said of repetition
  penalties of 100 percent or more and others that are not negative (`Penalizes`).
* Speculation: in a round the context before the i-th draft is the old one and i - 1 accepted
  tokens. Under the greedy rule an accepted token is the target's best, and a
  suppressed token is never drafted, so it is the best of those not suppressed as well;
  a corrected or a bonus token is that by the sampler (`SpeculationExact`). `TargetPreserved`
  is arithmetic over the common denominator: what is accepted of a token, the smaller of the two
  probabilities, and what it lacks add up to the target's, and since both
  distributions have the same mass, what is rejected is what all tokens
  together lack. It is about a draft drawn from its distribution as it stands, and `propose()`
  (`speculative.py:98`) draws through the sampler, whose defaults (`top_p` 0.95, `top_k` 64) filter it
  first. `SpeculationAssumption`: the models' logits are finite.
* Configuration: `ConfigInv` says that, once the files from some level of the chain on are
  merged, the tree is the last words (`Won`) of those files, in turn, and of the
  environment (`SoFar`). The environment is applied again after every file, over what it
  had said itself; what it says the second time supersedes the first, word for word
  (`Superseded`), so the layers are the files, one environment and the options passed on, as
  `LastWordWins` has them. An assignment that raises meets a value of some layer (`Blocked`).
  `ConfigAssumption` only types files, variables and options.
* Routing: what a batch is promised is shown of the decision after every token of it
  (`Routed`), by induction on the tokens. The chosen are at most as many as allowed, are all that are
  not full when there are fewer, and with an expert all better ones are chosen
  (`TopKChosen`: by a best one not chosen, and a worst one chosen). At 100% or more the
  room of all experts, rounded up, is at least what the batch asks for (`CapacityRoom`);
  the loads add up to what the tokens got, so somebody has room while anyone is short (`RoomLeft`).
  `RoutingAssumption`: finitely many experts, at least as many as a token may have.
* Checkpoints: `CheckpointInv` says that the manifest is that of the shards read so
  far: it has their names, and for each what the last of them that has it says (`Latest`).
  That what is complete has `ParamCount` parameters is counted part by part (`Sized`): parts
  that have no name in common add up (`SizedTogether`), because a name tells
  by its length, its layer and its expert which part it is of, and a prefix changes no
  size (`SizedNamed`). So the two lists agree for every model with a gated activation
  (`SizedModel`). `CheckpointAssumption` types sections and checkpoints; there is
  at least one attention head, or the head size could not be computed.
* Streams: `StreamInv` says that what was sent and what is held make up the text so far, that no
  stop string occurs in it, and that what is held is its longest end that may still become one;
  after a stop string, that what was sent ends where the earliest begins. That a
  piece is just what the last token adds to the text of all tokens (`PieceExact`) is the
  decoder's part: the decoding of the window and that of the whole run in step, one token after
  the other. Where the window begins within a character, the bytes of it that are left, three at most,
  are replacement characters of the window, and the whole has the character instead (`Aligned`);
  until it is complete, or is cut short by a special token, the whole lags behind (`Straying`). Both
  decodings of a window begin alike, so what is stripped is the same of both as soon as the window
  has a character of its own, and it has one because tokens are not empty and special ones do not
  fill what is between (`WindowFull`). That the earliest stop string of the held text and the new piece is the
  earliest of the text is the checker's part (`NextOccurs`, `FeedSends`): one that began before
  what is held would have been a longer end. `StreamAssumption`: tokens and stop strings are
  not empty, and a lookback of at least seven tokens.
* `Sums`: the sum of a table over a finite set of keys, when one entry changes, when keys come
  and go, when every entry is at least another's, and of a sum of two tables. They are
  derived from `SumFunctionOnSet` by induction in its first-order form, over a set of
  numbers that has a least member if it is not empty; so are the facts about recursive
  functions.

Only model-checked: `LoopsReturn` and `ClosedUnlessPinned` (liveness), one of the sixteen of
`standalone`, and the four violations. The one is `EncodingExact`: it compares operators
built from `FoldLeft` and `SelectSeq`, whose argument is itself an operator and
which the backends cannot expand, with a reference definition. TLC compares the two for every input
of the run. What it says is false of merge lists in general, and is about those of the run.

## Not modelled, and plan

The plan is done but for the one that stays with TLC.

Left out for good, because no control state of another part depends on them: tensor
arithmetic and the synthetic backend, the random generators, the YAML and
safetensors formats, the patterns of the safety filters, chat templates and
rendering, personas and presets, analysts and reports of the trading bot, moods and
reactions of pets, the subcommands of the command line, tracing and logging. Statistics
are left out where nothing reads them.
