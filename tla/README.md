# Spexis: speculative pipeline parallelism in TLA+

Spexis is a fork of vLLM that serves large language models over a pipeline of
`PP` stages. With *speculative parallelism* an early-exit layer at stage 0
guesses the next token of every request, so that the request can enter the
pipeline again in the very next step, up to `PP` tokens ahead of the target
model. When a batch leaves the pipeline the target model's tokens are compared
with the guesses; a rejected guess is replaced and everything speculated after it
is discarded. With *look-ahead scheduling* requests whose guesses are
doubtful are dropped from speculation and drained.

This directory holds TLA+ modules of that protocol, TLC configurations that check
them on small instances and TLAPS proofs for all instances. `PROJECT.json` maps
definitions to source lines and lists runs, mutants, hazards, findings and
theorems. Paths below are relative to `src/spexis/`.

## 1. Inventory

| Component | State | Operations | Correct when |
|---|---|---|---|
| Request bookkeeping (`v1/request.py`, `spec_parallel/stop_check.py`) | `output_token_ids`, `sp_len` (unverified tokens), `spec_result`, `flush_len`, `just_fixed`, `fixed_idx`, the drop flags with `drop_len` and `drop_end`, `num_scheduled`, `num_computed_tokens` | speculative append, `verify_output_token_ids`, two stop checks, preemption reset | the counters agree with what is in the pipeline; verified tokens are the target model's; the request ends where greedy decoding ends |
| `SpexisScheduler` (`spec_parallel/scheduler.py`) | `waiting`, `running_scheduled`, `to_be_preempted`, `finished_req_ids`, `postpreempt_*`, `_cached_reqs_data` | `add_request`, `schedule`, `update_from_true_output`, `update_from_spec_output`, `_preempt_request` | no request lost or duplicated; FCFS; every request finishes; the worker learns of each correction exactly once |
| Engine core (`v1/engine/core.py`) | `batch_queue_for_spec`, `PP` deep | `step_with_spexis`: verify, schedule, launch, speculate | batches are verified in the order they were launched, one per step |
| KV cache manager and block pool (`v1/core/kv_cache_manager.py`, `block_pool.py`, `kv_cache_utils.py`, `specialized_manager.py`, `spec_parallel/kv_cache_manager.py`) | blocks and hashes per request; reference counts, linked free list, prefix cache | `get_computed_blocks`, `allocate_slots`, `free`, `touch`, `cache_full_blocks`, eviction, reset | never overcommitted; counts and free list exact; a step reads only KV entries of its own tokens |
| Worker state (`spec_parallel/gpu_model_runner.py`, `handle_inputbatch.py`) | the worker's copy of output tokens, block-table rows, KV entries | `_update_states`, `reorder_token_ids`, discard of partial-prefill samples | the target model sees the scheduler's tokens and blocks |
| Persistent batches (`handle_inputbatch.py`, `v1/worker/gpu_input_batch.py`) | request ids and indices, in two processes; tensor rows | add, remove, condense | both compute the same order; a row holds the state of its request |
| Shared-memory channel (`spec_parallel/shm.py`, `executor/ray_utils.py`) | flag, length, payload | spin and write (worker), spin and read (engine core) | each step reads, whole, the output of its own batch |
| Front end (`v1/engine/async_llm.py`, `output_processor.py`, `core_client.py`) | `generate()` tasks, `request_states`, collectors, queues to and from the engine core | add, abort, process outputs, collect | streams are whole, every client is answered, nothing leaks |
| Confidence drop and length-aware boost (`scheduler.py:606-723`) | buckets, drop flags | selection of the requests that keep speculating | the most confident ones keep speculating, as many as `drop_ratio` asks for |
| Length estimation (`scheduler.py:725-770`, `lookahead_scheduling/`) | memo tables of length probabilities, predicted lengths | projection of peak memory, `delay_prefill` | the tables are right; prefills are admitted up to the margin |

How they interact. The engine core is one thread. `step_with_spexis` (1) takes
the oldest batch from `batch_queue_for_spec`, waits for the target model's tokens
and calls `update_from_true_output`; (2) calls `schedule()`; (3) launches
the batch on the workers through a Ray DAG, which executes batches in order;
(4) reads the exit layer's tokens from shared memory and calls
`update_from_spec_output`. Requests arrive between steps. Scheduler and worker
share nothing but the messages of `_make_cached_request_data`, from which
the worker rebuilds its own token lists, block tables and batch. The front end is
a process of its own and exchanges ADD, ABORT and outputs with the engine core.

Hard behaviours (all listed as `hazards`, with lines): tokens and iterations are
paired by counters only, while up to `PP` iterations are in flight; a rejection
turns iterations that are in flight into stale ones; a drop can start
while stale iterations are being flushed; a request can be evicted with
iterations in flight and has to be drained before it is requeued; a
correction can fall between an eviction and a resumption; a prefill can be
split by the token budget; two processes share a segment with no lock; blocks
freed by an eviction are still written by iterations in flight; a step that
schedules nothing is not sent; aborts, stop strings and last outputs cross between
front end and core.

## 2. Modules

| Module | Models | Builds on |
|---|---|---|
| `SpecRequest` | one request's record and all operations on it, as operators | |
| `GreedyDecoding` | abstract specification: the user receives the target model's greedy tokens one at a time and the request is done exactly at the first stop | |
| `SpecPipeline` | one request in the `PP`-deep pipeline; other requests, budget and KV pressure are nondeterminism | `SpecRequest`; implements `GreedyDecoding` |
| `SpexisScheduler` | the scheduler with several requests, KV blocks, token budget, and the worker's token and KV state | `SpecRequest`; each request implements `SpecPipeline` and `GreedyDecoding` |
| `ConfidenceDrop` | one call of `_apply_confidence_drop` and `_length_aware_boost` on an arbitrary running list | |
| `LookaheadMemory` | the length estimates, their memo tables and the admission of prefills, call after call | |
| `KVBlocks` | block pool, prefix cache and KV cache manager under both schedulers | |
| `InputBatch` | the persistent batch of the engine core and that of the worker | |
| `ShmChannel` | both ends of the shared-memory protocol, one action per access | |
| `FrontEnd` | front end, queues and request intake of the engine core | |
| `SpecPipelineProofs`, `SpexisSchedulerProofs`, `LookaheadProofs`, `InputBatchProofs`, `KVBlocksProofs`, `KVSlotsProofs`, `ChannelsProofs` | theorems | the module they are about |
| `Iteration` | induction and loop invariants for folds, for any loop body | used by `InputBatchProofs`, `KVBlocksProofs`, `KVSlotsProofs` and `LookaheadProofs` |
| `MCSpecPipeline`, `MCSpexisScheduler` | values for the constants | |
| `MCLookahead`, `MCMemory`, `MCChannels` | two components each; a behaviour exercises one of the two, the other stays where it is | |

**`SpecRequest`.** The record has the fields of `Request` that the scheduler uses,
under their own names. The prompt is only counted. `verify_output_token_ids` has
the four outcomes of the code: flush a stale result, end a drop, accept, correct.
Python's negative slices are modelled with their behaviour at zero (`Back`,
`ReplaceTail`).

**`SpecPipeline`.** `pipe` holds, for each batch in flight, what it will yield
for the request: nothing (`Idle`), a partial prefill whose sample is
discarded (`Prefill`), or the target model's answer to the tokens the request
held when it was scheduled (`Sample`). `Verify`, the eight disjuncts of `Schedule`
and `Speculate` are the three phases of the engine step. The guess in `Speculate`
is an arbitrary token.

Whether the sample of an iteration is discarded is the worker's decision, and it goes by the
tokens the *worker* knows (`gpu_model_runner.py:694-705`). `Run` therefore lets the worker know
any number of tokens between the prompt and what the scheduler has (`known`). In
general it knows them all; after an eviction it may know fewer, down to what the
re-prefill chunk in hand covers (`gpu_model_runner.py:226`), and then the sample of a chunk
is kept. Which of these cases arise is `SpexisScheduler`'s subject.

Two constants take out the cases in which the code is not lossless. `EvictDropped` says
whether KV pressure may hit a request that is draining a drop (finding 1).
`SplitResume` says whether the prefill after an eviction may be split over iterations
(finding 2); prefills before the first output token are split in any case
(`ChunkedPrefill`). Both are `FALSE` in `pipeline` and in the theorems, and with
`SplitResume = TRUE` TLC does find `RealTokenIsLast` and `Lossless` violated. In the
instances of `SpexisScheduler` both kinds of split are allowed (`MaySplit`) unless the token budget covers all
requests at full length: `scheduler_lookahead` has a small budget and no evictions,
`scheduler_preempt` has evictions and a budget that never splits.

**`SpexisScheduler`.** `update_from_true_output` and `update_from_spec_output` are
one action each; `schedule()` is one action per loop iteration on a local copy of
the state that `dispatch` publishes, so a step of another component never sees
the middle of a call, as in the code. `allocate_slots` works on block counts;
`SPKVCacheManager` never finds a cached prefix, so identities do not matter
for the control. `delay_prefill` (`should_estimate_length`) and the boost are there
with an arbitrary projection and an arbitrary eligible subset: `LookaheadMemory` and
`ConfidenceDrop` say which. `persistent` is the set of requests in the worker's
batch and `row_blocks` the length of each block-table row. `worker_len` is the length of the worker's
`output_token_ids`, `kv` the token whose entry is at each output position:
what the target model computes depends on `kv`, not on what the scheduler believes.
Which requests pass the confidence selection is a nondeterministic subset
of the size the code computes.

**`ShmChannel`.** The payload is copied one cell at a time in either direction.
The Ray DAG is external: a launched batch arrives once. Memory is taken to be
sequentially consistent; numpy and Python give no such promise on weakly
ordered hardware, so the results are for x86-like machines.

**`ConfidenceDrop`.** A request is seen as real-token work, as skipped, or as a
candidate with a confidence and a length flag; `Sort` puts one request into its bucket
per step and the later actions are the loops of the two functions.
`SelectionCorrect` compares with a definition that knows nothing of buckets. Of the boost it
only asks that the additions are eligible and within the limit, not that they come from the
bucket at which the docstring says it resumes (see the observations in section 5).

**`LookaheadMemory`.** The code's floats are fractions over a common denominator, so
that its closed forms are exact. The memo tables are functions over the counts themselves: their
contents are modelled, the `n - 1` offsets of the Python lists are not, so a slip in those would not show.
`CachesCorrect` compares each entry with the count of all outcomes, and
`AdmissionWithinMargin` each admission with the largest projection over the candidates.

**`KVBlocks`.** The free list has its `prev`/`next` links. The hash of a block is the
tokens up to its end. The schedulers are reduced to the calls they make, in any order:
a waiting or running request gets a step, somebody is evicted for lack of room, a
step ends, a request stops. Any verified token may be the one that stops a request
(`_verify_and_collect`, `scheduler.py:1006-1011`), whether it runs or is being drained; `Finish`
then frees its blocks before anything else happens, while its stale steps are still on their way
and write to blocks that may already have a new owner. This is more than the code does in one
respect: a guess that stops the request is not followed by further steps of it
(`check_stop_from_spec`), in the model it may be. What the sample of a re-prefill
chunk does to the tokens is not asked here (finding 2). `slot_kv` records of which tokens each KV entry was
computed; a step ends by writing its entries and everything it attends over is compared
with its own tokens (`ReadsOwnTokens`). `spexis` chooses between the upstream regime (a
request has one step at a time, full blocks enter the prefix cache) and that of
Spexis (steps in flight with guessed tokens, draining evictions, no entries).

**`InputBatch`.** Each scheduler output is applied by `update_states` when it is
scheduled and by `_update_states` when the worker gets to it. Both iterate over Python
sets, in an order that is an arbitrary choice per process. A tensor row is the
request whose state it holds.

**`FrontEnd`.** Actions end where the event loop may switch: at an `await`. Thread
queues and sockets in a row are one FIFO queue. The scheduler is one state per request
(`ghost`: aborted, but still in `running_scheduled`). A disconnect has two forms. While
`generate()` awaits something it is cancelled and aborts its request (`abort`). While it is
suspended at its `yield` (`async_llm.py:289`, client state `yielding` or `last`) it is closed by
`GeneratorExit`, which its handler does not catch: nobody is told (`close`). `NoneOrphaned`
says for the first form, for tasks that return and for stop strings that in no state, in
whatever order messages cross, the engine core is left with a request that the front end has
given up and for which no ABORT is on its way. A request whose generator was closed is
computed until it ends by itself. `spexis_core` chooses between
the two `finish_requests`. An exception in the busy loop ends the engine core and, by
SIGUSR1, the front end: `alive` becomes false.

## 3. Runs

| Run | Instance | Shows |
|---|---|---|
| `pipeline` | PP = 4, prompt 2, at most 6 output tokens, 3 tokens of which one stops, chunks of the first prefill, drops and evictions | counters and pipeline agree (`InFlightAccounted`), the user has exactly the verified tokens (`UserSeesVerified`), a real token is the last one (`RealTokenIsLast`), no position past the limits is computed (`WithinModelLen`), drops and preemptions end, `Lossless` |
| `scheduler_preempt` | 3 requests, PP = 3, blocks of one token, too few for all to run to their end together | lists, statuses and blocks stay consistent (`NoRequestLost`, `KVCovered`), a requeued request has nothing in flight (`WaitingDrained`), eviction keeps arrival order where requests drain together (`StrictFCFS`), each request follows `SpecPipeline` (`ImplementsPipeline`), `Lossless`, `EveryRequestFinishes` |
| `scheduler_lookahead` | 2 requests, PP = 3, budget 2, blocks of 2 tokens, drop ratio 1/2, boost of 1, delayed prefills, no evictions | drops drain and resume, split prefills complete (`PrefillCompletes`), the worker's rows are the scheduler's blocks (`BlockTableAgrees`), `KVCovered` with partial blocks, `Lossless`, `ImplementsPipeline`, a delayed prefill is admitted in the end (`EveryRequestFinishes`) |
| `lookahead` | running lists of up to 4 requests, 2 buckets; batches and queues of up to 2, any number of calls | `SelectionCorrect`, `CachesCorrect`, `AdmissionWithinMargin` |
| `memory` | batch: 3 requests, 2 outputs under way. Blocks: 2 requests of up to 5 tokens, 3 usable blocks of 2, 2 steps in flight, one eviction | both batches dense and in the same order (`BatchConsistent`, `EmbeddingsInOrder`); the pool exact (`PoolExact`), no assertion fails (`AssertionsHold`), chains of the prefix cache whole (`ChainsUnbroken`), `ReadsOwnTokens` |
| `channels` | shared memory: 3 batches, messages of 1 to 3 cells. Queues: 2 requests of up to 3 tokens, all output kinds, stop strings, one eviction, both cores | `MutualExclusion`, `EachBatchItsOutput`, `BatchAnswered`; `StreamIntact`, `EveryClientAnswered`, and nothing is computed for a client that the front end has given up (`NoneOrphaned`) |

The other six runs each exhibit one disagreement between the code and what it says
(section 5).

*Bounds.* The bookkeeping compares counters that are at most `PP`, so `PP` = 4 with
up to 6 output tokens lets a rejection, the flush behind it, the refill of the
pipeline and a second rejection or a drop during the flush happen in one
behaviour; `PP` = 2 and 3 suffice where the question is about lists and blocks. Two
tokens are enough to be right or wrong; the target of the MC modules depends on the
last token and the length, so that an answer computed on a wrong token is
wrong. Two requests compete for blocks; the order of evicted requests takes three.
Three usable blocks are one less than two requests need: there are evictions, and
blocks freed by one request are written by its steps in flight while the other
owns them. Three batch rows let `condense` move a request over a gap. Bounds
that the real system does not have: `MaxPreempt` and `MaxEvict` (evictions per
behaviour), `MaxInFlight`, `NumBatches`, `MaxBatch` and `MaxWaiting`. The number of requests, lengths
and steps in flight are limits of the real system as well.

*Fairness.* `WF_vars(EngineStep)` (`WF_vars(Next)` for one request):
`run_busy_loop` steps as long as there are requests, and every step of the model
is an unconditional part of `step_with_spexis`. Arrivals are not fair. In the channel
worker and engine core are separate processes, each scheduled by the operating
system: weak fairness of each. In `FrontEnd` it is on the event loop per task (asyncio
runs ready tasks in turn), on the output handler, on the intake (`_process_input_queue`
empties the queue before each step) and on each request in the core, for which
`EveryRequestFinishes` is the justification. Clients need not come, nor
disconnect. `EveryClientAnswered` and `NoneOrphaned` except a core that has failed.
Deadlock detection is off only in `memory`, where all requests may have finished.

Every property of a passing run has a mutant in `PROJECT.json`, an edit of
one operator of the model (an off-by-one in `flush_len`, a lost flag, ...) that
the property catches.

## 4. Proofs

Seven modules hold theorems, an eighth (`Iteration`) lemmas about loops. All hold for every value of the constants that meets the
named assumptions of the component's module; each inductive invariant was checked by TLC
on a small instance before it was proved.

| Component | Theorems |
|---|---|
| one request in the pipeline | `TypeCorrect`, `Verified`, `Accounted`, `RealLast`, `Refinement`; `WithinLimits` |
| scheduler | `RequestsKept`, `PoolKept`, `WaitingKeptDrained` |
| confidence drop and boost | `DropTypeCorrect`, `SelectionIsTop` |
| length estimation and admission | `MemInvHolds`, `MemTypeCorrect`, `CachesKept`, `AdmissionKept`; for both calculations together `SideBySide`, `TypeCorrect` |
| KV cache manager | `KVInvHolds`, `KVTypesKept`, `PoolKept`, `AssertionsKept`, `ChainsKept`; `SlotsHold`, `OwnTokensRead` |
| persistent batches | `BatchTypes`, `BatchKept`, `EmbeddingsMatch` |
| front end | `FETypeCorrect`, `StreamsIntact`, `FrontEndForgets` |
| shared-memory channel | `TypeCorrect`, `Mutex`, `OwnOutput`; for both channels together `SideBySide`, `ChannelsTypeCorrect` |

**`SpecPipelineProofs`**: `TypeCorrect`, `Verified` (`UserSeesVerified`), `Accounted`
(`InFlightAccounted`), `RealLast` (`RealTokenIsLast`) and `Refinement` (`Spec =>
Lossless`, the implementation of `GreedyDecoding`). Assumed: `PP >= 2`, a prompt of at
least one token, `max_tokens >= 1`, and that `Target` maps outputs to tokens; nothing
else is known of `Target`, of the guesses and of how much of the output the worker knows.
The theorems have the hypotheses `EvictDropped = FALSE` and `SplitResume = FALSE`, without
which they are false (findings 1 and 2).

None of these properties is inductive: the counters of the request say how many
iterations are in flight, but not in which slot each is or what it will yield, and
verification pairs tokens with positions by arrival alone. The invariant `IInv` adds
the contents of the pipeline (`Flight`): seen from the oldest slot, there is at most
one block of *old* iterations (prefill chunks, or stale samples while `spec_result`
is `False`), then at most one block of *valid* samples, of which the i-th is
`Target` of the first `NumVerified + i - 1` output tokens; all other slots are idle. The sizes of
the blocks are the counters. `RunningInv`, `WaitingInv` and `PreemptedInv` say
what the flags mean where the request is (a request that is not dropped has its
valid block up to the newest batch, a requeued one has nothing in flight, `drop_end`
lives only until the next batch is scheduled, ...). So the oldest valid sample is
always `Target(user)`, which is the refinement step; a rejection turns the rest of the
valid block into the old block, which is why one block of each kind is enough;
and the flush must end before another sample can be judged.

The proof has a lemma for each way a slot enters or leaves the two blocks
(`Enter*Blocks`, `Leave*Blocks`), one for each outcome of `verify_output_token_ids`
(`VerifyPrefill`, `VerifyFlush`, `VerifyEndDrop`, `VerifyAccept`, `VerifyCorrect`) and
one for each disjunct of `Schedule` and `Speculate`; `NextStep` combines them.
`BlocksCount` counts the two disjoint intervals for `Accounted`.

That no sample of a chunk is kept is part of the induction (`RunEnters`): a
prefill that has not ended has no output yet (`RunningBlocks`), so that what the worker
knows, at least the prompt, is all there is; and a re-prefill in one piece ends
where the scheduler's tokens end.

The second part of the module is `WithinLimits` (`WithinModelLen`), under the same
two hypotheses. `IInv` says what is in flight but not how far speculation may
run, so `LenInv` adds `RoomToSpeculate`: a running request holds at most as many tokens as
the limits allow, and fewer unless it is dropped, which is what the stop check on every
guess achieves.
It rests on the type invariant, on `Verified` (what is verified has been sent, so an
unfinished request has room for at least one more token) and on a prompt shorter than
`max_model_len`, which `Processor._validate_model_input` (`v1/engine/processor.py:353`)
enforces.

**`SpexisSchedulerProofs`**: `RequestsKept` (`NoRequestLost`), `PoolKept` (`PoolRespected`,
the first part of `KVCovered`) and `WaitingKeptDrained` (`WaitingDrained`). They hold with
and without look-ahead scheduling, for chunked prefills, preallocation and any number
of requests, blocks and stages; no property of `Target` and no bound on guesses is used, and
findings 1 to 5 do not touch them. Three things have to be added for the induction
(`SchedInv`):

- `schedule()` moves requests between lists in several loops, and the properties speak of
  the published lists, which are stale meanwhile. `LocalInv` states the same for the local
  copy, at each place of the function, with the entries a loop has not come to yet
  (`todo`) as part of the lists: the preemption loop has emptied `to_be_preempted`, and
  each entry it has not retried is due to come back.
- Status, `should_preempt` and list determine each other (`PlacedAt`), a request outside
  the lists has no block, and a request in `waiting` has `num_scheduled = 0`.
- `num_scheduled` is at least the number of batches in flight that hold the request
  (`Counted`, inside `schedule()` with the batch being built). This is what makes the
  test `num_scheduled == 0` of `_preempt_request` safe: it is an over-approximation in
  every state, so a request it lets through has nothing in flight.

For the pool, the blocks held are a set of pairs (request, index), so that its size grows by
what `allocate_slots` adds and by no more; the guard of `allocate_slots` and the cap on
preallocated blocks then bound it. There is one lemma per action (`ScheduleKeeps`, `RetryKeeps`, ...,
`SpecOutputKeeps`, `AddKeeps`), and `NextSched` combines them.

**`LookaheadProofs`**, about `ConfidenceDrop`: `DropTypeCorrect` and `SelectionIsTop` (`SelectionCorrect`), for
any running list, number of buckets, ratio and boost. `SelectionCorrect` defines the
preferred candidates by counting, the code finds them by a bucket sort and a pass over the
buckets whose indices the boost takes over. `DropInv` has one part per phase: while sorting, the
buckets are exactly the candidates read so far, each in its bucket, in order
(`SortInv`); while passing, what has been passed is closed under preference and its
size is what the budget has lost (`PassInv`); in the boost, the preferred ones
stay passed and each addition is eligible and paid for (`BoostInv`). The key lemma is
`ClosedIsTop`: a set of candidates closed under preference, of the size of the quota or
else all of them, is the set of preferred ones.

About `LookaheadMemory`: `CachesKept` (`CachesCorrect`), `AdmissionKept`
(`AdmissionWithinMargin`) and `MemTypeCorrect`, for every depth of the pipeline, acceptance
probability, list of iterations and thresholds, and for batches and queues of any length.
`CachesCorrect` compares the closed forms with the sum over all *outcomes*, each a function
that says which speculations were accepted and which rejected. An outcome is given by the places of its
rejections (`OutcomesCounted`), and their number follows from the length and the iterations
alone: each rejection takes `PP - 1` iterations more than an acceptance. So outcomes of one length
are counted by a binomial, and all have the same probability (`ProbLenRight`); where
the code tests a remainder there is no outcome at all. `calculate` sums over the number of
rejections where the reference sums over lengths (`CalculateRight`), a change of variable. Sums over sets
of any size (`SumFunction`, a choice-based fold) come with lemmas proved from
`FiniteInduction`: `SumPeel`, `SumAdd`, `SumLinear`, `SumZeros`, `SumReindex` and others. The inductive
invariant `MemInv` says of the loops: entry j of `mem_usage` is the projection for
iteration j of the batch with what has been admitted so far (`ProjectionRight`), `peak` is the largest of them
(`PeakRight`), and `PhaseRight` says which comparison with the margin has been made in each phase.

`SideBySide` says that `MCLookahead`, whose behaviours exercise one of the two calculations,
implements the specifications of both; `SideBySide` of `ChannelsProofs` says the same of `MCChannels`.
Their type invariants follow.

**`Iteration`**. The models write a loop of the code as a fold, and what a fold computes for
a list of any length takes induction. The library's induction theorems take an
operator as a parameter, which the provers cannot instantiate; `Induction` states the same for
a *set* of naturals and is proved from the well-foundedness of `<`. The loop body and the loop
invariant are constant operators of the module (`Step`, `Good`), so that a module that needs
the lemmas for one loop takes them with `INSTANCE ... WITH`. `LoopKeeps`: if `Good` holds
before the loop and each round keeps it, it holds after it; `LoopTrace`: the
states the loop goes through, for two loops that have to be compared.

**`KVBlocksProofs`**: `KVTypesKept`, `PoolKept` (`PoolExact`), `AssertionsKept`
(`AssertionsHold`) and `ChainsKept` (`ChainsUnbroken`), for both schedulers, any number of
requests and blocks, any block size, preallocation and length of the pipeline. Assumed:
finitely many requests, prompts of 1 to `max_model_len - 1` tokens, which
`Processor._validate_model_input` enforces. The inductive invariant
`KVInv` has three parts.

- `Pool`: there is a sequence of blocks that the links of the free list spell out in both
  directions (`Linked`); a block is in it exactly when nobody owns it, and its reference count
  is the number of its owners (`Counted`); `cached` and `block_hash` say the same
  (`Entries`). `ChainsUnbroken` needs more than that: evicting the last block
  with some hash must not leave a longer hash behind. `Chains` says why it does not: for
  each block with a hash, some block with its parent's hash outlives it, that is, is in
  use or comes later in the free list (`Outlived`); the reverse order in `free` is what
  counts here. A hashed block of a request comes after its parent, and a
  block without a hash has at most one owner.
- `RequestOK`, per request: the tokens and counters are in range, a request that does not run
  owns nothing, and one that waits has nothing in flight.
- `HashesOK`, upstream only: `req_to_block_hashes` holds the hashes of the tokens the request
  has now, and exactly its full blocks bear theirs. In Spexis no block has a hash, so the
  hashes that a correction leaves stale are never used.

There is one lemma per operation on a block (`RemoveKeeps`, `AppendKeeps`, `TouchKeeps`,
`EvictKeeps`, `TakeKeeps`, `FreeKeeps`, `CacheKeeps`), one per loop (`HitKeeps`,
`NewBlocksKeep`, `GiveBack`, `FullBlocksKeep`, `FollowList`), `AllocateKeeps` for
`allocate_slots` with all its assertions, and one per action; `KVInvStep` combines them.

**`KVSlotsProofs`**: `OwnTokensRead` (`ReadsOwnTokens`), from the same assumptions. A step in flight
has still to write its KV entries, and its blocks may by then belong to somebody else, so
what the slots hold *now* says little. The invariant `SlotInv` adds to `KVInv` that there is a
sequence `f` of contents of all slots (`Future`): `f[0]` is what the workers have now, `f[k]` what
they will have when the k oldest steps have written. Then

- `f[k]` holds all tokens of the k-th step, those computed before it included;
- after the last step, the blocks of each running request hold its computed tokens
  (`RequestHolds`), and a block with a hash holds the tokens of the hash (`CacheHolds`);
- a step that no correction has made void has a prefix of the tokens its request has now
  (`StepFollows`).

Nothing is asked of the blocks of a request that was evicted, or freed when it stopped. Whoever gets them sends steps of their own
later and the workers keep the order, so those writes come after the late ones; this is why a
sequence of contents is enough and no account of pending writes is needed. When a
step is sent (`SendsSlots`), `f` grows by one, and the new step writes only to blocks without a hash
that nobody else owns (`NewApart`, from `Extends` in `KVBlocksProofs`), so the other requests
(`OthersHold`) and the prefix cache (`CacheSent`) keep what they have; when a step ends (`WorkSlots`), `f`
loses its first element, and a correction only shortens what the request claims. A waiting
request takes over the tokens of a hit from `CacheHolds` (`HitHolds`).

**`InputBatchProofs`**: `BatchTypes`, `BatchKept` (`BatchConsistent`) and `EmbeddingsMatch`
(`EmbeddingsInOrder`), for any number of requests and outputs under way. The worker is behind
the engine core, so the invariant `BatchInv` speaks of the batches the worker *will* have: there is a
sequence of batches, one per scheduler output under way, that starts with the worker's batch now
and of which each is the previous one updated by its output; the embeddings of
each output follow the order of its batch, and the last one is the batch of the engine core.
Core and worker iterate over Python sets in orders of their own, so the key
lemma `UpdateStates` is that an update has the same result for any two orders: removals commute
(`RemoveAll`), the freed rows are sorted before they are filled (`AddAll`), and `condense` then
moves the same requests in both processes, each with its row (`CondenseAll`).

**`ChannelsProofs`**, for `FrontEnd`: `FETypeCorrect`, `StreamsIntact` (`StreamIntact`) and
`FrontEndForgets` (`NoneOrphaned`): the output processor has
no state of a request whose task has returned or was cancelled, and a request it has given up
while the engine core holds it, or has its ADD in the queue, has an ABORT in the
queue behind that ADD. The invariant behind it, `Messages`, says that a request is added
at most once, by its task, that a last output in the queue means that the core no longer has the
request, and that the ABORT stays behind the ADD. Of a closed generator the theorem says nothing.
`FEIInv` adds `TokensOnTheirWay`, that the tokens detokenized and those in the output queue
are no more than the core has made, so that the counters stay in range, and
`Streams`, which ties the task, its collector and its entry in `request_states`
together: a finished output waits in the collector only after the entry is gone, so that
nothing can be merged behind it.

For `ShmChannel`: `TypeCorrect`, `Mutex` (`MutualExclusion`) and `OwnOutput`
(`EachBatchItsOutput`), from `SizesAssumption`, `MessageAssumption` and
`BatchesAssumption`. The inductive invariant adds to the type invariant that the output of the
current batch is in exactly one place (still with the worker, in the segment
behind the flag, or with the engine core; `OnePlace`) and that the first k cells of
a copy in progress agree with its source (`Progress`).

Left to TLC, and why:

- Liveness (`DropEnds`, `PreemptionCompletes`, `EveryRequestFinishes`, `PrefillCompletes`,
  `BatchAnswered`, `EveryClientAnswered`, and the liveness in the refinements): fairness and `ENABLED` are outside the prover.
- `Lossless` and `ImplementsPipeline` of the scheduler, its `TypeOK` (which bounds
  the token counters) and the last part of `KVCovered`. They rest on the token
  bookkeeping, which findings 1 to 3 show to be wrong in some configurations; they hold
  in those of the runs. For one request the bookkeeping is proved in
  `SpecPipelineProofs`, and `ImplementsPipeline` is what connects the two.
- `StrictFCFS` and `BlockTableAgrees`, which findings 4 and 5 refute in general.

## 5. Findings

1. `stale_drop_end`: `_preempt_request` (`scheduler.py:1113`) does not reset
   `drop_end`. A request evicted while its drop drains gets `drop_end` from the last
   verification, is requeued with it, and its first speculated token
   after resumption is scheduled as if it were real. The output is no longer the
   target model's. `pipeline` and `SpecPipelineProofs` therefore assume
   `EvictDropped = FALSE`.
2. `chunked_resume`: when the re-prefill of a preempted request is split, the worker
   does not know of the tokens after the chunk (`gpu_model_runner.py:226`), so it
   samples in the middle of the output and the sample is sent to the user.
3. `chunked_drop`: a request in the output part of a split re-prefill is not
   considered real-token work; the drop then sets `drop_len` to 0 with nothing in
   flight and the request is never scheduled again.
4. `overtake`: evicted requests that drain in different steps are requeued
   newest first.
5. `block_table`: when a step evicts a request and schedules nothing, the workers hear
   nothing of it and the request stays in the persistent batch. It resumes with all its
   blocks new, and `_update_states` appends them to its old row
   (`gpu_model_runner.py:256`), so the worker uses blocks the request has lost.
   `scheduler_preempt` therefore does not check `BlockTableAgrees`.
6. `abort_crash`: `finish_requests` leaves a running request in `running_scheduled`
   (`scheduler.py:1077`); the next step fails on it and the engine goes down. The
   comment there calls the path unused, but a disconnect and, for requests with stop
   strings, `process_outputs` both send ABORT. An abort of a request that waits in
   `to_be_preempted`, and a request with a temperature other than 0
   (`scheduler.py:1044`), end the engine core in the same way.

Observations that need no behaviour to see, met on the way: the assertion before the
write to shared memory leaves out the length header (`ray_utils.py:244`);
`finished_req_ids` of a step that is not sent are lost, so that workers keep the state
of those requests (`scheduler.py:563`, the cause of finding 5 as well);
a client that disconnects while `generate()` is suspended at `yield out` closes the generator,
and its request is never aborted, although the comment at `async_llm.py:291-293` says that a
disconnect cancels the task and aborts the request;
`_length_aware_boost` does not resume in the bucket that was cut, because `tmp_idx`
has been decremented (`scheduler.py:669`), although its docstring says so;
after a correction the persistent batch still refers to the old
`output_token_ids` list of the request (`gpu_model_runner.py:203`).

One more, met in a configuration outside the runs. With `long_prefill_token_threshold > 0`
and the confidence drop, the running loop (`scheduler.py:262`) can use up the budget before it
reaches the last running request, which is then missing from a batch without being dropped or
evicted. A correction that arrives in the next steps has `sp_len = 1`, hence `flush_len = 0` with
`spec_result` `False`, and the next real sample is flushed as if it were stale; the output is no
longer the target's. TLC finds it with `PP = 3`, three requests, `MaxNumBatchedTokens = 3`,
`LongPrefillThreshold = 2`, drop ratio 1/2 and `MaxModelLen = 8`, after some ninety states. The
comment at `scheduler.py:257-259` calls real-token work unconditional. All runs have
`LongPrefillThreshold = 0`.

## 6. Not modelled

- Numerical code: models, attention, kernels, exit layer, sampler, the length predictor's
  network. Their outputs are arbitrary values.
- Transport inherited from vLLM: Ray (a FIFO pipeline here), ZMQ and message encoding (a
  FIFO queue), `distributed/` with its `MessageQueue` ring buffer, which Spexis' Ray
  executor does not use.
- The V0 engine (`engine/`, `core/`, `worker/`), the OpenAI server, multi-modal
  processing, LoRA, structured output (`WAITING_FOR_FSM`), speculative decoding with
  draft models and encoder inputs: code of the fork's base that Spexis neither uses nor
  changes. It is most of the repository's lines and none of its own logic, so the share
  of lines that the map covers stays small.
- In modelled parts: parallel sampling (`n > 1`), utility calls, data parallelism,
  sliding-window attention, hash collisions, `_prepare_inputs` and tensors.
- Process start-up, and the loss of a worker process, which the code does not handle.
- `finish_requests` inside `SpexisScheduler`: it is modelled in `FrontEnd`, with the
  scheduler reduced to one state per request, which is enough to see what it breaks.

## 7. Plan

Done: all modules of section 2 and the proofs of section 4. To prove next:

1. The half of `BlockTableAgrees` that holds in general: the worker knows every unfinished
   request a batch on its way contains.
2. The safety part of `ImplementsPipeline` for configurations without eviction of dropped
   requests and without chunked re-prefills. Liveness stays with TLC.
