-------------------------- MODULE SpexisScheduler --------------------------
(***************************************************************************)
(* SpexisScheduler (spec_parallel/scheduler.py) driven by                  *)
(* EngineCore.step_with_spexis, with the part of the worker's state that   *)
(* decides which tokens the target model sees and which of its results     *)
(* are discarded.                                                          *)
(*                                                                         *)
(* The engine core is one thread: update_from_true_output and              *)
(* update_from_spec_output are one action each, and schedule() is one      *)
(* action per iteration of its loops.  They work on `local', a record with *)
(* the scheduler's state and the locals of schedule(), and the last one    *)
(* (dispatch) publishes it, so that the other components only see whole    *)
(* calls of schedule().                                                    *)
(*                                                                         *)
(* Nondeterminism: when requests arrive, which token the exit layer        *)
(* guesses, and which requests the confidence selection keeps.             *)
(***************************************************************************)
EXTENDS SpecRequest, SequencesExt

CONSTANTS Rid,                    \* request ids
          NumPromptTokens,        \* [Rid -> Nat]: len(prompt_token_ids)
          MaxTokens,              \* [Rid -> Nat]: sampling_params.max_tokens
          Target(_, _),           \* the target model's greedy token of a
                                  \* request after an output prefix
          PP,                     \* pipeline_parallel_size
          MaxNumSeqs,             \* max_num_running_reqs
          MaxNumBatchedTokens,    \* max_num_scheduled_tokens
          LongPrefillThreshold,   \* long_prefill_token_threshold, 0 = off
          EnableLaSched1,         \* spexis_ver >= 2.0
          DropNum, DropDen,       \* drop_ratio = DropNum / DropDen
          EnableLaSched2,         \* spexis_ver = 2.5
          MaxBoost,               \* la_sched2_max_reqs
          MemEstiBlocks,          \* mem_esti_bar, in blocks
          NumBlocks,              \* KV blocks, the null block not counted
          BlockSize,
          NumPreallocateBlocks

ASSUME RequestAssumption ==
    /\ IsFiniteSet(Rid)
    /\ NumPromptTokens \in [Rid -> 1..(MaxModelLen - 1)]
    /\ MaxTokens \in [Rid -> Nat \ {0}]
ASSUME SizeAssumption ==
    /\ PP \in Nat /\ PP >= 2
    /\ {MaxNumSeqs, MaxNumBatchedTokens, NumBlocks, BlockSize} \subseteq Nat \ {0}
    /\ MaxNumBatchedTokens >= MaxNumSeqs
    /\ {LongPrefillThreshold, NumPreallocateBlocks, MaxBoost, MemEstiBlocks} \subseteq Nat
    /\ DropNum \in Nat /\ DropDen \in Nat /\ DropNum < DropDen
    /\ {EnableLaSched1, EnableLaSched2} \subseteq BOOLEAN
    /\ EnableLaSched2 => EnableLaSched1

VARIABLES
    \* the scheduler
    requests,         \* [Rid -> Request]
    waiting, running_scheduled, to_be_preempted,
    postpreempt,      \* [Rid -> postpreempt_fixed_idx, or -1]
    cached_reqs,      \* keys of _cached_reqs_data
    finished_req_ids,
    req_to_blocks,    \* [Rid -> number of KV blocks held]
    \* the engine core
    phase, queue,     \* batch_queue_for_spec: [Rid -> Slot] per batch
    local,            \* schedule() in progress, or NoCall
    arrived, user,
    \* the worker
    worker_reqs,      \* keys of the worker's requests
    persistent,       \* requests in the persistent batch (input_batch)
    row_blocks,       \* [Rid -> blocks in the request's block table row]
    worker_len,       \* [Rid -> length of the worker's output_token_ids]
    kv                \* [Rid -> token whose KV entry is at an output position]

schedVars == <<requests, waiting, running_scheduled, to_be_preempted,
               postpreempt, cached_reqs, finished_req_ids, req_to_blocks>>
workerVars == <<worker_reqs, persistent, row_blocks, worker_len, kv>>
vars == <<schedVars, phase, queue, local, arrived, user, workerVars>>

Idle == [kind |-> "idle"]
Prefill == [kind |-> "prefill"]
Sample(t) == [kind |-> "sample", tok |-> t]
Slot == {Idle, Prefill} \cup {Sample(t) : t \in Token}

NoCall == [pc |-> "idle"]

EmptyBatch == [r \in Rid |-> Idle]

\* Mutant: one entry too few.
QueueOneShort == [i \in 1..(PP - 1) |-> EmptyBatch]

\* batch_queue_for_spec starts with one empty entry per pipeline stage.
batch_queue_for_spec == [i \in 1..PP |-> EmptyBatch]

NoToken == "unwritten"
Positions == 1..MaxModelLen

Init ==
    /\ requests = [r \in Rid |-> NewRequest(NumPromptTokens[r], MaxTokens[r])]
    /\ waiting = <<>> /\ running_scheduled = <<>> /\ to_be_preempted = <<>>
    /\ postpreempt = [r \in Rid |-> -1]
    /\ cached_reqs = {} /\ finished_req_ids = {}
    /\ req_to_blocks = [r \in Rid |-> 0]
    /\ phase = "verify"
    /\ queue = batch_queue_for_spec
    /\ local = NoCall
    /\ arrived = <<>>
    /\ user = [r \in Rid |-> <<>>]
    /\ worker_reqs = {} /\ persistent = {}
    /\ row_blocks = [r \in Rid |-> 0]
    /\ worker_len = [r \in Rid |-> 0]
    /\ kv = [r \in Rid |-> [i \in Positions |-> NoToken]]

-----------------------------------------------------------------------------
(* Requests arrive between two engine steps. *)

add_request(r) ==
    /\ phase = "verify"
    /\ ~Contains(arrived, r)
    /\ arrived' = Append(arrived, r)
    /\ waiting' = Append(waiting, r)
    /\ UNCHANGED <<requests, running_scheduled, to_be_preempted, postpreempt,
                   cached_reqs, finished_req_ids, req_to_blocks, phase, queue,
                   local, user, workerVars>>

has_requests ==
    \/ waiting # <<>> \/ running_scheduled # <<>> \/ to_be_preempted # <<>>
    \/ finished_req_ids # {}

-----------------------------------------------------------------------------
(* Step 1: update_from_true_output on the batch that leaves the pipeline. *)

Tracked(r) == Contains(running_scheduled, r) \/ Contains(to_be_preempted, r)

Retire(q, slot) ==
    LET c == [q EXCEPT !.num_scheduled = @ - 1]
    IN  IF slot.kind = "sample"
        THEN check_stop_from_validation(verify_output_token_ids(c, slot.tok))
        ELSE c

\* The elements of l that are not in gone, in their order.
Without(l, gone) ==
    LET kept == {i \in DOMAIN l : l[i] \notin gone}
        rank(i) == Cardinality({j \in kept : j <= i})
    IN  [k \in 1..Cardinality(kept) |-> l[CHOOSE i \in kept : rank(i) = k]]

update_from_true_output ==
    /\ phase = "verify" /\ phase' = "schedule"
    /\ has_requests
    /\ queue' = Tail(queue)
    /\ LET batch == Head(queue)
           seen == {r \in Rid : Tracked(r) /\ batch[r].kind # "idle"}
           done == {r \in seen : is_finished(requests'[r])}
       IN  /\ requests' = [r \in Rid |-> IF r \in seen THEN Retire(requests[r], batch[r])
                                         ELSE requests[r]]
           /\ user' = [r \in Rid |->
                  IF r \in seen /\ batch[r].kind = "sample" /\ send_to_user(requests[r])
                  THEN Append(user[r], batch[r].tok) ELSE user[r]]
           /\ running_scheduled' = Without(running_scheduled, done)
           /\ to_be_preempted' = Without(to_be_preempted, done)
           /\ req_to_blocks' = [r \in Rid |-> IF r \in done THEN 0 ELSE req_to_blocks[r]]
           /\ cached_reqs' = cached_reqs \ done
           /\ finished_req_ids' = finished_req_ids \cup done
    /\ UNCHANGED <<waiting, postpreempt, local, arrived, workerVars>>

-----------------------------------------------------------------------------
(* KV blocks. *)

\* Mutant: a partial block is not counted.
FloorDiv(x, y) == x \div y

CeilDiv(x, y) == (x + y - 1) \div y

Least(x, y) == IF x < y THEN x ELSE y

\* The blocks in use, when request r holds b[r] of them.
HeldBlocks(b) == UNION {{r} \X (1..b[r]) : r \in Rid}

num_free_blocks(s) == NumBlocks - Cardinality(HeldBlocks(s.blocks))

num_new_blocks(s, r, n) ==
    CeilDiv(s.req[r].num_computed_tokens + n, BlockSize) - s.blocks[r]

\* allocate_slots returns None when this is false.
Fits(s, r, n) == num_new_blocks(s, r, n) <= num_free_blocks(s)

allocate_slots(s, r, n) ==
    IF num_new_blocks(s, r, n) <= 0 THEN s
    ELSE [s EXCEPT !.blocks[r] = @ +
            Least(num_new_blocks(s, r, n) + NumPreallocateBlocks,
                  Least(num_free_blocks(s),
                        CeilDiv(MaxModelLen, BlockSize) - s.blocks[r]))]

-----------------------------------------------------------------------------
(* Preemption. *)

\* Mutant: a preempted request goes to the tail of the waiting queue.
PreemptToTail(s, r) ==
    LET q == s.req[r]
        drained == q.num_scheduled = 0
    IN  [s EXCEPT
          !.req[r] = preempt_request(q),
          !.postpreempt[r] = IF @ = -1 /\ q.just_fixed /\ q.spec_result = "False"
                             THEN q.fixed_idx ELSE @,
          !.waiting = IF drained THEN Append(@, r) ELSE @,
          !.to_be_preempted = IF drained THEN @ ELSE Append(@, r),
          !.preempted = TRUE]

\* Mutant: the pending correction is not recorded.
PreemptForgetsFix(s, r) ==
    LET q == s.req[r]
        drained == q.num_scheduled = 0
    IN  [s EXCEPT
          !.req[r] = preempt_request(q),
          !.waiting = IF drained THEN <<r>> \o @ ELSE @,
          !.to_be_preempted = IF drained THEN @ ELSE Append(@, r),
          !.preempted = TRUE]

\* Mutant: the request is requeued with iterations in flight.
PreemptUndrained(s, r) ==
    LET q == s.req[r]
    IN  [s EXCEPT
          !.req[r] = [preempt_request(q) EXCEPT !.should_preempt = FALSE],
          !.postpreempt[r] = IF @ = -1 /\ q.just_fixed /\ q.spec_result = "False"
                             THEN q.fixed_idx ELSE @,
          !.waiting = <<r>> \o @,
          !.preempted = TRUE]

\* _preempt_request: the correction that was not sent to the worker yet is
\* recorded for replay; the request is requeued at the head of the waiting
\* queue when nothing of it is in flight, else it waits in to_be_preempted.
PreemptOne(s, r) ==
    LET q == s.req[r]
        drained == q.num_scheduled = 0
    IN  [s EXCEPT
          !.req[r] = preempt_request(q),
          !.postpreempt[r] = IF @ = -1 /\ q.just_fixed /\ q.spec_result = "False"
                             THEN q.fixed_idx ELSE @,
          !.waiting = IF drained THEN <<r>> \o @ ELSE @,
          !.to_be_preempted = IF drained THEN @ ELSE Append(@, r),
          !.preempted = TRUE]

\* Mutant: the evicted request keeps its blocks.
EvictLastKeepsBlocks(s) ==
    LET r == Last(s.running)
    IN  PreemptOne([s EXCEPT !.running = Front(@), !.req[r].status = "PREEMPTED"], r)

EvictLast(s) ==
    LET r == Last(s.running)
    IN  PreemptOne([s EXCEPT !.running = Front(@), !.blocks[r] = 0,
                             !.req[r].status = "PREEMPTED"], r)

-----------------------------------------------------------------------------
(* schedule(). *)

CapTokens(s, n) ==
    LET m == IF 0 < LongPrefillThreshold /\ LongPrefillThreshold < n
             THEN LongPrefillThreshold ELSE n
    IN  Least(m, s.budget)

\* r is in the batch with n tokens.  num_computed_tokens advances at the end.
Put(s, r, n) ==
    [s EXCEPT !.req[r].num_scheduled = @ + 1,
              !.num_scheduled_tokens[r] = n,
              !.budget = @ - n]

TokensDue(q) == num_tokens(q) - q.num_computed_tokens

\* A step of schedule() at pc that leaves everything but local alone.
Local(pc, s) ==
    /\ local.pc = pc
    /\ local' = s
    /\ UNCHANGED <<schedVars, phase, queue, arrived, user, workerVars>>

\* schedule() is called.  todo holds what the current loop has still to visit.
schedule ==
    /\ phase = "schedule"
    /\ Local("idle",
             [pc |-> "preempt", todo |-> to_be_preempted,
              req |-> requests, waiting |-> waiting, running |-> running_scheduled,
              to_be_preempted |-> <<>>, postpreempt |-> postpreempt,
              blocks |-> req_to_blocks,
              num_scheduled_tokens |-> [r \in Rid |-> 0],
              new |-> {}, resumed |-> {}, preempted |-> FALSE,
              passed |-> {}, ask |-> <<>>, estimate |-> FALSE,
              budget |-> MaxNumBatchedTokens])

\* Mutant: a request that still has iterations in flight is forgotten.
RetryForgets ==
    /\ local.pc = "preempt" /\ local.todo # <<>>
    /\ Local("preempt",
             [PreemptOne(local, Head(local.todo)) EXCEPT
                 !.todo = Tail(@), !.to_be_preempted = <<>>])

\* The loop over to_be_preempted.
RetryPreemption ==
    /\ local.pc = "preempt" /\ local.todo # <<>>
    /\ Local("preempt",
             [PreemptOne(local, Head(local.todo)) EXCEPT !.todo = Tail(@)])

\* _apply_confidence_drop: the requests among which it selects, and how many
\* keep speculating.  Which ones, and how many the length-aware boost adds, is
\* decided by confidences and predictions the model does not know (see
\* ConfidenceDrop).
Candidates(s) ==
    {r \in ToSet(s.running) : ~has_pending_real_token(s.req[r]) /\ ~Dropped(s.req[r])}

NumPassed(s) ==
    LET size == Len(s.running)
        real == Cardinality({r \in ToSet(s.running) : has_pending_real_token(s.req[r])})
        left == size - (size * DropNum) \div DropDen - real
    IN  Least(IF left < 0 THEN 0 ELSE left, Cardinality(Candidates(s)))

Selections(s) ==
    LET boost == IF EnableLaSched2 THEN MaxBoost ELSE 0
    IN  IF ~EnableLaSched1 THEN {Candidates(s)}
        ELSE UNION {kSubset(k, Candidates(s)) : k \in NumPassed(s)..(NumPassed(s) + boost)}

apply_confidence_drop ==
    /\ local.pc = "preempt" /\ local.todo = <<>>
    /\ \E passed \in Selections(local) :
           Local("preempt", [local EXCEPT !.pc = "running", !.todo = local.running,
                                          !.passed = passed])

\* The running loop looks at the next request: it asks for n tokens' worth of
\* KV slots, skips the request or drops it from speculation.
ScheduleRunning ==
    /\ local.pc = "running" /\ local.todo # <<>> /\ local.budget > 0
    /\ LET r == Head(local.todo)
           q == local.req[r]
           s == [local EXCEPT !.todo = Tail(@)]
           Ask(t, n) == [t EXCEPT !.pc = "allocate", !.ask = <<r, CapTokens(t, n)>>]
       IN  \/ /\ has_pending_real_token(q)
              /\ Local("running",
                       Ask([s EXCEPT !.req[r].drop_end = FALSE],
                           IF q.num_computed_tokens < q.num_prompt_tokens
                           THEN TokensDue(q) ELSE 1))
           \/ /\ ~has_pending_real_token(q)
              /\ Dropped(q)
              /\ Local("running", s)
           \/ /\ ~has_pending_real_token(q)
              /\ ~Dropped(q)
              /\ Local("running",
                       IF r \in local.passed THEN Ask(s, TokensDue(q))
                       ELSE [s EXCEPT !.req[r] = ConfidenceDropped(@)])

\* _allocate_with_preemption: evict the tail of running_scheduled until the
\* allocation succeeds or the request itself is gone, which ends the loop.
AllocateOrEvict ==
    /\ local.pc = "allocate"
    /\ LET r == local.ask[1]
           n == local.ask[2]
           evicted == EvictLast(local)
       IN  \/ /\ Fits(local, r, n)
              /\ Local("allocate",
                       [Put(allocate_slots(local, r, n), r, n)
                            EXCEPT !.pc = "running", !.ask = <<>>])
           \/ /\ ~Fits(local, r, n)
              /\ Local("allocate",
                       IF Last(local.running) = r
                       THEN [evicted EXCEPT !.pc = "dispatch", !.todo = <<>>, !.ask = <<>>]
                       ELSE [evicted EXCEPT !.todo = Front(@)])

\* Mutant: the projection is made however few blocks are in use.
EstimateAlways(s) ==
    EnableLaSched2 /\ ~s.preempted /\ s.waiting # <<>> /\ s.budget > 0

\* _estimate_lookahead_memory projects the batch's memory only when usage is
\* above the bar.
should_estimate_length(s) ==
    /\ EnableLaSched2 /\ ~s.preempted /\ s.waiting # <<>> /\ s.budget > 0
    /\ NumBlocks - num_free_blocks(s) > MemEstiBlocks

\* No prefill is admitted in a step that preempted a request, or when the
\* projected peak (LookaheadMemory) is above the margin.
EndRunning ==
    /\ local.pc = "running"
    /\ local.todo = <<>> \/ local.budget = 0
    /\ \E delay_prefill \in {FALSE, should_estimate_length(local)} :
           Local("running",
                 [local EXCEPT !.pc = IF local.preempted \/ delay_prefill
                                      THEN "dispatch" ELSE "waiting",
                               !.estimate = should_estimate_length(local)])

\* The loop over the waiting queue.  Prefix caching is never populated
\* (SPKVCacheManager), so no token is found computed.
ScheduleWaiting ==
    /\ local.pc = "waiting"
    /\ IF \/ local.waiting = <<>> \/ local.budget = 0
          \/ Len(local.running) = MaxNumSeqs
       THEN Local("waiting", [local EXCEPT !.pc = "dispatch"])
       ELSE LET r == Head(local.waiting)
                q == local.req[r]
                n == CapTokens(local, num_tokens(q))
            IN  \/ /\ ~Fits(local, r, n) \/ local.estimate
                   /\ Local("waiting", [local EXCEPT !.pc = "dispatch"])
                \/ /\ Fits(local, r, n)
                   /\ Local("waiting",
                       [Put(allocate_slots(local, r, n), r, n) EXCEPT
                          !.waiting = Tail(@), !.running = Append(@, r),
                          !.new = IF q.status = "WAITING" THEN @ \cup {r} ELSE @,
                          !.resumed = IF q.status = "PREEMPTED" THEN @ \cup {r} ELSE @,
                          !.req[r].status = "RUNNING",
                          !.req[r].num_computed_tokens = 0])

-----------------------------------------------------------------------------
(* What the batch makes the worker do. *)

\* Mutant: a rejection is sent again while stale iterations are flushed.
FixedIdxResent(s, r) ==
    IF s.postpreempt[r] # -1 THEN s.postpreempt[r]
    ELSE IF s.req[r].spec_result = "False" THEN s.req[r].fixed_idx
    ELSE -1

\* _make_cached_request_data: the correction a message carries, or -1.
FixedIdx(s, r) ==
    IF s.postpreempt[r] # -1 THEN s.postpreempt[r]
    ELSE IF /\ s.req[r].spec_result = "False"
            /\ s.req[r].just_fixed \/ r \notin cached_reqs
    THEN s.req[r].fixed_idx
    ELSE -1

\* _update_states: the length of the worker's output_token_ids afterwards.
WorkerLen(s, r) ==
    LET q == s.req[r]
        n == s.num_scheduled_tokens[r]
        new == q.num_computed_tokens + n - (q.num_prompt_tokens + worker_len[r])
    IN  IF r \in s.new THEN 0
        ELSE IF FixedIdx(s, r) # -1 THEN Least(worker_len[r], FixedIdx(s, r)) + 1
        ELSE worker_len[r] + Least(IF new < 0 THEN 0 ELSE new, n)

\* Mutant: a running request is sent all its blocks again.
RowBlocksResent(s, r) ==
    IF r \notin persistent THEN s.blocks[r] ELSE row_blocks[r] + s.blocks[r]

\* _update_states: a request that is not in the persistent batch gets a row
\* with all its blocks, one that is has the new ones appended to its row.
RowBlocks(s, r) ==
    IF r \notin persistent THEN s.blocks[r]
    ELSE row_blocks[r] + s.blocks[r]
           - (IF r \in s.new \cup s.resumed THEN 0 ELSE req_to_blocks[r])

\* reorder_token_ids: the token embedded at output position i, one of the
\* positions computed by this batch.
InputToken(s, r, i) ==
    IF FixedIdx(s, r) # -1 /\ r \notin s.resumed
    THEN s.req[r].output_token_ids[FixedIdx(s, r) + 1]
    ELSE s.req[r].output_token_ids[i]

\* The output positions whose KV entries this batch writes.
Written(s, r) ==
    LET q == s.req[r]
    IN  {i \in Positions :
            /\ i > q.num_computed_tokens - q.num_prompt_tokens
            /\ i <= q.num_computed_tokens + s.num_scheduled_tokens[r] - q.num_prompt_tokens}

KVAfter(s, r) ==
    [i \in Positions |-> IF i \in Written(s, r) THEN InputToken(s, r, i) ELSE kv[r][i]]

\* What the batch holds for r.  The worker discards the sampled token when it
\* knows of tokens beyond the ones computed.
SlotOf(s, r) ==
    LET q == s.req[r]
        seq_len == q.num_computed_tokens + s.num_scheduled_tokens[r]
    IN  IF s.num_scheduled_tokens[r] = 0 THEN Idle
        ELSE IF seq_len < q.num_prompt_tokens + WorkerLen(s, r) THEN Prefill
        ELSE Sample(Target(r, Prefix(KVAfter(s, r), seq_len - q.num_prompt_tokens)))

\* The end of schedule() and execute_spec_parallel_model.  A batch without
\* tokens is not sent to the workers.
dispatch ==
    /\ local.pc = "dispatch" /\ local' = NoCall
    /\ phase' = "speculate"
    /\ LET s == local
           batch == {r \in Rid : s.num_scheduled_tokens[r] > 0}
       IN  /\ requests' = [r \in Rid |->
                  [s.req[r] EXCEPT !.num_computed_tokens = @ + s.num_scheduled_tokens[r]]]
           /\ waiting' = s.waiting
           /\ running_scheduled' = s.running
           /\ to_be_preempted' = s.to_be_preempted
           /\ postpreempt' = [r \in Rid |-> IF r \in batch THEN -1 ELSE s.postpreempt[r]]
           /\ cached_reqs' = cached_reqs \cup (batch \ s.new)
           /\ req_to_blocks' = s.blocks
           /\ finished_req_ids' = {}
           /\ queue' = Append(queue, [r \in Rid |-> SlotOf(s, r)])
           /\ worker_reqs' = IF batch = {} THEN worker_reqs
                             ELSE (worker_reqs \ finished_req_ids) \cup s.new
           /\ persistent' = IF batch = {} THEN persistent ELSE batch
           /\ row_blocks' = [r \in Rid |-> IF r \in batch THEN RowBlocks(s, r)
                                           ELSE row_blocks[r]]
           /\ worker_len' = [r \in Rid |-> IF r \in batch THEN WorkerLen(s, r)
                                           ELSE worker_len[r]]
           /\ kv' = [r \in Rid |-> IF r \in batch THEN KVAfter(s, r) ELSE kv[r]]
    /\ UNCHANGED <<arrived, user>>

-----------------------------------------------------------------------------
(* Step 4: the exit layer's tokens for the batch that just entered. *)

update_from_spec_output ==
    /\ phase = "speculate" /\ phase' = "verify"
    /\ LET sampled == {r \in Rid : Last(queue)[r].kind = "sample"}
       IN  \E guess \in [sampled -> Token] :
               requests' = [r \in Rid |-> IF r \in sampled
                                          THEN Speculated(requests[r], guess[r])
                                          ELSE requests[r]]
    /\ UNCHANGED <<waiting, running_scheduled, to_be_preempted, postpreempt,
                   cached_reqs, finished_req_ids, req_to_blocks, queue, local,
                   arrived, user, workerVars>>

\* Every request has been served: the engine core blocks on its input queue.
Quiescent ==
    /\ phase = "verify" /\ ToSet(arrived) = Rid /\ ~has_requests
    /\ UNCHANGED vars

EngineStep ==
    \/ update_from_true_output
    \/ schedule \/ RetryPreemption \/ apply_confidence_drop
    \/ ScheduleRunning \/ AllocateOrEvict \/ EndRunning \/ ScheduleWaiting
    \/ dispatch
    \/ update_from_spec_output

Next == (\E r \in Rid : add_request(r)) \/ EngineStep \/ Quiescent

Spec == Init /\ [][Next]_vars

\* run_busy_loop keeps stepping while has_requests.
FairSpec == Spec /\ WF_vars(EngineStep)
-----------------------------------------------------------------------------
(* Properties. *)

TypeOK ==
    /\ requests \in [Rid -> Request]
    /\ \A l \in {waiting, running_scheduled, to_be_preempted, arrived} :
           l \in Seq(Rid)
    /\ postpreempt \in [Rid -> Int]
    /\ cached_reqs \subseteq Rid /\ finished_req_ids \subseteq Rid
    /\ req_to_blocks \in [Rid -> 0..NumBlocks]
    /\ phase \in {"verify", "schedule", "speculate"}
    /\ queue \in Seq([Rid -> Slot])
    /\ Len(queue) = IF phase = "schedule" THEN PP - 1 ELSE PP
    /\ user \in [Rid -> Seq(Token)]
    /\ worker_reqs \subseteq Rid /\ persistent \subseteq Rid
    /\ row_blocks \in [Rid -> Nat]
    /\ worker_len \in [Rid -> Nat]
    /\ kv \in [Rid -> [Positions -> Token \cup {NoToken}]]

\* How often r occurs in the scheduler's lists.
Occurrences(r) ==
    Cardinality({i \in DOMAIN waiting : waiting[i] = r})
    + Cardinality({i \in DOMAIN running_scheduled : running_scheduled[i] = r})
    + Cardinality({i \in DOMAIN to_be_preempted : to_be_preempted[i] = r})

\* No request is lost or served twice: until it finishes, an arrived request
\* is in exactly one of waiting, running_scheduled and to_be_preempted, the
\* one its status tells, whatever evictions, drains and finishes interleave.
NoRequestLost ==
    \A r \in Rid :
        LET q == requests[r] IN
        /\ Occurrences(r) = IF Contains(arrived, r) /\ ~is_finished(q) THEN 1 ELSE 0
        /\ Contains(running_scheduled, r) <=> InRunning(q)
        /\ Contains(to_be_preempted, r) <=> InToBePreempted(q)

\* A preempted request is requeued only when the pipeline is rid of it: no
\* batch in flight holds a waiting request, so that no result computed before
\* a preemption is applied to the request after it was resumed.
WaitingDrained ==
    \A r \in Rid : Contains(waiting, r) =>
        \A i \in DOMAIN queue : queue[i][r].kind = "idle"

\* The pool is never overcommitted, and a request outside running_scheduled
\* holds no block (eviction frees them while iterations are still in flight).
PoolRespected ==
    /\ Cardinality(HeldBlocks(req_to_blocks)) <= NumBlocks
    /\ \A r \in Rid : ~InRunning(requests[r]) => req_to_blocks[r] = 0

\* KV blocks: the pool is respected, and every token computed or in flight of
\* a running request has a slot.
KVCovered ==
    /\ PoolRespected
    /\ \A r \in Rid : InRunning(requests[r]) =>
           requests[r].num_computed_tokens <= req_to_blocks[r] * BlockSize

ArrivedBefore(r, q) ==
    \E i, j \in DOMAIN arrived : i < j /\ arrived[i] = r /\ arrived[j] = q

\* Strict FCFS: among running and waiting requests, a request never overtakes
\* one that arrived before it, not even through eviction and requeueing.
StrictFCFS ==
    LET order == running_scheduled \o waiting
    IN  \A i, j \in DOMAIN order : i < j => ArrivedBefore(order[i], order[j])

PipeOf(r) == [i \in DOMAIN queue |-> queue[i][r]]

\* Unless the budget covers all requests at their full length, and no prefill is
\* too long for one step, prefills are split, those after an eviction included.
MaySplit ==
    MaxNumBatchedTokens < Cardinality(Rid) * MaxModelLen \/ LongPrefillThreshold > 0

Pipeline(r) ==
    INSTANCE SpecPipeline WITH
        NumPromptTokens <- NumPromptTokens[r], MaxTokens <- MaxTokens[r],
        ChunkedPrefill <- MaySplit,
        SplitResume <- MaySplit,
        EvictDropped <- TRUE,
        Target <- LAMBDA s : Target(r, s),
        req <- requests[r], pipe <- PipeOf(r), user <- user[r]

\* Every request sees the per-request protocol of SpecPipeline: a running
\* request that is not dropped is in every batch, the worker computes on the
\* scheduler's tokens (KV entries and discards included), and a step of one
\* request never disturbs another.
ImplementsPipeline ==
    /\ \A r \in Rid : Pipeline(r)!Init
    /\ [][\A r \in Rid : Pipeline(r)!Next \/ UNCHANGED Pipeline(r)!vars]_vars

\* Each user receives the target model's greedy continuation of his prompt.
Lossless ==
    /\ \A r \in Rid : Pipeline(r)!Greedy!Init
    /\ [][\A r \in Rid : \/ Pipeline(r)!Greedy!Next
                         \/ UNCHANGED <<user[r], is_finished(requests[r])>>]_vars

\* Every request that arrives finishes.
EveryRequestFinishes ==
    \A r \in Rid : Contains(arrived, r) ~> is_finished(requests[r])

\* A request whose prompt, or whose tokens after a preemption, are not all
\* computed yet and for which no token has been sampled since.
Prefilling(q) ==
    /\ InRunning(q)
    /\ q.sp_len = 0 /\ q.spec_result = "None" /\ ~q.drop_end
    /\ q.num_computed_tokens < num_tokens(q)

\* A prefill that was split over iterations is carried through: "real-token
\* requests (spec revision, drop drain, or chunked prefill) are scheduled
\* unconditionally", so the confidence drop never parks one.
PrefillCompletes ==
    \A r \in Rid : Prefilling(requests[r]) ~> ~Prefilling(requests[r])

\* The worker's block table agrees with the scheduler's blocks: the worker
\* knows each request of the batch that just entered, and its row holds the
\* blocks it owns, no more and no less, whatever evictions and resumptions
\* came before.
BlockTableAgrees ==
    phase = "speculate" =>
        \A r \in Rid : Last(queue)[r].kind # "idle" =>
            r \in worker_reqs /\ row_blocks[r] = req_to_blocks[r]
=============================================================================
