---------------------------- MODULE SpecPipeline ----------------------------
(***************************************************************************)
(* Speculative parallelism from the point of view of one request.          *)
(*                                                                         *)
(* EngineCore.step_with_spexis repeats three phases: verify (the oldest    *)
(* batch leaves the pipeline and update_from_true_output compares the      *)
(* target model's tokens with the speculated ones), schedule (a new batch  *)
(* enters the pipeline) and speculate (update_from_spec_output appends the *)
(* exit layer's guess for the batch that just entered, so that the next    *)
(* step can schedule the request again before the target model answers).   *)
(*                                                                         *)
(* The other requests, the token budget and the KV blocks appear as        *)
(* nondeterminism: when a request is admitted, with which chunk, whether   *)
(* it is dropped from speculation and when it is evicted.  A running       *)
(* request that is not dropped is in every batch, as the scheduling loop   *)
(* does when the token budget covers the running list.  The worker is      *)
(* taken to compute on the scheduler's tokens, but may know fewer of them; *)
(* SpexisScheduler models which ones.                                      *)
(***************************************************************************)
EXTENDS SpecRequest, FiniteSets

CONSTANTS PP,               \* pipeline_parallel_size
          NumPromptTokens,  \* len(prompt_token_ids)
          MaxTokens,        \* sampling_params.max_tokens
          EnableLaSched1,   \* spexis_ver >= 2.0: confidence-based drop
          ChunkedPrefill,   \* may a prefill be split over iterations?
          SplitResume,      \* may the prefill after an eviction be split too?
          EvictDropped,     \* may KV pressure hit a request draining a drop?
          Target(_)         \* the target model's greedy token after a prefix

ASSUME PPAssumption == PP \in Nat /\ PP >= 2
\* Processor._validate_model_input refuses empty prompts and prompts that
\* leave no room for an output token.
ASSUME PromptAssumption ==
    NumPromptTokens \in Nat /\ NumPromptTokens >= 1 /\ NumPromptTokens < MaxModelLen
ASSUME MaxTokensAssumption == MaxTokens \in Nat /\ MaxTokens >= 1
ASSUME ConfigAssumption ==
    {EnableLaSched1, ChunkedPrefill, SplitResume, EvictDropped} \subseteq BOOLEAN
ASSUME TargetAssumption ==
    \A k \in 0..MaxTokens : \A s \in [1..k -> Token] : Target(s) \in Token

VARIABLES req,    \* the Request
          pipe,   \* what each batch in flight holds for the request, oldest first
          phase,  \* the phase of step_with_spexis that comes next
          user    \* tokens sent to the user

vars == <<req, pipe, phase, user>>

\* A batch without the request, one that holds a chunk of its prefill, and
\* one at whose end the target model yields the token tok.
Idle == [kind |-> "idle"]
Prefill == [kind |-> "prefill"]
Sample(t) == [kind |-> "sample", tok |-> t]

Slot == {Idle, Prefill} \cup {Sample(t) : t \in Token}

TypeOK ==
    /\ req \in Request
    /\ pipe \in Seq(Slot)
    /\ phase \in {"verify", "schedule", "speculate"}
    /\ Len(pipe) = IF phase = "schedule" THEN PP - 1 ELSE PP
    /\ user \in Seq(Token)

\* batch_queue_for_spec starts with PP empty entries.
Init ==
    /\ req = NewRequest(NumPromptTokens, MaxTokens)
    /\ pipe = [i \in 1..PP |-> Idle]
    /\ phase = "verify"
    /\ user = <<>>

-----------------------------------------------------------------------------
(* Verify: the oldest batch leaves the pipeline. *)

\* The iteration in slot b of request r has completed on the target model.
Retire(r, b) ==
    LET q == [r EXCEPT !.num_scheduled = @ - 1]
    IN  IF b.kind = "sample"
        THEN check_stop_from_validation(verify_output_token_ids(q, b.tok))
        ELSE q

\* Is the request still tracked, and is it in the batch that leaves?
InOldestBatch ==
    /\ Head(pipe).kind # "idle"
    /\ InRunning(req) \/ InToBePreempted(req)

Verify ==
    /\ phase = "verify"
    /\ phase' = "schedule"
    /\ pipe' = Tail(pipe)
    /\ IF InOldestBatch
       THEN /\ req' = Retire(req, Head(pipe))
            /\ user' = IF Head(pipe).kind = "sample" /\ send_to_user(req)
                       THEN Append(user, Head(pipe).tok)
                       ELSE user
       ELSE UNCHANGED <<req, user>>

-----------------------------------------------------------------------------
(* Schedule: a new batch enters the pipeline. *)

\* Mutant: no entry is queued for a batch without the request.
EnterUnlessIdle(slot) ==
    /\ phase = "schedule"
    /\ phase' = "speculate"
    /\ pipe' = IF slot = Idle THEN pipe ELSE Append(pipe, slot)
    /\ UNCHANGED user

Enter(slot) ==
    /\ phase = "schedule"
    /\ phase' = "speculate"
    /\ pipe' = Append(pipe, slot)
    /\ UNCHANGED user

\* The request is in the batch with its next n tokens.  What is sampled at
\* the end of a partial prefill is discarded, but the worker judges that by
\* the tokens it knows: the prompt, and of the output at least what it is sent.
Run(r, n) ==
    /\ req' = Scheduled(r, n)
    /\ \E known \in r.num_prompt_tokens..num_tokens(r) :
           LET seq_len == r.num_computed_tokens + n
           IN  Enter(IF seq_len < known THEN Prefill
                     ELSE Sample(Target(Prefix(r.output_token_ids,
                                               seq_len - r.num_prompt_tokens))))

\* How many of the k tokens due may an iteration carry?
Chunks(k) == IF ChunkedPrefill THEN 1..k ELSE {k}

StayOut ==
    /\ InWaiting(req) \/ is_finished(req)
    /\ Enter(Idle)
    /\ UNCHANGED req

Admit ==
    /\ InWaiting(req)
    /\ \E n \in IF req.output_token_ids = <<>> \/ SplitResume
                THEN Chunks(num_tokens(req)) ELSE {num_tokens(req)} :
           Run([req EXCEPT !.status = "RUNNING", !.num_computed_tokens = 0], n)

\* A corrected token, the token that ended a drop, or an unfinished prefill.
ScheduleReal ==
    /\ InRunning(req)
    /\ has_pending_real_token(req)
    /\ \E n \in IF req.num_computed_tokens < req.num_prompt_tokens
                THEN Chunks(num_tokens(req) - req.num_computed_tokens)
                ELSE {1} :
           Run([req EXCEPT !.drop_end = FALSE], n)

\* A speculated token.
ScheduleSpec ==
    /\ InRunning(req)
    /\ ~has_pending_real_token(req)
    /\ ~Dropped(req)
    /\ \E n \in Chunks(num_tokens(req) - req.num_computed_tokens) : Run(req, n)

\* The request did not pass the confidence selection.
DropSpec ==
    /\ EnableLaSched1
    /\ InRunning(req)
    /\ ~has_pending_real_token(req)
    /\ ~Dropped(req)
    /\ req' = ConfidenceDropped(req)
    /\ Enter(Idle)

SkipDropped ==
    /\ InRunning(req)
    /\ ~has_pending_real_token(req)
    /\ Dropped(req)
    /\ Enter(Idle)
    /\ UNCHANGED req

\* The request is at the tail of running_scheduled when KV blocks run out.
\* If it was its own allocation that failed, drop_end is already cleared.
Evict ==
    /\ InRunning(req)
    /\ EvictDropped \/ ~(Dropped(req) \/ req.drop_end)
    /\ \E tried \in {FALSE, has_pending_real_token(req)} :
           req' = preempt_request([req EXCEPT !.status = "PREEMPTED",
                                              !.drop_end = @ /\ ~tried])
    /\ Enter(Idle)

\* A preempted request whose iterations were still in flight tries again.
Drain ==
    /\ InToBePreempted(req)
    /\ req' = preempt_request(req)
    /\ Enter(Idle)

Schedule ==
    \/ StayOut \/ Admit
    \/ ScheduleReal \/ ScheduleSpec
    \/ DropSpec \/ SkipDropped
    \/ Evict \/ Drain

-----------------------------------------------------------------------------
(* Speculate: the exit layer guesses the token of the newest batch. *)

Speculate ==
    /\ phase = "speculate"
    /\ phase' = "verify"
    /\ IF pipe[Len(pipe)].kind = "sample"
       THEN \E t \in Token : req' = Speculated(req, t)
       ELSE UNCHANGED req
    /\ UNCHANGED <<pipe, user>>

Next == Verify \/ Schedule \/ Speculate

Spec == Init /\ [][Next]_vars

\* The engine core's busy loop never stops stepping while a request is
\* unfinished.
FairSpec == Spec /\ WF_vars(Next)
-----------------------------------------------------------------------------
(* Properties. *)

Tracked == InRunning(req) \/ InToBePreempted(req)

\* Iterations in flight whose token the target model will still deliver.
NumSampling == Cardinality({i \in DOMAIN pipe : pipe[i].kind = "sample"})

\* Sampling iterations the bookkeeping still expects to verify or to flush.
\* The newest one counts once its guess has been appended.
NumExpected ==
    req.sp_len
    + (IF req.spec_result = "False" THEN req.flush_len ELSE 0)
    + (IF phase = "speculate" /\ pipe[Len(pipe)].kind = "sample" THEN 1 ELSE 0)

\* sp_len, flush_len and num_scheduled agree with the pipeline: every
\* sampling iteration in flight is either one the request will verify
\* (sp_len) or one it will flush (flush_len), and num_scheduled counts all
\* iterations in flight.  verify_output_token_ids pairs tokens with
\* iterations by these counters alone, so one of them off by one verifies a
\* token against the wrong position for the rest of the request's life.
InFlightAccounted ==
    Tracked =>
        /\ NumSampling = NumExpected
        /\ req.num_scheduled = Cardinality({i \in DOMAIN pipe : pipe[i].kind # "idle"})

\* What the user has been sent is exactly what the request holds verified:
\* no token is withheld, sent twice or retracted by a rejection, a drop or a
\* preemption, and a preempted request is requeued with verified tokens
\* only (it is re-prefilled from output_token_ids).
UserSeesVerified ==
    user = Prefix(req.output_token_ids, NumVerified(req))

\* A real-token iteration past the prompt carries exactly one token, "the
\* corrected token from verification": then it must be the last one.
RealTokenIsLast ==
    ( /\ phase = "schedule"
      /\ InRunning(req)
      /\ has_pending_real_token(req)
      /\ req.num_computed_tokens >= req.num_prompt_tokens )
    => req.num_computed_tokens = num_tokens(req) - 1

\* Speculation runs ahead of verification but never past the length limits:
\* no position at or beyond max_model_len, or past max_tokens, is computed,
\* whatever the exit layer guesses and however often it is corrected.
WithinModelLen ==
    req.num_computed_tokens <=
        (IF NumPromptTokens + MaxTokens < MaxModelLen
         THEN NumPromptTokens + MaxTokens ELSE MaxModelLen) - 1

\* A request dropped from speculation with iterations in flight comes back:
\* they drain and its last token is replaced by the target's, it is
\* corrected, or it ends.
DropEnds ==
    Dropped(req) /\ req.drop_len > 0 ~> ~Dropped(req) \/ is_finished(req)

\* A preempted request leaves to_be_preempted.
PreemptionCompletes == InToBePreempted(req) ~> ~InToBePreempted(req)

Stops(s) ==
    \/ NumPromptTokens + Len(s) >= MaxModelLen
    \/ Len(s) >= MaxTokens
    \/ s[Len(s)] \in StopToken

Greedy == INSTANCE GreedyDecoding WITH stream <- user, done <- is_finished(req)

\* Speculative parallelism is lossless: the user receives the target model's
\* greedy continuation and the request ends exactly where it stops.
Lossless == Greedy!Spec
=============================================================================
