---------------------------- MODULE SpecRequest ----------------------------
(***************************************************************************)
(* The speculation bookkeeping of one request: the fields of               *)
(* v1/request.py's Request that SpexisScheduler reads and writes, and the  *)
(* operations that change them (append on speculation, verification        *)
(* against the target model, the two stop checks of                        *)
(* spec_parallel/stop_check.py and the preemption reset).                  *)
(*                                                                         *)
(* A request is a record.  Output tokens are members of Token; the prompt  *)
(* is only counted.  Python's None is "None" for spec_result, 0 for        *)
(* flush_len and fixed_idx, FALSE for just_fixed: no code reads these      *)
(* fields while they are None.                                             *)
(***************************************************************************)
EXTENDS Integers, Sequences

CONSTANTS Token,       \* output token ids
          StopToken,   \* eos_token_id (unless ignore_eos) and stop_token_ids
          MaxModelLen  \* scheduler_config.max_model_len

ASSUME TokenAssumption == StopToken \subseteq Token
ASSUME MaxModelLenAssumption == MaxModelLen \in Nat

SpecResult == {"None", "True", "False"}

FinishedStatus == {"FINISHED_STOPPED", "FINISHED_LENGTH_CAPPED"}

RequestStatus == {"WAITING", "RUNNING", "PREEMPTED"} \cup FinishedStatus

Request ==
    [status             : RequestStatus,
     num_prompt_tokens  : Nat,
     max_tokens         : Nat,
     output_token_ids   : Seq(Token),
     num_computed_tokens: Int,
     sp_len             : Int,
     spec_result        : SpecResult,
     fixed_idx          : Int,
     flush_len          : Int,
     just_fixed         : BOOLEAN,
     confidence_dropped : BOOLEAN,
     stop_dropped       : BOOLEAN,
     drop_len           : Int,
     drop_end           : BOOLEAN,
     should_preempt     : BOOLEAN,
     num_scheduled      : Int]

NewRequest(prompt, max) ==
    [status |-> "WAITING", num_prompt_tokens |-> prompt, max_tokens |-> max,
     output_token_ids |-> <<>>, num_computed_tokens |-> 0,
     sp_len |-> 0, spec_result |-> "None", fixed_idx |-> 0, flush_len |-> 0,
     just_fixed |-> FALSE, confidence_dropped |-> FALSE,
     stop_dropped |-> FALSE, drop_len |-> 0, drop_end |-> FALSE,
     should_preempt |-> FALSE, num_scheduled |-> 0]

-----------------------------------------------------------------------------
(* Sequences. *)

\* The first k elements of s, 0 <= k <= Len(s).
Prefix(s, k) == [i \in 1..k |-> s[i]]

\* Python's s[-k]; s[-0] is s[0].
Back(s, k) == IF k = 0 THEN s[1] ELSE s[Len(s) - k + 1]

\* Python's s[-k:] = [t]; s[-0:] is all of s.
ReplaceTail(s, k, t) ==
    IF k = 0 THEN <<t>> ELSE Append(Prefix(s, Len(s) - k), t)

-----------------------------------------------------------------------------
(* Where a request is, and what it owes. *)

num_tokens(r) == r.num_prompt_tokens + Len(r.output_token_ids)

is_finished(r) == r.status \in FinishedStatus

\* Members of SpexisScheduler.waiting: new requests, and preempted ones
\* whose in-flight iterations have drained.
InWaiting(r) ==
    \/ r.status = "WAITING"
    \/ r.status = "PREEMPTED" /\ ~r.should_preempt

\* Members of running_scheduled.
InRunning(r) == r.status = "RUNNING"

\* Members of to_be_preempted.
InToBePreempted(r) == r.status = "PREEMPTED" /\ r.should_preempt

Dropped(r) == r.confidence_dropped \/ r.stop_dropped

\* The number of output tokens the target model has confirmed.
NumVerified(r) == Len(r.output_token_ids) - r.sp_len

\* Mutant: an unfinished prefill is not real-token work.
PendingNoPrefill(r) ==
    \/ r.spec_result = "False" /\ r.just_fixed
    \/ r.drop_end

has_pending_real_token(r) ==
    \/ r.spec_result = "False" /\ r.just_fixed
    \/ r.drop_end
    \/ r.num_computed_tokens < r.num_prompt_tokens

-----------------------------------------------------------------------------
(* Stop checks. *)

\* Does a request whose first k output tokens are kept end there?
StopsAt(r, k) ==
    \/ r.num_prompt_tokens + k >= MaxModelLen
    \/ k >= r.max_tokens
    \/ r.output_token_ids[k] \in StopToken

check_stop_from_spec(r) == StopsAt(r, Len(r.output_token_ids))

\* Mutant: the stop check looks at the last speculated token.
CheckStopIgnoresSpLen(r) ==
    IF check_stop_from_spec(r) THEN [r EXCEPT !.status = "FINISHED_STOPPED"] ELSE r

check_stop_from_validation(r) ==
    IF ~StopsAt(r, NumVerified(r)) THEN r
    ELSE [r EXCEPT !.status =
            IF \/ r.num_prompt_tokens + NumVerified(r) >= MaxModelLen
               \/ NumVerified(r) >= r.max_tokens
            THEN "FINISHED_LENGTH_CAPPED" ELSE "FINISHED_STOPPED"]

-----------------------------------------------------------------------------
(* The speculative append of update_from_spec_output. *)

\* Mutant: speculation does not stop at a stop token or a length limit.
SpeculatedNoStop(r, t) ==
    [r EXCEPT !.output_token_ids = Append(@, t), !.sp_len = @ + 1]

Speculated(r, t) ==
    LET q == [r EXCEPT !.output_token_ids = Append(@, t), !.sp_len = @ + 1]
    IN  IF check_stop_from_spec(q)
        THEN [q EXCEPT !.stop_dropped = TRUE, !.drop_len = q.sp_len]
        ELSE q

-----------------------------------------------------------------------------
(* verify_output_token_ids: the target model's token t arrives. *)

\* The iteration was dispatched on a token that has been rejected since.
FlushOne(r) ==
    [r EXCEPT !.just_fixed = FALSE,
              !.flush_len = @ - 1,
              !.spec_result = IF r.flush_len = 1 THEN "None" ELSE @]

\* The last iteration of a dropped request: the target's token replaces the
\* speculated one and will be scheduled as a real token.
EndDrop(r, t) ==
    [r EXCEPT !.stop_dropped = FALSE, !.confidence_dropped = FALSE,
              !.drop_len = 0, !.drop_end = TRUE,
              !.output_token_ids = ReplaceTail(@, 1, t),
              !.spec_result = "None", !.flush_len = 0, !.sp_len = 0,
              !.fixed_idx = 0]

Accept(r) ==
    [r EXCEPT !.sp_len = @ - 1, !.spec_result = "True", !.fixed_idx = 0]

\* Mutant: one stale iteration too many.
CorrectFlushesOneMore(r, t) ==
    [r EXCEPT !.num_computed_tokens = @ - (r.sp_len - 1),
              !.output_token_ids = ReplaceTail(@, r.sp_len, t),
              !.flush_len = r.sp_len, !.sp_len = 0, !.just_fixed = TRUE,
              !.confidence_dropped = FALSE, !.stop_dropped = FALSE,
              !.drop_len = 0, !.spec_result = "False",
              !.fixed_idx = Len(r.output_token_ids) - r.sp_len]

\* Mutant: num_computed_tokens is not rolled back.
CorrectKeepsComputed(r, t) ==
    [r EXCEPT !.output_token_ids = ReplaceTail(@, r.sp_len, t),
              !.flush_len = r.sp_len - 1, !.sp_len = 0, !.just_fixed = TRUE,
              !.confidence_dropped = FALSE, !.stop_dropped = FALSE,
              !.drop_len = 0, !.spec_result = "False",
              !.fixed_idx = Len(r.output_token_ids) - r.sp_len]

\* The oldest unverified token was wrong: it is replaced, everything
\* speculated after it is discarded, and the sp_len - 1 iterations still in
\* flight behind it become stale.
Correct(r, t) ==
    [r EXCEPT !.num_computed_tokens = @ - (r.sp_len - 1),
              !.output_token_ids = ReplaceTail(@, r.sp_len, t),
              !.flush_len = r.sp_len - 1, !.sp_len = 0, !.just_fixed = TRUE,
              !.confidence_dropped = FALSE, !.stop_dropped = FALSE,
              !.drop_len = 0, !.spec_result = "False",
              !.fixed_idx = Len(r.output_token_ids) - r.sp_len]

\* Mutant: drop_len does not count down.
VerifyKeepsDropLen(r, t) ==
    IF r.spec_result = "False" THEN FlushOne(r)
    ELSE IF Dropped(r) /\ r.drop_len = 1 THEN EndDrop(r, t)
    ELSE IF Back(r.output_token_ids, r.sp_len) = t THEN Accept(r)
    ELSE Correct(r, t)

verify_output_token_ids(r, t) ==
    IF r.spec_result = "False" THEN FlushOne(r)
    ELSE IF Dropped(r) /\ r.drop_len = 1 THEN EndDrop(r, t)
    ELSE LET d == IF Dropped(r) THEN [r EXCEPT !.drop_len = @ - 1] ELSE r
         IN  IF Back(d.output_token_ids, d.sp_len) = t
             THEN Accept(d)
             ELSE Correct(d, t)

\* Mutant: stale results are shown too.
SendAlways(r) == TRUE

\* The token is shown to the user unless it is the output of a stale
\* iteration.
send_to_user(r) == r.spec_result # "False"

-----------------------------------------------------------------------------
(* Scheduling bookkeeping. *)

\* One more iteration of n tokens is in flight.
Scheduled(r, n) ==
    [r EXCEPT !.num_scheduled = @ + 1, !.num_computed_tokens = @ + n]

\* The drop of a request that did not pass the confidence selection.
ConfidenceDropped(r) ==
    [r EXCEPT !.confidence_dropped = TRUE, !.drop_len = r.sp_len]

\* Mutant: the drained request is never requeued.
PreemptNever(r) == [r EXCEPT !.should_preempt = TRUE]

\* _preempt_request, postpreempt_* apart: the request returns to the waiting
\* queue once no iteration of it is in flight.  drop_end is not reset.
preempt_request(r) ==
    IF r.num_scheduled > 0 THEN [r EXCEPT !.should_preempt = TRUE]
    ELSE [r EXCEPT !.sp_len = 0, !.spec_result = "None", !.fixed_idx = 0,
                   !.flush_len = 0, !.just_fixed = FALSE, !.drop_len = 0,
                   !.confidence_dropped = FALSE, !.stop_dropped = FALSE,
                   !.should_preempt = FALSE, !.num_computed_tokens = 0]
=============================================================================
