--------------------------- MODULE ConfidenceDrop ---------------------------
(***************************************************************************)
(* The selection of the requests that keep speculating:                    *)
(* SpexisScheduler._apply_confidence_drop and _length_aware_boost, one     *)
(* action per iteration of their loops, on an arbitrary running list.      *)
(*                                                                         *)
(* SpexisScheduler takes the outcome as an arbitrary set of the right      *)
(* size; this module shows which set, and that the size is right.          *)
(* Confidences are fractions c / Scale; the code's floats round them.      *)
(***************************************************************************)
EXTENDS Integers, Sequences, FiniteSets, SequencesExt

CONSTANTS MaxRunning,        \* bound on len(running_scheduled)
          Scale,             \* confidences are c / Scale, c \in 0..Scale
          NumBuckets,        \* num_conf_buckets
          DropNum, DropDen,  \* drop_ratio
          EnableLaSched2,
          MaxBoost,          \* la_sched2_max_reqs
          ConfThre           \* la_sched2_conf_thre, times Scale

ASSUME DropAssumption ==
    /\ MaxRunning \in Nat /\ Scale \in Nat \ {0} /\ NumBuckets \in Nat \ {0}
    /\ DropNum \in Nat /\ DropDen \in Nat \ {0} /\ DropNum <= DropDen
    /\ EnableLaSched2 \in BOOLEAN /\ MaxBoost \in Nat /\ ConfThre \in 0..Scale

\* What the selection reads of a request: real (_has_pending_real_token),
\* skip (should_preempt, or draining a drop), or a candidate with its joint
\* confidence and whether expect_remain_len_idx is la_sched2_lenidx_thre.
Real == [kind |-> "real"]
Skip == [kind |-> "skip"]
Candidate == [kind : {"candidate"}, conf : 0..Scale, short : BOOLEAN]
RequestView == {Real, Skip} \cup Candidate

VARIABLES running,       \* running_scheduled
          sel_pc, i,         \* where the code is, and the index of its inner loop
          buckets,       \* confidence_bucket_list: indices into running
          pass_num,      \* effective_pass_num
          num_real,      \* num_real_requests
          tmp_idx, tmp_req_idx,
          max_boost_reqs,
          passed         \* the requests with confidence_passed

dropVars == <<running, sel_pc, i, buckets, pass_num, num_real, tmp_idx, tmp_req_idx,
          max_boost_reqs, passed>>

Bucket == 0..(NumBuckets - 1)

DropInit ==
    /\ running \in UNION {[1..n -> RequestView] : n \in 0..MaxRunning}
    /\ sel_pc = "sort" /\ i = 1
    /\ buckets = [b \in Bucket |-> <<>>]
    /\ pass_num = Len(running) - (Len(running) * DropNum) \div DropDen
    /\ num_real = 0
    /\ tmp_idx = NumBuckets - 1 /\ tmp_req_idx = 0
    /\ max_boost_reqs = MaxBoost
    /\ passed = {}

-----------------------------------------------------------------------------
(* _apply_confidence_drop. *)

BucketOf(c) ==
    LET b == (c * NumBuckets) \div Scale
    IN  IF b > NumBuckets - 1 THEN NumBuckets - 1 ELSE b

\* Mutant: a request that must run a real token does not use up the budget.
SortForgetsReal ==
    /\ sel_pc = "sort" /\ i <= Len(running)
    /\ i' = i + 1
    /\ LET q == running[i]
       IN  buckets' = IF q.kind = "candidate"
                      THEN [buckets EXCEPT ![BucketOf(q.conf)] = Append(@, i)]
                      ELSE buckets
    /\ UNCHANGED <<running, sel_pc, pass_num, num_real, tmp_idx, tmp_req_idx,
                   max_boost_reqs, passed>>

\* The bucket sort looks at the next running request.
Sort ==
    /\ sel_pc = "sort" /\ i <= Len(running)
    /\ i' = i + 1
    /\ LET q == running[i]
       IN  /\ num_real' = IF q.kind = "real" THEN num_real + 1 ELSE num_real
           /\ buckets' = IF q.kind = "candidate"
                         THEN [buckets EXCEPT ![BucketOf(q.conf)] = Append(@, i)]
                         ELSE buckets
    /\ UNCHANGED <<running, sel_pc, pass_num, tmp_idx, tmp_req_idx, max_boost_reqs, passed>>

\* Mutant: more real-token requests than the quota leave a negative budget.
EndSortNegative ==
    /\ sel_pc = "sort" /\ i > Len(running)
    /\ sel_pc' = "pass" /\ i' = 1
    /\ pass_num' = pass_num - num_real
    /\ UNCHANGED <<running, buckets, num_real, tmp_idx, tmp_req_idx,
                   max_boost_reqs, passed>>

EndSort ==
    /\ sel_pc = "sort" /\ i > Len(running)
    /\ sel_pc' = "pass" /\ i' = 1
    /\ pass_num' = IF pass_num > num_real THEN pass_num - num_real ELSE 0
    /\ UNCHANGED <<running, buckets, num_real, tmp_idx, tmp_req_idx,
                   max_boost_reqs, passed>>

\* A whole bucket passes.
PassBucket ==
    /\ sel_pc = "pass" /\ pass_num > 0 /\ tmp_idx >= 0
    /\ Len(buckets[tmp_idx]) <= pass_num
    /\ passed' = passed \cup ToSet(buckets[tmp_idx])
    /\ pass_num' = pass_num - Len(buckets[tmp_idx])
    /\ tmp_idx' = tmp_idx - 1
    /\ UNCHANGED <<running, sel_pc, i, buckets, num_real, tmp_req_idx, max_boost_reqs>>

\* The budget ends in the middle of a bucket: its first requests pass.
PassPart ==
    /\ sel_pc = "pass" /\ pass_num > 0 /\ tmp_idx >= 0
    /\ Len(buckets[tmp_idx]) > pass_num
    /\ passed' = passed \cup {buckets[tmp_idx][k] : k \in 1..pass_num}
    /\ tmp_req_idx' = pass_num
    /\ pass_num' = 0
    /\ tmp_idx' = tmp_idx - 1
    /\ UNCHANGED <<running, sel_pc, i, buckets, num_real, max_boost_reqs>>

EndPass ==
    /\ sel_pc = "pass" /\ (pass_num = 0 \/ tmp_idx < 0)
    /\ sel_pc' = IF ~EnableLaSched2 THEN "done"
             ELSE IF tmp_req_idx # 0 THEN "boost_rest" ELSE "boost"
    /\ UNCHANGED <<running, i, buckets, pass_num, num_real, tmp_idx, tmp_req_idx,
                   max_boost_reqs, passed>>

-----------------------------------------------------------------------------
(* _length_aware_boost. *)

Eligible(q) == q.short /\ q.conf > ConfThre

\* What both loops do with a request.
Boost(r) ==
    IF Eligible(running[r]) /\ max_boost_reqs > 0
    THEN passed' = passed \cup {r} /\ max_boost_reqs' = max_boost_reqs - 1
    ELSE UNCHANGED <<passed, max_boost_reqs>>

\* Python's list index: -1 is the last bucket.
At(b) == IF b < 0 THEN b + NumBuckets ELSE b

\* The scan of the bucket at tmp_idx from tmp_req_idx on.
BoostRest ==
    /\ sel_pc = "boost_rest"
    /\ IF tmp_req_idx < Len(buckets[At(tmp_idx)])
       THEN /\ Boost(buckets[At(tmp_idx)][tmp_req_idx + 1])
            /\ IF max_boost_reqs' = 0
               THEN /\ sel_pc' = "boost" /\ tmp_idx' = tmp_idx - 1
                    /\ UNCHANGED tmp_req_idx
               ELSE /\ tmp_req_idx' = tmp_req_idx + 1
                    /\ UNCHANGED <<sel_pc, tmp_idx>>
       ELSE /\ sel_pc' = "boost" /\ tmp_idx' = tmp_idx - 1
            /\ UNCHANGED <<passed, max_boost_reqs, tmp_req_idx>>
    /\ UNCHANGED <<running, i, buckets, pass_num, num_real>>

\* The scan of the buckets below, request by request.
BoostBelow ==
    /\ sel_pc = "boost" /\ max_boost_reqs # 0 /\ tmp_idx >= 0
    /\ IF i <= Len(buckets[tmp_idx])
       THEN Boost(buckets[tmp_idx][i]) /\ i' = i + 1 /\ UNCHANGED tmp_idx
       ELSE i' = 1 /\ tmp_idx' = tmp_idx - 1 /\ UNCHANGED <<passed, max_boost_reqs>>
    /\ UNCHANGED <<running, sel_pc, buckets, pass_num, num_real, tmp_req_idx>>

EndBoost ==
    /\ sel_pc = "boost" /\ (max_boost_reqs = 0 \/ tmp_idx < 0)
    /\ sel_pc' = "done"
    /\ UNCHANGED <<running, i, buckets, pass_num, num_real, tmp_idx, tmp_req_idx,
                   max_boost_reqs, passed>>

DropNext == \/ Sort \/ EndSort \/ PassBucket \/ PassPart \/ EndPass
            \/ BoostRest \/ BoostBelow \/ EndBoost

DropSpec == DropInit /\ [][DropNext]_dropVars
-----------------------------------------------------------------------------
(* Properties. *)

DropTypeOK ==
    /\ running \in Seq(RequestView) /\ Len(running) <= MaxRunning
    /\ sel_pc \in {"sort", "pass", "boost_rest", "boost", "done"}
    /\ i \in 1..(MaxRunning + 1)
    /\ buckets \in [Bucket -> Seq(DOMAIN running)]
    /\ pass_num \in 0..MaxRunning /\ num_real \in 0..MaxRunning
    /\ tmp_idx \in -2..(NumBuckets - 1) /\ tmp_req_idx \in 0..MaxRunning
    /\ max_boost_reqs \in 0..MaxBoost
    /\ passed \subseteq DOMAIN running

Candidates == {r \in DOMAIN running : running[r].kind = "candidate"}

\* How many pass before the boost, straight from drop_ratio.
Quota ==
    LET n == Len(running)
        real == Cardinality({r \in DOMAIN running : running[r].kind = "real"})
        left == n - (n * DropNum) \div DropDen - real
        cap == IF left < 0 THEN 0 ELSE left
    IN  IF cap < Cardinality(Candidates) THEN cap ELSE Cardinality(Candidates)

\* r is preferred to q: a higher bucket, or the same one and longer running.
Preferred(r, q) ==
    LET br == BucketOf(running[r].conf)
        bq == BucketOf(running[q].conf)
    IN  br > bq \/ (br = bq /\ r < q)

\* The reference: the Quota most preferred candidates.
TopCandidates ==
    {r \in Candidates : Cardinality({q \in Candidates : Preferred(q, r)}) < Quota}

\* The selection ends with the preferred candidates passed, and more only
\* within the boost's limit and only eligible ones.
SelectionCorrect ==
    sel_pc \in {"boost_rest", "boost", "done"} =>
        /\ TopCandidates \subseteq passed
        /\ passed \subseteq Candidates
        /\ Cardinality(passed \ TopCandidates) <= MaxBoost - max_boost_reqs
        /\ \A r \in passed \ TopCandidates :
               EnableLaSched2 /\ running[r].short /\ running[r].conf > ConfThre
=============================================================================
