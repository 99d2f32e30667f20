-------------------------- MODULE LookaheadMemory --------------------------
(***************************************************************************)
(* Lookahead scheduling, part 2: the projection of KV usage over the next  *)
(* iterations (lookahead_scheduling/length_calc.py) with its caches, and   *)
(* its use in SpexisScheduler.schedule: _estimate_lookahead_memory and the *)
(* admission loop that adds the candidates one by one.                     *)
(*                                                                         *)
(* SpexisScheduler takes the outcome, delay_prefill, as an arbitrary       *)
(* Boolean.  Probabilities are fractions over D, memory is counted in      *)
(* tokens over D * D * PrecDen; the code's floats round them.              *)
(***************************************************************************)
EXTENDS Integers, Sequences, FiniteSets, SequencesExt, FiniteSetsExt, Functions

CONSTANTS PP,                \* pp_stages
          AccNum, AccDen,    \* average_spec_acc
          MaxIter,           \* max_iter
          iter_list,
          expect_length,     \* len_list: the predictor's thresholds
          PrecNum, PrecDen,  \* lenesti_prec: PrecNum[idx] / PrecDen
          Margin,            \* mem_estimate_margin * mem_in_tokens, in tokens
          TokenCounts,       \* values of request.num_tokens
          MaxBatch, MaxWaiting

ASSUME LookaheadAssumption ==
    /\ PP \in Nat /\ PP >= 2 /\ MaxIter \in Nat \ {0}
    /\ AccNum \in Nat \ {0} /\ AccDen \in Nat \ {0} /\ AccNum <= AccDen
    /\ iter_list \in Seq(1..MaxIter)
    /\ expect_length \in Seq(Nat \ {0})
    /\ \A k \in DOMAIN expect_length : PrecNum[k] \in 0..PrecDen
    /\ PrecDen \in Nat \ {0} /\ TokenCounts \subseteq Nat /\ Margin \in Nat
    /\ MaxBatch \in Nat /\ MaxWaiting \in Nat

Iter == 1..MaxIter
LenIdx == DOMAIN expect_length

Times(x, y) == x * y

\* a ** n.
Power(a, n) == FoldLeft(Times, 1, [j \in 1..n |-> a])

D == Power(AccDen, MaxIter)
Unit == D * D * PrecDen

VARIABLES exp_cache,    \* ExpGenLenCache.cache
          prob_cache,   \* LenProbCache.prob_cache: [iter -> [length -> ]]
          cum_cache,    \* LenProbCache.cum_prob_cache: [len idx -> [iter -> ]]
          mem_pc, k,        \* k: how much of iter_list has been projected
          batch,        \* running_scheduled: tokens and expect_remain_len_idx,
                        \* 0 for -1
          waiting,      \* num_tokens of the waiting requests
          mem_usage,    \* mem_usage_list
          peak, admitted, delay_prefill

memVars == <<exp_cache, prob_cache, cum_cache, mem_pc, k, batch, waiting, mem_usage,
          peak, admitted, delay_prefill>>

Unset == -1

-----------------------------------------------------------------------------
(* The closed forms. *)

Comb(n, r) == Cardinality(kSubset(r, 1..n))

\* The probability of true acceptances and wrong rejections in a given order.
Weight(true, wrong) ==
    Power(AccNum, true) * Power(AccDen - AccNum, wrong)
        * Power(AccDen, MaxIter - true - wrong)

\* Mutant: a rejection costs one iteration less than the pipeline is deep.
ProbShort(n, length) ==
    IF (n - length) % PP # 0 \/ length < (n - length) \div PP THEN 0
    ELSE LET wrong == (n - length) \div PP
         IN  Comb(length, wrong) * Weight(length - wrong, wrong)

\* calc_prob_len: the probability that n iterations generate length tokens.
calc_prob_len(n, length) ==
    IF (n - length) % (PP - 1) # 0 THEN 0
    ELSE LET wrong == (n - length) \div (PP - 1)
         IN  IF wrong > length THEN 0
             ELSE Comb(length, wrong) * Weight(length - wrong, wrong)

\* ExpGenLenCache.calculate: the sum over the number of rejections.
calculate(n) ==
    SumFunction([wrong \in 0..(n \div PP) |->
        LET true == n - wrong * PP
            length == true + wrong
        IN  length * Comb(length, true) * Weight(true, wrong)])

\* The lengths whose probabilities calc_cum_prob_len adds up.
Lengths(idx, n) == expect_length[idx]..n

\* LenProbCache.get for the lengths asked for, which stay in prob_cache.
ProbAfter(n, lengths) ==
    [prob_cache EXCEPT ![n] = [l \in Iter |->
        IF l \in lengths /\ @[l] = Unset THEN calc_prob_len(n, l) ELSE @[l]]]

cum_prob_get(idx, n, probs) ==
    IF cum_cache[idx][n] # Unset THEN cum_cache[idx][n]
    ELSE SumFunction([l \in Lengths(idx, n) |-> probs[n][l]])

-----------------------------------------------------------------------------
(* The projection. *)

Request == [tokens : TokenCounts, idx : {0} \cup LenIdx]

Batches == UNION {[1..n -> Request] : n \in 0..MaxBatch}
WaitingLists == UNION {[1..n -> TokenCounts] : n \in 1..MaxWaiting}

MemInit ==
    /\ exp_cache = [n \in Iter |-> Unset]
    /\ prob_cache = [n \in Iter |-> [l \in Iter |-> Unset]]
    /\ cum_cache = [idx \in LenIdx |-> [n \in Iter |-> Unset]]
    /\ batch \in Batches /\ waiting \in WaitingLists
    /\ mem_pc = "project" /\ k = 0 /\ mem_usage = <<>> /\ peak = 0
    /\ admitted = <<>> /\ delay_prefill = FALSE

SumTokens(b) == SumFunction([j \in DOMAIN b |-> b[j].tokens])

\* calculate_iter_mem for the next iteration of iter_list.  The requests'
\* thresholds are looked up one after the other; only the first lookup of a
\* threshold computes.
calculate_iter_mem ==
    /\ mem_pc = "project" /\ k < Len(iter_list)
    /\ LET n == iter_list[k + 1]
           asked == {batch[j].idx : j \in DOMAIN batch} \ {0}
           missing == {idx \in asked : cum_cache[idx][n] = Unset}
           probs == ProbAfter(n, UNION {Lengths(idx, n) : idx \in missing})
           exp_len == IF exp_cache[n] # Unset THEN exp_cache[n] ELSE calculate(n)
           finishing == {j \in DOMAIN batch : batch[j].idx # 0}
           eff_prob(j) == cum_prob_get(batch[j].idx, n, probs) * PrecNum[batch[j].idx]
           finished == SumFunction([j \in finishing |-> eff_prob(j)])
           finished_len == SumFunction([j \in finishing |-> eff_prob(j) * batch[j].tokens])
       IN  /\ exp_cache' = [exp_cache EXCEPT ![n] = exp_len]
           /\ prob_cache' = probs
           /\ cum_cache' = [idx \in LenIdx |->
                  IF idx \in asked
                  THEN [cum_cache[idx] EXCEPT ![n] = cum_prob_get(idx, n, probs)]
                  ELSE cum_cache[idx]]
           /\ mem_usage' = Append(mem_usage,
                  SumTokens(batch) * Unit
                  + (Len(batch) * D * PrecDen - finished) * exp_len
                  - finished_len * D)
           /\ peak' = IF Last(mem_usage') > peak THEN Last(mem_usage') ELSE peak
    /\ k' = k + 1
    /\ UNCHANGED <<mem_pc, batch, waiting, admitted, delay_prefill>>

\* The end of _estimate_lookahead_memory.
estimate_done ==
    /\ mem_pc = "project" /\ k = Len(iter_list)
    /\ delay_prefill' = (peak > Margin * Unit)
    /\ mem_pc' = IF delay_prefill' THEN "done" ELSE "admit"
    /\ UNCHANGED <<exp_cache, prob_cache, cum_cache, k, batch, waiting, mem_usage,
                   peak, admitted>>

\* Mutant: a candidate counts with its tokens alone.
FootprintPromptOnly(tokens, n) == tokens * Unit

\* What a candidate adds to the projection at iteration n.
Footprint(tokens, n) == tokens * Unit + exp_cache[n] * D * PrecDen

\* The waiting loop looks at the next candidate.  The projection it leaves
\* behind when it breaks is not used again.
Admit ==
    /\ mem_pc = "admit" /\ waiting # <<>>
    /\ LET with == [j \in DOMAIN mem_usage |->
                       mem_usage[j] + Footprint(Head(waiting), iter_list[j])]
       IN  IF \E j \in DOMAIN with : with[j] > Margin * Unit
           THEN /\ delay_prefill' = TRUE /\ mem_pc' = "done"
                /\ UNCHANGED <<mem_usage, waiting, admitted>>
           ELSE /\ mem_usage' = with
                /\ admitted' = Append(admitted, Head(waiting))
                /\ waiting' = Tail(waiting)
                /\ UNCHANGED <<mem_pc, delay_prefill>>
    /\ UNCHANGED <<exp_cache, prob_cache, cum_cache, k, batch, peak>>

\* The next schedule() finds another batch; the caches stay.
NextCall ==
    /\ mem_pc = "done" \/ (mem_pc = "admit" /\ waiting = <<>>)
    /\ batch' \in Batches /\ waiting' \in WaitingLists
    /\ mem_pc' = "project" /\ k' = 0 /\ mem_usage' = <<>> /\ peak' = 0
    /\ admitted' = <<>> /\ delay_prefill' = FALSE
    /\ UNCHANGED <<exp_cache, prob_cache, cum_cache>>

MemNext == calculate_iter_mem \/ estimate_done \/ Admit \/ NextCall

MemSpec == MemInit /\ [][MemNext]_memVars
-----------------------------------------------------------------------------
(* Properties. *)

MemTypeOK ==
    /\ mem_pc \in {"project", "admit", "done"} /\ k \in 0..Len(iter_list)
    /\ batch \in Seq(Request) /\ waiting \in Seq(TokenCounts)
    /\ mem_usage \in Seq(Int) /\ Len(mem_usage) = k
    /\ peak \in Nat /\ admitted \in Seq(TokenCounts)
    /\ delay_prefill \in BOOLEAN

\* The reference: all the ways in which length speculations, each accepted
\* (one iteration) or rejected (PP iterations), take n iterations.
Outcomes(n, length) ==
    {o \in [1..length -> {1, PP}] : SumFunction(o) = n}

Probability(n, length) ==
    SumFunction([o \in Outcomes(n, length) |->
        LET true == Cardinality({j \in 1..length : o[j] = 1})
        IN  Weight(true, length - true)])

ExpectedLen(n) == SumFunction([l \in 1..n |-> l * Probability(n, l)])

FinishProb(idx, n) == SumFunction([l \in Lengths(idx, n) |-> Probability(n, l)])

\* Whatever batches were projected before, in whatever order the memo tables
\* were filled: an entry is unset or what enumerating the outcomes gives.
CachesCorrect ==
    \A n \in Iter :
        /\ exp_cache[n] # Unset => exp_cache[n] = ExpectedLen(n)
        /\ \A l \in Iter :
               prob_cache[n][l] # Unset => prob_cache[n][l] = Probability(n, l)
        /\ \A idx \in LenIdx :
               cum_cache[idx][n] # Unset => cum_cache[idx][n] = FinishProb(idx, n)

\* The memory projected for a batch with some candidates at iteration n.
Projected(cands, n) ==
    SumTokens(batch) * Unit
    + Len(batch) * D * PrecDen * ExpectedLen(n)
    - SumFunction([j \in {b \in DOMAIN batch : batch[b].idx # 0} |->
          LET p == FinishProb(batch[j].idx, n) * PrecNum[batch[j].idx]
          IN  p * ExpectedLen(n) + p * batch[j].tokens * D])
    + SumFunction([c \in DOMAIN cands |-> cands[c] * Unit + ExpectedLen(n) * D * PrecDen])

Within(cands) ==
    \A j \in DOMAIN iter_list : Projected(cands, iter_list[j]) <= Margin * Unit

\* Prefills are admitted up to the projection and no further: with the ones
\* admitted every projected iteration is within the margin, and a delay means
\* that the batch, or the next candidate on top of it, is not.
AdmissionWithinMargin ==
    /\ mem_pc = "admit" \/ admitted # <<>> => Within(admitted)
    /\ delay_prefill => ~Within(IF waiting = <<>> THEN admitted
                                ELSE Append(admitted, Head(waiting)))
=============================================================================
