------------------------- MODULE SpecPipelineProofs -------------------------
(***************************************************************************)
(* Proofs about SpecPipeline.  The inductive invariant says what every     *)
(* slot of the pipeline holds for the request: at most one block of old    *)
(* iterations (prefill chunks, or stale samples while spec_result is       *)
(* False), then at most one block of valid samples, the oldest of which    *)
(* is the target's token after what the user has seen.                     *)
(***************************************************************************)
EXTENDS SpecPipeline, FiniteSetTheorems, TLAPS

\* Is the newest batch one whose guess is not appended yet?
Newest == IF phase = "speculate" /\ pipe[Len(pipe)].kind = "sample" THEN 1 ELSE 0

\* The sizes of the two blocks.
NumValid == req.sp_len + Newest
NumOld == req.num_scheduled - NumValid

OldKind == IF req.spec_result = "False" THEN "sample" ELSE "prefill"

\* Position i is one of the n positions behind a.
Within(a, n, i) == a < i /\ i <= a + n

\* Of the slots of p, the k behind o hold old iterations of kind kd, the w
\* behind v valid samples for the positions of out from nv on; the others
\* are idle.
BlocksOf(p, o, k, kd, v, w, out, nv) ==
    /\ o + k <= v
    /\ v + w <= Len(p)
    /\ \A i \in 1..Len(p) :
        /\ Within(o, k, i) => p[i].kind = kd
        /\ Within(v, w, i) => p[i] = Sample(Target(Prefix(out, nv + (i - v) - 1)))
        /\ ~Within(o, k, i) /\ ~Within(v, w, i) => p[i] = Idle

Blocks(o, v) ==
    BlocksOf(pipe, o, NumOld, OldKind, v, NumValid, req.output_token_ids, NumVerified(req))

\* What the blocks of a request in running_scheduled look like: the valid
\* block reaches up to the newest batch unless the request is dropped, an
\* unfinished prefill, which is one of the prompt, does too, and a fresh
\* correction is followed at once by the stale block.
RunningBlocks(o, v) ==
    /\ ~Dropped(req) => v + NumValid = Len(pipe)
    /\ req.num_computed_tokens - Newest # num_tokens(req) - 1 =>
          /\ req.num_computed_tokens - Newest < num_tokens(req) - 1
          /\ NumValid = 0 /\ req.spec_result = "None" /\ ~req.drop_end
          /\ req.output_token_ids = <<>>
          /\ ~Dropped(req) => o + NumOld = Len(pipe)
    /\ req.spec_result = "False" /\ req.just_fixed => o = 0

Flight ==
    /\ NumValid >= 0 /\ NumOld >= 0
    /\ req.spec_result = "False" => req.flush_len = NumOld
    /\ \E o, v \in Nat : Blocks(o, v) /\ (InRunning(req) => RunningBlocks(o, v))

TypeInv ==
    /\ TypeOK
    /\ req.num_prompt_tokens = NumPromptTokens
    /\ req.max_tokens = MaxTokens

\* What the user has seen, and where it stops.
UserInv ==
    /\ 0 <= req.sp_len /\ req.sp_len <= Len(req.output_token_ids)
    /\ UserSeesVerified
    /\ ~is_finished(req) => Len(user) < MaxTokens /\ (user # <<>> => ~Stops(user))
    /\ req.spec_result = "False" => NumVerified(req) >= 1

RunningInv ==
    /\ ~Dropped(req) => Len(req.output_token_ids) < MaxTokens
    /\ Dropped(req) =>
          /\ req.drop_len = req.sp_len
          /\ req.num_computed_tokens >= NumPromptTokens
          /\ Newest = 0
    /\ req.spec_result = "False" => req.flush_len >= 1
    /\ req.spec_result = "False" /\ req.just_fixed /\ phase = "schedule" => ~Dropped(req)
    /\ req.drop_end => phase = "schedule" /\ ~Dropped(req)
    /\ Newest = 1 => ~Dropped(req)

WaitingInv ==
    /\ req.sp_len = 0 /\ req.spec_result = "None" /\ req.num_scheduled = 0
    /\ ~Dropped(req) /\ ~req.drop_end
    /\ \A i \in 1..Len(pipe) : pipe[i] = Idle

PreemptedInv ==
    /\ ~Dropped(req) /\ ~req.drop_end
    /\ Newest = 0
    /\ req.spec_result = "False" => req.flush_len >= 1 \/ NumValid = 0

IInv ==
    /\ TypeInv
    /\ UserInv
    /\ InWaiting(req) => WaitingInv
    /\ InRunning(req) => RunningInv
    /\ InToBePreempted(req) => PreemptedInv
    /\ is_finished(req) => Newest = 0
    /\ Tracked => Flight
-----------------------------------------------------------------------------
(* Sequences. *)

\* Two sequences of the same length with the same elements are equal.
LEMMA SeqEqual ==
    ASSUME NEW S, NEW s \in Seq(S), NEW t \in Seq(S), Len(s) = Len(t),
           \A i \in 1..Len(s) : s[i] = t[i]
    PROVE  s = t
  OBVIOUS

\* Prefix(s, k) is the sequence of the first k elements.
LEMMA PrefixType ==
    ASSUME NEW S, NEW s \in Seq(S), NEW k \in 0..Len(s)
    PROVE  /\ Prefix(s, k) \in Seq(S)
           /\ Len(Prefix(s, k)) = k
           /\ \A i \in 1..k : Prefix(s, k)[i] = s[i]
  BY DEF Prefix

\* All of a sequence is a prefix of it.
LEMMA PrefixAll ==
    ASSUME NEW S, NEW s \in Seq(S)
    PROVE  Prefix(s, Len(s)) = s
  BY PrefixType, SeqEqual

\* Appending does not change the prefixes there were.
LEMMA PrefixOfAppend ==
    ASSUME NEW S, NEW s \in Seq(S), NEW t \in S, NEW k \in 0..Len(s)
    PROVE  Prefix(Append(s, t), k) = Prefix(s, k)
  BY DEF Prefix

\* A prefix grows by the next element.
LEMMA PrefixSucc ==
    ASSUME NEW S, NEW s \in Seq(S), NEW k \in 0..(Len(s) - 1)
    PROVE  Prefix(s, k + 1) = Append(Prefix(s, k), s[k + 1])
<1>1. /\ Prefix(s, k) \in Seq(S) /\ Len(Prefix(s, k)) = k
      /\ \A i \in 1..k : Prefix(s, k)[i] = s[i]
  BY PrefixType
<1>2. /\ Prefix(s, k + 1) \in Seq(S) /\ Len(Prefix(s, k + 1)) = k + 1
      /\ \A i \in 1..(k + 1) : Prefix(s, k + 1)[i] = s[i]
  BY PrefixType
<1>3. s[k + 1] \in S
  OBVIOUS
<1> DEFINE u == Append(Prefix(s, k), s[k + 1])
<1>4. /\ u \in Seq(S) /\ Len(u) = k + 1
      /\ \A i \in 1..(k + 1) : u[i] = s[i]
  BY <1>1, <1>3
<1> QED
  BY <1>2, <1>4, SeqEqual

\* Replacing the last k >= 1 elements by t.
LEMMA ReplaceTailType ==
    ASSUME NEW S, NEW s \in Seq(S), NEW t \in S, NEW k \in 1..Len(s)
    PROVE  /\ ReplaceTail(s, k, t) = Append(Prefix(s, Len(s) - k), t)
           /\ ReplaceTail(s, k, t) \in Seq(S)
           /\ Len(ReplaceTail(s, k, t)) = Len(s) - k + 1
<1>1. Len(s) - k \in 0..Len(s) /\ k # 0
  OBVIOUS
<1>2. Prefix(s, Len(s) - k) \in Seq(S) /\ Len(Prefix(s, Len(s) - k)) = Len(s) - k
  BY <1>1, PrefixType
<1>3. ReplaceTail(s, k, t) = Append(Prefix(s, Len(s) - k), t)
  BY <1>1 DEF ReplaceTail
<1> QED
  <2> DEFINE u == Prefix(s, Len(s) - k)
  <2>1. u \in Seq(S) /\ Len(u) = Len(s) - k /\ ReplaceTail(s, k, t) = Append(u, t)
    BY <1>2, <1>3
  <2> HIDE DEF u
  <2>2. Append(u, t) \in Seq(S) /\ Len(Append(u, t)) = Len(u) + 1
    BY <2>1
  <2>3. Len(s) - k + 1 = (Len(s) - k) + 1
    OBVIOUS
  <2> QED
    BY <1>3, <2>1, <2>2, <2>3

\* The tail of a nonempty sequence.
LEMMA TailType ==
    ASSUME NEW S, NEW s \in Seq(S), Len(s) >= 1
    PROVE  /\ Head(s) = s[1] /\ Head(s) \in S
           /\ Tail(s) \in Seq(S) /\ Len(Tail(s)) = Len(s) - 1
           /\ \A i \in 1..(Len(s) - 1) : Tail(s)[i] = s[i + 1]
  OBVIOUS

-----------------------------------------------------------------------------
(* The two blocks, slot by slot. *)

\* What the oldest slot tells.
LEMMA HeadKind ==
    ASSUME NEW p \in Seq(Slot), Len(p) >= 1,
           NEW o \in Nat, NEW k \in Nat, NEW v \in Nat, NEW w \in Nat,
           NEW kd \in {"prefill", "sample"}, NEW out, NEW nv \in Nat,
           BlocksOf(p, o, k, kd, v, w, out, nv)
    PROVE  /\ p[1].kind = "idle" => (k > 0 => o > 0) /\ (w > 0 => v > 0)
           /\ p[1].kind = "prefill" => o = 0 /\ k > 0 /\ kd = "prefill"
           /\ p[1].kind = "sample" => \/ o = 0 /\ k > 0 /\ kd = "sample"
                                      \/ v = 0 /\ w > 0 /\ k = 0
<1> DEFINE g == Target(Prefix(out, nv + (1 - v) - 1))
<1>1. /\ Idle.kind = "idle" /\ Sample(g).kind = "sample"
  BY DEF Idle, Sample
<1>2. /\ Within(o, k, 1) => p[1].kind = kd
      /\ Within(v, w, 1) => p[1] = Sample(g)
      /\ ~Within(o, k, 1) /\ ~Within(v, w, 1) => p[1] = Idle
  BY DEF BlocksOf
<1>3. o + k <= v
  BY DEF BlocksOf
<1> HIDE DEF g
<1> QED
  BY <1>1, <1>2, <1>3 DEF Within

\* An idle slot enters.
LEMMA EnterIdleBlocks ==
    ASSUME NEW p \in Seq(Slot),
           NEW o \in Nat, NEW k \in Nat, NEW v \in Nat, NEW w \in Nat,
           NEW kd, NEW out, NEW nv \in Nat,
           BlocksOf(p, o, k, kd, v, w, out, nv)
    PROVE  BlocksOf(Append(p, Idle), o, k, kd, v, w, out, nv)
  BY DEF BlocksOf, Within, Slot

\* A prefill chunk enters behind a block of them.
LEMMA EnterPrefillBlocks ==
    ASSUME NEW p \in Seq(Slot),
           NEW o \in Nat, NEW k \in Nat, NEW v \in Nat,
           NEW out, NEW nv \in Nat,
           BlocksOf(p, o, k, "prefill", v, 0, out, nv), o + k = Len(p)
    PROVE  BlocksOf(Append(p, Prefill), o, k + 1, "prefill", Len(p) + 1, 0, out, nv)
<1>1. Prefill.kind = "prefill" /\ Prefill \in Slot
  BY DEF Prefill, Slot
<1> QED
  BY <1>1 DEF BlocksOf, Within

\* A sample enters behind the valid block.
LEMMA EnterSampleBlocks ==
    ASSUME NEW p \in Seq(Slot),
           NEW o \in Nat, NEW k \in Nat, NEW v \in Nat, NEW w \in Nat,
           NEW kd, NEW out, NEW nv \in Nat,
           BlocksOf(p, o, k, kd, v, w, out, nv), v + w = Len(p),
           NEW t \in Token, t = Target(Prefix(out, nv + w))
    PROVE  BlocksOf(Append(p, Sample(t)), o, k, kd, v, w + 1, out, nv)
<1> DEFINE n == Len(p)
           q == Append(p, Sample(t))
<1>1. Sample(t) \in Slot
  BY DEF Slot
<1>2. q \in Seq(Slot) /\ Len(q) = n + 1 /\ q[n + 1] = Sample(t)
      /\ \A i \in 1..n : q[i] = p[i]
  BY <1>1
<1>3. /\ o + k <= v /\ n \in Nat
      /\ \A i \in 1..n :
           /\ Within(o, k, i) => p[i].kind = kd
           /\ Within(v, w, i) => p[i] = Sample(Target(Prefix(out, nv + (i - v) - 1)))
           /\ ~Within(o, k, i) /\ ~Within(v, w, i) => p[i] = Idle
  BY DEF BlocksOf
<1>4. nv + ((n + 1) - v) - 1 = nv + w
  BY <1>3
<1>5. q[n + 1] = Sample(Target(Prefix(out, nv + ((n + 1) - v) - 1)))
  BY <1>2, <1>4
<1>6. SUFFICES ASSUME NEW i \in 1..(n + 1)
               PROVE  /\ Within(o, k, i) => q[i].kind = kd
                      /\ Within(v, w + 1, i) =>
                            q[i] = Sample(Target(Prefix(out, nv + (i - v) - 1)))
                      /\ ~Within(o, k, i) /\ ~Within(v, w + 1, i) => q[i] = Idle
  BY <1>2, <1>3 DEF BlocksOf
<1> HIDE DEF q
<1>7. CASE i = n + 1
  <2>1. ~Within(o, k, i) /\ Within(v, w + 1, i)
    BY <1>3, <1>7 DEF Within
  <2> QED
    BY <2>1, <1>5, <1>7
<1>8. CASE i \in 1..n
  <2>1. Within(v, w + 1, i) <=> Within(v, w, i)
    BY <1>3, <1>8 DEF Within
  <2> QED
    BY <2>1, <1>2, <1>3, <1>8
<1> QED
  BY <1>3, <1>7, <1>8

\* A position one slot nearer to the exit.
Dec(n) == IF n = 0 THEN 0 ELSE n - 1

\* An idle slot leaves.
LEMMA LeaveIdleBlocks ==
    ASSUME NEW p \in Seq(Slot), Len(p) >= 1,
           NEW o \in Nat, NEW k \in Nat, NEW v \in Nat, NEW w \in Nat,
           NEW kd, NEW out, NEW nv \in Nat,
           BlocksOf(p, o, k, kd, v, w, out, nv),
           k > 0 => o > 0, w > 0 => v > 0
    PROVE  BlocksOf(Tail(p), Dec(o), k, kd, Dec(v), w, out, nv)
<1>1. /\ Len(Tail(p)) = Len(p) - 1
      /\ \A i \in 1..(Len(p) - 1) : Tail(p)[i] = p[i + 1]
  BY TailType
<1>2. Dec(o) + k <= Dec(v) /\ Dec(v) + w <= Len(p) - 1
  BY DEF BlocksOf, Dec
<1>3. ASSUME NEW i \in 1..(Len(p) - 1)
      PROVE  /\ Within(Dec(o), k, i) <=> Within(o, k, i + 1)
             /\ Within(Dec(v), w, i) <=> Within(v, w, i + 1)
             /\ Within(v, w, i + 1) => nv + (i - Dec(v)) - 1 = nv + ((i + 1) - v) - 1
  BY DEF Within, Dec
<1>4. ASSUME NEW i \in 1..(Len(p) - 1)
      PROVE  /\ Within(o, k, i + 1) => p[i + 1].kind = kd
             /\ Within(v, w, i + 1) =>
                   p[i + 1] = Sample(Target(Prefix(out, nv + ((i + 1) - v) - 1)))
             /\ ~Within(o, k, i + 1) /\ ~Within(v, w, i + 1) => p[i + 1] = Idle
  BY DEF BlocksOf
<1> QED
  BY <1>1, <1>2, <1>3, <1>4 DEF BlocksOf

\* An old iteration leaves.
LEMMA LeaveOldBlocks ==
    ASSUME NEW p \in Seq(Slot), Len(p) >= 1,
           NEW k \in Nat, NEW v \in Nat, NEW w \in Nat,
           NEW kd, NEW out, NEW nv \in Nat,
           BlocksOf(p, 0, k, kd, v, w, out, nv), k > 0
    PROVE  v > 0 /\ BlocksOf(Tail(p), 0, k - 1, kd, v - 1, w, out, nv)
<1>1. /\ Len(Tail(p)) = Len(p) - 1
      /\ \A i \in 1..(Len(p) - 1) : Tail(p)[i] = p[i + 1]
  BY TailType
<1>2. v > 0 /\ 0 + (k - 1) <= v - 1 /\ (v - 1) + w <= Len(p) - 1
  BY DEF BlocksOf
<1>3. ASSUME NEW i \in 1..(Len(p) - 1)
      PROVE  /\ Within(0, k - 1, i) <=> Within(0, k, i + 1)
             /\ Within(v - 1, w, i) <=> Within(v, w, i + 1)
             /\ nv + (i - (v - 1)) - 1 = nv + ((i + 1) - v) - 1
  BY DEF Within
<1>4. ASSUME NEW i \in 1..(Len(p) - 1)
      PROVE  /\ Within(0, k, i + 1) => p[i + 1].kind = kd
             /\ Within(v, w, i + 1) =>
                   p[i + 1] = Sample(Target(Prefix(out, nv + ((i + 1) - v) - 1)))
             /\ ~Within(0, k, i + 1) /\ ~Within(v, w, i + 1) => p[i + 1] = Idle
  BY DEF BlocksOf
<1>5. ASSUME NEW i \in 1..Len(Tail(p))
      PROVE  /\ Within(0, k - 1, i) => Tail(p)[i].kind = kd
             /\ Within(v - 1, w, i) =>
                   Tail(p)[i] = Sample(Target(Prefix(out, nv + (i - (v - 1)) - 1)))
             /\ ~Within(0, k - 1, i) /\ ~Within(v - 1, w, i) => Tail(p)[i] = Idle
  <2>1. i \in 1..(Len(p) - 1) /\ Tail(p)[i] = p[i + 1]
    BY <1>1
  <2> DEFINE m == nv + (i - (v - 1)) - 1
             n == nv + ((i + 1) - v) - 1
  <2>2. /\ Within(0, k - 1, i) <=> Within(0, k, i + 1)
        /\ Within(v - 1, w, i) <=> Within(v, w, i + 1)
        /\ m = n
    BY <1>3, <2>1
  <2>3. /\ Within(0, k, i + 1) => p[i + 1].kind = kd
        /\ Within(v, w, i + 1) => p[i + 1] = Sample(Target(Prefix(out, n)))
        /\ ~Within(0, k, i + 1) /\ ~Within(v, w, i + 1) => p[i + 1] = Idle
    BY <1>4, <2>1
  <2> HIDE DEF m, n
  <2>4. /\ Within(0, k - 1, i) => Tail(p)[i].kind = kd
        /\ Within(v - 1, w, i) => Tail(p)[i] = Sample(Target(Prefix(out, m)))
        /\ ~Within(0, k - 1, i) /\ ~Within(v - 1, w, i) => Tail(p)[i] = Idle
    BY ONLY <2>1, <2>2, <2>3
  <2> QED
    BY <2>4 DEF m
<1> QED
  BY <1>1, <1>2, <1>5 DEF BlocksOf

\* The oldest valid sample leaves: it is the target's answer to the verified
\* tokens.  The samples behind it stay valid if it is accepted, and are a
\* block of old ones if it is not.
LEMMA LeaveValidBlocks ==
    ASSUME NEW p \in Seq(Slot), Len(p) >= 1,
           NEW o \in Nat, NEW w \in Nat, NEW kd, NEW out, NEW nv \in Nat,
           BlocksOf(p, o, 0, kd, 0, w, out, nv), w > 0
    PROVE  /\ p[1] = Sample(Target(Prefix(out, nv)))
           /\ BlocksOf(Tail(p), 0, 0, kd, 0, w - 1, out, nv + 1)
           /\ \A out2, nv2 : BlocksOf(Tail(p), 0, w - 1, "sample", Len(p) - 1, 0, out2, nv2)
<1>1. /\ Len(Tail(p)) = Len(p) - 1
      /\ \A i \in 1..(Len(p) - 1) : Tail(p)[i] = p[i + 1]
  BY TailType
<1>2. w <= Len(p) /\ Len(p) \in Nat
  BY DEF BlocksOf
<1>3. p[1] = Sample(Target(Prefix(out, nv)))
  <2>1. Within(0, w, 1) /\ 1 \in 1..Len(p) /\ nv + (1 - 0) - 1 = nv
    BY DEF Within
  <2>2. p[1] = Sample(Target(Prefix(out, nv + (1 - 0) - 1)))
    BY <2>1 DEF BlocksOf
  <2> QED
    BY <2>1, <2>2
<1>4. ASSUME NEW i \in 1..(Len(p) - 1)
      PROVE  /\ Within(0, w - 1, i) =>
                   p[i + 1] = Sample(Target(Prefix(out, (nv + 1) + (i - 0) - 1)))
             /\ ~Within(0, w - 1, i) => p[i + 1] = Idle
             /\ ~Within(0, 0, i) /\ ~Within(Len(p) - 1, 0, i)
  <2>1. /\ Within(0, w - 1, i) <=> Within(0, w, i + 1)
        /\ ~Within(o, 0, i + 1)
        /\ nv + ((i + 1) - 0) - 1 = (nv + 1) + (i - 0) - 1
        /\ ~Within(0, 0, i) /\ ~Within(Len(p) - 1, 0, i)
        /\ i + 1 \in 1..Len(p)
    BY <1>2 DEF Within
  <2>2. /\ Within(0, w, i + 1) =>
             p[i + 1] = Sample(Target(Prefix(out, nv + ((i + 1) - 0) - 1)))
        /\ ~Within(o, 0, i + 1) /\ ~Within(0, w, i + 1) => p[i + 1] = Idle
    BY <2>1 DEF BlocksOf
  <2> QED
    BY <2>1, <2>2
<1>5. BlocksOf(Tail(p), 0, 0, kd, 0, w - 1, out, nv + 1)
  BY <1>1, <1>2, <1>4 DEF BlocksOf
<1>6. \A t : Sample(t).kind = "sample"
  BY DEF Sample
<1>7. ASSUME NEW out2, NEW nv2
      PROVE  BlocksOf(Tail(p), 0, w - 1, "sample", Len(p) - 1, 0, out2, nv2)
  BY <1>1, <1>2, <1>4, <1>6 DEF BlocksOf
<1> QED
  BY <1>3, <1>5, <1>7

\* A guess is appended: the expected samples stay the same.
LEMMA AppendBlocks ==
    ASSUME NEW p \in Seq(Slot),
           NEW o \in Nat, NEW k \in Nat, NEW v \in Nat, NEW w \in Nat,
           NEW kd, NEW out \in Seq(Token), NEW nv \in Nat, NEW t \in Token,
           BlocksOf(p, o, k, kd, v, w, out, nv), nv + w <= Len(out) + 1
    PROVE  BlocksOf(p, o, k, kd, v, w, Append(out, t), nv)
<1>1. ASSUME NEW i \in 1..Len(p), Within(v, w, i)
      PROVE  Prefix(Append(out, t), nv + (i - v) - 1) = Prefix(out, nv + (i - v) - 1)
  <2>1. nv + (i - v) - 1 \in 0..Len(out)
    BY <1>1 DEF Within
  <2> QED
    BY <2>1, PrefixOfAppend
<1> QED
  BY <1>1 DEF BlocksOf

\* Without old and valid iterations all slots are idle.
LEMMA NoBlocks ==
    ASSUME NEW p \in Seq(Slot), NEW o \in Nat, NEW v \in Nat,
           NEW kd, NEW out, NEW nv
    PROVE  /\ BlocksOf(p, o, 0, kd, v, 0, out, nv) => \A i \in 1..Len(p) : p[i] = Idle
           /\ (\A i \in 1..Len(p) : p[i] = Idle) =>
                  BlocksOf(p, Len(p), 0, kd, Len(p), 0, out, nv)
  BY DEF BlocksOf, Within

\* An empty old block may change its kind.
LEMMA EmptyOldBlock ==
    ASSUME NEW p \in Seq(Slot),
           NEW o \in Nat, NEW v \in Nat, NEW w \in Nat,
           NEW kd, NEW kd2, NEW out, NEW nv,
           BlocksOf(p, o, 0, kd, v, w, out, nv)
    PROVE  BlocksOf(p, o, 0, kd2, v, w, out, nv)
  BY DEF BlocksOf, Within

-----------------------------------------------------------------------------
(* Requests. *)

\* A field keeps its type.
LEMMA SetField ==
    ASSUME NEW r \in Request
    PROVE  /\ \A x \in RequestStatus : [r EXCEPT !.status = x] \in Request
           /\ \A x \in Seq(Token) : [r EXCEPT !.output_token_ids = x] \in Request
           /\ \A x \in Int : [r EXCEPT !.num_computed_tokens = x] \in Request
           /\ \A x \in Int : [r EXCEPT !.sp_len = x] \in Request
           /\ \A x \in SpecResult : [r EXCEPT !.spec_result = x] \in Request
           /\ \A x \in Int : [r EXCEPT !.fixed_idx = x] \in Request
           /\ \A x \in Int : [r EXCEPT !.flush_len = x] \in Request
           /\ \A x \in BOOLEAN : [r EXCEPT !.just_fixed = x] \in Request
           /\ \A x \in BOOLEAN : [r EXCEPT !.confidence_dropped = x] \in Request
           /\ \A x \in BOOLEAN : [r EXCEPT !.stop_dropped = x] \in Request
           /\ \A x \in Int : [r EXCEPT !.drop_len = x] \in Request
           /\ \A x \in BOOLEAN : [r EXCEPT !.drop_end = x] \in Request
           /\ \A x \in BOOLEAN : [r EXCEPT !.should_preempt = x] \in Request
           /\ \A x \in Int : [r EXCEPT !.num_scheduled = x] \in Request
  BY DEF Request

\* The types of the fields.
LEMMA FieldTypes ==
    ASSUME NEW r \in Request
    PROVE  /\ r.status \in RequestStatus
           /\ r.output_token_ids \in Seq(Token) /\ Len(r.output_token_ids) \in Nat
           /\ r.num_computed_tokens \in Int /\ r.sp_len \in Int
           /\ r.spec_result \in SpecResult /\ r.flush_len \in Int
           /\ r.drop_len \in Int /\ r.num_scheduled \in Int
           /\ r.num_prompt_tokens \in Nat /\ r.max_tokens \in Nat
           /\ r.just_fixed \in BOOLEAN /\ r.confidence_dropped \in BOOLEAN
           /\ r.stop_dropped \in BOOLEAN /\ r.drop_end \in BOOLEAN
           /\ r.should_preempt \in BOOLEAN
  BY DEF Request

\* The operations return requests.
LEMMA FlushOneType ==
    ASSUME NEW r \in Request
    PROVE  FlushOne(r) \in Request
<1>1. r.flush_len - 1 \in Int /\ FALSE \in BOOLEAN
  BY FieldTypes
<1>2. (IF r.flush_len = 1 THEN "None" ELSE r.spec_result) \in SpecResult
  BY FieldTypes DEF SpecResult
<1> QED
  BY SetField, <1>1, <1>2, Zenon DEF FlushOne

\* The request whose drop ends with t is a request.
LEMMA EndDropType ==
    ASSUME NEW r \in Request, NEW t \in Token, Len(r.output_token_ids) >= 1
    PROVE  EndDrop(r, t) \in Request
<1>1. ReplaceTail(r.output_token_ids, 1, t) \in Seq(Token)
  BY FieldTypes, ReplaceTailType
<1>2. 0 \in Int /\ "None" \in SpecResult /\ TRUE \in BOOLEAN /\ FALSE \in BOOLEAN
  BY DEF SpecResult
<1> QED
  BY SetField, <1>1, <1>2, Zenon DEF EndDrop

\* Accepting a guess gives a request.
LEMMA AcceptType ==
    ASSUME NEW r \in Request
    PROVE  Accept(r) \in Request
<1>1. r.sp_len - 1 \in Int /\ 0 \in Int /\ "True" \in SpecResult
  BY FieldTypes DEF SpecResult
<1> QED
  BY SetField, <1>1, Zenon DEF Accept

\* Replacing a guess by t gives a request.
LEMMA CorrectType ==
    ASSUME NEW r \in Request, NEW t \in Token,
           r.sp_len >= 1, r.sp_len <= Len(r.output_token_ids)
    PROVE  Correct(r, t) \in Request
<1>1. ReplaceTail(r.output_token_ids, r.sp_len, t) \in Seq(Token)
  BY FieldTypes, ReplaceTailType
<1>2. /\ r.num_computed_tokens - (r.sp_len - 1) \in Int /\ r.sp_len - 1 \in Int
      /\ Len(r.output_token_ids) - r.sp_len \in Int
      /\ 0 \in Int /\ "False" \in SpecResult
  BY FieldTypes DEF SpecResult
<1>3. TRUE \in BOOLEAN /\ FALSE \in BOOLEAN
  OBVIOUS
<1> QED
  BY SetField, <1>1, <1>2, <1>3, ZenonT(60) DEF Correct

\* c is r, but for its status.
SameData(c, r) ==
    /\ c.num_prompt_tokens = r.num_prompt_tokens /\ c.max_tokens = r.max_tokens
    /\ c.output_token_ids = r.output_token_ids
    /\ c.num_computed_tokens = r.num_computed_tokens
    /\ c.sp_len = r.sp_len /\ c.spec_result = r.spec_result
    /\ c.flush_len = r.flush_len /\ c.just_fixed = r.just_fixed
    /\ c.confidence_dropped = r.confidence_dropped
    /\ c.stop_dropped = r.stop_dropped
    /\ c.drop_len = r.drop_len /\ c.drop_end = r.drop_end
    /\ c.should_preempt = r.should_preempt /\ c.num_scheduled = r.num_scheduled

\* The stop check changes the status only, and finishes the request exactly
\* when its verified output stops.
LEMMA CheckStopType ==
    ASSUME NEW r \in Request
    PROVE  LET c == check_stop_from_validation(r) IN
           /\ c \in Request
           /\ SameData(c, r)
           /\ StopsAt(r, NumVerified(r)) => c.status \in FinishedStatus
           /\ ~StopsAt(r, NumVerified(r)) => c.status = r.status
<1>1. CASE ~StopsAt(r, NumVerified(r))
  BY <1>1 DEF check_stop_from_validation, SameData
<1>2. CASE StopsAt(r, NumVerified(r))
  <2>1. PICK st \in FinishedStatus :
           check_stop_from_validation(r) = [r EXCEPT !.status = st]
    <3> DEFINE st == IF \/ r.num_prompt_tokens + NumVerified(r) >= MaxModelLen
                        \/ NumVerified(r) >= r.max_tokens
                     THEN "FINISHED_LENGTH_CAPPED" ELSE "FINISHED_STOPPED"
    <3>1. st \in FinishedStatus
      BY DEF FinishedStatus
    <3>2. check_stop_from_validation(r) = [r EXCEPT !.status = st]
      BY <1>2, Zenon DEF check_stop_from_validation
    <3> QED
      BY <3>1, <3>2
  <2>2. st \in RequestStatus
    BY DEF RequestStatus
  <2>3. [r EXCEPT !.status = st] \in Request
    BY <2>2, SetField
  <2>4. SameData([r EXCEPT !.status = st], r) /\ [r EXCEPT !.status = st].status = st
    BY DEF SameData, Request
  <2> QED
    BY <1>2, <2>1, <2>3, <2>4
<1> QED
  BY <1>1, <1>2
-----------------------------------------------------------------------------
(* Verify preserves the invariant. *)

\* What every Verify step starts from.
LEMMA VerifyContext ==
    ASSUME IInv, Verify
    PROVE  /\ req \in Request /\ user \in Seq(Token)
           /\ PP \in Nat /\ PP >= 2
           /\ pipe \in Seq(Slot) /\ Len(pipe) = PP
           /\ pipe' \in Seq(Slot) /\ Len(pipe') = PP - 1
           /\ pipe' = Tail(pipe) /\ Head(pipe) = pipe[1] /\ pipe[1] \in Slot
           /\ phase' = "schedule" /\ Newest = 0 /\ Newest' = 0
<1>1. req \in Request /\ user \in Seq(Token) /\ pipe \in Seq(Slot) /\ Len(pipe) = PP
  BY DEF IInv, TypeInv, TypeOK, Verify
<1>2. PP \in Nat /\ PP >= 2
  BY PPAssumption
<1>3. pipe' = Tail(pipe) /\ phase = "verify" /\ phase' = "schedule"
  BY DEF Verify
<1>4. /\ pipe' \in Seq(Slot) /\ Len(pipe') = PP - 1
      /\ Head(pipe) = pipe[1] /\ pipe[1] \in Slot
  BY <1>1, <1>2, <1>3, TailType
<1>5. Newest = 0 /\ Newest' = 0
  BY <1>3 DEF Newest
<1> QED
  BY <1>1, <1>2, <1>3, <1>4, <1>5

\* The blocks of a tracked request in a Verify step.
LEMMA VerifyBlocks ==
    ASSUME IInv, Verify, Tracked
    PROVE  /\ NumValid \in Nat /\ NumOld \in Nat /\ NumVerified(req) \in Nat
           /\ NumValid = req.sp_len /\ req.num_scheduled = NumOld + NumValid
           /\ OldKind \in {"prefill", "sample"}
           /\ \E o, v \in Nat : Blocks(o, v) /\ (InRunning(req) => RunningBlocks(o, v))
           /\ req.spec_result = "False" => req.flush_len = NumOld
<1> USE VerifyContext
<1>1. Flight /\ UserInv
  BY DEF IInv
<1>2. /\ req.sp_len \in Int /\ req.num_scheduled \in Int
      /\ Len(req.output_token_ids) \in Nat
  BY FieldTypes
<1>3. OldKind \in {"prefill", "sample"}
  BY DEF OldKind
<1>4. NumValid = req.sp_len /\ NumOld = req.num_scheduled - req.sp_len
  BY <1>2 DEF NumValid, NumOld
<1>5. /\ NumValid >= 0 /\ NumOld >= 0
      /\ req.spec_result = "False" => req.flush_len = NumOld
      /\ \E o, v \in Nat : Blocks(o, v) /\ (InRunning(req) => RunningBlocks(o, v))
  BY <1>1 DEF Flight
<1>6. NumVerified(req) \in Nat
  BY <1>1, <1>2 DEF UserInv, NumVerified
<1>7. NumValid \in Nat /\ NumOld \in Nat /\ req.num_scheduled = NumOld + NumValid
  BY ONLY <1>2, <1>4, <1>5
<1> QED
  BY <1>3, <1>4, <1>5, <1>6, <1>7

\* The request is not in the batch that leaves.
LEMMA VerifyIdle ==
    ASSUME IInv, Verify, ~InOldestBatch
    PROVE  IInv'
<1> USE VerifyContext
<1>1. req' = req /\ user' = user
  BY DEF Verify
<1>2. TypeInv'
  BY <1>1 DEF IInv, TypeInv, TypeOK
<1>3. UserInv'
  BY <1>1 DEF IInv, UserInv, UserSeesVerified, Stops
<1>4. InWaiting(req)' => WaitingInv'
  <2>1. ASSUME NEW i \in 1..Len(pipe') PROVE pipe'[i] = pipe[i + 1] /\ i + 1 \in 1..Len(pipe)
    BY TailType
  <2> QED
    BY <1>1, <2>1 DEF IInv, WaitingInv
<1>5. ASSUME Tracked
      PROVE  /\ Flight'
             /\ InRunning(req) => ~(req.spec_result = "False" /\ req.just_fixed)
  <2> USE VerifyBlocks, <1>5
  <2>1. PICK o \in Nat, v \in Nat : Blocks(o, v) /\ (InRunning(req) => RunningBlocks(o, v))
    OBVIOUS
  <2>2. pipe[1].kind = "idle"
    BY DEF InOldestBatch, Tracked
  <2> DEFINE out == req.output_token_ids
             nv == NumVerified(req)
  <2>b. BlocksOf(pipe, o, NumOld, OldKind, v, NumValid, out, nv)
    BY <2>1 DEF Blocks
  <2> HIDE DEF out, nv
  <2>t. /\ NumOld \in Nat /\ NumValid \in Nat /\ nv \in Nat
        /\ OldKind \in {"prefill", "sample"} /\ pipe \in Seq(Slot) /\ Len(pipe) >= 1
    BY DEF nv
  <2>3. (NumOld > 0 => o > 0) /\ (NumValid > 0 => v > 0)
    <3> DEFINE k == NumOld
               w == NumValid
               kd == OldKind
    <3>1. k \in Nat /\ w \in Nat /\ nv \in Nat /\ kd \in {"prefill", "sample"}
      BY <2>t
    <3>2. BlocksOf(pipe, o, k, kd, v, w, out, nv)
      BY <2>b
    <3> HIDE DEF k, w, kd
    <3>3. pipe[1].kind = "idle" => (k > 0 => o > 0) /\ (w > 0 => v > 0)
      BY ONLY <2>t, <3>1, <3>2, HeadKind, o \in Nat, v \in Nat
    <3> QED
      BY <2>2, <3>3 DEF k, w
  <2>4. NumOld' = NumOld /\ NumValid' = NumValid /\ OldKind' = OldKind
    BY <1>1 DEF NumOld, NumValid, OldKind
  <2>5. Blocks(Dec(o), Dec(v))'
    <3>1. BlocksOf(Tail(pipe), Dec(o), NumOld, OldKind, Dec(v), NumValid, out, nv)
      BY <2>b, <2>t, <2>3, LeaveIdleBlocks
    <3> QED
      BY <1>1, <2>4, <3>1 DEF Blocks, out, nv
  <2>6. Dec(o) \in Nat /\ Dec(v) \in Nat
    BY DEF Dec
  <2>7. ASSUME InRunning(req)
        PROVE  /\ RunningBlocks(Dec(o), Dec(v))'
               /\ ~(req.spec_result = "False" /\ req.just_fixed)
    <3>1. RunningBlocks(o, v) /\ RunningInv
      BY <2>1, <2>7 DEF IInv
    <3>2. ~(req.spec_result = "False" /\ req.just_fixed)
      BY <2>3, <3>1 DEF RunningBlocks, RunningInv
    <3>3. ~Dropped(req) => Dec(v) + NumValid' = Len(pipe')
      <4>1. ~Dropped(req) => v + NumValid = Len(pipe)
        BY <3>1 DEF RunningBlocks
      <4>2. Len(pipe) >= 2 /\ Len(pipe) \in Nat /\ Len(pipe') = Len(pipe) - 1 /\ NumValid \in Nat
        OBVIOUS
      <4> QED
        BY ONLY <2>3, <2>4, <4>1, <4>2 DEF Dec
    <3>4. req.num_computed_tokens # num_tokens(req) - 1 =>
            /\ req.num_computed_tokens < num_tokens(req) - 1
            /\ NumValid' = 0 /\ req.spec_result = "None" /\ ~req.drop_end
            /\ req.output_token_ids = <<>>
            /\ ~Dropped(req) => Dec(o) + NumOld' = Len(pipe')
      <4>1. req.num_computed_tokens - Newest = req.num_computed_tokens
        BY FieldTypes
      <4>2. req.num_computed_tokens # num_tokens(req) - 1 =>
              /\ req.num_computed_tokens < num_tokens(req) - 1
              /\ NumValid = 0 /\ req.spec_result = "None" /\ ~req.drop_end
              /\ req.output_token_ids = <<>>
              /\ ~Dropped(req) => o + NumOld = Len(pipe)
        BY <3>1, <4>1 DEF RunningBlocks
      <4>3. Len(pipe) >= 2 /\ Len(pipe) \in Nat /\ Len(pipe') = Len(pipe) - 1 /\ NumOld \in Nat
        OBVIOUS
      <4>4. o + NumOld = Len(pipe) => Dec(o) + NumOld' = Len(pipe')
        BY ONLY <2>3, <2>4, <4>3 DEF Dec
      <4> QED
        BY ONLY <2>4, <4>2, <4>4
    <3> QED
      BY <1>1, <3>2, <3>3, <3>4, FieldTypes DEF RunningBlocks
  <2>8. NumValid' >= 0 /\ NumOld' >= 0 /\ (req'.spec_result = "False" => req'.flush_len = NumOld')
    BY <1>1, <2>4
  <2> QED
    BY <1>1, <2>5, <2>6, <2>7, <2>8 DEF Flight
<1>6. InRunning(req)' => RunningInv'
  BY <1>1, <1>5 DEF IInv, RunningInv, Tracked
<1>7. InToBePreempted(req)' => PreemptedInv'
  BY <1>1 DEF IInv, PreemptedInv, NumValid
<1> QED
  BY <1>1, <1>2, <1>3, <1>4, <1>5, <1>6, <1>7 DEF IInv, Tracked

\* The three kinds of batch that may leave with the request in it.
LEMMA VerifyHead ==
    ASSUME IInv, Verify, InOldestBatch
    PROVE  /\ Tracked
           /\ \E o, v \in Nat :
                /\ Blocks(o, v) /\ (InRunning(req) => RunningBlocks(o, v))
                /\ \/ /\ pipe[1].kind = "prefill" /\ o = 0 /\ NumOld > 0
                      /\ req.spec_result # "False"
                   \/ /\ pipe[1].kind = "sample" /\ o = 0 /\ NumOld > 0
                      /\ req.spec_result = "False"
                   \/ /\ pipe[1].kind = "sample" /\ v = 0 /\ NumValid > 0 /\ NumOld = 0
                      /\ req.spec_result # "False"
<1> USE VerifyContext
<1>1. Tracked
  BY DEF InOldestBatch, Tracked
<1>2. PICK o \in Nat, v \in Nat : Blocks(o, v) /\ (InRunning(req) => RunningBlocks(o, v))
  BY <1>1, VerifyBlocks
<1> DEFINE out == req.output_token_ids
           nv == NumVerified(req)
<1>3. BlocksOf(pipe, o, NumOld, OldKind, v, NumValid, out, nv)
  BY <1>2 DEF Blocks
<1>4. /\ NumOld \in Nat /\ NumValid \in Nat /\ nv \in Nat
      /\ OldKind \in {"prefill", "sample"} /\ pipe \in Seq(Slot) /\ Len(pipe) >= 1
      /\ req.spec_result = "False" => req.flush_len = NumOld
  BY <1>1, VerifyBlocks
<1>5. pipe[1].kind \in {"prefill", "sample"}
  <2>1. pipe[1] \in Slot /\ pipe[1].kind # "idle"
    BY DEF InOldestBatch
  <2>2. Prefill.kind = "prefill" /\ \A t : Sample(t).kind = "sample"
    BY DEF Prefill, Sample
  <2>3. Idle.kind = "idle"
    BY DEF Idle
  <2> QED
    BY <2>1, <2>2, <2>3 DEF Slot
<1> HIDE DEF out, nv
<1>6. /\ pipe[1].kind = "prefill" => o = 0 /\ NumOld > 0 /\ OldKind = "prefill"
      /\ pipe[1].kind = "sample" => \/ o = 0 /\ NumOld > 0 /\ OldKind = "sample"
                                    \/ v = 0 /\ NumValid > 0 /\ NumOld = 0
  BY ONLY <1>3, <1>4, HeadKind, o \in Nat, v \in Nat
<1>7. ASSUME NumOld = 0, NumValid > 0, req.spec_result = "False"
      PROVE  FALSE
  <2>1. req.flush_len = 0
    BY <1>4, <1>7
  <2>2. (InRunning(req) => RunningInv) /\ (InToBePreempted(req) => PreemptedInv)
    BY DEF IInv
  <2> QED
    BY <1>1, <1>7, <2>1, <2>2 DEF Tracked, RunningInv, PreemptedInv
<1>8. (OldKind = "sample") <=> (req.spec_result = "False")
  BY DEF OldKind
<1>9. \/ pipe[1].kind = "prefill" /\ o = 0 /\ NumOld > 0 /\ req.spec_result # "False"
      \/ pipe[1].kind = "sample" /\ o = 0 /\ NumOld > 0 /\ req.spec_result = "False"
      \/ /\ pipe[1].kind = "sample" /\ v = 0 /\ NumValid > 0 /\ NumOld = 0
         /\ req.spec_result # "False"
  BY <1>4, <1>5, <1>6, <1>7, <1>8
<1> QED
  BY <1>1, <1>2, <1>9

\* An old iteration of the request leaves: a prefill chunk, or a stale sample
\* that is flushed.
LEMMA VerifyOld ==
    ASSUME IInv, Verify, Tracked, NEW v \in Nat,
           Blocks(0, v), InRunning(req) => RunningBlocks(0, v), NumOld > 0,
           req' \in Request, user' = user,
           req'.status = req.status, req'.should_preempt = req.should_preempt,
           req'.num_prompt_tokens = req.num_prompt_tokens,
           req'.max_tokens = req.max_tokens,
           req'.output_token_ids = req.output_token_ids,
           req'.num_computed_tokens = req.num_computed_tokens,
           req'.sp_len = req.sp_len, req'.drop_len = req.drop_len,
           req'.confidence_dropped = req.confidence_dropped,
           req'.stop_dropped = req.stop_dropped, req'.drop_end = req.drop_end,
           req'.num_scheduled = req.num_scheduled - 1,
           req.spec_result # "False" =>
               /\ req'.spec_result = req.spec_result /\ req'.flush_len = req.flush_len
               /\ req'.just_fixed = req.just_fixed,
           req.spec_result = "False" =>
               /\ req'.spec_result = IF req.flush_len = 1 THEN "None" ELSE "False"
               /\ req'.flush_len = req.flush_len - 1
               /\ ~req'.just_fixed
    PROVE  IInv'
<1> USE VerifyContext
<1>1. /\ NumOld \in Nat /\ NumValid \in Nat /\ NumVerified(req) \in Nat
      /\ NumValid = req.sp_len /\ req.num_scheduled = NumOld + NumValid
      /\ req.spec_result = "False" => req.flush_len = NumOld
      /\ pipe \in Seq(Slot) /\ Len(pipe) >= 1
  BY VerifyBlocks
<1>2. /\ NumValid' = NumValid /\ NumOld' = NumOld - 1
      /\ NumVerified(req') = NumVerified(req)
  BY <1>1 DEF NumValid, NumOld, NumVerified
<1>3. (Dropped(req') <=> Dropped(req)) /\ num_tokens(req') = num_tokens(req)
  BY DEF Dropped, num_tokens
<1>4. TypeInv'
  BY DEF IInv, TypeInv, TypeOK
<1>5. UserInv'
  BY <1>2 DEF IInv, UserInv, UserSeesVerified, Stops, is_finished
<1> DEFINE out == req.output_token_ids
           nv == NumVerified(req)
<1>6. BlocksOf(pipe, 0, NumOld, OldKind, v, NumValid, out, nv)
  BY DEF Blocks
<1> HIDE DEF out, nv
<1>7. v > 0 /\ BlocksOf(Tail(pipe), 0, NumOld - 1, OldKind, v - 1, NumValid, out, nv)
  BY ONLY <1>1, <1>6, LeaveOldBlocks, v \in Nat, NumOld > 0, nv = NumVerified(req) DEF nv
<1>8. BlocksOf(pipe', 0, NumOld', OldKind', v - 1, NumValid', out, nv)
  <2>1. CASE OldKind' = OldKind
    BY <1>2, <1>7, <2>1
  <2>2. CASE OldKind' # OldKind
    <3>1. NumOld = 1
      BY <1>1, <2>2 DEF OldKind
    <3>2. BlocksOf(Tail(pipe), 0, 0, OldKind, v - 1, NumValid, out, nv)
      BY <1>7, <3>1
    <3>3. Tail(pipe) \in Seq(Slot) /\ v - 1 \in Nat
      BY <1>7
    <3>4. BlocksOf(Tail(pipe), 0, 0, OldKind', v - 1, NumValid, out, nv)
      BY ONLY <1>1, <3>2, <3>3, EmptyOldBlock
    <3>5. NumOld' = 0 /\ NumValid' = NumValid /\ pipe' = Tail(pipe)
      BY <1>2, <3>1
    <3> QED
      BY ONLY <3>4, <3>5
  <2> QED
    BY <2>1, <2>2
<1>9. v - 1 \in Nat /\ Blocks(0, v - 1)'
  BY <1>2, <1>7, <1>8 DEF Blocks, out, nv
<1>10. ASSUME InRunning(req')
       PROVE  RunningBlocks(0, v - 1)' /\ RunningInv'
  <2>1. InRunning(req) /\ RunningBlocks(0, v) /\ RunningInv
    BY <1>10 DEF IInv, InRunning
  <2>2. req.spec_result \in SpecResult /\ req.flush_len \in Int
    BY FieldTypes
  <2>3. ~(req'.spec_result = "False" /\ req'.just_fixed)
    BY <2>2
  <2>4. RunningBlocks(0, v - 1)'
    <3>0. ~Dropped(req) => v + NumValid = Len(pipe)
      BY <2>1 DEF RunningBlocks
    <3>1. ~Dropped(req') => (v - 1) + NumValid' = Len(pipe')
      <4>1. Len(pipe') = Len(pipe) - 1 /\ Len(pipe) \in Nat
        OBVIOUS
      <4> QED
        <5>1. (Dropped(req') <=> Dropped(req)) /\ NumValid' = NumValid /\ NumValid \in Nat
          BY <1>1, <1>2, <1>3
        <5> QED
          BY ONLY <3>0, <4>1, <5>1, v \in Nat
    <3>2. ASSUME req'.num_computed_tokens - Newest' # num_tokens(req') - 1
          PROVE  /\ req'.num_computed_tokens - Newest' < num_tokens(req') - 1
                 /\ NumValid' = 0 /\ req'.spec_result = "None" /\ ~req'.drop_end
                 /\ req'.output_token_ids = <<>>
                 /\ ~Dropped(req') => 0 + NumOld' = Len(pipe')
      <4>1. req.num_computed_tokens - Newest # num_tokens(req) - 1
        BY <1>3, <3>2
      <4>2. /\ req.num_computed_tokens - Newest < num_tokens(req) - 1
            /\ NumValid = 0 /\ req.spec_result = "None" /\ ~req.drop_end
            /\ req.output_token_ids = <<>>
            /\ ~Dropped(req) => 0 + NumOld = Len(pipe)
        BY <2>1, <4>1 DEF RunningBlocks
      <4> QED
        BY <1>1, <1>2, <1>3, <4>2
    <3> QED
      BY <2>3, <3>1, <3>2 DEF RunningBlocks
  <2>5. req'.spec_result = "False" => req'.flush_len >= 1
    BY <2>1, <2>2 DEF RunningInv
  <2>6. ~req.drop_end
    BY <2>1 DEF RunningInv, Verify
  <2> QED
    BY <1>3, <2>1, <2>3, <2>4, <2>5, <2>6 DEF RunningInv
<1>11. ASSUME InToBePreempted(req')
       PROVE  PreemptedInv'
  <2>1. PreemptedInv /\ req.flush_len \in Int
    BY <1>11, FieldTypes DEF IInv, InToBePreempted
  <2> QED
    <3>1. ~Dropped(req') /\ ~req'.drop_end /\ Newest' = 0 /\ NumValid' = NumValid
      BY <1>2, <1>3, <2>1 DEF PreemptedInv
    <3>2. ASSUME req'.spec_result = "False"
          PROVE  req'.flush_len >= 1 \/ NumValid' = 0
      <4>1. /\ req.spec_result = "False" /\ req.flush_len # 1
            /\ req'.flush_len = req.flush_len - 1
        BY <3>2
      <4>2. req.flush_len >= 1 \/ NumValid = 0
        BY <2>1, <4>1 DEF PreemptedInv
      <4> QED
        BY ONLY <2>1, <3>1, <4>1, <4>2
    <3> QED
      BY <3>1, <3>2 DEF PreemptedInv
<1>12. Flight'
  <2>1. req'.spec_result = "False" => req'.flush_len = NumOld'
    BY <1>1, <1>2
  <2> QED
    BY <1>1, <1>2, <1>9, <1>10, <2>1 DEF Flight
<1>13. ~InWaiting(req')
  BY DEF Tracked, InWaiting, InRunning, InToBePreempted
<1> QED
  BY <1>4, <1>5, <1>10, <1>11, <1>12, <1>13 DEF IInv

\* The request of a batch that leaves, one iteration less in flight.
Fewer == [req EXCEPT !.num_scheduled = @ - 1]

\* Its fields.
LEMMA FewerFields ==
    ASSUME req \in Request
    PROVE  /\ Fewer \in Request
           /\ Fewer.num_scheduled = req.num_scheduled - 1
           /\ Fewer.status = req.status /\ Fewer.should_preempt = req.should_preempt
           /\ Fewer.num_prompt_tokens = req.num_prompt_tokens
           /\ Fewer.max_tokens = req.max_tokens
           /\ Fewer.output_token_ids = req.output_token_ids
           /\ Fewer.num_computed_tokens = req.num_computed_tokens
           /\ Fewer.sp_len = req.sp_len /\ Fewer.drop_len = req.drop_len
           /\ Fewer.confidence_dropped = req.confidence_dropped
           /\ Fewer.stop_dropped = req.stop_dropped /\ Fewer.drop_end = req.drop_end
           /\ Fewer.spec_result = req.spec_result /\ Fewer.flush_len = req.flush_len
           /\ Fewer.just_fixed = req.just_fixed
<1>1. req.num_scheduled - 1 \in Int
  BY FieldTypes
<1>2. Fewer \in Request
  BY <1>1, SetField DEF Fewer
<1> QED
  BY <1>2 DEF Fewer, Request

\* A prefill chunk leaves.
LEMMA VerifyPrefill ==
    ASSUME IInv, Verify, InOldestBatch, pipe[1].kind = "prefill"
    PROVE  IInv' /\ user' = user /\ (is_finished(req') <=> is_finished(req))
<1> USE VerifyContext
<1>1. Tracked
  BY VerifyHead
<1>2. PICK v \in Nat : Blocks(0, v) /\ (InRunning(req) => RunningBlocks(0, v)) /\ NumOld > 0
                       /\ req.spec_result # "False"
  BY VerifyHead
<1>3. req' = Fewer /\ user' = user
  BY DEF Verify, Retire, Fewer
<1>4. IInv'
  BY <1>1, <1>2, <1>3, FewerFields, VerifyOld
<1> QED
  BY <1>3, <1>4, FewerFields DEF is_finished

\* What the user has seen and not stopped at does not stop the request.
LEMMA SeenDoesNotStop ==
    ASSUME IInv, ~is_finished(req), NEW r \in Request,
           r.num_prompt_tokens = req.num_prompt_tokens, r.max_tokens = req.max_tokens,
           r.output_token_ids = req.output_token_ids, r.sp_len = req.sp_len,
           NumVerified(req) >= 1
    PROVE  ~StopsAt(r, NumVerified(r))
<1> DEFINE nv == NumVerified(req)
<1>1. /\ UserInv /\ user = Prefix(req.output_token_ids, nv)
      /\ req.num_prompt_tokens = NumPromptTokens /\ req.max_tokens = MaxTokens
      /\ req \in Request
  BY DEF IInv, UserInv, UserSeesVerified, TypeInv, TypeOK
<1>2. nv \in 1..Len(req.output_token_ids) /\ req.output_token_ids \in Seq(Token)
  BY <1>1, FieldTypes DEF UserInv, NumVerified
<1>3. NumVerified(r) = nv
  BY DEF NumVerified
<1>4. user \in Seq(Token) /\ Len(user) = nv /\ user[nv] = req.output_token_ids[nv]
  BY <1>1, <1>2, PrefixType
<1>5. ~Stops(user)
  BY <1>1, <1>2, <1>4 DEF UserInv
<1> HIDE DEF nv
<1> QED
  BY <1>1, <1>3, <1>4, <1>5 DEF Stops, StopsAt

\* A stale sample leaves and is flushed.
LEMMA VerifyFlush ==
    ASSUME IInv, Verify, InOldestBatch, pipe[1].kind = "sample", req.spec_result = "False"
    PROVE  IInv' /\ user' = user /\ (is_finished(req') <=> is_finished(req))
<1> USE VerifyContext
<1>1. Tracked
  BY VerifyHead
<1>2. PICK v \in Nat : Blocks(0, v) /\ (InRunning(req) => RunningBlocks(0, v)) /\ NumOld > 0
  BY VerifyHead
<1> DEFINE r == FlushOne(Fewer)
<1>3. req' = check_stop_from_validation(r) /\ user' = user
  BY FewerFields DEF Verify, Retire, Fewer, verify_output_token_ids, send_to_user
<1>4. r \in Request
  BY FewerFields, FlushOneType
<1>5. /\ r.num_scheduled = req.num_scheduled - 1
      /\ r.status = req.status /\ r.should_preempt = req.should_preempt
      /\ r.num_prompt_tokens = req.num_prompt_tokens
      /\ r.max_tokens = req.max_tokens
      /\ r.output_token_ids = req.output_token_ids
      /\ r.num_computed_tokens = req.num_computed_tokens
      /\ r.sp_len = req.sp_len /\ r.drop_len = req.drop_len
      /\ r.confidence_dropped = req.confidence_dropped
      /\ r.stop_dropped = req.stop_dropped /\ r.drop_end = req.drop_end
      /\ r.spec_result = IF req.flush_len = 1 THEN "None" ELSE "False"
      /\ r.flush_len = req.flush_len - 1
      /\ ~r.just_fixed
  BY FewerFields DEF FlushOne, Request
<1> HIDE DEF r
<1>6. ~is_finished(req)
  BY <1>1 DEF Tracked, InRunning, InToBePreempted, is_finished, FinishedStatus
<1>7. ~StopsAt(r, NumVerified(r))
  <2>1. NumVerified(req) >= 1
    BY DEF IInv, UserInv
  <2> QED
    BY <1>4, <1>5, <1>6, <2>1, SeenDoesNotStop
<1>8. req' = r
  BY <1>3, <1>7 DEF check_stop_from_validation
<1>9. IInv'
  BY <1>1, <1>2, <1>3, <1>4, <1>5, <1>8, VerifyOld
<1> QED
  BY <1>3, <1>5, <1>8, <1>9 DEF is_finished

\* A valid sample leaves: it is the target's token after what the user has
\* seen.
LEMMA VerifyValidContext ==
    ASSUME IInv, Verify, InOldestBatch, pipe[1].kind = "sample", req.spec_result # "False"
    PROVE  /\ Tracked /\ ~is_finished(req)
           /\ Target(user) \in Token /\ pipe[1].tok = Target(user)
           /\ user' = Append(user, Target(user))
           /\ req' = check_stop_from_validation(verify_output_token_ids(Fewer, Target(user)))
           /\ req.sp_len \in 1..Len(req.output_token_ids) /\ req.num_scheduled = req.sp_len
           /\ NumVerified(req) \in Nat /\ user = Prefix(req.output_token_ids, NumVerified(req))
           /\ Len(user) = NumVerified(req)
           /\ InRunning(req) =>
                 /\ ~Dropped(req) => req.sp_len = PP
                 /\ req.num_computed_tokens = num_tokens(req) - 1
           /\ \A kd : BlocksOf(pipe', 0, 0, kd, 0, req.sp_len - 1,
                              req.output_token_ids, NumVerified(req) + 1)
           /\ \A out2, nv2 : BlocksOf(pipe', 0, req.sp_len - 1, "sample", PP - 1, 0, out2, nv2)
<1> USE VerifyContext
<1>1. Tracked
  BY VerifyHead
<1>2. PICK o \in Nat : /\ Blocks(o, 0) /\ (InRunning(req) => RunningBlocks(o, 0))
                       /\ NumValid > 0 /\ NumOld = 0
  BY VerifyHead
<1>3. /\ NumValid = req.sp_len /\ req.num_scheduled = NumOld + NumValid
      /\ NumVerified(req) \in Nat /\ NumValid \in Nat
      /\ UserInv /\ req.output_token_ids \in Seq(Token) /\ Len(req.output_token_ids) \in Nat
  BY <1>1, VerifyBlocks, FieldTypes DEF IInv
<1>4. /\ req.sp_len \in 1..Len(req.output_token_ids) /\ req.num_scheduled = req.sp_len
  BY <1>2, <1>3 DEF UserInv
<1>5. /\ user = Prefix(req.output_token_ids, NumVerified(req))
      /\ NumVerified(req) \in 0..Len(req.output_token_ids)
  BY <1>3, <1>4 DEF UserInv, UserSeesVerified, NumVerified
<1>6. Len(user) = NumVerified(req)
  BY <1>3, <1>5, PrefixType
<1> DEFINE out == req.output_token_ids
           nv == NumVerified(req)
           w == req.sp_len
<1>7. BlocksOf(pipe, o, 0, OldKind, 0, w, out, nv)
  BY <1>2, <1>3 DEF Blocks
<1>8. nv \in Nat /\ w \in Nat /\ w > 0 /\ pipe \in Seq(Slot) /\ Len(pipe) >= 1
      /\ Len(pipe) = PP
  BY <1>3, <1>4
<1>9. user = Prefix(out, nv)
  BY <1>5
<1> HIDE DEF out, nv, w
<1>10. /\ pipe[1] = Sample(Target(Prefix(out, nv)))
       /\ BlocksOf(Tail(pipe), 0, 0, OldKind, 0, w - 1, out, nv + 1)
       /\ \A out2, nv2 : BlocksOf(Tail(pipe), 0, w - 1, "sample", Len(pipe) - 1, 0, out2, nv2)
  BY ONLY <1>7, <1>8, LeaveValidBlocks, o \in Nat
<1>11. pipe[1].tok = Target(user)
  BY <1>9, <1>10 DEF Sample
<1>12. Target(user) \in Token
  <2>1. pipe[1] \in Slot
    OBVIOUS
  <2>2. \A t : Sample(t) # Idle /\ Sample(t) # Prefill /\ Sample(t).tok = t
    <3>1. /\ Idle.kind = "idle" /\ Prefill.kind = "prefill"
          /\ \A t : Sample(t).kind = "sample" /\ Sample(t).tok = t
      BY DEF Idle, Prefill, Sample
    <3> QED
      BY <3>1
  <2>3. PICK t \in Token : pipe[1] = Sample(t)
    BY <1>10, <2>1, <2>2 DEF Slot
  <2> QED
    BY <1>11, <2>2, <2>3
<1>13. ~is_finished(req)
  BY <1>1 DEF Tracked, InRunning, InToBePreempted, is_finished, FinishedStatus
<1>14. /\ user' = Append(user, Target(user))
       /\ req' = check_stop_from_validation(verify_output_token_ids(Fewer, Target(user)))
  BY <1>11 DEF Verify, Retire, Fewer, send_to_user
<1>15. ASSUME InRunning(req)
       PROVE  /\ ~Dropped(req) => req.sp_len = PP
              /\ req.num_computed_tokens = num_tokens(req) - 1
  <2>1. RunningBlocks(o, 0)
    BY <1>2, <1>15
  <2>2. req.num_computed_tokens \in Int
    BY FieldTypes
  <2> QED
    BY <1>2, <1>3, <2>1, <2>2 DEF RunningBlocks
<1>16. ASSUME NEW kd
       PROVE  BlocksOf(pipe', 0, 0, kd, 0, req.sp_len - 1, req.output_token_ids, NumVerified(req) + 1)
  <2>1. BlocksOf(pipe', 0, 0, OldKind, 0, w - 1, out, nv + 1)
    BY <1>10
  <2>2. pipe' \in Seq(Slot) /\ w - 1 \in Nat
    BY <1>8
  <2>3. BlocksOf(pipe', 0, 0, kd, 0, w - 1, out, nv + 1)
    BY ONLY <2>1, <2>2, EmptyOldBlock
  <2> QED
    BY <2>3 DEF out, nv, w
<1>17. \A out2, nv2 : BlocksOf(pipe', 0, req.sp_len - 1, "sample", PP - 1, 0, out2, nv2)
  BY <1>8, <1>10 DEF w
<1> QED
  BY <1>1, <1>3, <1>4, <1>5, <1>6, <1>11, <1>12, <1>13, <1>14, <1>15, <1>16, <1>17

\* q is the request after verification and before the stop check: the stop
\* check finishes it exactly if the user's stream stops.
LEMMA VerifyStops ==
    ASSUME IInv, Verify, NEW q \in Request, NEW t \in Token,
           user' = Append(user, t), req' = check_stop_from_validation(q),
           q.status = req.status, ~is_finished(req),
           q.num_prompt_tokens = req.num_prompt_tokens, q.max_tokens = req.max_tokens,
           0 <= q.sp_len, q.sp_len <= Len(q.output_token_ids),
           Append(user, t) = Prefix(q.output_token_ids, NumVerified(q)),
           NumVerified(q) = Len(user) + 1
    PROVE  /\ TypeInv' /\ UserInv' /\ SameData(req', q) /\ req' \in Request
           /\ is_finished(req') <=> Stops(user')
           /\ ~is_finished(req') => req'.status = req.status /\ Len(user') < MaxTokens
<1> USE VerifyContext
<1>1. /\ req' \in Request /\ SameData(req', q)
      /\ StopsAt(q, NumVerified(q)) => req'.status \in FinishedStatus
      /\ ~StopsAt(q, NumVerified(q)) => req'.status = q.status
  BY CheckStopType
<1>2. /\ q.num_prompt_tokens = NumPromptTokens /\ q.max_tokens = MaxTokens
  BY DEF IInv, TypeInv
<1>3. user' \in Seq(Token) /\ Len(user') = Len(user) + 1 /\ Len(user') \in Nat
      /\ Len(user') >= 1
  BY ONLY VerifyContext, IInv, Verify, user' = Append(user, t), t \in Token
<1>4. /\ q.output_token_ids \in Seq(Token) /\ q.sp_len \in Int
      /\ Len(q.output_token_ids) \in Nat
  BY FieldTypes
<1>5. NumVerified(q) \in 1..Len(q.output_token_ids) /\ NumVerified(q) = Len(user')
  BY <1>3, <1>4 DEF NumVerified
<1>6. user' = Prefix(q.output_token_ids, NumVerified(q))
  OBVIOUS
<1>7. user'[Len(user')] = q.output_token_ids[NumVerified(q)]
  <2> DEFINE out == q.output_token_ids
             k == NumVerified(q)
  <2>1. out \in Seq(Token) /\ k \in 1..Len(out) /\ k \in 0..Len(out)
    BY <1>4, <1>5
  <2> HIDE DEF out, k
  <2>2. Prefix(out, k)[k] = out[k]
    BY ONLY <2>1, PrefixType
  <2> QED
    BY <2>2, <1>5, <1>6 DEF out, k
<1>8. StopsAt(q, NumVerified(q)) <=> Stops(user')
  BY <1>2, <1>5, <1>7 DEF StopsAt, Stops
<1>9. is_finished(req') <=> Stops(user')
  BY <1>1, <1>8 DEF is_finished
<1>10. MaxTokens \in Nat
  BY MaxTokensAssumption
<1>11. ~is_finished(req') => req'.status = req.status /\ Len(user') < MaxTokens
  BY <1>1, <1>3, <1>8, <1>9, <1>10 DEF Stops
<1>12. TypeInv'
  BY <1>1, <1>2, <1>3 DEF TypeInv, TypeOK, SameData
<1>13. NumVerified(req') = NumVerified(q)
  BY <1>1 DEF SameData, NumVerified
<1>14. UserInv'
  <2>1. UserSeesVerified'
    BY <1>1, <1>6, <1>13 DEF UserSeesVerified, SameData
  <2>2. ~is_finished(req') => ~Stops(user')
    BY <1>9
  <2> QED
    BY <1>1, <1>5, <1>11, <1>13, <2>1, <2>2 DEF UserInv, SameData
<1> QED
  BY <1>1, <1>9, <1>11, <1>12, <1>14

\* A valid sample leaves: the rest of the invariant follows from what holds
\* of the request if it does not finish.
LEMMA VerifyValidIInv ==
    ASSUME IInv, Verify, TypeInv', UserInv', Tracked, ~is_finished(req),
           ~is_finished(req') => req'.status = req.status,
           req'.should_preempt = req.should_preempt,
           ~is_finished(req') => Flight',
           ~is_finished(req') /\ InRunning(req) => RunningInv',
           ~is_finished(req') /\ InToBePreempted(req) => PreemptedInv'
    PROVE  IInv'
<1>1. CASE is_finished(req')
  <2>1. ~InWaiting(req') /\ ~InRunning(req') /\ ~InToBePreempted(req')
    BY <1>1 DEF is_finished, FinishedStatus, InWaiting, InRunning, InToBePreempted
  <2> QED
    BY <2>1, VerifyContext DEF IInv, Tracked
<1>2. CASE ~is_finished(req')
  <2>1. /\ InRunning(req') <=> InRunning(req)
        /\ InToBePreempted(req') <=> InToBePreempted(req)
        /\ ~InWaiting(req')
    BY <1>2 DEF Tracked, InWaiting, InRunning, InToBePreempted
  <2> QED
    BY <1>2, <2>1 DEF IInv, Tracked
<1> QED
  BY <1>1, <1>2

\* The last iteration of a drop leaves.
LEMMA VerifyEndDrop ==
    ASSUME IInv, Verify, InOldestBatch, pipe[1].kind = "sample", req.spec_result # "False",
           Dropped(req), req.drop_len = 1
    PROVE  IInv' /\ (is_finished(req') <=> Stops(user'))
<1> USE VerifyContext, VerifyValidContext
<1> DEFINE t == Target(user)
           out == req.output_token_ids
           q == EndDrop(Fewer, t)
<1>1. t \in Token /\ out \in Seq(Token) /\ Len(out) \in Nat
  BY FieldTypes
<1>2. InRunning(req) /\ RunningInv /\ req.sp_len = 1
  BY DEF IInv, Tracked, PreemptedInv, RunningInv
<1>3. Len(out) >= 1 /\ NumVerified(req) = Len(out) - 1 /\ Len(user) = Len(out) - 1
  BY <1>1, <1>2 DEF NumVerified
<1>4. q \in Request
  BY <1>1, <1>3, FewerFields, EndDropType
<1>5. /\ ReplaceTail(out, 1, t) = Append(user, t)
      /\ Len(ReplaceTail(out, 1, t)) = Len(out)
  <2>1. user = Prefix(out, Len(out) - 1)
    BY <1>3
  <2>2. 1 \in 1..Len(out)
    BY <1>1, <1>3
  <2> HIDE DEF out, t
  <2>3. /\ ReplaceTail(out, 1, t) = Append(Prefix(out, Len(out) - 1), t)
        /\ Len(ReplaceTail(out, 1, t)) = Len(out) - 1 + 1
    BY ONLY <1>1, <2>2, ReplaceTailType
  <2> QED
    BY <1>1, <2>1, <2>3
<1>6. /\ q.status = req.status /\ q.should_preempt = req.should_preempt
      /\ q.num_prompt_tokens = req.num_prompt_tokens /\ q.max_tokens = req.max_tokens
      /\ q.output_token_ids = ReplaceTail(out, 1, t)
      /\ q.num_computed_tokens = req.num_computed_tokens
      /\ q.sp_len = 0 /\ q.spec_result = "None" /\ q.num_scheduled = req.num_scheduled - 1
      /\ ~q.stop_dropped /\ ~q.confidence_dropped
  BY FewerFields DEF EndDrop, Request
<1>7. req' = check_stop_from_validation(q)
  BY FewerFields DEF verify_output_token_ids, Dropped
<1> HIDE DEF q, t
<1>8. /\ Len(q.output_token_ids) = Len(out) /\ NumVerified(q) = Len(user) + 1
      /\ q.output_token_ids = Append(user, t)
  BY <1>1, <1>3, <1>5, <1>6 DEF NumVerified
<1>9. Append(user, t) = Prefix(q.output_token_ids, NumVerified(q))
  <2>1. q.output_token_ids \in Seq(Token)
    BY <1>4, FieldTypes
  <2>2. NumVerified(q) = Len(q.output_token_ids)
    BY <1>3, <1>8
  <2> QED
    BY <1>8, <2>1, <2>2, PrefixAll
<1>10. /\ TypeInv' /\ UserInv' /\ SameData(req', q) /\ req' \in Request
       /\ is_finished(req') <=> Stops(user')
       /\ ~is_finished(req') => req'.status = req.status /\ Len(user') < MaxTokens
  <2>1. user' = Append(user, t) /\ ~is_finished(req) /\ 0 <= q.sp_len
        /\ q.sp_len <= Len(q.output_token_ids)
    BY <1>1, <1>6, <1>8 DEF t
  <2> QED
    BY ONLY IInv, Verify, <1>1, <1>4, <1>6, <1>7, <1>8, <1>9, <2>1, VerifyStops
<1>11. /\ NumValid' = 0 /\ NumOld' = 0 /\ req'.spec_result = "None" /\ ~Dropped(req')
       /\ req'.num_computed_tokens = num_tokens(req') - 1
       /\ req'.output_token_ids = Append(user, t)
  <2>1. req'.sp_len = 0 /\ req'.num_scheduled = 0
    BY <1>2, <1>6, <1>10 DEF SameData
  <2>2. num_tokens(req') = num_tokens(req)
    BY <1>6, <1>8, <1>10 DEF SameData, num_tokens
  <2>3. ~Dropped(req')
    BY <1>6, <1>10 DEF SameData, Dropped
  <2> QED
    BY <1>2, <1>6, <1>8, <1>10, <2>1, <2>2, <2>3 DEF SameData, NumValid, NumOld
<1>12. Flight'
  <2>1. \A i \in 1..Len(pipe') : pipe'[i] = Idle
    <3>1. BlocksOf(pipe', 0, 0, "prefill", 0, 0, out, NumVerified(req) + 1)
      BY <1>2
    <3> QED
      BY <3>1, NoBlocks
  <2>2. BlocksOf(pipe', PP - 1, 0, OldKind', PP - 1, 0, req'.output_token_ids, NumVerified(req'))
    BY <2>1, NoBlocks
  <2>3. Blocks(PP - 1, PP - 1)'
    BY <1>11, <2>2 DEF Blocks
  <2>4. RunningBlocks(PP - 1, PP - 1)'
    BY <1>10, <1>11, FieldTypes DEF RunningBlocks
  <2>5. PP - 1 \in Nat
    OBVIOUS
  <2> QED
    BY <1>11, <2>3, <2>4, <2>5 DEF Flight
<1>13. ~is_finished(req') => RunningInv'
  <2>1. ~is_finished(req') => Len(req'.output_token_ids) < MaxTokens
    BY <1>10, <1>11 DEF t
  <2> QED
    BY <1>11, <2>1 DEF RunningInv
<1>14. ~InToBePreempted(req) /\ req'.should_preempt = req.should_preempt
  BY <1>2, <1>6, <1>10 DEF InRunning, InToBePreempted, SameData
<1>15. Tracked /\ ~is_finished(req)
  OBVIOUS
<1> QED
  BY ONLY IInv, Verify, <1>10, <1>12, <1>13, <1>14, <1>15, VerifyValidIInv

\* The request whose token is compared with a guess: a drop counts down.
Counted ==
    IF Dropped(Fewer) THEN [Fewer EXCEPT !.drop_len = @ - 1] ELSE Fewer

\* Its fields.
LEMMA CountedFields ==
    ASSUME req \in Request
    PROVE  /\ Counted \in Request
           /\ Counted.num_scheduled = req.num_scheduled - 1
           /\ Counted.status = req.status /\ Counted.should_preempt = req.should_preempt
           /\ Counted.num_prompt_tokens = req.num_prompt_tokens
           /\ Counted.max_tokens = req.max_tokens
           /\ Counted.output_token_ids = req.output_token_ids
           /\ Counted.num_computed_tokens = req.num_computed_tokens
           /\ Counted.sp_len = req.sp_len
           /\ Counted.confidence_dropped = req.confidence_dropped
           /\ Counted.stop_dropped = req.stop_dropped /\ Counted.drop_end = req.drop_end
           /\ Dropped(req) => Counted.drop_len = req.drop_len - 1
<1>1. Fewer \in Request /\ Fewer.drop_len - 1 \in Int
  BY FewerFields, FieldTypes
<1>2. [Fewer EXCEPT !.drop_len = @ - 1] \in Request
  BY <1>1, SetField
<1>3. Dropped(Fewer) <=> Dropped(req)
  BY FewerFields DEF Dropped
<1>4. CASE Dropped(req)
  <2>1. Counted = [Fewer EXCEPT !.drop_len = @ - 1]
    BY <1>3, <1>4 DEF Counted
  <2> HIDE DEF Fewer
  <2> QED
    BY <1>1, <1>2, <2>1, FewerFields DEF Request
<1>5. CASE ~Dropped(req)
  BY <1>1, <1>3, <1>5, FewerFields DEF Counted
<1> QED
  BY <1>4, <1>5

\* A guess is confirmed.
LEMMA VerifyAccept ==
    ASSUME IInv, Verify, InOldestBatch, pipe[1].kind = "sample", req.spec_result # "False",
           ~(Dropped(req) /\ req.drop_len = 1),
           Back(req.output_token_ids, req.sp_len) = Target(user)
    PROVE  IInv' /\ (is_finished(req') <=> Stops(user'))
<1> USE VerifyContext, VerifyValidContext
<1> DEFINE t == Target(user)
           out == req.output_token_ids
           w == req.sp_len
           nv == NumVerified(req)
           q == Accept(Counted)
<1>1. /\ t \in Token /\ out \in Seq(Token) /\ Len(out) \in Nat /\ w \in 1..Len(out)
      /\ nv = Len(out) - w /\ nv \in 0..(Len(out) - 1) /\ nv + 1 \in 0..Len(out)
      /\ user = Prefix(out, nv) /\ Len(user) = nv /\ user' = Append(user, t)
  <2>1. /\ t \in Token /\ out \in Seq(Token) /\ Len(out) \in Nat /\ w \in 1..Len(out)
    BY FieldTypes
  <2>2. nv = Len(out) - w
    BY DEF NumVerified
  <2>3. user = Prefix(out, nv) /\ Len(user) = nv /\ user' = Append(user, t)
    OBVIOUS
  <2> HIDE DEF t, out, w, nv
  <2>4. nv \in 0..(Len(out) - 1) /\ nv + 1 \in 0..Len(out)
    BY ONLY <2>1, <2>2
  <2> QED
    BY ONLY <2>1, <2>2, <2>3, <2>4
<1>2. q \in Request
  BY CountedFields, AcceptType
<1>3. /\ q.status = req.status /\ q.should_preempt = req.should_preempt
      /\ q.num_prompt_tokens = req.num_prompt_tokens /\ q.max_tokens = req.max_tokens
      /\ q.output_token_ids = out
      /\ q.num_computed_tokens = req.num_computed_tokens
      /\ q.sp_len = w - 1 /\ q.spec_result = "True" /\ q.num_scheduled = req.num_scheduled - 1
      /\ q.stop_dropped = req.stop_dropped /\ q.confidence_dropped = req.confidence_dropped
      /\ q.drop_end = req.drop_end
      /\ Dropped(req) => q.drop_len = req.drop_len - 1
  <2> HIDE DEF Counted
  <2> QED
    BY CountedFields DEF Accept, Request
<1>4. req' = check_stop_from_validation(q)
  <2>1. /\ Fewer.spec_result # "False" /\ ~(Dropped(Fewer) /\ Fewer.drop_len = 1)
        /\ Back(Counted.output_token_ids, Counted.sp_len) = t
    BY FewerFields, CountedFields DEF Dropped
  <2> HIDE DEF t
  <2>2. verify_output_token_ids(Fewer, t) = Accept(Counted)
    BY <2>1 DEF verify_output_token_ids, Counted
  <2> QED
    BY <2>2 DEF t
<1>5. out[nv + 1] = t
  <2>1. Len(out) - w + 1 = nv + 1 /\ w # 0
    BY <1>1
  <2> QED
    BY <2>1 DEF Back
<1>6. NumVerified(q) = nv + 1
  <2>1. NumVerified(q) = Len(out) - (w - 1)
    BY <1>3 DEF NumVerified
  <2> HIDE DEF q, t, out, w, nv
  <2> QED
    BY ONLY <1>1, <2>1
<1> HIDE DEF q, t, out, w, nv
<1>7. Append(user, t) = Prefix(out, nv + 1)
  BY <1>1, <1>5, PrefixSucc
<1>8. /\ TypeInv' /\ UserInv' /\ SameData(req', q) /\ req' \in Request
      /\ is_finished(req') <=> Stops(user')
      /\ ~is_finished(req') => req'.status = req.status /\ Len(user') < MaxTokens
  <2>1. 0 <= q.sp_len /\ q.sp_len <= Len(q.output_token_ids)
    BY ONLY <1>1, <1>3
  <2>2. /\ NumVerified(q) = Len(user) + 1
        /\ Append(user, t) = Prefix(q.output_token_ids, NumVerified(q))
    BY ONLY <1>1, <1>3, <1>6, <1>7
  <2>3. ~is_finished(req)
    OBVIOUS
  <2> QED
    BY ONLY IInv, Verify, <1>1, <1>2, <1>3, <1>4, <2>1, <2>2, <2>3, VerifyStops
<1>9. /\ NumValid' = w - 1 /\ NumOld' = 0 /\ req'.spec_result = "True"
      /\ Dropped(req') <=> Dropped(req)
      /\ num_tokens(req') = num_tokens(req)
      /\ req'.output_token_ids = out /\ NumVerified(req') = nv + 1
      /\ req'.num_computed_tokens = req.num_computed_tokens
  <2>1. req'.sp_len = w - 1 /\ req'.num_scheduled = w - 1
    BY <1>3, <1>8 DEF SameData, w
  <2>2. num_tokens(req') = num_tokens(req)
    BY <1>3, <1>8 DEF SameData, num_tokens, out
  <2>3. Dropped(req') <=> Dropped(req)
    BY <1>3, <1>8 DEF SameData, Dropped
  <2> QED
    BY <1>1, <1>3, <1>6, <1>8, <2>1, <2>2, <2>3 DEF SameData, NumValid, NumOld, NumVerified
<1>10. Flight'
  <2>1. Blocks(0, 0)'
    <3>1. BlocksOf(pipe', 0, 0, OldKind', 0, w - 1, out, nv + 1)
      BY DEF w, out, nv
    <3> QED
      BY <1>9, <3>1 DEF Blocks
  <2>2. InRunning(req) => RunningBlocks(0, 0)'
    <3>1. InRunning(req) => /\ ~Dropped(req) => w = PP
                            /\ req.num_computed_tokens = num_tokens(req) - 1
      BY DEF w
    <3> QED
      BY <1>8, <1>9, <3>1, FieldTypes DEF RunningBlocks
  <2>3. InRunning(req') => InRunning(req)
    BY <1>8 DEF InRunning, is_finished, FinishedStatus
  <2> QED
    BY <1>1, <1>9, <2>1, <2>2, <2>3 DEF Flight
<1>11. ASSUME InRunning(req) PROVE RunningInv'
  <2>1. RunningInv /\ ~req.drop_end
    BY <1>11 DEF IInv, RunningInv, Verify
  <2>2. Dropped(req) => req'.drop_len = req'.sp_len
    BY <1>1, <1>3, <1>8, <2>1 DEF SameData, RunningInv, w
  <2>3. ~req'.drop_end
    BY <1>3, <1>8, <2>1 DEF SameData
  <2>4. ~Dropped(req) => Len(out) < MaxTokens
    BY <2>1 DEF RunningInv, out
  <2>5. Dropped(req) => req'.num_computed_tokens >= NumPromptTokens
    BY <1>9, <2>1 DEF RunningInv
  <2>6. req'.spec_result # "False" /\ Newest' = 0
    BY <1>9
  <2> QED
    BY ONLY <1>9, <2>2, <2>3, <2>4, <2>5, <2>6 DEF RunningInv
<1>12. ASSUME InToBePreempted(req) PROVE PreemptedInv'
  <2>1. PreemptedInv
    BY <1>12 DEF IInv
  <2>2. ~req'.drop_end
    BY <1>3, <1>8, <2>1 DEF SameData, PreemptedInv
  <2> QED
    BY <1>9, <2>1, <2>2 DEF PreemptedInv
<1>13. Tracked /\ ~is_finished(req) /\ req'.should_preempt = req.should_preempt
  BY <1>3, <1>8 DEF SameData
<1> QED
  BY ONLY IInv, Verify, <1>8, <1>10, <1>11, <1>12, <1>13, VerifyValidIInv

\* A guess is rejected: what is in flight behind it becomes the old block.
LEMMA VerifyCorrect ==
    ASSUME IInv, Verify, InOldestBatch, pipe[1].kind = "sample", req.spec_result # "False",
           ~(Dropped(req) /\ req.drop_len = 1),
           Back(req.output_token_ids, req.sp_len) # Target(user)
    PROVE  IInv' /\ (is_finished(req') <=> Stops(user'))
<1> USE VerifyContext, VerifyValidContext
<1> DEFINE t == Target(user)
           out == req.output_token_ids
           w == req.sp_len
           nv == NumVerified(req)
           q == Correct(Counted, t)
<1>1. /\ t \in Token /\ out \in Seq(Token) /\ Len(out) \in Nat /\ w \in 1..Len(out)
      /\ nv = Len(out) - w /\ nv \in Nat
      /\ user = Prefix(out, nv) /\ Len(user) = nv /\ user' = Append(user, t)
  BY FieldTypes DEF NumVerified
<1>2. q \in Request
  BY <1>1, CountedFields, CorrectType
<1>3. /\ ReplaceTail(out, w, t) = Append(user, t)
      /\ Len(ReplaceTail(out, w, t)) = nv + 1
  <2> HIDE DEF out, t, w, nv
  <2>1. /\ ReplaceTail(out, w, t) = Append(Prefix(out, Len(out) - w), t)
        /\ Len(ReplaceTail(out, w, t)) = Len(out) - w + 1
    <3>1. out \in Seq(Token) /\ t \in Token /\ w \in 1..Len(out)
      BY ONLY <1>1
    <3> QED
      BY ONLY <3>1, ReplaceTailType
  <2> QED
    BY ONLY <1>1, <2>1
<1>4. /\ q.status = req.status /\ q.should_preempt = req.should_preempt
      /\ q.num_prompt_tokens = req.num_prompt_tokens /\ q.max_tokens = req.max_tokens
      /\ q.output_token_ids = ReplaceTail(out, w, t)
      /\ q.num_computed_tokens = req.num_computed_tokens - (w - 1)
      /\ q.sp_len = 0 /\ q.spec_result = "False" /\ q.flush_len = w - 1
      /\ q.num_scheduled = req.num_scheduled - 1
      /\ ~q.stop_dropped /\ ~q.confidence_dropped
      /\ q.drop_end = req.drop_end
  <2> HIDE DEF Counted
  <2> QED
    BY CountedFields DEF Correct, Request
<1>5. req' = check_stop_from_validation(q)
  <2>1. /\ Fewer.spec_result # "False" /\ ~(Dropped(Fewer) /\ Fewer.drop_len = 1)
        /\ Back(Counted.output_token_ids, Counted.sp_len) # t
    BY FewerFields, CountedFields DEF Dropped
  <2> HIDE DEF t
  <2>2. verify_output_token_ids(Fewer, t) = Correct(Counted, t)
    BY <2>1 DEF verify_output_token_ids, Counted
  <2> QED
    BY <2>2 DEF t
<1> HIDE DEF q, t, out, w, nv
<1>6. /\ NumVerified(q) = nv + 1 /\ NumVerified(q) = Len(q.output_token_ids)
      /\ q.output_token_ids = Append(user, t) /\ Len(q.output_token_ids) = nv + 1
  BY ONLY <1>1, <1>3, <1>4 DEF NumVerified
<1>7. Append(user, t) = Prefix(q.output_token_ids, NumVerified(q))
  <2>1. q.output_token_ids \in Seq(Token)
    BY <1>2, FieldTypes
  <2> QED
    BY <1>6, <2>1, PrefixAll
<1>8. /\ TypeInv' /\ UserInv' /\ SameData(req', q) /\ req' \in Request
      /\ is_finished(req') <=> Stops(user')
      /\ ~is_finished(req') => req'.status = req.status /\ Len(user') < MaxTokens
  <2>1. 0 <= q.sp_len /\ q.sp_len <= Len(q.output_token_ids)
        /\ NumVerified(q) = Len(user) + 1
    BY ONLY <1>1, <1>4, <1>6
  <2>2. ~is_finished(req)
    OBVIOUS
  <2> QED
    BY ONLY IInv, Verify, <1>1, <1>2, <1>4, <1>5, <1>7, <2>1, <2>2, VerifyStops
<1>9. /\ NumValid' = 0 /\ NumOld' = w - 1 /\ OldKind' = "sample"
      /\ req'.spec_result = "False" /\ req'.flush_len = w - 1
      /\ ~Dropped(req') /\ ~req.drop_end /\ ~req'.drop_end
      /\ Len(req'.output_token_ids) = Len(user') /\ Len(user') = nv + 1
  <2>1. req'.sp_len = 0 /\ req'.num_scheduled = w - 1
    BY <1>4, <1>8 DEF SameData, w
  <2>2. ~Dropped(req')
    BY <1>4, <1>8 DEF SameData, Dropped
  <2>3. ~req.drop_end
    BY DEF IInv, RunningInv, PreemptedInv, Tracked, Verify
  <2>4. req'.spec_result = "False" /\ req'.flush_len = w - 1 /\ ~req'.drop_end
        /\ req'.output_token_ids = user'
    BY <1>1, <1>4, <1>6, <1>8, <2>3 DEF SameData
  <2>5. NumValid' = 0 /\ NumOld' = w - 1 /\ OldKind' = "sample"
    BY <1>1, <2>1, <2>4 DEF NumValid, NumOld, OldKind
  <2>6. Len(user') = nv + 1
    BY <1>1, <1>6
  <2> QED
    BY <2>2, <2>3, <2>4, <2>5, <2>6
<1>10. ASSUME InRunning(req)
       PROVE  /\ w >= 2
              /\ req'.num_computed_tokens = num_tokens(req') - 1
  <2>1. w >= 2
    <3>1. RunningInv /\ (~Dropped(req) => w = PP)
      BY <1>10 DEF IInv, w
    <3>2. Dropped(req) => req.drop_len = w /\ w # 1
      BY <3>1 DEF RunningInv, w
    <3> QED
      BY <1>1, <3>1, <3>2
  <2>2. req.num_computed_tokens = req.num_prompt_tokens + Len(out) - 1
    <3>1. req.num_computed_tokens = num_tokens(req) - 1
      BY <1>10
    <3>2. req.num_prompt_tokens \in Nat /\ Len(out) \in Int
      BY <1>1, FieldTypes
    <3> QED
      BY ONLY <3>1, <3>2 DEF num_tokens, out
  <2>3. num_tokens(req') = req.num_prompt_tokens + (nv + 1)
    BY <1>4, <1>8, <1>9 DEF num_tokens, SameData
  <2>4. req'.num_computed_tokens = req.num_computed_tokens - (w - 1)
    BY <1>4, <1>8 DEF SameData
  <2>5. req.num_prompt_tokens \in Nat /\ Len(out) \in Int /\ w \in Int /\ nv = Len(out) - w
    BY <1>1, FieldTypes
  <2>6. req'.num_computed_tokens = num_tokens(req') - 1
    BY ONLY <2>2, <2>3, <2>4, <2>5
  <2> QED
    BY ONLY <2>1, <2>6
<1>11. Flight'
  <2>1. Blocks(0, PP - 1)'
    <3>1. BlocksOf(pipe', 0, w - 1, "sample", PP - 1, 0,
                   req'.output_token_ids, NumVerified(req'))
      BY DEF w
    <3> QED
      BY <1>9, <3>1 DEF Blocks
  <2>2. InRunning(req) => RunningBlocks(0, PP - 1)'
    <3>1. Newest' = 0 /\ Len(pipe') = PP - 1 /\ PP \in Nat
          /\ req'.num_computed_tokens \in Int
      BY <1>8, FieldTypes
    <3> QED
      BY ONLY <1>9, <1>10, <3>1 DEF RunningBlocks
  <2>3. InRunning(req') => InRunning(req)
    BY <1>8 DEF InRunning, is_finished, FinishedStatus
  <2>4. PP - 1 \in Nat /\ NumValid' >= 0 /\ NumOld' >= 0
    BY <1>1, <1>9
  <2> QED
    BY <1>9, <2>1, <2>2, <2>3, <2>4 DEF Flight
<1>12. ASSUME InRunning(req), ~is_finished(req') PROVE RunningInv'
  <2>1. Len(req'.output_token_ids) < MaxTokens
    BY <1>8, <1>9, <1>12
  <2>2. req'.flush_len >= 1
    BY <1>1, <1>9, <1>10, <1>12
  <2>3. Newest' = 0
    OBVIOUS
  <2> QED
    BY ONLY <1>9, <2>1, <2>2, <2>3 DEF RunningInv
<1>13. PreemptedInv'
  BY <1>9 DEF PreemptedInv
<1>14. Tracked /\ ~is_finished(req) /\ req'.should_preempt = req.should_preempt
  BY <1>4, <1>8 DEF SameData
<1> QED
  BY ONLY IInv, Verify, <1>8, <1>11, <1>12, <1>13, <1>14, VerifyValidIInv

\* Verify preserves the invariant and is a step of GreedyDecoding: nothing is
\* sent, or the target's token after the stream, and the request is finished
\* exactly if the stream stops.
LEMMA VerifyStep ==
    ASSUME IInv, Verify
    PROVE  /\ IInv'
           /\ \/ user' = user /\ (is_finished(req') <=> is_finished(req))
              \/ /\ ~is_finished(req)
                 /\ user' = Append(user, Target(user))
                 /\ is_finished(req') <=> Stops(user')
<1>1. CASE ~InOldestBatch
  <2>1. req' = req /\ user' = user
    BY <1>1 DEF Verify
  <2> QED
    BY <1>1, <2>1, VerifyIdle
<1>2. CASE InOldestBatch /\ pipe[1].kind = "prefill"
  BY <1>2, VerifyPrefill
<1>3. CASE InOldestBatch /\ pipe[1].kind = "sample" /\ req.spec_result = "False"
  BY <1>3, VerifyFlush
<1>4. CASE InOldestBatch /\ pipe[1].kind = "sample" /\ req.spec_result # "False"
  BY <1>4, VerifyValidContext, VerifyEndDrop, VerifyAccept, VerifyCorrect
<1> QED
  BY <1>1, <1>2, <1>3, <1>4, VerifyHead
-----------------------------------------------------------------------------
(* Schedule preserves the invariant. *)

\* What every Schedule step starts from.
LEMMA EnterContext ==
    ASSUME IInv, NEW slot \in Slot, Enter(slot)
    PROVE  /\ req \in Request /\ user \in Seq(Token) /\ user' = user
           /\ PP \in Nat /\ PP >= 2
           /\ pipe \in Seq(Slot) /\ Len(pipe) = PP - 1
           /\ pipe' = Append(pipe, slot) /\ pipe' \in Seq(Slot) /\ Len(pipe') = PP
           /\ phase = "schedule" /\ phase' = "speculate"
           /\ Newest = 0 /\ Newest' = IF slot.kind = "sample" THEN 1 ELSE 0
<1>1. req \in Request /\ user \in Seq(Token) /\ pipe \in Seq(Slot) /\ Len(pipe) = PP - 1
  BY DEF IInv, TypeInv, TypeOK, Enter
<1>2. PP \in Nat /\ PP >= 2
  BY PPAssumption
<1>3. pipe' = Append(pipe, slot) /\ phase = "schedule" /\ phase' = "speculate" /\ user' = user
  BY DEF Enter
<1>4. pipe' \in Seq(Slot) /\ Len(pipe') = PP /\ pipe'[PP] = slot
  BY ONLY <1>1, <1>2, <1>3, slot \in Slot
<1>5. Newest = 0 /\ Newest' = IF slot.kind = "sample" THEN 1 ELSE 0
  BY <1>3, <1>4 DEF Newest
<1> QED
  BY <1>1, <1>2, <1>3, <1>4, <1>5

\* The slots that enter.
LEMMA SlotKinds ==
    /\ Idle \in Slot /\ Idle.kind = "idle"
    /\ Prefill \in Slot /\ Prefill.kind = "prefill"
    /\ \A t \in Token : Sample(t) \in Slot /\ Sample(t).kind = "sample"
<1>1. Idle.kind = "idle" /\ Prefill.kind = "prefill" /\ \A t : Sample(t).kind = "sample"
  BY DEF Idle, Prefill, Sample
<1> QED
  BY <1>1 DEF Slot

\* The request stays out of the batch with its counters unchanged.
LEMMA EnterIdle ==
    ASSUME IInv, Enter(Idle), Tracked, NEW o \in Nat, NEW v \in Nat, Blocks(o, v),
           req'.output_token_ids = req.output_token_ids,
           req'.sp_len = req.sp_len, req'.spec_result = req.spec_result,
           req'.num_scheduled = req.num_scheduled
    PROVE  /\ NumValid \in Nat /\ NumOld \in Nat /\ NumValid = req.sp_len
           /\ NumValid' = NumValid /\ NumOld' = NumOld /\ OldKind' = OldKind
           /\ Blocks(o, v)'
<1>1. /\ req \in Request /\ pipe \in Seq(Slot) /\ pipe' = Append(pipe, Idle)
      /\ Newest = 0 /\ Newest' = 0
  BY EnterContext, SlotKinds
<1>2. Flight /\ UserInv
  BY DEF IInv
<1>3. /\ req.sp_len \in Int /\ req.num_scheduled \in Int /\ Len(req.output_token_ids) \in Nat
  BY <1>1, FieldTypes
<1>4. /\ NumValid \in Nat /\ NumOld \in Nat /\ NumVerified(req) \in Nat /\ NumValid = req.sp_len
  BY <1>1, <1>2, <1>3 DEF Flight, UserInv, NumValid, NumOld, NumVerified
<1>5. /\ NumValid' = NumValid /\ NumOld' = NumOld /\ OldKind' = OldKind
      /\ NumVerified(req') = NumVerified(req)
  BY <1>1 DEF NumValid, NumOld, OldKind, NumVerified
<1> DEFINE out == req.output_token_ids
           nv == NumVerified(req)
<1>6. BlocksOf(pipe, o, NumOld, OldKind, v, NumValid, out, nv) /\ nv \in Nat
  BY <1>4 DEF Blocks
<1> HIDE DEF out, nv
<1>7. BlocksOf(pipe', o, NumOld, OldKind, v, NumValid, out, nv)
  BY ONLY <1>1, <1>4, <1>6, o \in Nat, v \in Nat, EnterIdleBlocks
<1> QED
  BY <1>4, <1>5, <1>7 DEF Blocks, out, nv

\* A request that is not running stays out of the batch.
LEMMA StayOutStep ==
    ASSUME IInv, StayOut
    PROVE  IInv' /\ user' = user /\ req' = req
<1>1. Enter(Idle) /\ req' = req
  BY DEF StayOut
<1> USE <1>1, EnterContext, SlotKinds
<1>2. ~InRunning(req) /\ ~InToBePreempted(req) /\ Newest' = 0
  BY DEF StayOut, InWaiting, InRunning, InToBePreempted, is_finished, FinishedStatus
<1>3. TypeInv'
  BY DEF IInv, TypeInv, TypeOK
<1>4. UserInv'
  BY DEF IInv, UserInv, UserSeesVerified, Stops
<1>5. ASSUME InWaiting(req) PROVE WaitingInv'
  <2>1. WaitingInv
    BY <1>5 DEF IInv
  <2>2. \A i \in 1..Len(pipe') : pipe'[i] = Idle
    <3>1. \A i \in 1..Len(pipe) : pipe[i] = Idle
      BY <2>1 DEF WaitingInv
    <3> QED
      BY <3>1
  <2> QED
    BY <2>1, <2>2 DEF WaitingInv
<1> QED
  BY <1>2, <1>3, <1>4, <1>5 DEF IInv, Tracked

\* A running request stays out of the batch.
LEMMA RunningIdleStep ==
    ASSUME IInv, Enter(Idle), InRunning(req), ~has_pending_real_token(req),
           req' \in Request, Dropped(req'), req'.drop_len = req'.sp_len,
           req'.status = req.status, req'.should_preempt = req.should_preempt,
           req'.num_prompt_tokens = req.num_prompt_tokens, req'.max_tokens = req.max_tokens,
           req'.output_token_ids = req.output_token_ids,
           req'.num_computed_tokens = req.num_computed_tokens,
           req'.sp_len = req.sp_len, req'.spec_result = req.spec_result,
           req'.flush_len = req.flush_len, req'.just_fixed = req.just_fixed,
           req'.drop_end = req.drop_end, req'.num_scheduled = req.num_scheduled
    PROVE  IInv' /\ user' = user /\ ~is_finished(req) /\ ~is_finished(req')
<1> USE EnterContext, SlotKinds
<1>1. Tracked /\ RunningInv /\ InRunning(req')
  BY DEF Tracked, IInv, InRunning
<1>2. PICK o \in Nat, v \in Nat : Blocks(o, v) /\ RunningBlocks(o, v)
  BY <1>1 DEF IInv, Flight
<1>3. /\ NumValid \in Nat /\ NumOld \in Nat
      /\ NumValid' = NumValid /\ NumOld' = NumOld /\ Blocks(o, v)'
  BY <1>1, <1>2, EnterIdle
<1>4. TypeInv'
  BY DEF IInv, TypeInv, TypeOK
<1>5. /\ num_tokens(req') = num_tokens(req) /\ NumVerified(req') = NumVerified(req)
      /\ Newest' = 0 /\ Newest = 0
  BY DEF num_tokens, NumVerified
<1>6. ~is_finished(req) /\ ~is_finished(req')
  BY <1>1 DEF InRunning, is_finished, FinishedStatus
<1>7. UserInv'
  BY <1>5, <1>6 DEF IInv, UserInv, UserSeesVerified, Stops
<1>8. /\ ~(req.spec_result = "False" /\ req.just_fixed) /\ ~req.drop_end
      /\ ~(req.num_computed_tokens < req.num_prompt_tokens)
  BY DEF has_pending_real_token
<1>9. RunningBlocks(o, v)'
  BY <1>2, <1>3, <1>5, <1>8 DEF RunningBlocks
<1>10. RunningInv'
  <2>1. req'.num_computed_tokens >= NumPromptTokens
    BY <1>8, FieldTypes DEF IInv, TypeInv
  <2> QED
    BY <1>1, <1>5, <1>8, <2>1 DEF RunningInv
<1>11. Flight'
  <2>1. req'.spec_result = "False" => req'.flush_len = NumOld'
    BY <1>1, <1>3 DEF IInv, Flight
  <2> QED
    BY <1>3, <1>9, <2>1 DEF Flight
<1>12. ~InWaiting(req') /\ ~InToBePreempted(req')
  BY <1>1 DEF InWaiting, InRunning, InToBePreempted
<1> QED
  BY <1>4, <1>6, <1>7, <1>10, <1>11, <1>12 DEF IInv

\* A dropped request is left out of the batch.
LEMMA SkipDroppedStep ==
    ASSUME IInv, SkipDropped
    PROVE  IInv' /\ user' = user /\ req' = req
<1>1. /\ Enter(Idle) /\ req' = req /\ InRunning(req) /\ ~has_pending_real_token(req)
      /\ Dropped(req)
  BY DEF SkipDropped
<1>2. req \in Request /\ req.drop_len = req.sp_len
  BY <1>1 DEF IInv, TypeInv, TypeOK, RunningInv
<1> QED
  BY <1>1, <1>2, RunningIdleStep

\* A request that fails the confidence selection starts to drain.
LEMMA DropSpecStep ==
    ASSUME IInv, DropSpec
    PROVE  IInv' /\ user' = user /\ ~is_finished(req) /\ ~is_finished(req')
<1>1. /\ Enter(Idle) /\ InRunning(req) /\ ~has_pending_real_token(req)
      /\ req' = ConfidenceDropped(req)
  BY DEF DropSpec
<1>2. req \in Request
  BY DEF IInv, TypeInv, TypeOK
<1>3. ConfidenceDropped(req) \in Request
  <2>1. TRUE \in BOOLEAN /\ req.sp_len \in Int
    BY <1>2, FieldTypes
  <2> QED
    BY <1>2, <2>1, SetField, Zenon DEF ConfidenceDropped
<1>4. /\ req'.confidence_dropped /\ req'.drop_len = req'.sp_len
      /\ req'.status = req.status /\ req'.should_preempt = req.should_preempt
      /\ req'.num_prompt_tokens = req.num_prompt_tokens /\ req'.max_tokens = req.max_tokens
      /\ req'.output_token_ids = req.output_token_ids
      /\ req'.num_computed_tokens = req.num_computed_tokens
      /\ req'.sp_len = req.sp_len /\ req'.spec_result = req.spec_result
      /\ req'.flush_len = req.flush_len /\ req'.just_fixed = req.just_fixed
      /\ req'.drop_end = req.drop_end /\ req'.num_scheduled = req.num_scheduled
  BY <1>1, <1>2 DEF ConfidenceDropped, Request
<1>5. Dropped(req') /\ req' \in Request
  BY <1>1, <1>3, <1>4 DEF Dropped
<1> QED
  BY <1>1, <1>4, <1>5, RunningIdleStep

\* The fields of a request after _preempt_request.
LEMMA PreemptFields ==
    ASSUME NEW b \in Request
    PROVE  LET p == preempt_request(b) IN
           /\ p \in Request
           /\ p.status = b.status
           /\ p.num_prompt_tokens = b.num_prompt_tokens /\ p.max_tokens = b.max_tokens
           /\ p.output_token_ids = b.output_token_ids
           /\ p.num_scheduled = b.num_scheduled /\ p.drop_end = b.drop_end
           /\ b.num_scheduled > 0 =>
                 /\ p.should_preempt /\ p.sp_len = b.sp_len
                 /\ p.spec_result = b.spec_result /\ p.flush_len = b.flush_len
                 /\ p.confidence_dropped = b.confidence_dropped
                 /\ p.stop_dropped = b.stop_dropped
           /\ ~(b.num_scheduled > 0) =>
                 /\ ~p.should_preempt /\ p.sp_len = 0 /\ p.spec_result = "None"
                 /\ ~p.confidence_dropped /\ ~p.stop_dropped
<1>1. 0 \in Int /\ TRUE \in BOOLEAN /\ FALSE \in BOOLEAN /\ "None" \in SpecResult
  BY DEF SpecResult
<1>2. CASE b.num_scheduled > 0
  <2>1. preempt_request(b) = [b EXCEPT !.should_preempt = TRUE]
    BY <1>2 DEF preempt_request
  <2>2. preempt_request(b) \in Request
    BY <1>1, <2>1, SetField
  <2> QED
    BY <1>2, <2>1, <2>2 DEF Request
<1>3. CASE ~(b.num_scheduled > 0)
  <2> DEFINE p == [b EXCEPT !.sp_len = 0, !.spec_result = "None", !.fixed_idx = 0,
                   !.flush_len = 0, !.just_fixed = FALSE, !.drop_len = 0,
                   !.confidence_dropped = FALSE, !.stop_dropped = FALSE,
                   !.should_preempt = FALSE, !.num_computed_tokens = 0]
  <2>1. preempt_request(b) = p
    BY <1>3, Zenon DEF preempt_request
  <2>2. p \in Request
    BY <1>1, SetField, Zenon
  <2>3. /\ p.status = b.status
        /\ p.num_prompt_tokens = b.num_prompt_tokens /\ p.max_tokens = b.max_tokens
        /\ p.output_token_ids = b.output_token_ids
        /\ p.num_scheduled = b.num_scheduled /\ p.drop_end = b.drop_end
        /\ ~p.should_preempt /\ p.sp_len = 0 /\ p.spec_result = "None"
        /\ ~p.confidence_dropped /\ ~p.stop_dropped
    BY DEF Request
  <2> QED
    BY <1>3, <2>1, <2>2, <2>3
<1> QED
  BY <1>2, <1>3

\* A request is preempted, or tried again: with nothing in flight it has no
\* unverified token and goes to the waiting queue, else it is drained.
LEMMA PreemptStep ==
    ASSUME IInv, Enter(Idle), Tracked, NEW b \in Request, req' = preempt_request(b),
           b.status = "PREEMPTED", ~b.drop_end, ~Dropped(b),
           req.spec_result = "False" => req.flush_len >= 1 \/ NumValid = 0,
           b.num_prompt_tokens = req.num_prompt_tokens, b.max_tokens = req.max_tokens,
           b.output_token_ids = req.output_token_ids,
           b.sp_len = req.sp_len, b.spec_result = req.spec_result,
           b.flush_len = req.flush_len, b.num_scheduled = req.num_scheduled
    PROVE  IInv' /\ user' = user /\ ~is_finished(req) /\ ~is_finished(req')
<1> USE EnterContext, SlotKinds
<1>1. /\ req' \in Request /\ req'.status = "PREEMPTED" /\ ~req'.drop_end
      /\ req'.num_prompt_tokens = req.num_prompt_tokens /\ req'.max_tokens = req.max_tokens
      /\ req'.output_token_ids = req.output_token_ids
      /\ req'.num_scheduled = req.num_scheduled
      /\ req.num_scheduled > 0 =>
            /\ req'.should_preempt /\ req'.sp_len = req.sp_len
            /\ req'.spec_result = req.spec_result /\ req'.flush_len = req.flush_len
            /\ ~Dropped(req')
      /\ ~(req.num_scheduled > 0) =>
            /\ ~req'.should_preempt /\ req'.sp_len = 0 /\ req'.spec_result = "None"
            /\ ~Dropped(req')
  BY PreemptFields DEF Dropped
<1>2. PICK o \in Nat, v \in Nat : Blocks(o, v)
  BY DEF IInv, Flight
<1>3. /\ req.sp_len \in Int /\ req.num_scheduled \in Int /\ Newest = 0 /\ Newest' = 0
      /\ NumValid = req.sp_len /\ NumOld = req.num_scheduled - req.sp_len
      /\ NumValid >= 0 /\ NumOld >= 0
  BY FieldTypes DEF IInv, Flight, NumValid, NumOld
<1>4. TypeInv'
  BY <1>1 DEF IInv, TypeInv, TypeOK
<1>5. ~is_finished(req) /\ ~is_finished(req') /\ ~InRunning(req')
  BY <1>1 DEF Tracked, InRunning, InToBePreempted, is_finished, FinishedStatus
<1>6. CASE req.num_scheduled > 0
  <2>1. UserInv'
    BY <1>1, <1>5, <1>6 DEF IInv, UserInv, UserSeesVerified, Stops, NumVerified
  <2>2. NumValid' = NumValid /\ NumOld' = NumOld /\ Blocks(o, v)'
    BY <1>1, <1>2, <1>6, EnterIdle
  <2>3. PreemptedInv'
    BY <1>1, <1>3, <1>6, <2>2 DEF PreemptedInv
  <2>4. Flight'
    <3>1. req'.spec_result = "False" => req'.flush_len = NumOld'
      BY <1>1, <1>6, <2>2 DEF IInv, Flight
    <3> QED
      BY <1>3, <1>5, <2>2, <3>1 DEF Flight
  <2>5. ~InWaiting(req')
    BY <1>1, <1>6 DEF InWaiting
  <2> QED
    BY <1>4, <1>5, <2>1, <2>3, <2>4, <2>5 DEF IInv
<1>7. CASE ~(req.num_scheduled > 0)
  <2>1. req.sp_len = 0 /\ NumOld = 0 /\ NumValid = 0 /\ req.num_scheduled = 0
    BY <1>3, <1>7
  <2>2. UserInv'
    BY <1>1, <1>5, <1>7, <2>1 DEF IInv, UserInv, UserSeesVerified, Stops, NumVerified
  <2>3. \A i \in 1..Len(pipe') : pipe'[i] = Idle
    <3>1. BlocksOf(pipe, o, 0, OldKind, v, 0, req.output_token_ids, NumVerified(req))
      BY <1>2, <2>1 DEF Blocks
    <3>2. \A i \in 1..Len(pipe) : pipe[i] = Idle
      BY <3>1, NoBlocks
    <3> QED
      BY <3>2
  <2>4. WaitingInv'
    BY <1>1, <1>7, <2>1, <2>3 DEF WaitingInv
  <2>5. ~InToBePreempted(req')
    BY <1>1, <1>7 DEF InToBePreempted
  <2> QED
    BY <1>3, <1>4, <1>5, <2>2, <2>4, <2>5 DEF IInv, Tracked
<1> QED
  BY <1>5, <1>6, <1>7

\* Eviction: the request drains first if iterations of it are in flight.
LEMMA EvictStep ==
    ASSUME IInv, Evict, EvictDropped = FALSE
    PROVE  IInv' /\ user' = user /\ ~is_finished(req) /\ ~is_finished(req')
<1>1. /\ Enter(Idle) /\ InRunning(req) /\ Tracked /\ ~Dropped(req) /\ ~req.drop_end
      /\ RunningInv /\ req \in Request
  BY DEF Evict, Tracked, IInv, TypeInv, TypeOK
<1>2. PICK tried \in {FALSE, has_pending_real_token(req)} :
        req' = preempt_request([req EXCEPT !.status = "PREEMPTED", !.drop_end = @ /\ ~tried])
  BY DEF Evict
<1> DEFINE b == [req EXCEPT !.status = "PREEMPTED", !.drop_end = @ /\ ~tried]
<1>3. b \in Request
  <2>1. "PREEMPTED" \in RequestStatus
    BY DEF RequestStatus
  <2>2. (req.drop_end /\ ~tried) \in BOOLEAN
    OBVIOUS
  <2> QED
    BY <1>1, <2>1, <2>2, SetField, Zenon
<1>4. /\ b.status = "PREEMPTED" /\ ~b.drop_end
      /\ b.confidence_dropped = req.confidence_dropped /\ b.stop_dropped = req.stop_dropped
      /\ b.num_prompt_tokens = req.num_prompt_tokens /\ b.max_tokens = req.max_tokens
      /\ b.output_token_ids = req.output_token_ids
      /\ b.sp_len = req.sp_len /\ b.spec_result = req.spec_result
      /\ b.flush_len = req.flush_len /\ b.num_scheduled = req.num_scheduled
  BY <1>1 DEF Request
<1> HIDE DEF b
<1>5. ~Dropped(b) /\ (req.spec_result = "False" => req.flush_len >= 1 \/ NumValid = 0)
  BY <1>1, <1>4 DEF Dropped, RunningInv
<1>6. req' = preempt_request(b)
  BY <1>2 DEF b
<1> QED
  BY <1>1, <1>3, <1>4, <1>5, <1>6, PreemptStep

\* A preempted request is requeued once nothing of it is in flight.
LEMMA DrainStep ==
    ASSUME IInv, Drain
    PROVE  IInv' /\ user' = user /\ ~is_finished(req) /\ ~is_finished(req')
<1>1. /\ Enter(Idle) /\ InToBePreempted(req) /\ Tracked /\ PreemptedInv
      /\ req \in Request /\ req' = preempt_request(req)
  BY DEF Drain, Tracked, IInv, TypeInv, TypeOK
<1> QED
  BY <1>1, PreemptStep DEF PreemptedInv, InToBePreempted

\* The fields of a request that is put in the batch.
LEMMA ScheduledFields ==
    ASSUME NEW b \in Request, NEW n \in Int
    PROVE  LET r == Scheduled(b, n) IN
           /\ r \in Request /\ r.num_scheduled = b.num_scheduled + 1
           /\ r.num_computed_tokens = b.num_computed_tokens + n
           /\ r.status = b.status /\ r.should_preempt = b.should_preempt
           /\ r.num_prompt_tokens = b.num_prompt_tokens /\ r.max_tokens = b.max_tokens
           /\ r.output_token_ids = b.output_token_ids /\ r.sp_len = b.sp_len
           /\ r.spec_result = b.spec_result /\ r.flush_len = b.flush_len
           /\ r.just_fixed = b.just_fixed /\ r.drop_len = b.drop_len
           /\ r.drop_end = b.drop_end
           /\ r.confidence_dropped = b.confidence_dropped
           /\ r.stop_dropped = b.stop_dropped
<1>1. b.num_scheduled + 1 \in Int /\ b.num_computed_tokens + n \in Int
  BY FieldTypes
<1>2. Scheduled(b, n) \in Request
  BY <1>1, SetField, Zenon DEF Scheduled
<1> QED
  BY <1>2 DEF Scheduled, Request

\* The target model answers a prefix that is short enough.
LEMMA TargetType ==
    ASSUME NEW s \in Seq(Token), Len(s) < MaxTokens
    PROVE  Target(s) \in Token
<1>1. MaxTokens \in Nat
  BY MaxTokensAssumption
<1>2. Len(s) \in 0..MaxTokens /\ s \in [1..Len(s) -> Token]
  BY <1>1
<1> QED
  BY <1>2, TargetAssumption

\* A chunk is discarded exactly if it is a part of what is due: no part of the
\* output is computed in chunks, so the worker knows what the scheduler does.
LEMMA RunEnters ==
    ASSUME NEW b \in Request, NEW n \in Int, Run(b, n),
           b.num_computed_tokens + n <= num_tokens(b),
           b.num_computed_tokens + n < num_tokens(b) => b.output_token_ids = <<>>
    PROVE  /\ req' = Scheduled(b, n)
           /\ Enter(IF b.num_computed_tokens + n < num_tokens(b) THEN Prefill
                    ELSE Sample(Target(b.output_token_ids)))
<1> DEFINE out == b.output_token_ids
           c == b.num_computed_tokens + n
           m == b.num_prompt_tokens
<1>1. out \in Seq(Token) /\ Len(out) \in Nat /\ c \in Int /\ m \in Nat /\ num_tokens(b) = m + Len(out)
  BY FieldTypes DEF num_tokens
<1>2. PICK known \in m..num_tokens(b) :
          Enter(IF c < known THEN Prefill ELSE Sample(Target(Prefix(out, c - m))))
  BY DEF Run
<1>3. req' = Scheduled(b, n) /\ c <= num_tokens(b) /\ (c < num_tokens(b) => out = <<>>)
  BY DEF Run
<1> HIDE DEF out, c, m
<1>4. CASE c < num_tokens(b)
  <2>1. out = <<>> /\ Len(<<>>) = 0
    BY <1>3, <1>4
  <2>2. known = num_tokens(b)
    BY <1>1, <1>2, <2>1
  <2> QED
    BY <1>2, <1>3, <1>4, <2>2 DEF c
<1>5. CASE ~(c < num_tokens(b))
  <2>1. c = num_tokens(b) /\ c - m = Len(out) /\ ~(c < known)
    BY <1>1, <1>2, <1>3, <1>5
  <2>2. Prefix(out, c - m) = out
    BY <1>1, <2>1, PrefixAll
  <2> QED
    BY <1>2, <1>3, <1>5, <2>1, <2>2 DEF c, out
<1> QED
  BY <1>4, <1>5

\* Request b, which is req but for its status and what the scheduling loop
\* resets, is put in the batch with n of the tokens due: a prefill chunk if
\* some are left, else a sample behind the valid block.
LEMMA RunStep ==
    ASSUME IInv, ~is_finished(req),
           NEW b \in Request, b.status = "RUNNING", ~Dropped(b), ~b.drop_end,
           b.num_prompt_tokens = req.num_prompt_tokens, b.max_tokens = req.max_tokens,
           b.output_token_ids = req.output_token_ids, b.sp_len = req.sp_len,
           b.spec_result = req.spec_result, b.flush_len = req.flush_len,
           Len(b.output_token_ids) < MaxTokens,
           NEW k \in Nat, b.num_scheduled = k + b.sp_len,
           b.spec_result = "False" => b.flush_len = k /\ b.flush_len >= 1,
           NEW o \in Nat, NEW v \in Nat,
           BlocksOf(pipe, o, k, OldKind, v, b.sp_len, b.output_token_ids, NumVerified(b)),
           v + b.sp_len = PP - 1,
           b.num_computed_tokens # num_tokens(b) - 1 =>
               /\ b.num_computed_tokens < num_tokens(b) - 1
               /\ b.sp_len = 0 /\ b.spec_result = "None" /\ o + k = PP - 1,
           b.spec_result = "False" /\ b.just_fixed => o = 0,
           NEW n \in 1..(num_tokens(b) - b.num_computed_tokens),
           b.num_computed_tokens + n < num_tokens(b) => b.output_token_ids = <<>>,
           Run(b, n)
    PROVE  IInv' /\ user' = user /\ ~is_finished(req')
<1> DEFINE out == b.output_token_ids
           w == b.sp_len
           nv == NumVerified(b)
           t == Target(out)
           c == b.num_computed_tokens
           slot == IF c + n < num_tokens(b) THEN Prefill ELSE Sample(t)
<1>1. /\ out \in Seq(Token) /\ Len(out) \in Nat /\ t \in Token /\ c \in Int
      /\ b.num_prompt_tokens \in Nat /\ num_tokens(b) \in Int
  <2>1. /\ out \in Seq(Token) /\ Len(out) \in Nat /\ c \in Int
        /\ b.num_prompt_tokens \in Nat /\ Len(out) < MaxTokens
    BY FieldTypes
  <2>2. t \in Token
    BY ONLY <2>1, TargetType
  <2>3. num_tokens(b) \in Int
    BY ONLY <2>1 DEF num_tokens
  <2> QED
    BY ONLY <2>1, <2>2, <2>3
<1>2. slot \in Slot /\ Enter(slot) /\ req' = Scheduled(b, n)
  <2>1. n \in Int /\ c + n <= num_tokens(b) /\ (c + n < num_tokens(b) => out = <<>>)
    BY <1>1
  <2>2. Enter(slot) /\ req' = Scheduled(b, n)
    BY <2>1, RunEnters
  <2> QED
    BY <1>1, <2>2, SlotKinds
<1>3. /\ req \in Request /\ user \in Seq(Token) /\ user' = user
      /\ PP \in Nat /\ PP >= 2
      /\ pipe \in Seq(Slot) /\ Len(pipe) = PP - 1
      /\ pipe' = Append(pipe, slot) /\ pipe' \in Seq(Slot) /\ Len(pipe') = PP
      /\ phase' = "speculate"
      /\ Newest' = IF slot.kind = "sample" THEN 1 ELSE 0
  BY <1>2, EnterContext
<1>4. n \in Int /\ n >= 1 /\ c + n <= num_tokens(b)
  BY <1>1
<1>5. /\ req' \in Request /\ req'.num_scheduled = k + w + 1
      /\ req'.num_computed_tokens = c + n
      /\ req'.status = "RUNNING" /\ ~req'.drop_end
      /\ req'.num_prompt_tokens = b.num_prompt_tokens /\ req'.max_tokens = b.max_tokens
      /\ req'.output_token_ids = out /\ req'.sp_len = w
      /\ req'.spec_result = b.spec_result /\ req'.flush_len = b.flush_len
      /\ req'.just_fixed = b.just_fixed
      /\ ~Dropped(req') /\ num_tokens(req') = num_tokens(b) /\ NumVerified(req') = nv
      /\ OldKind' = OldKind
  <2>1. /\ req' \in Request /\ req'.num_scheduled = (k + w) + 1
        /\ req'.num_computed_tokens = c + n
        /\ req'.status = "RUNNING" /\ ~req'.drop_end
        /\ req'.num_prompt_tokens = b.num_prompt_tokens /\ req'.max_tokens = b.max_tokens
        /\ req'.output_token_ids = out /\ req'.sp_len = w
        /\ req'.spec_result = b.spec_result /\ req'.flush_len = b.flush_len
        /\ req'.just_fixed = b.just_fixed
        /\ req'.confidence_dropped = b.confidence_dropped
        /\ req'.stop_dropped = b.stop_dropped
    <3> DEFINE r == Scheduled(b, n)
    <3>1. req' = r
      BY <1>2
    <3>2. /\ r \in Request /\ r.num_scheduled = b.num_scheduled + 1
          /\ r.num_computed_tokens = b.num_computed_tokens + n
          /\ r.status = b.status /\ r.drop_end = b.drop_end
          /\ r.num_prompt_tokens = b.num_prompt_tokens /\ r.max_tokens = b.max_tokens
          /\ r.output_token_ids = b.output_token_ids /\ r.sp_len = b.sp_len
          /\ r.spec_result = b.spec_result /\ r.flush_len = b.flush_len
          /\ r.just_fixed = b.just_fixed
          /\ r.confidence_dropped = b.confidence_dropped
          /\ r.stop_dropped = b.stop_dropped
      BY ONLY <1>4, ScheduledFields, b \in Request
    <3> HIDE DEF r
    <3> QED
      BY ONLY <3>1, <3>2, b.num_scheduled = k + b.sp_len, b.status = "RUNNING", ~b.drop_end
  <2>2. ~Dropped(req')
    BY <2>1 DEF Dropped
  <2>3. num_tokens(req') = num_tokens(b) /\ NumVerified(req') = nv
    BY ONLY <2>1 DEF num_tokens, NumVerified
  <2>4. OldKind' = OldKind
    BY <2>1 DEF OldKind
  <2> QED
    BY ONLY <2>1, <2>2, <2>3, <2>4
<1>6. w \in Nat /\ nv \in Nat /\ nv + w = Len(out)
  <2>1. 0 <= w /\ w <= Len(out) /\ w \in Int
    BY FieldTypes DEF IInv, UserInv
  <2> QED
    BY <1>1, <2>1 DEF NumVerified
<1>7. TypeInv'
  BY <1>3, <1>5 DEF IInv, TypeInv, TypeOK
<1>8. UserInv'
  BY <1>3, <1>5 DEF IInv, UserInv, UserSeesVerified, NumVerified, Stops
<1>9. /\ InRunning(req') /\ ~InWaiting(req') /\ ~InToBePreempted(req') /\ ~is_finished(req')
  BY <1>5 DEF InRunning, InWaiting, InToBePreempted, is_finished, FinishedStatus
<1>10. RunningInv'
  BY <1>3, <1>5 DEF RunningInv
<1>11. BlocksOf(pipe, o, k, OldKind, v, w, out, nv) /\ v + w = PP - 1
  OBVIOUS
<1>12. c # num_tokens(b) - 1 =>
         /\ c < num_tokens(b) - 1 /\ w = 0 /\ b.spec_result = "None" /\ o + k = PP - 1
  OBVIOUS
<1>13. b.spec_result = "False" /\ b.just_fixed => o = 0
  OBVIOUS
<1>14. b.spec_result = "False" => b.flush_len = k
  OBVIOUS
<1>15. OldKind = IF b.spec_result = "False" THEN "sample" ELSE "prefill"
  BY DEF OldKind
<1>16. c + n < num_tokens(b) => out = <<>>
  OBVIOUS
<1> HIDE DEF out, w, nv, t, c
<1>17. CASE c + n < num_tokens(b)
  <2>1. /\ slot = Prefill /\ Newest' = 0
        /\ w = 0 /\ b.spec_result = "None" /\ o + k = PP - 1 /\ OldKind = "prefill"
    <3>1. slot = Prefill /\ c # num_tokens(b) - 1
      BY ONLY <1>1, <1>4, <1>17
    <3>2. Newest' = 0
      BY ONLY <1>3, <3>1, SlotKinds
    <3> QED
      BY ONLY <1>12, <1>15, <3>1, <3>2
  <2> HIDE DEF slot
  <2>2. BlocksOf(pipe, o, k, "prefill", v, 0, out, nv)
    BY <1>11, <2>1
  <2>3. BlocksOf(pipe', o, k + 1, "prefill", PP, 0, out, nv)
    <3>1. BlocksOf(Append(pipe, Prefill), o, k + 1, "prefill", Len(pipe) + 1, 0, out, nv)
      BY ONLY <1>3, <1>6, <2>1, <2>2, EnterPrefillBlocks, o \in Nat, k \in Nat, v \in Nat
    <3>2. Len(pipe) + 1 = PP
      BY ONLY <1>3
    <3> QED
      BY ONLY <3>1, <3>2, <1>3, <2>1
  <2>4. NumValid' = 0 /\ NumOld' = k + 1
    BY <1>5, <2>1 DEF NumValid, NumOld
  <2>5. Blocks(o, PP)'
    BY ONLY <1>5, <2>1, <2>3, <2>4 DEF Blocks
  <2>6. RunningBlocks(o, PP)'
    <3>1. o + (k + 1) = PP /\ PP + 0 = PP
      BY ONLY <1>3, <2>1, o \in Nat, k \in Nat
    <3>2. (c + n) - 0 # num_tokens(b) - 1 => (c + n) - 0 < num_tokens(b) - 1
      BY ONLY <1>1, <1>4, <1>17
    <3> QED
      BY ONLY <1>3, <1>5, <1>13, <1>17, <1>16, <2>1, <2>4, <3>1, <3>2 DEF RunningBlocks
  <2>7. Flight'
    BY ONLY <1>3, <1>5, <2>1, <2>4, <2>5, <2>6, k \in Nat, o \in Nat DEF Flight
  <2> QED
    BY ONLY <1>3, <1>7, <1>8, <1>9, <1>10, <2>7 DEF IInv
<1>18. CASE ~(c + n < num_tokens(b))
  <2>1. slot = Sample(t) /\ Newest' = 1 /\ c + n = num_tokens(b)
    BY <1>1, <1>3, <1>4, <1>18, SlotKinds
  <2> HIDE DEF slot
  <2>2. t = Target(Prefix(out, nv + w))
    BY <1>1, <1>6, PrefixAll DEF t
  <2>3. BlocksOf(pipe', o, k, OldKind, v, w + 1, out, nv)
    <3>1. BlocksOf(Append(pipe, Sample(t)), o, k, OldKind, v, w + 1, out, nv)
      BY ONLY <1>1, <1>3, <1>6, <1>11, <2>2, EnterSampleBlocks,
              o \in Nat, k \in Nat, v \in Nat
    <3> QED
      BY ONLY <3>1, <1>3, <2>1
  <2>4. NumValid' = w + 1 /\ NumOld' = k
    BY ONLY <1>5, <1>6, <2>1, k \in Nat DEF NumValid, NumOld
  <2>5. Blocks(o, v)'
    BY ONLY <1>5, <2>3, <2>4 DEF Blocks
  <2>6. RunningBlocks(o, v)'
    <3>1. v + (w + 1) = PP
      BY ONLY <1>3, <1>6, <1>11, v \in Nat
    <3>2. (c + n) - 1 = num_tokens(b) - 1
      BY ONLY <1>1, <1>4, <2>1
    <3> QED
      BY ONLY <1>3, <1>5, <1>13, <2>1, <2>4, <3>1, <3>2 DEF RunningBlocks
  <2>7. Flight'
    BY ONLY <1>3, <1>5, <1>6, <1>14, <2>4, <2>5, <2>6, k \in Nat, o \in Nat, v \in Nat
       DEF Flight
  <2> QED
    BY ONLY <1>3, <1>7, <1>8, <1>9, <1>10, <2>7 DEF IInv
<1> QED
  BY <1>3, <1>9, <1>17, <1>18

\* A chunk is at least one token and at most what is due.
LEMMA ChunksType ==
    ASSUME NEW m \in Nat \ {0}, NEW n \in Chunks(m)
    PROVE  n \in 1..m
  BY ConfigAssumption DEF Chunks

\* Admission schedules the first chunk of a request with nothing in flight.
LEMMA AdmitStep ==
    ASSUME IInv, Admit, SplitResume = FALSE
    PROVE  IInv' /\ user' = user /\ ~is_finished(req) /\ ~is_finished(req')
<1>1. /\ InWaiting(req) /\ WaitingInv /\ UserInv /\ req \in Request
      /\ req.num_prompt_tokens = NumPromptTokens /\ req.max_tokens = MaxTokens
  BY DEF Admit, IInv, TypeInv, TypeOK
<1> DEFINE b == [req EXCEPT !.status = "RUNNING", !.num_computed_tokens = 0]
<1>2. b \in Request
  <2>1. "RUNNING" \in RequestStatus /\ 0 \in Int
    BY DEF RequestStatus
  <2> QED
    BY <1>1, <2>1, SetField, Zenon
<1>3. /\ b.status = "RUNNING" /\ b.num_computed_tokens = 0
      /\ b.num_prompt_tokens = req.num_prompt_tokens /\ b.max_tokens = req.max_tokens
      /\ b.output_token_ids = req.output_token_ids /\ b.sp_len = req.sp_len
      /\ b.spec_result = req.spec_result /\ b.flush_len = req.flush_len
      /\ b.drop_end = req.drop_end /\ b.num_scheduled = req.num_scheduled
      /\ b.confidence_dropped = req.confidence_dropped /\ b.stop_dropped = req.stop_dropped
  BY <1>1 DEF Request
<1>4. PICK n \in IF req.output_token_ids = <<>> \/ SplitResume
                 THEN Chunks(num_tokens(req)) ELSE {num_tokens(req)} : Run(b, n)
  BY DEF Admit
<1> HIDE DEF b
<1>5. ~is_finished(req)
  BY <1>1 DEF InWaiting, is_finished, FinishedStatus
<1>6. /\ ~Dropped(b) /\ ~b.drop_end /\ b.sp_len = 0 /\ b.spec_result = "None"
      /\ b.num_scheduled = 0 /\ num_tokens(b) = num_tokens(req)
      /\ NumVerified(b) = Len(b.output_token_ids)
  BY <1>1, <1>2, <1>3, FieldTypes DEF WaitingInv, Dropped, num_tokens, NumVerified
<1>7. num_tokens(b) \in Nat \ {0}
  <2>1. Len(b.output_token_ids) \in Nat /\ b.num_prompt_tokens = NumPromptTokens
    BY <1>1, <1>2, <1>3, FieldTypes
  <2> QED
    BY <2>1, PromptAssumption DEF num_tokens
<1>8. n \in 1..(num_tokens(b) - b.num_computed_tokens)
  <2>1. n \in 1..num_tokens(b) /\ num_tokens(b) - 0 = num_tokens(b)
    BY <1>4, <1>6, <1>7, ChunksType
  <2> QED
    BY ONLY <2>1, <1>3
<1>9. Len(b.output_token_ids) < MaxTokens
  <2>1. /\ req.output_token_ids \in Seq(Token) /\ req.sp_len = 0
        /\ Len(req.output_token_ids) \in Nat
    BY <1>1, FieldTypes DEF WaitingInv
  <2>2. NumVerified(req) = Len(req.output_token_ids)
    BY <2>1 DEF NumVerified
  <2>3. user = req.output_token_ids
    BY <1>1, <2>1, <2>2, PrefixAll DEF UserInv, UserSeesVerified
  <2> QED
    BY <1>1, <1>3, <1>5, <2>3 DEF UserInv
<1>10. Len(pipe) = PP - 1 /\ pipe \in Seq(Slot) /\ PP \in Nat /\ PP >= 2
  BY <1>4, PPAssumption DEF IInv, TypeInv, TypeOK, Run, Enter
<1>11. BlocksOf(pipe, PP - 1, 0, OldKind, PP - 1, 0, b.output_token_ids, NumVerified(b))
  <2>1. \A i \in 1..Len(pipe) : pipe[i] = Idle
    BY <1>1 DEF WaitingInv
  <2>2. PP - 1 \in Nat
    BY <1>10
  <2> QED
    BY <1>10, <2>1, <2>2, NoBlocks
<1>12. /\ PP - 1 \in Nat /\ 0 \in Nat /\ (PP - 1) + b.sp_len = PP - 1 /\ (PP - 1) + 0 = PP - 1
       /\ b.num_scheduled = 0 + b.sp_len
  BY <1>6, <1>10
<1>13. b.num_computed_tokens # num_tokens(b) - 1 => b.num_computed_tokens < num_tokens(b) - 1
  BY ONLY <1>3, <1>7
<1>14. BlocksOf(pipe, PP - 1, 0, OldKind, PP - 1, b.sp_len, b.output_token_ids, NumVerified(b))
  BY <1>6, <1>11
<1>15. b.num_computed_tokens + n < num_tokens(b) => b.output_token_ids = <<>>
  BY <1>3, <1>4, <1>6, <1>7
<1> QED
  BY ONLY IInv, <1>2, <1>3, <1>4, <1>5, <1>6, <1>8, <1>9, <1>12, <1>13, <1>14, <1>15, RunStep

\* A running request that is not dropped is put in the batch.
LEMMA RunningStep ==
    ASSUME IInv, InRunning(req), ~Dropped(req),
           NEW b \in Request, b.status = "RUNNING", ~Dropped(b), ~b.drop_end,
           b.num_prompt_tokens = req.num_prompt_tokens, b.max_tokens = req.max_tokens,
           b.output_token_ids = req.output_token_ids, b.sp_len = req.sp_len,
           b.spec_result = req.spec_result, b.flush_len = req.flush_len,
           b.num_scheduled = req.num_scheduled, b.just_fixed = req.just_fixed,
           b.num_computed_tokens = req.num_computed_tokens,
           NEW n \in 1..(num_tokens(req) - req.num_computed_tokens),
           phase = "schedule", Run(b, n)
    PROVE  IInv' /\ user' = user /\ ~is_finished(req) /\ ~is_finished(req')
<1>1. /\ RunningInv /\ Flight /\ UserInv /\ req \in Request /\ Newest = 0
      /\ Len(pipe) = PP - 1
  BY DEF IInv, Tracked, TypeInv, TypeOK, Newest
<1>2. PICK o \in Nat, v \in Nat : Blocks(o, v) /\ RunningBlocks(o, v)
  BY <1>1 DEF Flight
<1>3. /\ req.sp_len \in Int /\ req.num_scheduled \in Int /\ req.num_computed_tokens \in Int
      /\ Len(req.output_token_ids) \in Nat
  BY <1>1, FieldTypes
<1>4. /\ NumValid = req.sp_len /\ NumOld \in Nat /\ req.num_scheduled = NumOld + req.sp_len
  BY <1>1, <1>3 DEF Flight, NumValid, NumOld
<1>5. ~is_finished(req)
  BY DEF InRunning, is_finished, FinishedStatus
<1>6. num_tokens(b) = num_tokens(req) /\ NumVerified(b) = NumVerified(req)
  BY DEF num_tokens, NumVerified
<1>7. /\ Len(b.output_token_ids) < MaxTokens
      /\ b.spec_result = "False" => b.flush_len = NumOld /\ b.flush_len >= 1
  BY <1>1 DEF RunningInv, Flight
<1>8. BlocksOf(pipe, o, NumOld, OldKind, v, b.sp_len, b.output_token_ids, NumVerified(b))
  BY <1>2, <1>4, <1>6 DEF Blocks
<1>9. v + b.sp_len = PP - 1
  BY <1>1, <1>2, <1>4 DEF RunningBlocks
<1>10. b.num_computed_tokens # num_tokens(b) - 1 =>
         /\ b.num_computed_tokens < num_tokens(b) - 1
         /\ b.sp_len = 0 /\ b.spec_result = "None" /\ o + NumOld = PP - 1
         /\ b.output_token_ids = <<>>
  <2>1. req.num_computed_tokens - Newest = req.num_computed_tokens
    BY <1>1, <1>3
  <2>2. req.num_computed_tokens - Newest # num_tokens(req) - 1 =>
          /\ req.num_computed_tokens - Newest < num_tokens(req) - 1
          /\ NumValid = 0 /\ req.spec_result = "None" /\ o + NumOld = Len(pipe)
          /\ req.output_token_ids = <<>>
    BY <1>2 DEF RunningBlocks
  <2> QED
    BY <1>1, <1>4, <1>6, <2>1, <2>2
<1>11. b.spec_result = "False" /\ b.just_fixed => o = 0
  BY <1>2 DEF RunningBlocks
<1>12. n \in 1..(num_tokens(b) - b.num_computed_tokens) /\ b.num_scheduled = NumOld + b.sp_len
  BY <1>4, <1>6
<1> DEFINE k == NumOld
<1>13. /\ k \in Nat /\ b.num_scheduled = k + b.sp_len
       /\ b.spec_result = "False" => b.flush_len = k /\ b.flush_len >= 1
       /\ BlocksOf(pipe, o, k, OldKind, v, b.sp_len, b.output_token_ids, NumVerified(b))
       /\ b.num_computed_tokens # num_tokens(b) - 1 =>
             /\ b.num_computed_tokens < num_tokens(b) - 1
             /\ b.sp_len = 0 /\ b.spec_result = "None" /\ o + k = PP - 1
  BY <1>4, <1>7, <1>8, <1>10, <1>12
<1> HIDE DEF k
<1>14. b.num_computed_tokens + n < num_tokens(b) => b.output_token_ids = <<>>
  <2>1. num_tokens(b) \in Int /\ b.num_computed_tokens \in Int /\ n \in Int /\ n >= 1
    BY <1>3, <1>6, FieldTypes DEF num_tokens
  <2>2. b.num_computed_tokens + n < num_tokens(b) => b.num_computed_tokens # num_tokens(b) - 1
    BY ONLY <2>1
  <2> QED
    BY <1>10, <2>2
<1>15. IInv' /\ user' = user /\ ~is_finished(req')
  BY <1>5, <1>7, <1>9, <1>11, <1>12, <1>13, <1>14, RunStep
<1> QED
  BY <1>5, <1>15

\* The tokens due of a running request: at least one, and exactly one past
\* the prompt when it is real-token work, which is never dropped.
LEMMA TokensDue ==
    ASSUME IInv, InRunning(req), phase = "schedule"
    PROVE  /\ num_tokens(req) - req.num_computed_tokens \in Nat \ {0}
           /\ has_pending_real_token(req) => ~Dropped(req)
           /\ has_pending_real_token(req) /\ ~(req.num_computed_tokens < req.num_prompt_tokens)
                => req.num_computed_tokens = num_tokens(req) - 1
<1>1. /\ RunningInv /\ Flight /\ req \in Request /\ Newest = 0
      /\ req.num_prompt_tokens = NumPromptTokens
  BY DEF IInv, Tracked, TypeInv, TypeOK, Newest
<1>2. PICK o \in Nat, v \in Nat : Blocks(o, v) /\ RunningBlocks(o, v)
  BY <1>1 DEF Flight
<1>3. /\ req.num_computed_tokens \in Int /\ Len(req.output_token_ids) \in Nat
      /\ req.num_prompt_tokens \in Nat /\ num_tokens(req) \in Int
  BY <1>1, FieldTypes DEF num_tokens
<1>4. req.num_computed_tokens # num_tokens(req) - 1 =>
        /\ req.num_computed_tokens < num_tokens(req) - 1
        /\ req.spec_result = "None" /\ ~req.drop_end
  <2>1. req.num_computed_tokens - Newest = req.num_computed_tokens
    BY <1>1, <1>3
  <2> QED
    BY <1>2, <2>1 DEF RunningBlocks
<1>5. num_tokens(req) - req.num_computed_tokens \in Nat \ {0}
  BY ONLY <1>3, <1>4
<1>6. has_pending_real_token(req) => ~Dropped(req)
  BY <1>1, <1>3 DEF has_pending_real_token, RunningInv
<1> QED
  BY <1>4, <1>5, <1>6 DEF has_pending_real_token

\* A real token, or the next chunk of a prefill, is scheduled.
LEMMA ScheduleRealStep ==
    ASSUME IInv, ScheduleReal
    PROVE  IInv' /\ user' = user /\ ~is_finished(req) /\ ~is_finished(req')
<1>1. InRunning(req) /\ has_pending_real_token(req) /\ phase = "schedule"
  BY DEF ScheduleReal, Run, Enter
<1>2. req \in Request
  BY DEF IInv, TypeInv, TypeOK
<1> DEFINE b == [req EXCEPT !.drop_end = FALSE]
<1>3. b \in Request
  <2>1. FALSE \in BOOLEAN
    OBVIOUS
  <2> QED
    BY <1>2, <2>1, SetField
<1>4. /\ b.status = req.status /\ ~b.drop_end
      /\ b.num_prompt_tokens = req.num_prompt_tokens /\ b.max_tokens = req.max_tokens
      /\ b.output_token_ids = req.output_token_ids /\ b.sp_len = req.sp_len
      /\ b.spec_result = req.spec_result /\ b.flush_len = req.flush_len
      /\ b.num_scheduled = req.num_scheduled /\ b.just_fixed = req.just_fixed
      /\ b.num_computed_tokens = req.num_computed_tokens
      /\ b.confidence_dropped = req.confidence_dropped /\ b.stop_dropped = req.stop_dropped
  BY <1>2 DEF Request
<1>5. PICK n \in IF req.num_computed_tokens < req.num_prompt_tokens
                 THEN Chunks(num_tokens(req) - req.num_computed_tokens)
                 ELSE {1} : Run(b, n)
  BY DEF ScheduleReal
<1> HIDE DEF b
<1>6. n \in 1..(num_tokens(req) - req.num_computed_tokens)
  <2>1. num_tokens(req) - req.num_computed_tokens \in Nat \ {0}
    BY <1>1, TokensDue
  <2>2. n = 1 \/ n \in Chunks(num_tokens(req) - req.num_computed_tokens)
    BY <1>5
  <2> QED
    BY <2>1, <2>2, ChunksType
<1>7. ~Dropped(req) /\ ~Dropped(b) /\ b.status = "RUNNING"
  BY <1>1, <1>4, TokensDue DEF Dropped, InRunning
<1> QED
  BY ONLY IInv, <1>1, <1>3, <1>4, <1>5, <1>6, <1>7, RunningStep

\* A speculated token is scheduled.
LEMMA ScheduleSpecStep ==
    ASSUME IInv, ScheduleSpec
    PROVE  IInv' /\ user' = user /\ ~is_finished(req) /\ ~is_finished(req')
<1>1. /\ InRunning(req) /\ ~has_pending_real_token(req) /\ phase = "schedule" /\ ~Dropped(req)
      /\ req \in Request
  BY DEF ScheduleSpec, Run, Enter, IInv, TypeInv, TypeOK
<1>2. PICK n \in Chunks(num_tokens(req) - req.num_computed_tokens) : Run(req, n)
  BY DEF ScheduleSpec
<1>3. n \in 1..(num_tokens(req) - req.num_computed_tokens)
  BY <1>1, <1>2, TokensDue, ChunksType
<1>4. ~req.drop_end /\ req.status = "RUNNING"
  BY <1>1 DEF has_pending_real_token, InRunning
<1> QED
  BY ONLY IInv, <1>1, <1>2, <1>3, <1>4, RunningStep

\* Schedule preserves the invariant, sends nothing and finishes nobody.
LEMMA ScheduleStep ==
    ASSUME IInv, Schedule, EvictDropped = FALSE, SplitResume = FALSE
    PROVE  IInv' /\ user' = user /\ (is_finished(req') <=> is_finished(req))
<1>1. CASE StayOut \/ SkipDropped
  BY <1>1, StayOutStep, SkipDroppedStep
<1>2. CASE Admit \/ ScheduleReal \/ ScheduleSpec
  BY <1>2, AdmitStep, ScheduleRealStep, ScheduleSpecStep
<1>3. CASE DropSpec \/ Evict \/ Drain
  BY <1>3, DropSpecStep, EvictStep, DrainStep
<1> QED
  BY <1>1, <1>2, <1>3 DEF Schedule

-----------------------------------------------------------------------------
(* Speculate preserves the invariant. *)

\* The fields of a request after the speculative append.
LEMMA SpeculatedFields ==
    ASSUME NEW r \in Request, NEW t \in Token
    PROVE  LET s == Speculated(r, t) IN
           /\ s \in Request
           /\ s.output_token_ids = Append(r.output_token_ids, t)
           /\ s.sp_len = r.sp_len + 1
           /\ s.status = r.status /\ s.should_preempt = r.should_preempt
           /\ s.num_prompt_tokens = r.num_prompt_tokens /\ s.max_tokens = r.max_tokens
           /\ s.num_computed_tokens = r.num_computed_tokens
           /\ s.spec_result = r.spec_result /\ s.flush_len = r.flush_len
           /\ s.just_fixed = r.just_fixed /\ s.drop_end = r.drop_end
           /\ s.num_scheduled = r.num_scheduled
           /\ \/ s.stop_dropped /\ s.drop_len = s.sp_len
              \/ s.stop_dropped = r.stop_dropped /\ Len(s.output_token_ids) < r.max_tokens
           /\ s.confidence_dropped = r.confidence_dropped
<1> DEFINE q == [r EXCEPT !.output_token_ids = Append(@, t), !.sp_len = @ + 1]
<1>1. Append(r.output_token_ids, t) \in Seq(Token) /\ r.sp_len + 1 \in Int
  BY FieldTypes
<1>2. q \in Request
  BY <1>1, SetField, Zenon
<1>3. /\ q.output_token_ids = Append(r.output_token_ids, t)
      /\ q.sp_len = r.sp_len + 1
      /\ q.status = r.status /\ q.should_preempt = r.should_preempt
      /\ q.num_prompt_tokens = r.num_prompt_tokens /\ q.max_tokens = r.max_tokens
      /\ q.num_computed_tokens = r.num_computed_tokens
      /\ q.spec_result = r.spec_result /\ q.flush_len = r.flush_len
      /\ q.just_fixed = r.just_fixed /\ q.drop_end = r.drop_end
      /\ q.num_scheduled = r.num_scheduled
      /\ q.stop_dropped = r.stop_dropped /\ q.confidence_dropped = r.confidence_dropped
  BY DEF Request
<1>4. Speculated(r, t) = IF check_stop_from_spec(q)
                         THEN [q EXCEPT !.stop_dropped = TRUE, !.drop_len = q.sp_len]
                         ELSE q
  BY DEF Speculated
<1> HIDE DEF q
<1>5. CASE check_stop_from_spec(q)
  <2>1. Speculated(r, t) = [q EXCEPT !.stop_dropped = TRUE, !.drop_len = q.sp_len]
    BY <1>4, <1>5
  <2>2. TRUE \in BOOLEAN /\ q.sp_len \in Int
    BY <1>2, FieldTypes
  <2>3. [q EXCEPT !.stop_dropped = TRUE, !.drop_len = q.sp_len] \in Request
    BY <1>2, <2>2, SetField, Zenon
  <2> QED
    <3> DEFINE s == [q EXCEPT !.stop_dropped = TRUE, !.drop_len = q.sp_len]
    <3>1. /\ s.output_token_ids = q.output_token_ids
          /\ s.sp_len = q.sp_len
          /\ s.status = q.status /\ s.should_preempt = q.should_preempt
          /\ s.num_prompt_tokens = q.num_prompt_tokens /\ s.max_tokens = q.max_tokens
          /\ s.num_computed_tokens = q.num_computed_tokens
          /\ s.spec_result = q.spec_result /\ s.flush_len = q.flush_len
          /\ s.just_fixed = q.just_fixed /\ s.drop_end = q.drop_end
          /\ s.num_scheduled = q.num_scheduled
          /\ s.stop_dropped /\ s.drop_len = q.sp_len
          /\ s.confidence_dropped = q.confidence_dropped
      BY ONLY <1>2 DEF Request
    <3>2. Speculated(r, t) = s /\ s \in Request
      BY <2>1, <2>3
    <3> HIDE DEF s
    <3> QED
      BY <1>3, <3>1, <3>2
<1>6. CASE ~check_stop_from_spec(q)
  <2>1. Speculated(r, t) = q
    BY <1>4, <1>6
  <2>2. ~(Len(q.output_token_ids) >= q.max_tokens)
    BY <1>6 DEF check_stop_from_spec, StopsAt
  <2>3. Len(q.output_token_ids) \in Nat /\ q.max_tokens \in Nat
    BY <1>2, FieldTypes
  <2>4. Len(q.output_token_ids) < r.max_tokens
    BY <1>3, <2>2, <2>3
  <2> QED
    BY <1>2, <1>3, <2>1, <2>4
<1> QED
  BY <1>5, <1>6

\* A guess is appended to the request of the newest batch.
LEMMA SpeculateAppend ==
    ASSUME IInv, Speculate, pipe[Len(pipe)].kind = "sample"
    PROVE  IInv' /\ user' = user /\ ~is_finished(req) /\ ~is_finished(req')
<1>1. /\ phase = "speculate" /\ phase' = "verify" /\ pipe' = pipe /\ user' = user
      /\ Newest = 1 /\ Newest' = 0
  BY DEF Speculate, Newest
<1>2. PICK t \in Token : req' = Speculated(req, t)
  BY DEF Speculate
<1>3. /\ req \in Request /\ pipe \in Seq(Slot) /\ Len(pipe) = PP /\ user \in Seq(Token)
      /\ PP \in Nat /\ PP >= 2 /\ req.num_prompt_tokens = NumPromptTokens
      /\ req.max_tokens = MaxTokens /\ NumPromptTokens \in Nat
  BY <1>1, PPAssumption, PromptAssumption DEF IInv, TypeInv, TypeOK
<1>4. InRunning(req)
  <2>1. ~is_finished(req) /\ ~InToBePreempted(req)
    BY <1>1 DEF IInv, PreemptedInv
  <2>2. ~InWaiting(req)
    <3>1. pipe[Len(pipe)] # Idle /\ Len(pipe) \in 1..Len(pipe)
      BY <1>3, SlotKinds
    <3> QED
      BY <3>1 DEF IInv, WaitingInv
  <2>3. req.status \in RequestStatus
    BY <1>3, FieldTypes
  <2> QED
    BY <2>1, <2>2, <2>3 DEF InRunning, InWaiting, InToBePreempted, is_finished, RequestStatus
<1>5. RunningInv /\ Flight /\ UserInv /\ ~Dropped(req) /\ ~req.drop_end
  BY <1>1, <1>4 DEF IInv, Tracked, RunningInv
<1>6. PICK o \in Nat, v \in Nat : Blocks(o, v) /\ RunningBlocks(o, v)
  BY <1>4, <1>5 DEF Flight
<1> DEFINE out == req.output_token_ids
           nv == NumVerified(req)
           w == NumValid
           k == NumOld
<1>7. /\ out \in Seq(Token) /\ Len(out) \in Nat /\ req.sp_len \in Nat /\ nv \in 0..Len(out)
      /\ nv \in Nat /\ w = req.sp_len + 1 /\ k \in Nat /\ w \in Nat /\ nv = Len(out) - req.sp_len
      /\ k = req.num_scheduled - w /\ req.num_computed_tokens \in Int
  <2>1. /\ out \in Seq(Token) /\ Len(out) \in Nat /\ req.sp_len \in Int
        /\ req.num_computed_tokens \in Int /\ req.num_scheduled \in Int
    BY <1>3, FieldTypes
  <2>2. 0 <= req.sp_len /\ req.sp_len <= Len(out)
    BY <1>5 DEF UserInv
  <2>3. w = req.sp_len + 1 /\ k = req.num_scheduled - w /\ nv = Len(out) - req.sp_len
    BY <1>1 DEF NumValid, NumOld, NumVerified
  <2>4. k >= 0
    BY <1>5 DEF Flight
  <2> HIDE DEF out, nv, w, k
  <2> QED
    BY ONLY <2>1, <2>2, <2>3, <2>4
<1>8. /\ req' \in Request
      /\ req'.output_token_ids = Append(out, t)
      /\ req'.sp_len = req.sp_len + 1
      /\ req'.status = req.status /\ req'.should_preempt = req.should_preempt
      /\ req'.num_prompt_tokens = req.num_prompt_tokens /\ req'.max_tokens = req.max_tokens
      /\ req'.num_computed_tokens = req.num_computed_tokens
      /\ req'.spec_result = req.spec_result /\ req'.flush_len = req.flush_len
      /\ req'.just_fixed = req.just_fixed /\ req'.drop_end = req.drop_end
      /\ req'.num_scheduled = req.num_scheduled
      /\ \/ req'.stop_dropped /\ req'.drop_len = req'.sp_len
         \/ req'.stop_dropped = req.stop_dropped /\ Len(req'.output_token_ids) < MaxTokens
      /\ req'.confidence_dropped = req.confidence_dropped
  BY <1>2, <1>3, SpeculatedFields
<1>9. /\ Dropped(req') => req'.drop_len = req'.sp_len
      /\ ~Dropped(req') => Len(req'.output_token_ids) < MaxTokens
  BY <1>5, <1>8 DEF Dropped
<1>10. BlocksOf(pipe, o, k, OldKind, v, w, out, nv)
  BY <1>6 DEF Blocks
<1>11. req.num_computed_tokens - 1 = num_tokens(req) - 1
  BY <1>1, <1>6, <1>7 DEF RunningBlocks
<1>12. num_tokens(req) = NumPromptTokens + Len(out)
  BY <1>3 DEF num_tokens
<1>13. (~Dropped(req) => v + w = PP) /\ (req.spec_result = "False" /\ req.just_fixed => o = 0)
  BY <1>3, <1>6 DEF RunningBlocks
<1>14. NumValid' = w /\ NumOld' = k /\ OldKind' = OldKind
  BY <1>1, <1>7, <1>8 DEF NumValid, NumOld, OldKind
<1> HIDE DEF out, nv, w, k
<1>15. Len(Append(out, t)) = Len(out) + 1 /\ Append(out, t) \in Seq(Token)
  BY ONLY <1>7, t \in Token
<1>16. NumVerified(req') = nv /\ num_tokens(req') = NumPromptTokens + (Len(out) + 1)
  <2>1. /\ NumVerified(req') = Len(Append(out, t)) - (req.sp_len + 1)
        /\ num_tokens(req') = NumPromptTokens + Len(Append(out, t))
    BY ONLY <1>3, <1>8 DEF NumVerified, num_tokens
  <2>2. /\ Len(out) \in Nat /\ req.sp_len \in Nat /\ nv = Len(out) - req.sp_len
    BY ONLY <1>7
  <2> QED
    BY ONLY <1>15, <2>1, <2>2
<1>17. BlocksOf(pipe, o, k, OldKind, v, w, Append(out, t), nv)
  <2>1. nv + w <= Len(out) + 1
    BY ONLY <1>7
  <2> QED
    BY ONLY <1>3, <1>7, <1>10, <2>1, o \in Nat, v \in Nat, t \in Token, AppendBlocks
<1>18. Blocks(o, v)'
  BY ONLY <1>1, <1>8, <1>14, <1>16, <1>17 DEF Blocks
<1>19. req'.num_computed_tokens - 0 = num_tokens(req') - 1
  <2>1. num_tokens(req) \in Int
    BY ONLY <1>3, <1>7, <1>12
  <2>2. req'.num_computed_tokens = req.num_computed_tokens /\ req.num_computed_tokens \in Int
        /\ Len(out) \in Nat /\ NumPromptTokens \in Nat
    BY ONLY <1>3, <1>7, <1>8
  <2>3. req.num_computed_tokens = NumPromptTokens + Len(out)
    BY ONLY <1>11, <1>12, <2>1, <2>2
  <2> QED
    BY ONLY <1>16, <2>2, <2>3
<1>20. RunningBlocks(o, v)'
  BY <1>1, <1>3, <1>5, <1>8, <1>13, <1>14, <1>19 DEF RunningBlocks
<1>21. Flight'
  <2>1. req'.spec_result = "False" => req'.flush_len = NumOld'
    BY <1>5, <1>8, <1>14 DEF Flight, k
  <2> QED
    BY <1>7, <1>14, <1>18, <1>20, <2>1 DEF Flight
<1>22. TypeInv'
  BY <1>1, <1>3, <1>8 DEF TypeInv, TypeOK
<1>23. ~is_finished(req) /\ ~is_finished(req') /\ InRunning(req')
       /\ ~InWaiting(req') /\ ~InToBePreempted(req')
  BY <1>4, <1>8 DEF InRunning, InWaiting, InToBePreempted, is_finished, FinishedStatus
<1>24. UserInv'
  <2>1. UserSeesVerified'
    <3>1. user = Prefix(out, nv)
      BY <1>5 DEF UserInv, UserSeesVerified, out, nv
    <3>2. Prefix(Append(out, t), nv) = Prefix(out, nv)
      BY ONLY <1>7, t \in Token, PrefixOfAppend
    <3> QED
      BY <1>1, <1>8, <1>16, <3>1, <3>2 DEF UserSeesVerified
  <2>2. 0 <= req'.sp_len /\ req'.sp_len <= Len(req'.output_token_ids)
    BY ONLY <1>7, <1>8, <1>15
  <2>3. req'.spec_result = "False" => NumVerified(req') >= 1
    BY <1>5, <1>8, <1>16 DEF UserInv, nv
  <2>4. Len(user') < MaxTokens /\ (user' # <<>> => ~Stops(user'))
    BY <1>1, <1>5, <1>23 DEF UserInv, Stops
  <2> QED
    BY <2>1, <2>2, <2>3, <2>4 DEF UserInv
<1>25. RunningInv'
  <2>1. req'.num_computed_tokens >= NumPromptTokens
    <3>1. NumPromptTokens \in Nat /\ Len(out) \in Nat /\ num_tokens(req') - 1 >= NumPromptTokens
      BY ONLY <1>3, <1>7, <1>16
    <3>2. req'.num_computed_tokens \in Int
      BY <1>8, FieldTypes
    <3> QED
      BY ONLY <1>19, <3>1, <3>2
  <2>2. req'.spec_result = "False" => req'.flush_len >= 1
    BY <1>5, <1>8 DEF RunningInv
  <2> QED
    BY <1>1, <1>5, <1>8, <1>9, <2>1, <2>2 DEF RunningInv
<1> QED
  BY <1>1, <1>21, <1>22, <1>23, <1>24, <1>25 DEF IInv

\* The newest batch holds no sample for the request.
LEMMA SpeculateNothing ==
    ASSUME IInv, Speculate, pipe[Len(pipe)].kind # "sample"
    PROVE  IInv' /\ user' = user /\ req' = req
<1>1. /\ phase = "speculate" /\ phase' = "verify" /\ pipe' = pipe /\ user' = user /\ req' = req
      /\ Newest = 0 /\ Newest' = 0
  BY DEF Speculate, Newest
<1>2. NumValid' = NumValid /\ NumOld' = NumOld /\ OldKind' = OldKind
  BY <1>1 DEF NumValid, NumOld, OldKind
<1>3. TypeInv' /\ UserInv'
  BY <1>1 DEF IInv, TypeInv, TypeOK, UserInv, UserSeesVerified, Stops
<1>4. InWaiting(req) => WaitingInv'
  BY <1>1 DEF IInv, WaitingInv
<1>5. InRunning(req) => RunningInv'
  BY <1>1 DEF IInv, RunningInv
<1>6. InToBePreempted(req) => PreemptedInv'
  BY <1>1, <1>2 DEF IInv, PreemptedInv
<1>7. Tracked => Flight'
  <2>1. ASSUME NEW o \in Nat, NEW v \in Nat
        PROVE  (Blocks(o, v) => Blocks(o, v)') /\ (RunningBlocks(o, v) => RunningBlocks(o, v)')
    BY <1>1, <1>2 DEF Blocks, RunningBlocks
  <2> QED
    BY <1>1, <1>2, <2>1 DEF IInv, Flight
<1> QED
  BY <1>1, <1>3, <1>4, <1>5, <1>6, <1>7 DEF IInv, Tracked

-----------------------------------------------------------------------------
(* The inductive invariant. *)

\* A new request with an empty pipeline satisfies the invariant.
LEMMA InitIInv == Init => IInv
<1> SUFFICES ASSUME Init PROVE IInv
  OBVIOUS
<1>1. /\ PP \in Nat /\ PP >= 2 /\ NumPromptTokens \in Nat
      /\ MaxTokens \in Nat /\ MaxTokens >= 1
  BY PPAssumption, PromptAssumption, MaxTokensAssumption
<1>2. req \in Request
  <2>1. "WAITING" \in RequestStatus /\ "None" \in SpecResult /\ <<>> \in Seq(Token)
    BY DEF RequestStatus, SpecResult
  <2> QED
    BY <1>1, <2>1 DEF Init, NewRequest, Request
<1>3. /\ req.status = "WAITING" /\ req.output_token_ids = <<>> /\ req.sp_len = 0
      /\ req.spec_result = "None" /\ req.num_scheduled = 0 /\ ~req.drop_end
      /\ ~req.confidence_dropped /\ ~req.stop_dropped
      /\ req.num_prompt_tokens = NumPromptTokens /\ req.max_tokens = MaxTokens
  BY DEF Init, NewRequest
<1>4. pipe \in Seq(Slot) /\ Len(pipe) = PP /\ \A i \in 1..Len(pipe) : pipe[i] = Idle
  BY <1>1, SlotKinds DEF Init
<1>5. phase = "verify" /\ user = <<>> /\ Newest = 0
  BY DEF Init, Newest
<1>6. TypeInv
  BY <1>2, <1>3, <1>4, <1>5 DEF TypeInv, TypeOK
<1>7. UserInv
  <2>1. NumVerified(req) = 0 /\ Prefix(<<>>, 0) = <<>>
    BY <1>3 DEF NumVerified, Prefix
  <2> QED
    BY <1>1, <1>3, <1>5, <2>1 DEF UserInv, UserSeesVerified
<1>8. WaitingInv
  BY <1>3, <1>4 DEF WaitingInv, Dropped
<1>9. ~InRunning(req) /\ ~InToBePreempted(req) /\ ~is_finished(req)
  BY <1>3 DEF InRunning, InToBePreempted, is_finished, FinishedStatus
<1> QED
  BY <1>6, <1>7, <1>8, <1>9 DEF IInv, Tracked

\* Every step preserves the invariant and is a step of greedy decoding, or
\* leaves the user's stream alone.
LEMMA NextStep ==
    ASSUME IInv, [Next]_vars, EvictDropped = FALSE, SplitResume = FALSE
    PROVE  /\ IInv'
           /\ \/ user' = user /\ (is_finished(req') <=> is_finished(req))
              \/ /\ ~is_finished(req)
                 /\ user' = Append(user, Target(user))
                 /\ is_finished(req') <=> Stops(user')
<1>1. CASE Verify
  BY <1>1, VerifyStep
<1>2. CASE Schedule
  BY <1>2, ScheduleStep
<1>3. CASE Speculate
  BY <1>3, SpeculateAppend, SpeculateNothing
<1>4. CASE UNCHANGED vars
  BY <1>4 DEF vars, IInv, TypeInv, TypeOK, UserInv, UserSeesVerified, Stops, WaitingInv,
              RunningInv, PreemptedInv, Tracked, Flight, Blocks, RunningBlocks, Newest,
              NumValid, NumOld, OldKind
<1> QED
  BY <1>1, <1>2, <1>3, <1>4 DEF Next

\* The positions that hold an iteration, and a sampling one.
Busy(p) == {i \in DOMAIN p : p[i].kind # "idle"}
Sampling(p) == {i \in DOMAIN p : p[i].kind = "sample"}

\* The positions of the blocks are intervals of the pipeline, and the two
\* do not overlap: their sizes count the iterations in flight.
LEMMA BlocksCount ==
    ASSUME NEW p \in Seq(Slot),
           NEW o \in Nat, NEW k \in Nat, NEW v \in Nat, NEW w \in Nat,
           NEW kd \in {"prefill", "sample"}, NEW out, NEW nv \in Nat,
           BlocksOf(p, o, k, kd, v, w, out, nv)
    PROVE  /\ Cardinality(Busy(p)) = k + w
           /\ Cardinality(Sampling(p)) = (IF kd = "sample" THEN k ELSE 0) + w
<1> DEFINE Old == (o + 1)..(o + k)
           Valid == (v + 1)..(v + w)
<1>1. /\ o + k <= v /\ v + w <= Len(p) /\ Len(p) \in Nat /\ DOMAIN p = 1..Len(p)
  BY DEF BlocksOf
<1>2. ASSUME NEW i \in 1..Len(p)
      PROVE  /\ i \in Old => p[i].kind = kd
             /\ i \in Valid => p[i].kind = "sample"
             /\ i \notin Old /\ i \notin Valid => p[i].kind = "idle"
  <2>1. /\ Within(o, k, i) => p[i].kind = kd
        /\ Within(v, w, i) => p[i] = Sample(Target(Prefix(out, nv + (i - v) - 1)))
        /\ ~Within(o, k, i) /\ ~Within(v, w, i) => p[i] = Idle
    BY DEF BlocksOf
  <2>2. (i \in Old <=> Within(o, k, i)) /\ (i \in Valid <=> Within(v, w, i))
    BY DEF Within
  <2>3. Idle.kind = "idle" /\ \A t : Sample(t).kind = "sample"
    BY DEF Idle, Sample
  <2> HIDE DEF Old, Valid
  <2> QED
    BY <2>1, <2>2, <2>3
<1>3. /\ Old \subseteq 1..Len(p) /\ Valid \subseteq 1..Len(p) /\ Old \cap Valid = {}
  BY <1>1
<1>4. /\ IsFiniteSet(Old) /\ Cardinality(Old) = k
      /\ IsFiniteSet(Valid) /\ Cardinality(Valid) = w
  <2>1. /\ o + 1 \in Int /\ o + k \in Int /\ v + 1 \in Int /\ v + w \in Int
    OBVIOUS
  <2>2. /\ IsFiniteSet(Old)
        /\ Cardinality(Old) = IF o + 1 > o + k THEN 0 ELSE (o + k) - (o + 1) + 1
    BY <2>1, FS_Interval
  <2>3. /\ IsFiniteSet(Valid)
        /\ Cardinality(Valid) = IF v + 1 > v + w THEN 0 ELSE (v + w) - (v + 1) + 1
    BY <2>1, FS_Interval
  <2>4. (IF o + 1 > o + k THEN 0 ELSE (o + k) - (o + 1) + 1) = k
    OBVIOUS
  <2>5. (IF v + 1 > v + w THEN 0 ELSE (v + w) - (v + 1) + 1) = w
    OBVIOUS
  <2> QED
    BY <2>2, <2>3, <2>4, <2>5
<1> HIDE DEF Old, Valid
<1>5. Cardinality(Old \cup Valid) = k + w
  <2>1. Cardinality(Old \cup Valid) = Cardinality(Old) + Cardinality(Valid) - Cardinality({})
    BY <1>3, <1>4, FS_Union
  <2>2. Cardinality({}) = 0
    BY FS_EmptySet
  <2> QED
    BY <1>4, <2>1, <2>2
<1>6. Busy(p) = Old \cup Valid
  BY <1>1, <1>2, <1>3 DEF Busy
<1>7. CASE kd = "sample"
  <2>1. Sampling(p) = Old \cup Valid
    BY <1>1, <1>2, <1>3, <1>7 DEF Sampling
  <2> QED
    BY <1>5, <1>6, <1>7, <2>1
<1>8. CASE kd = "prefill"
  <2>1. Sampling(p) = Valid
    BY <1>1, <1>2, <1>3, <1>8 DEF Sampling
  <2> QED
    <3>1. Cardinality(Sampling(p)) = w
      BY <1>4, <2>1
    <3>2. (IF kd = "sample" THEN k ELSE 0) + w = w
      BY ONLY <1>8, w \in Nat
    <3> QED
      BY <1>5, <1>6, <3>1, <3>2
<1> QED
  BY <1>7, <1>8

\* The counters of a tracked request are the sizes of the two blocks.
LEMMA BlocksAccount == IInv => InFlightAccounted
<1> SUFFICES ASSUME IInv, Tracked
             PROVE  /\ NumSampling = NumExpected
                    /\ req.num_scheduled = Cardinality({i \in DOMAIN pipe : pipe[i].kind # "idle"})
  BY DEF InFlightAccounted
<1>1. PICK o \in Nat, v \in Nat : Blocks(o, v)
  BY DEF IInv, Flight
<1> DEFINE k == NumOld
           w == NumValid
<1>2. /\ req \in Request /\ pipe \in Seq(Slot)
      /\ w >= 0 /\ k >= 0
      /\ req.spec_result = "False" => req.flush_len = k
  BY DEF IInv, TypeInv, TypeOK, Flight
<1>3. /\ req.sp_len \in Int /\ req.num_scheduled \in Int /\ req.flush_len \in Int
      /\ Newest \in Int /\ NumVerified(req) \in Nat
  BY <1>2, FieldTypes DEF IInv, UserInv, NumVerified, Newest
<1>4. w = req.sp_len + Newest /\ k = req.num_scheduled - w
  BY DEF NumValid, NumOld
<1>5. BlocksOf(pipe, o, k, OldKind, v, w, req.output_token_ids, NumVerified(req))
  BY <1>1 DEF Blocks
<1>6. OldKind \in {"prefill", "sample"} /\ (OldKind = "sample" <=> req.spec_result = "False")
  BY DEF OldKind
<1>7. NumExpected = req.sp_len + (IF req.spec_result = "False" THEN req.flush_len ELSE 0) + Newest
  BY DEF NumExpected, Newest
<1> HIDE DEF k, w
<1>8. k \in Nat /\ w \in Nat /\ req.num_scheduled = k + w
  <2>1. w \in Int
    BY ONLY <1>3, <1>4
  <2>2. k \in Int
    BY ONLY <1>3, <1>4, <2>1
  <2> QED
    BY ONLY <1>2, <1>3, <1>4, <2>1, <2>2
<1>9. /\ Cardinality(Busy(pipe)) = k + w
      /\ Cardinality(Sampling(pipe)) = (IF OldKind = "sample" THEN k ELSE 0) + w
  BY <1>2, <1>3, <1>5, <1>6, <1>8, BlocksCount
<1>10. NumExpected = (IF OldKind = "sample" THEN k ELSE 0) + w
  <2>1. CASE req.spec_result = "False"
    <3>1. OldKind = "sample" /\ req.flush_len = k /\ NumExpected = req.sp_len + k + Newest
      BY <1>2, <1>6, <1>7, <2>1
    <3> QED
      BY ONLY <1>3, <1>4, <1>8, <3>1
  <2>2. CASE req.spec_result # "False"
    <3>1. OldKind # "sample" /\ NumExpected = req.sp_len + 0 + Newest
      BY <1>6, <1>7, <2>2
    <3> QED
      BY ONLY <1>3, <1>4, <1>8, <3>1
  <2> QED
    BY <2>1, <2>2
<1> QED
  BY <1>8, <1>9, <1>10 DEF NumSampling, Busy, Sampling

-----------------------------------------------------------------------------
(* The theorems.  EvictDropped = FALSE excludes the preemption of a request *)
(* whose drop is draining, which leaves drop_end set on a requeued request, *)
(* and SplitResume = FALSE the prefill of a preempted request in chunks,    *)
(* whose samples the worker keeps: of neither does the code keep Lossless.  *)

\* Together: the invariant holds in every reachable state.
LEMMA Inductive ==
    ASSUME EvictDropped = FALSE, SplitResume = FALSE
    PROVE  Spec => []IInv
<1>1. Init => IInv
  BY InitIInv
<1>2. IInv /\ [Next]_vars => IInv'
  BY NextStep
<1> QED
  BY <1>1, <1>2, PTL DEF Spec

\* The fields of the request, the pipeline of PP batches (PP - 1 between
\* verification and scheduling) and the stream keep their types through
\* step_with_spexis.
THEOREM TypeCorrect ==
    ASSUME EvictDropped = FALSE, SplitResume = FALSE
    PROVE  Spec => []TypeOK
<1>1. IInv => TypeOK
  BY DEF IInv, TypeInv
<1> QED
  BY <1>1, Inductive, PTL

\* For every pipeline depth, token set, target model and guess of the exit
\* layer, what send_to_user let through is what the request holds verified.
THEOREM Verified ==
    ASSUME EvictDropped = FALSE, SplitResume = FALSE
    PROVE  Spec => []UserSeesVerified
<1>1. IInv => UserSeesVerified
  BY DEF IInv, UserInv
<1> QED
  BY <1>1, Inductive, PTL

\* sp_len, flush_len and num_scheduled count the pipeline exactly, so that
\* verify_output_token_ids pairs each token with the iteration that sampled
\* it, for every pipeline depth.
THEOREM Accounted ==
    ASSUME EvictDropped = FALSE, SplitResume = FALSE
    PROVE  Spec => []InFlightAccounted
<1>1. IInv => InFlightAccounted
  BY BlocksAccount
<1> QED
  BY <1>1, Inductive, PTL

\* The one token that the real-token branch of the scheduling loop takes is
\* the last token of the request.
THEOREM RealLast ==
    ASSUME EvictDropped = FALSE, SplitResume = FALSE
    PROVE  Spec => []RealTokenIsLast
<1>1. IInv => RealTokenIsLast
  <2> SUFFICES ASSUME IInv, phase = "schedule", InRunning(req), has_pending_real_token(req),
                      req.num_computed_tokens >= req.num_prompt_tokens
               PROVE  req.num_computed_tokens = num_tokens(req) - 1
    BY DEF RealTokenIsLast
  <2>1. req.num_computed_tokens \in Int /\ req.num_prompt_tokens \in Nat
    BY FieldTypes DEF IInv, TypeInv, TypeOK
  <2>2. ~(req.num_computed_tokens < req.num_prompt_tokens)
    BY <2>1
  <2> QED
    BY <2>2, TokensDue
<1> QED
  BY <1>1, Inductive, PTL

\* Speculative parallelism implements greedy decoding: whatever the exit
\* layer guesses, however deep the pipeline and however often the request is
\* corrected, dropped or preempted, each step of step_with_spexis delivers
\* nothing or the target model's next token, and the request finishes with
\* the token at which its output stops.
THEOREM Refinement ==
    ASSUME EvictDropped = FALSE, SplitResume = FALSE
    PROVE  Spec => Lossless
<1>1. Init => Greedy!Init
  BY DEF Init, NewRequest, Greedy!Init, is_finished, FinishedStatus
<1>2. IInv /\ [Next]_vars => [Greedy!Next]_<<user, is_finished(req)>>
  <2> SUFFICES ASSUME IInv, [Next]_vars
               PROVE  [Greedy!Next]_<<user, is_finished(req)>>
    OBVIOUS
  <2>1. CASE user' = user /\ (is_finished(req') <=> is_finished(req))
    <3>1. is_finished(req)' = is_finished(req)
      BY <2>1 DEF is_finished
    <3> QED
      BY <2>1, <3>1
  <2>2. CASE /\ ~is_finished(req)
             /\ user' = Append(user, Target(user))
             /\ is_finished(req') <=> Stops(user')
    <3>1. is_finished(req)' = Stops(user')
      <4>1. is_finished(req') \in BOOLEAN /\ Stops(user') \in BOOLEAN
        BY DEF is_finished, Stops
      <4>2. is_finished(req)' <=> is_finished(req')
        BY DEF is_finished
      <4> QED
        BY <2>2, <4>1, <4>2 DEF is_finished
    <3> QED
      BY <2>2, <3>1 DEF Greedy!Next, Greedy!Emit
  <2> QED
    BY <2>1, <2>2, NextStep
<1> QED
  BY <1>1, <1>2, Inductive, PTL DEF Spec, Lossless, Greedy!Spec

-----------------------------------------------------------------------------
(* Speculation stays within the length limits.  The bound on               *)
(* num_computed_tokens is not inductive: it rests on how long the output   *)
(* of a running request may be, and that on the stop check which           *)
(* update_from_spec_output makes on every guess it appends.                *)


Limit == IF NumPromptTokens + MaxTokens < MaxModelLen
         THEN NumPromptTokens + MaxTokens ELSE MaxModelLen

\* A running request that is still speculated for has room for one token
\* more; a dropped one may have used it up.
RoomToSpeculate ==
    InRunning(req) =>
        /\ num_tokens(req) <= Limit
        /\ ~Dropped(req) => num_tokens(req) < Limit

LenInv == WithinModelLen /\ RoomToSpeculate

\* The limits are numbers, and a prompt is below them.
LEMMA LimitType ==
    /\ Limit \in Nat /\ NumPromptTokens \in Nat /\ NumPromptTokens < Limit
    /\ MaxTokens \in Nat /\ MaxModelLen \in Nat
    /\ \A k \in Int : NumPromptTokens + k < Limit <=> k < MaxTokens /\ NumPromptTokens + k < MaxModelLen
  BY PromptAssumption, MaxTokensAssumption, MaxModelLenAssumption DEF Limit

\* The types that the proof needs.
LEMMA LenContext ==
    ASSUME IInv
    PROVE  /\ req \in Request /\ num_tokens(req) \in Nat
           /\ num_tokens(req) = NumPromptTokens + Len(req.output_token_ids)
           /\ req.num_computed_tokens \in Int /\ req.sp_len \in Int
           /\ Len(req.output_token_ids) \in Nat
           /\ req.num_prompt_tokens = NumPromptTokens /\ req.max_tokens = MaxTokens
  BY FieldTypes, LimitType DEF IInv, TypeInv, TypeOK, num_tokens

\* An unfinished request without unverified tokens has room for one more:
\* the user has seen all of its output and has not been sent the last token.
LEMMA VerifiedHasRoom ==
    ASSUME IInv, ~is_finished(req), req.sp_len = 0
    PROVE  num_tokens(req) < Limit
<1> USE LenContext, LimitType
<1>1. /\ req.output_token_ids \in Seq(Token)
      /\ user = Prefix(req.output_token_ids, NumVerified(req))
      /\ NumVerified(req) = Len(req.output_token_ids)
      /\ Len(user) < MaxTokens /\ (user # <<>> => ~Stops(user))
  BY FieldTypes DEF IInv, UserInv, UserSeesVerified, NumVerified
<1>2. user = req.output_token_ids
  BY <1>1, PrefixAll
<1>3. CASE user = <<>>
  BY <1>2, <1>3
<1>4. CASE user # <<>>
  BY <1>1, <1>2, <1>4 DEF Stops
<1> QED
  BY <1>3, <1>4

\* What a running request has computed is bounded by its tokens.
LEMMA RunningWithin ==
    ASSUME IInv, InRunning(req), RoomToSpeculate
    PROVE  WithinModelLen
<1> USE LenContext, LimitType
<1>1. PICK o \in Nat, v \in Nat : RunningBlocks(o, v)
  BY DEF IInv, Flight, Tracked
<1>2. req.num_computed_tokens - Newest <= num_tokens(req) - 1 /\ Newest \in {0, 1}
  <2>1. Newest \in {0, 1}
    BY DEF Newest
  <2> QED
    BY <1>1, <2>1 DEF RunningBlocks
<1>3. Newest = 1 => ~Dropped(req)
  BY DEF IInv, RunningInv
<1>4. req.num_computed_tokens <= Limit - 1
  BY <1>2, <1>3 DEF RoomToSpeculate
<1> QED
  BY <1>4 DEF WithinModelLen, Limit

-----------------------------------------------------------------------------
(* The steps. *)

\* Verification never adds to what is computed, and either leaves the output
\* and the drop flags alone or leaves nothing unverified.
LEMMA VerifyLength ==
    ASSUME IInv, Verify
    PROVE  /\ req'.num_computed_tokens <= req.num_computed_tokens
           /\ \/ req'.sp_len = 0
              \/ /\ Len(req'.output_token_ids) = Len(req.output_token_ids)
                 /\ Dropped(req') = Dropped(req)
           /\ InRunning(req') => InRunning(req)
<1> USE LenContext
<1>1. CASE ~InOldestBatch
  BY <1>1 DEF Verify
<1>2. CASE InOldestBatch /\ pipe[1].kind = "prefill"
  <2>1. req' = Fewer
    BY <1>2, VerifyContext DEF Verify, Retire, Fewer
  <2> QED
    BY <2>1, FewerFields DEF Dropped, InRunning
<1>3. ASSUME InOldestBatch, pipe[1].kind = "sample",
             NEW q \in Request, req' = check_stop_from_validation(q),
             q.status = req.status, q.num_computed_tokens <= req.num_computed_tokens,
             \/ q.sp_len = 0
             \/ /\ q.output_token_ids = req.output_token_ids
                /\ q.confidence_dropped = req.confidence_dropped
                /\ q.stop_dropped = req.stop_dropped
      PROVE  /\ req'.num_computed_tokens <= req.num_computed_tokens
             /\ \/ req'.sp_len = 0
                \/ /\ Len(req'.output_token_ids) = Len(req.output_token_ids)
                   /\ Dropped(req') = Dropped(req)
             /\ InRunning(req') => InRunning(req)
  <2>1. /\ req' \in Request /\ SameData(req', q)
        /\ req'.status \in FinishedStatus \/ req'.status = q.status
    BY <1>3, CheckStopType
  <2>2. InRunning(req') => InRunning(req)
    BY <1>3, <2>1 DEF InRunning, FinishedStatus
  <2> QED
    BY <1>3, <2>1, <2>2 DEF SameData, Dropped
<1>4. CASE InOldestBatch /\ pipe[1].kind = "sample" /\ req.spec_result = "False"
  <2>1. /\ Fewer \in Request /\ FlushOne(Fewer) \in Request
    BY FewerFields, FlushOneType
  <2>2. LET q == FlushOne(Fewer) IN
        /\ q.status = Fewer.status /\ q.num_computed_tokens = Fewer.num_computed_tokens
        /\ q.output_token_ids = Fewer.output_token_ids
        /\ q.confidence_dropped = Fewer.confidence_dropped
        /\ q.stop_dropped = Fewer.stop_dropped
    BY <2>1 DEF FlushOne, Request
  <2>3. req' = check_stop_from_validation(FlushOne(Fewer))
    <3>1. req' = check_stop_from_validation(verify_output_token_ids(Fewer, pipe[1].tok))
      BY <1>4, VerifyContext DEF Verify, Retire, Fewer
    <3> QED
      BY <1>4, <3>1, FewerFields DEF verify_output_token_ids
  <2> QED
    BY <1>3, <1>4, <2>1, <2>2, <2>3, FewerFields
<1>5. CASE InOldestBatch /\ pipe[1].kind = "sample" /\ req.spec_result # "False"
  <2> DEFINE t == Target(user)
  <2>1. /\ t \in Token /\ req.sp_len \in 1..Len(req.output_token_ids)
        /\ req' = check_stop_from_validation(verify_output_token_ids(Fewer, t))
    BY <1>5, VerifyValidContext
  <2>2. /\ Fewer \in Request /\ Counted \in Request
        /\ Fewer.spec_result # "False" /\ Dropped(Fewer) = Dropped(req)
        /\ Fewer.output_token_ids = req.output_token_ids
    BY <1>5, FewerFields, CountedFields DEF Dropped
  <2> HIDE DEF t
  <2>3. CASE Dropped(Fewer) /\ Fewer.drop_len = 1
    <3>1. verify_output_token_ids(Fewer, t) = EndDrop(Fewer, t)
      BY <2>2, <2>3 DEF verify_output_token_ids
    <3>2. EndDrop(Fewer, t) \in Request
      BY <2>1, <2>2, EndDropType
    <3>3. LET q == EndDrop(Fewer, t) IN
          /\ q.status = Fewer.status /\ q.sp_len = 0
          /\ q.num_computed_tokens = Fewer.num_computed_tokens
      BY <2>2 DEF EndDrop, Request
    <3> QED
      BY <1>3, <1>5, <2>1, <3>1, <3>2, <3>3, FewerFields
  <2>4. CASE /\ ~(Dropped(Fewer) /\ Fewer.drop_len = 1)
             /\ Back(Counted.output_token_ids, Counted.sp_len) = t
    <3>1. verify_output_token_ids(Fewer, t) = Accept(Counted)
      BY <2>2, <2>4 DEF verify_output_token_ids, Counted
    <3>2. Accept(Counted) \in Request
      BY <2>2, AcceptType
    <3> HIDE DEF Counted
    <3>3. LET q == Accept(Counted) IN
          /\ q.status = Counted.status
          /\ q.num_computed_tokens = Counted.num_computed_tokens
          /\ q.output_token_ids = Counted.output_token_ids
          /\ q.confidence_dropped = Counted.confidence_dropped
          /\ q.stop_dropped = Counted.stop_dropped
      BY <2>2 DEF Accept, Request
    <3> QED
      BY <1>3, <1>5, <2>1, <3>1, <3>2, <3>3, CountedFields
  <2>5. CASE /\ ~(Dropped(Fewer) /\ Fewer.drop_len = 1)
             /\ Back(Counted.output_token_ids, Counted.sp_len) # t
    <3>1. verify_output_token_ids(Fewer, t) = Correct(Counted, t)
      BY <2>2, <2>5 DEF verify_output_token_ids, Counted
    <3>2. Counted.sp_len = req.sp_len /\ Counted.output_token_ids = req.output_token_ids
      BY CountedFields
    <3>3. Correct(Counted, t) \in Request
      BY <2>1, <2>2, <3>2, CorrectType
    <3> HIDE DEF Counted
    <3>4. LET q == Correct(Counted, t) IN
          /\ q.status = Counted.status /\ q.sp_len = 0
          /\ q.num_computed_tokens = Counted.num_computed_tokens - (Counted.sp_len - 1)
      BY <2>2 DEF Correct, Request
    <3>5. Correct(Counted, t).num_computed_tokens <= req.num_computed_tokens
      BY <2>1, <3>2, <3>4, CountedFields
    <3> QED
      BY <1>3, <1>5, <2>1, <3>1, <3>3, <3>4, <3>5, CountedFields
  <2> QED
    BY <2>3, <2>4, <2>5
<1> QED
  BY <1>1, <1>2, <1>4, <1>5, VerifyHead

\* The tokens and the drop flags after a preemption, and what is computed.
LEMMA PreemptLength ==
    ASSUME NEW b \in Request
    PROVE  /\ preempt_request(b).status = b.status
           /\ \/ preempt_request(b).num_computed_tokens = b.num_computed_tokens
              \/ preempt_request(b).num_computed_tokens = 0
<1>1. CASE b.num_scheduled > 0
  BY <1>1 DEF preempt_request, Request
<1>2. CASE ~(b.num_scheduled > 0)
  <2> DEFINE p == [b EXCEPT !.sp_len = 0, !.spec_result = "None", !.fixed_idx = 0,
                   !.flush_len = 0, !.just_fixed = FALSE, !.drop_len = 0,
                   !.confidence_dropped = FALSE, !.stop_dropped = FALSE,
                   !.should_preempt = FALSE, !.num_computed_tokens = 0]
  <2>1. preempt_request(b) = p
    BY <1>2, Zenon DEF preempt_request
  <2>2. p.status = b.status /\ p.num_computed_tokens = 0
    BY DEF Request
  <2> QED
    BY <2>1, <2>2
<1> QED
  BY <1>1, <1>2

\* The same of the next state.
LEMMA RunningWithinNext ==
    (IInv /\ InRunning(req) /\ RoomToSpeculate => WithinModelLen)'
<1>1. IInv /\ InRunning(req) /\ RoomToSpeculate => WithinModelLen
  BY RunningWithin
<1> QED
  BY <1>1, PTL

\* The same of the next state.
LEMMA VerifiedHasRoomNext ==
    (IInv /\ ~is_finished(req) /\ req.sp_len = 0 => num_tokens(req) < Limit)'
<1>1. IInv /\ ~is_finished(req) /\ req.sp_len = 0 => num_tokens(req) < Limit
  BY VerifiedHasRoom
<1> QED
  BY <1>1, PTL

\* What is computed is bounded whenever a running request has room, and of
\* any other request whenever it does not grow.
LEMMA LengthStep ==
    ASSUME IInv, IInv', LenInv, RoomToSpeculate',
           InRunning(req') \/ req'.num_computed_tokens <= req.num_computed_tokens
                           \/ req'.num_computed_tokens = 0
    PROVE  LenInv'
<1>1. CASE InRunning(req')
  BY <1>1, RunningWithinNext DEF LenInv, InRunning
<1>2. CASE \/ req'.num_computed_tokens <= req.num_computed_tokens
           \/ req'.num_computed_tokens = 0
  <2>1. req'.num_computed_tokens \in Int /\ req.num_computed_tokens \in Int
    BY FieldTypes DEF IInv, TypeInv, TypeOK
  <2>2. req.num_computed_tokens <= Limit - 1
    BY DEF LenInv, WithinModelLen, Limit
  <2>3. req'.num_computed_tokens <= Limit - 1
    BY <1>2, <2>1, <2>2, LimitType
  <2> QED
    BY <2>3 DEF LenInv, WithinModelLen, Limit
<1> QED
  BY <1>1, <1>2

\* Verification keeps the room: what it corrects it also verifies.
LEMMA VerifyKeepsLength ==
    ASSUME IInv, IInv', LenInv, Verify
    PROVE  LenInv'
<1> USE LenContext, LimitType, VerifyLength
<1>1. /\ num_tokens(req') = NumPromptTokens + Len(req'.output_token_ids)
      /\ Len(req'.output_token_ids) \in Nat
  BY FieldTypes DEF IInv, TypeInv, TypeOK, num_tokens
<1>2. ASSUME InRunning(req')
      PROVE  num_tokens(req') <= Limit /\ (~Dropped(req') => num_tokens(req') < Limit)
  <2>1. InRunning(req) /\ ~is_finished(req')
    BY <1>2 DEF InRunning, is_finished, FinishedStatus
  <2>2. CASE req'.sp_len = 0
    <3>1. num_tokens(req') < Limit
      BY <2>1, <2>2, VerifiedHasRoomNext DEF is_finished, num_tokens
    <3> QED
      BY <1>1, <3>1
  <2>3. CASE /\ Len(req'.output_token_ids) = Len(req.output_token_ids)
             /\ Dropped(req') = Dropped(req)
    BY <1>1, <2>1, <2>3 DEF LenInv, RoomToSpeculate
  <2> QED
    BY <2>2, <2>3
<1>3. RoomToSpeculate'
  BY <1>2 DEF RoomToSpeculate, InRunning, Dropped, num_tokens
<1> QED
  BY <1>3, LengthStep

\* Scheduling keeps the room: it changes no token, and admits a request
\* with verified tokens only.
LEMMA ScheduleKeepsLength ==
    ASSUME IInv, IInv', LenInv, Schedule
    PROVE  LenInv'
<1> USE LenContext, LimitType
<1>1. ASSUME InRunning(req) \/ InWaiting(req),
             req'.output_token_ids = req.output_token_ids,
             req'.num_prompt_tokens = req.num_prompt_tokens,
             Dropped(req) => Dropped(req'),
             InRunning(req')
      PROVE  LenInv'
  <2>1. num_tokens(req') = num_tokens(req)
    BY <1>1 DEF num_tokens
  <2>2. CASE InRunning(req)
    BY <1>1, <2>1, <2>2, LengthStep DEF LenInv, RoomToSpeculate, Dropped, InRunning, num_tokens
  <2>3. CASE InWaiting(req)
    <3>1. ~is_finished(req) /\ req.sp_len = 0
      BY <2>3 DEF IInv, WaitingInv, InWaiting, is_finished, FinishedStatus
    <3>2. num_tokens(req) < Limit
      BY <3>1, VerifiedHasRoom
    <3>3. RoomToSpeculate'
      BY <2>1, <3>2 DEF RoomToSpeculate, num_tokens
    <3> QED
      BY <1>1, <3>3, LengthStep
  <2> QED
    BY <1>1, <2>2, <2>3
<1>2. ASSUME NEW b \in Request, NEW n \in Int, Run(b, n), b.status = "RUNNING",
             InRunning(req) \/ InWaiting(req), Dropped(b) = Dropped(req),
             b.output_token_ids = req.output_token_ids,
             b.num_prompt_tokens = req.num_prompt_tokens
      PROVE  LenInv'
  <2>1. req' = Scheduled(b, n)
    BY <1>2 DEF Run
  <2>2. /\ req'.output_token_ids = req.output_token_ids
        /\ req'.num_prompt_tokens = req.num_prompt_tokens
        /\ Dropped(req') = Dropped(req) /\ InRunning(req')
    <3>1. /\ req'.output_token_ids = b.output_token_ids
          /\ req'.num_prompt_tokens = b.num_prompt_tokens /\ req'.status = b.status
          /\ req'.confidence_dropped = b.confidence_dropped
          /\ req'.stop_dropped = b.stop_dropped
      BY <1>2, <2>1, ScheduledFields, Zenon
    <3> QED
      BY <1>2, <3>1 DEF Dropped, InRunning
  <2> QED
    BY <1>1, <1>2, <2>2
<1>3. CASE StayOut \/ SkipDropped
  <2>1. req' = req
    BY <1>3 DEF StayOut, SkipDropped
  <2>2. RoomToSpeculate'
    BY <2>1 DEF LenInv, RoomToSpeculate
  <2> QED
    BY <2>1, <2>2, LengthStep
<1>4. CASE Admit
  <2> DEFINE b == [req EXCEPT !.status = "RUNNING", !.num_computed_tokens = 0]
  <2>1. PICK n \in IF req.output_token_ids = <<>> \/ SplitResume
                   THEN Chunks(num_tokens(req)) ELSE {num_tokens(req)} : Run(b, n)
    BY <1>4 DEF Admit
  <2>2. n \in Int
    <3>1. num_tokens(req) \in Int
      BY FieldTypes DEF IInv, TypeInv, TypeOK, num_tokens
    <3> QED
      BY <2>1, <3>1 DEF Chunks
  <2>3. b \in Request
    <3>1. "RUNNING" \in RequestStatus /\ 0 \in Int
      BY DEF RequestStatus
    <3> QED
      BY <3>1, SetField, Zenon
  <2>4. /\ b.status = "RUNNING" /\ Dropped(b) = Dropped(req)
        /\ b.output_token_ids = req.output_token_ids
        /\ b.num_prompt_tokens = req.num_prompt_tokens
    BY DEF Request, Dropped
  <2>5. InWaiting(req)
    BY <1>4 DEF Admit
  <2> HIDE DEF b
  <2> QED
    BY <1>2, <2>1, <2>2, <2>3, <2>4, <2>5
<1>5. CASE ScheduleReal
  <2> DEFINE b == [req EXCEPT !.drop_end = FALSE]
  <2>1. PICK n \in Int : Run(b, n)
    BY <1>5 DEF ScheduleReal, Chunks
  <2>2. b \in Request
    BY SetField
  <2>3. /\ InRunning(req) /\ b.status = "RUNNING" /\ Dropped(b) = Dropped(req)
        /\ b.output_token_ids = req.output_token_ids
        /\ b.num_prompt_tokens = req.num_prompt_tokens
    BY <1>5 DEF ScheduleReal, InRunning, Request, Dropped
  <2> HIDE DEF b
  <2> QED
    BY <1>2, <2>1, <2>2, <2>3
<1>6. CASE ScheduleSpec
  <2>1. PICK n \in Int : Run(req, n)
    BY <1>6 DEF ScheduleSpec, Chunks
  <2> QED
    BY <1>2, <1>6, <2>1 DEF ScheduleSpec, InRunning
<1>7. CASE DropSpec
  <2>1. /\ req' = [req EXCEPT !.confidence_dropped = TRUE, !.drop_len = req.sp_len]
        /\ InRunning(req)
    BY <1>7 DEF DropSpec, ConfidenceDropped
  <2>2. /\ req'.output_token_ids = req.output_token_ids
        /\ req'.num_prompt_tokens = req.num_prompt_tokens
        /\ Dropped(req') /\ InRunning(req')
    BY <2>1 DEF Request, InRunning, Dropped
  <2> QED
    BY <1>1, <2>1, <2>2
<1>8. ASSUME NEW b \in Request, req' = preempt_request(b), b.status = "PREEMPTED",
             b.num_computed_tokens = req.num_computed_tokens
      PROVE  LenInv'
  <2>1. /\ req'.status = "PREEMPTED"
        /\ req'.num_computed_tokens <= req.num_computed_tokens \/ req'.num_computed_tokens = 0
    BY <1>8, PreemptLength
  <2>2. RoomToSpeculate'
    BY <2>1 DEF RoomToSpeculate, InRunning
  <2> QED
    BY <2>1, <2>2, LengthStep
<1>9. CASE Evict
  <2>1. PICK tried \in {FALSE, has_pending_real_token(req)} :
          req' = preempt_request([req EXCEPT !.status = "PREEMPTED", !.drop_end = @ /\ ~tried])
    BY <1>9 DEF Evict
  <2> DEFINE b == [req EXCEPT !.status = "PREEMPTED", !.drop_end = @ /\ ~tried]
  <2>2. b \in Request
    <3>1. "PREEMPTED" \in RequestStatus /\ (req.drop_end /\ ~tried) \in BOOLEAN
      BY DEF RequestStatus
    <3> QED
      BY <3>1, SetField, Zenon
  <2>3. b.status = "PREEMPTED" /\ b.num_computed_tokens = req.num_computed_tokens
    BY DEF Request
  <2>4. req' = preempt_request(b)
    BY <2>1
  <2> HIDE DEF b
  <2> QED
    BY <1>8, <2>2, <2>3, <2>4
<1>10. CASE Drain
  BY <1>8, <1>10 DEF Drain, InToBePreempted
<1> QED
  BY <1>3, <1>4, <1>5, <1>6, <1>7, <1>9, <1>10 DEF Schedule

\* Speculation keeps the room: a guess that leaves none drops the request.
LEMMA SpeculateKeepsLength ==
    ASSUME IInv, IInv', LenInv, Speculate
    PROVE  LenInv'
<1> USE LenContext, LimitType
<1>1. CASE pipe[Len(pipe)].kind # "sample"
  <2>1. req' = req
    BY <1>1 DEF Speculate
  <2>2. RoomToSpeculate'
    BY <2>1 DEF LenInv, RoomToSpeculate
  <2> QED
    BY <2>1, <2>2, LengthStep
<1>2. CASE pipe[Len(pipe)].kind = "sample"
  <2>1. PICK t \in Token : req' = Speculated(req, t)
    BY <1>2 DEF Speculate
  <2>2. /\ req' \in Request /\ req'.status = req.status
        /\ req'.output_token_ids = Append(req.output_token_ids, t)
        /\ req'.num_prompt_tokens = NumPromptTokens /\ req'.max_tokens = MaxTokens
        /\ req'.num_computed_tokens = req.num_computed_tokens
        /\ Len(req'.output_token_ids) = Len(req.output_token_ids) + 1
    <3>1. /\ req' \in Request /\ req'.status = req.status
          /\ req'.output_token_ids = Append(req.output_token_ids, t)
          /\ req'.num_prompt_tokens = req.num_prompt_tokens /\ req'.max_tokens = req.max_tokens
          /\ req'.num_computed_tokens = req.num_computed_tokens
      BY <2>1, SpeculatedFields, Zenon
    <3>2. req.output_token_ids \in Seq(Token)
      BY FieldTypes
    <3> QED
      BY <3>1, <3>2
  <2>3. ASSUME InRunning(req) PROVE ~Dropped(req)
    <3>1. Newest = 1
      BY <1>2 DEF Speculate, Newest
    <3> QED
      BY <2>3, <3>1 DEF IInv, RunningInv
  <2>4. Dropped(req') \/ ~check_stop_from_spec(req')
    <3> DEFINE q == [req EXCEPT !.output_token_ids = Append(@, t), !.sp_len = @ + 1]
    <3>1. q \in Request
      <4>1. Append(req.output_token_ids, t) \in Seq(Token) /\ req.sp_len + 1 \in Int
        BY FieldTypes
      <4> QED
        BY <4>1, SetField, Zenon
    <3>2. req' = IF check_stop_from_spec(q)
                 THEN [q EXCEPT !.stop_dropped = TRUE, !.drop_len = q.sp_len] ELSE q
      BY <2>1 DEF Speculated
    <3> HIDE DEF q
    <3>3. [q EXCEPT !.stop_dropped = TRUE, !.drop_len = q.sp_len].stop_dropped = TRUE
      BY <3>1 DEF Request
    <3> QED
      BY <3>2, <3>3 DEF Dropped
  <2>5. ASSUME InRunning(req')
        PROVE  /\ num_tokens(req') <= Limit
               /\ ~Dropped(req') => num_tokens(req') < Limit
    <3>1. InRunning(req) /\ ~Dropped(req) /\ num_tokens(req) < Limit
      BY <2>2, <2>3, <2>5 DEF InRunning, LenInv, RoomToSpeculate
    <3>2. num_tokens(req') = num_tokens(req) + 1
      BY <2>2 DEF num_tokens
    <3>3. ~check_stop_from_spec(req') => num_tokens(req') < Limit
      <4> DEFINE k == Len(req'.output_token_ids)
      <4>1. ~check_stop_from_spec(req') => ~(NumPromptTokens + k >= MaxModelLen) /\ ~(k >= MaxTokens)
        BY <2>2 DEF check_stop_from_spec, StopsAt
      <4>2. k \in Int /\ num_tokens(req') = NumPromptTokens + k
        BY <2>2 DEF num_tokens
      <4> HIDE DEF k
      <4>3. NumPromptTokens + k < Limit <=> k < MaxTokens /\ NumPromptTokens + k < MaxModelLen
        BY ONLY <4>2, LimitType
      <4>4. NumPromptTokens + k \in Int /\ MaxTokens \in Int /\ MaxModelLen \in Int
        BY ONLY <4>2, LimitType
      <4> QED
        BY ONLY <4>1, <4>2, <4>3, <4>4
    <3> QED
      BY <2>4, <3>1, <3>2, <3>3
  <2>6. RoomToSpeculate'
    BY <2>5 DEF RoomToSpeculate, InRunning, Dropped, num_tokens
  <2> QED
    BY <2>2, <2>6, LengthStep
<1> QED
  BY <1>1, <1>2

\* For every pipeline depth, prompt, limits and guesses of the exit layer, no
\* position at or beyond max_model_len, or past max_tokens, is computed.
THEOREM WithinLimits ==
    ASSUME EvictDropped = FALSE, SplitResume = FALSE
    PROVE  Spec => []WithinModelLen
<1>1. Init => LenInv
  <2> SUFFICES ASSUME Init PROVE LenInv
    OBVIOUS
  <2>1. req.num_computed_tokens = 0 /\ req.status = "WAITING"
    BY DEF Init, NewRequest
  <2> QED
    BY <2>1, LimitType DEF LenInv, WithinModelLen, Limit, RoomToSpeculate, InRunning
<1>2. IInv /\ IInv' /\ LenInv /\ [Next]_vars => LenInv'
  <2> SUFFICES ASSUME IInv, IInv', LenInv, [Next]_vars PROVE LenInv'
    OBVIOUS
  <2>1. CASE UNCHANGED vars
    BY <2>1 DEF vars, LenInv, WithinModelLen, RoomToSpeculate
  <2> QED
    BY <2>1, VerifyKeepsLength, ScheduleKeepsLength, SpeculateKeepsLength DEF Next
<1>3. LenInv => WithinModelLen
  BY DEF LenInv
<1> QED
  BY <1>1, <1>2, <1>3, Inductive, PTL DEF Spec
=============================================================================
