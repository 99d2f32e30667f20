----------------------- MODULE SpexisSchedulerProofs -----------------------
(***************************************************************************)
(* Proofs about SpexisScheduler, for any number of requests, any sizes and *)
(* any tokens.  The status of a request tells in which of the scheduler's  *)
(* lists it is, also while schedule() moves it from one to another; a      *)
(* request counts at least as many iterations in flight as there are       *)
(* batches in the pipeline that hold it, so that one it is drained of is   *)
(* in none of them; and whatever the block allocator hands out was free.   *)
(*                                                                         *)
(* None of this depends on the tokens being right: the invariant assumes   *)
(* of a request's output only that it is a sequence.                       *)
(***************************************************************************)
EXTENDS SpexisScheduler, SequenceTheorems, FiniteSetTheorems, TLAPS

\* A list of any values.
IsSeq(s) == \E S : s \in Seq(S)

RequestFields ==
    {"status", "num_prompt_tokens", "max_tokens", "output_token_ids",
     "num_computed_tokens", "sp_len", "spec_result", "fixed_idx", "flush_len",
     "just_fixed", "confidence_dropped", "stop_dropped", "drop_len",
     "drop_end", "should_preempt", "num_scheduled"}

\* What the scheduler's decisions need to know about a request.
RequestOK(q) ==
    /\ DOMAIN q = RequestFields
    /\ q.status \in RequestStatus /\ q.should_preempt \in BOOLEAN
    /\ q.num_prompt_tokens \in Nat /\ IsSeq(q.output_token_ids)
    /\ q.num_computed_tokens \in Int /\ q.sp_len \in Int /\ q.num_scheduled \in Int

RequestsOK(req) == DOMAIN req = Rid /\ \A r \in Rid : RequestOK(req[r])

\* A list of requests without repetition.
Listed(l) ==
    /\ l \in Seq(Rid)
    /\ \A i, j \in 1..Len(l) : l[i] = l[j] => i = j

\* Request r, in state q, is in the list that its status tells.  todo holds
\* what schedule() has not yet looked at of to_be_preempted.
PlacedAt(r, q, wait, run, tbp, todo) ==
    /\ Contains(wait, r) <=> Contains(arrived, r) /\ InWaiting(q)
    /\ Contains(run, r) <=> InRunning(q)
    /\ Contains(tbp, r) \/ Contains(todo, r) <=> InToBePreempted(q)
    /\ ~(Contains(tbp, r) /\ Contains(todo, r))
    /\ ~Contains(arrived, r) => q.status = "WAITING"
    /\ InWaiting(q) => q.num_scheduled = 0

Placed(req, wait, run, tbp, todo) ==
    /\ Listed(wait) /\ Listed(run) /\ Listed(tbp) /\ Listed(todo)
    /\ \A r \in Rid : PlacedAt(r, req[r], wait, run, tbp, todo)

MaxBlocksPerReq == CeilDiv(MaxModelLen, BlockSize)

BlocksOK(req, b) ==
    /\ b \in [Rid -> 0..MaxBlocksPerReq]
    /\ Cardinality(HeldBlocks(b)) <= NumBlocks
    /\ \A r \in Rid : ~InRunning(req[r]) => b[r] = 0

\* The batches of q that hold request r.
Holding(q, r) == {i \in DOMAIN q : q[i][r].kind # "idle"}
InFlight(q, r) == Cardinality(Holding(q, r))

\* No batch in the pipeline, nor the one being made, is left uncounted.
Counted(req, tokens) ==
    \A r \in Rid :
        req[r].num_scheduled >= InFlight(queue, r) + (IF tokens[r] = 0 THEN 0 ELSE 1)

NoTokens == [r \in Rid |-> 0]

\* The state between two calls of schedule().
PublishedInv ==
    /\ RequestsOK(requests)
    /\ Placed(requests, waiting, running_scheduled, to_be_preempted, <<>>)
    /\ BlocksOK(requests, req_to_blocks)
    /\ Counted(requests, NoTokens)

LocalFields ==
    {"pc", "todo", "req", "waiting", "running", "to_be_preempted", "postpreempt",
     "blocks", "num_scheduled_tokens", "new", "resumed", "preempted", "passed",
     "ask", "estimate", "budget"}

\* The state in a call of schedule(), where todo is still to be put somewhere.
Consistent(s, todo) ==
    /\ DOMAIN s = LocalFields
    /\ RequestsOK(s.req)
    /\ Placed(s.req, s.waiting, s.running, s.to_be_preempted, todo)
    /\ BlocksOK(s.req, s.blocks)
    /\ s.num_scheduled_tokens \in [Rid -> Int]
    /\ Counted(s.req, s.num_scheduled_tokens)
    /\ s.budget \in Int

\* What the running loop has still to visit is the end of running.
Suffix(todo, run) ==
    /\ todo \in Seq(Rid) /\ Len(todo) <= Len(run)
    /\ \A k \in 1..Len(todo) : todo[k] = run[Len(run) - Len(todo) + k]

LocalInv(s) ==
    \/ s.pc = "preempt" /\ Consistent(s, s.todo)
    \/ s.pc = "running" /\ Consistent(s, <<>>) /\ Suffix(s.todo, s.running)
    \/ /\ s.pc = "allocate" /\ Consistent(s, <<>>) /\ Suffix(s.todo, s.running)
       /\ Len(s.todo) < Len(s.running)
       /\ s.ask[1] = s.running[Len(s.running) - Len(s.todo)]
       /\ s.ask[2] \in Int
    \/ s.pc \in {"waiting", "dispatch"} /\ Consistent(s, <<>>)

SchedInv ==
    /\ PublishedInv
    /\ arrived \in Seq(Rid)
    /\ IsSeq(queue) /\ Len(queue) = IF phase = "schedule" THEN PP - 1 ELSE PP
    /\ local = NoCall \/ (phase = "schedule" /\ LocalInv(local))

-----------------------------------------------------------------------------
(* Lists. *)

\* Sequences have a length and a domain.
LEMMA IsSeqLen ==
    ASSUME NEW s, IsSeq(s)
    PROVE  Len(s) \in Nat /\ DOMAIN s = 1..Len(s)
  BY DEF IsSeq

\* A sequence remains one when something is appended to it.
LEMMA IsSeqAppend ==
    ASSUME NEW s, NEW t, IsSeq(s)
    PROVE  /\ IsSeq(Append(s, t)) /\ Len(Append(s, t)) = Len(s) + 1
           /\ Append(s, t)[Len(s) + 1] = t
           /\ \A i \in 1..Len(s) : Append(s, t)[i] = s[i]
<1>1. PICK S : s \in Seq(S)
  BY DEF IsSeq
<1>2. s \in Seq(S \cup {t})
  BY <1>1
<1>3. /\ Append(s, t) \in Seq(S \cup {t}) /\ Len(Append(s, t)) = Len(s) + 1
      /\ Append(s, t)[Len(s) + 1] = t
      /\ \A i \in 1..Len(s) : Append(s, t)[i] = s[i]
  BY <1>2
<1> QED
  BY <1>3 DEF IsSeq

\* A sequence remains one when its head is taken off.
LEMMA IsSeqTail ==
    ASSUME NEW s, IsSeq(s), Len(s) > 0
    PROVE  /\ IsSeq(Tail(s)) /\ Len(Tail(s)) = Len(s) - 1
           /\ Head(s) = s[1]
           /\ \A i \in 1..(Len(s) - 1) : Tail(s)[i] = s[i + 1]
<1>1. PICK S : s \in Seq(S)
  BY DEF IsSeq
<1>2. s # <<>>
  BY <1>1
<1>3. /\ Tail(s) \in Seq(S) /\ Len(Tail(s)) = Len(s) - 1
      /\ Head(s) = s[1]
      /\ \A i \in 1..(Len(s) - 1) : Tail(s)[i] = s[i + 1]
  BY <1>1, <1>2
<1> QED
  BY <1>3 DEF IsSeq

\* Replacing the end of a sequence by a token leaves a sequence.
LEMMA IsSeqReplaceTail ==
    ASSUME NEW s, NEW k \in Int, NEW t, IsSeq(s)
    PROVE  IsSeq(ReplaceTail(s, k, t))
<1>1. CASE k = 0
  <2>1. <<t>> \in Seq({t})
    OBVIOUS
  <2> QED
    BY <1>1, <2>1 DEF IsSeq, ReplaceTail
<1>2. CASE k # 0
  <2>1. PICK m \in Int : m = Len(s) - k
    BY IsSeqLen
  <2>2. IsSeq(Prefix(s, m))
    <3>1. CASE m >= 0
      <4>1. [i \in 1..m |-> s[i]] \in Seq({s[i] : i \in 1..m})
        BY <3>1
      <4> QED
        BY <4>1 DEF Prefix, IsSeq
    <3>2. CASE m < 0
      <4>1. [i \in 1..m |-> s[i]] = <<>>
        BY <3>2
      <4>2. <<>> \in Seq({})
        OBVIOUS
      <4> QED
        BY <4>1, <4>2 DEF Prefix, IsSeq
    <3> QED
      BY <3>1, <3>2
  <2> QED
    BY <1>2, <2>1, <2>2, IsSeqAppend DEF ReplaceTail
<1> QED
  BY <1>1, <1>2

\* The empty list holds nothing.
LEMMA ListedEmpty ==
    Listed(<<>>) /\ \A x : ~Contains(<<>>, x)
  BY DEF Listed, Contains

\* A request is put at the end of a list.
LEMMA ListedAppend ==
    ASSUME NEW l, NEW r \in Rid, Listed(l), ~Contains(l, r)
    PROVE  /\ Listed(Append(l, r))
           /\ \A x : Contains(Append(l, r), x) <=> Contains(l, x) \/ x = r
<1>1. /\ l \in Seq(Rid) /\ Len(l) \in Nat /\ Append(l, r) \in Seq(Rid)
      /\ Len(Append(l, r)) = Len(l) + 1
      /\ Append(l, r)[Len(l) + 1] = r
      /\ \A i \in 1..Len(l) : Append(l, r)[i] = l[i]
  BY DEF Listed
<1>2. \A i, j \in 1..(Len(l) + 1) : Append(l, r)[i] = Append(l, r)[j] => i = j
  <2> SUFFICES ASSUME NEW i \in 1..(Len(l) + 1), NEW j \in 1..(Len(l) + 1),
                      Append(l, r)[i] = Append(l, r)[j]
               PROVE  i = j
    OBVIOUS
  <2>1. (i \in 1..Len(l) \/ i = Len(l) + 1) /\ (j \in 1..Len(l) \/ j = Len(l) + 1)
    BY <1>1
  <2> QED
    BY <1>1, <2>1 DEF Listed, Contains
<1>3. \A x : Contains(Append(l, r), x) <=> Contains(l, x) \/ x = r
  <2> SUFFICES ASSUME NEW x PROVE Contains(Append(l, r), x) <=> Contains(l, x) \/ x = r
    OBVIOUS
  <2>1. 1..(Len(l) + 1) = 1..Len(l) \cup {Len(l) + 1}
    BY <1>1
  <2> QED
    BY <1>1, <2>1 DEF Contains
<1> QED
  BY <1>1, <1>2, <1>3 DEF Listed

\* A request is put at the head of a list.
LEMMA ListedCons ==
    ASSUME NEW l, NEW r \in Rid, Listed(l), ~Contains(l, r)
    PROVE  /\ Listed(<<r>> \o l)
           /\ \A x : Contains(<<r>> \o l, x) <=> Contains(l, x) \/ x = r
<1> DEFINE c == <<r>> \o l
<1>1. /\ l \in Seq(Rid) /\ Len(l) \in Nat /\ c \in Seq(Rid)
      /\ Len(c) = Len(l) + 1 /\ c[1] = r
      /\ \A i \in 2..(Len(l) + 1) : c[i] = l[i - 1] /\ i - 1 \in 1..Len(l)
      /\ \A i \in 1..Len(l) : c[i + 1] = l[i]
  BY DEF Listed
<1> HIDE DEF c
<1>2. \A i, j \in 1..(Len(l) + 1) : c[i] = c[j] => i = j
  <2> SUFFICES ASSUME NEW i \in 1..(Len(l) + 1), NEW j \in 1..(Len(l) + 1), c[i] = c[j]
               PROVE  i = j
    OBVIOUS
  <2>1. (i \in 2..(Len(l) + 1) \/ i = 1) /\ (j \in 2..(Len(l) + 1) \/ j = 1)
    BY <1>1
  <2>2. \A k \in 2..(Len(l) + 1) : c[k] # r
    BY <1>1 DEF Contains
  <2>3. CASE i \in 2..(Len(l) + 1) /\ j \in 2..(Len(l) + 1)
    <3>1. i - 1 \in 1..Len(l) /\ j - 1 \in 1..Len(l) /\ l[i - 1] = l[j - 1]
      BY <1>1, <2>3
    <3>2. i - 1 = j - 1
      BY <3>1 DEF Listed
    <3> QED
      BY <3>2
  <2> QED
    BY <1>1, <2>1, <2>2, <2>3
<1>3. \A x : Contains(c, x) <=> Contains(l, x) \/ x = r
  <2> SUFFICES ASSUME NEW x PROVE Contains(c, x) <=> Contains(l, x) \/ x = r
    OBVIOUS
  <2>1. ASSUME Contains(c, x) PROVE Contains(l, x) \/ x = r
    <3>1. PICK i \in 1..(Len(l) + 1) : c[i] = x
      BY <1>1, <2>1 DEF Contains
    <3>2. i = 1 \/ i \in 2..(Len(l) + 1)
      BY <1>1
    <3> QED
      BY <1>1, <3>1, <3>2 DEF Contains
  <2>2. ASSUME Contains(l, x) PROVE Contains(c, x)
    <3>1. PICK i \in 1..Len(l) : l[i] = x
      BY <2>2 DEF Contains
    <3>2. i + 1 \in 1..Len(c) /\ c[i + 1] = x
      BY <1>1, <3>1
    <3> QED
      BY <3>2 DEF Contains
  <2>3. Contains(c, r)
    <3>1. 1 \in 1..Len(c) /\ c[1] = r
      BY <1>1
    <3> QED
      BY <3>1 DEF Contains
  <2> QED
    BY <2>1, <2>2, <2>3
<1> QED
  BY <1>1, <1>2, <1>3 DEF Listed, c

\* A list without its head.
LEMMA ListedTail ==
    ASSUME NEW l, Listed(l), l # <<>>
    PROVE  /\ Listed(Tail(l)) /\ Head(l) \in Rid /\ Contains(l, Head(l))
           /\ \A x : Contains(Tail(l), x) <=> Contains(l, x) /\ x # Head(l)
<1>1. /\ l \in Seq(Rid) /\ Len(l) \in Nat \ {0} /\ Tail(l) \in Seq(Rid)
      /\ Len(Tail(l)) = Len(l) - 1 /\ Head(l) = l[1] /\ l[1] \in Rid
      /\ \A i \in 1..(Len(l) - 1) : Tail(l)[i] = l[i + 1]
  BY DEF Listed
<1>2. \A i, j \in 1..(Len(l) - 1) : Tail(l)[i] = Tail(l)[j] => i = j
  <2> SUFFICES ASSUME NEW i \in 1..(Len(l) - 1), NEW j \in 1..(Len(l) - 1),
                      Tail(l)[i] = Tail(l)[j]
               PROVE  i = j
    OBVIOUS
  <2>1. i + 1 \in 1..Len(l) /\ j + 1 \in 1..Len(l) /\ l[i + 1] = l[j + 1]
    BY <1>1
  <2>2. i + 1 = j + 1
    BY <2>1 DEF Listed
  <2> QED
    BY <2>2
<1>3. Contains(l, Head(l))
  <2>1. 1 \in 1..Len(l) /\ l[1] = Head(l)
    BY <1>1
  <2> QED
    BY <2>1 DEF Contains
<1>4. \A x : Contains(Tail(l), x) <=> Contains(l, x) /\ x # Head(l)
  <2> SUFFICES ASSUME NEW x PROVE Contains(Tail(l), x) <=> Contains(l, x) /\ x # Head(l)
    OBVIOUS
  <2>1. ASSUME Contains(Tail(l), x) PROVE Contains(l, x) /\ x # Head(l)
    <3>1. PICK i \in 1..(Len(l) - 1) : Tail(l)[i] = x
      BY <1>1, <2>1 DEF Contains
    <3>2. i + 1 \in 1..Len(l) /\ l[i + 1] = x /\ i + 1 # 1 /\ 1 \in 1..Len(l)
      BY <1>1, <3>1
    <3> QED
      BY <1>1, <3>2 DEF Contains, Listed
  <2>2. ASSUME Contains(l, x), x # Head(l) PROVE Contains(Tail(l), x)
    <3>1. PICK i \in 1..Len(l) : l[i] = x
      BY <2>2 DEF Contains
    <3>2. i # 1
      BY <1>1, <2>2, <3>1
    <3>3. i - 1 \in 1..(Len(l) - 1) /\ Tail(l)[i - 1] = x
      BY <1>1, <3>1, <3>2
    <3> QED
      BY <1>1, <3>3 DEF Contains
  <2> QED
    BY <2>1, <2>2
<1> QED
  BY <1>1, <1>2, <1>3, <1>4 DEF Listed

\* A list without its last element.
LEMMA ListedFront ==
    ASSUME NEW l, Listed(l), l # <<>>
    PROVE  /\ Listed(Front(l)) /\ Len(Front(l)) = Len(l) - 1 /\ Len(l) \in Nat \ {0}
           /\ Last(l) \in Rid /\ Contains(l, Last(l))
           /\ \A i \in 1..(Len(l) - 1) : Front(l)[i] = l[i]
           /\ \A x : Contains(Front(l), x) <=> Contains(l, x) /\ x # Last(l)
<1>1. /\ l \in Seq(Rid) /\ Len(l) \in Nat \ {0} /\ Front(l) \in Seq(Rid)
      /\ Len(Front(l)) = Len(l) - 1 /\ Last(l) = l[Len(l)] /\ l[Len(l)] \in Rid
      /\ \A i \in 1..(Len(l) - 1) : Front(l)[i] = l[i]
  <2>1. l \in Seq(Rid) /\ Len(l) \in Nat \ {0} /\ Last(l) = l[Len(l)] /\ l[Len(l)] \in Rid
    BY DEF Listed, Last
  <2>2. /\ SubSeq(l, 1, Len(l) - 1) \in Seq(Rid)
        /\ Len(SubSeq(l, 1, Len(l) - 1)) = Len(l) - 1
        /\ \A i \in 1..(Len(l) - 1) : SubSeq(l, 1, Len(l) - 1)[i] = l[i]
    <3>1. PICK m \in Nat : m = Len(l) - 1
      BY <2>1
    <3>2. \A i \in 1..m : l[i] \in Rid
      BY <2>1, <3>1
    <3>3. /\ SubSeq(l, 1, m) \in Seq(Rid) /\ Len(SubSeq(l, 1, m)) = IF 1 <= m THEN m - 1 + 1 ELSE 0
          /\ \A i \in 1..(m - 1 + 1) : SubSeq(l, 1, m)[i] = l[1 + i - 1]
      BY <3>2, SubSeqProperties
    <3> QED
      BY <3>1, <3>3
  <2> QED
    BY <2>1, <2>2 DEF Front
<1>2. \A i, j \in 1..(Len(l) - 1) : Front(l)[i] = Front(l)[j] => i = j
  BY <1>1 DEF Listed
<1>3. Contains(l, Last(l))
  <2>1. Len(l) \in 1..Len(l)
    BY <1>1
  <2> QED
    BY <1>1, <2>1 DEF Contains
<1>4. \A x : Contains(Front(l), x) <=> Contains(l, x) /\ x # Last(l)
  <2> SUFFICES ASSUME NEW x PROVE Contains(Front(l), x) <=> Contains(l, x) /\ x # Last(l)
    OBVIOUS
  <2>1. ASSUME Contains(Front(l), x) PROVE Contains(l, x) /\ x # Last(l)
    <3>1. PICK i \in 1..(Len(l) - 1) : Front(l)[i] = x
      BY <1>1, <2>1 DEF Contains
    <3>2. i \in 1..Len(l) /\ l[i] = x /\ i # Len(l) /\ Len(l) \in 1..Len(l)
      BY <1>1, <3>1
    <3> QED
      BY <1>1, <3>2 DEF Contains, Listed
  <2>2. ASSUME Contains(l, x), x # Last(l) PROVE Contains(Front(l), x)
    <3>1. PICK i \in 1..Len(l) : l[i] = x
      BY <2>2 DEF Contains
    <3>2. i \in 1..(Len(l) - 1)
      BY <1>1, <2>2, <3>1
    <3> QED
      BY <1>1, <3>1, <3>2 DEF Contains
  <2> QED
    BY <2>1, <2>2
<1> QED
  BY <1>1, <1>2, <1>3, <1>4 DEF Listed

\* Dropping requests from a list keeps the others, once each.
LEMMA ListedWithout ==
    ASSUME NEW l, NEW gone, Listed(l)
    PROVE  /\ Listed(Without(l, gone))
           /\ \A x : Contains(Without(l, gone), x) <=> Contains(l, x) /\ x \notin gone
<1> DEFINE kept == {i \in DOMAIN l : l[i] \notin gone}
           below(i) == {j \in kept : j <= i}
           rank == [i \in kept |-> Cardinality(below(i))]
           n == Cardinality(kept)
           nth(k) == CHOOSE i \in kept : Cardinality(below(i)) = k
           w == [k \in 1..n |-> l[nth(k)]]
<1>1. l \in Seq(Rid) /\ Len(l) \in Nat /\ DOMAIN l = 1..Len(l)
  BY DEF Listed
<1>2. /\ kept \subseteq 1..Len(l) /\ IsFiniteSet(kept) /\ n \in Nat
      /\ \A i \in kept : IsFiniteSet(below(i)) /\ Cardinality(below(i)) \in Nat
  <2>1. kept \in SUBSET (1..Len(l)) /\ \A i \in kept : below(i) \in SUBSET kept
    BY <1>1
  <2>2. IsFiniteSet(1..Len(l))
    BY <1>1, FS_Interval
  <2>3. IsFiniteSet(kept)
    BY <2>1, <2>2, FS_Subset
  <2>4. \A i \in kept : IsFiniteSet(below(i))
    BY <2>1, <2>3, FS_Subset
  <2> QED
    BY <2>1, <2>3, <2>4, FS_CardinalityType
<1>3. \A i \in kept : rank[i] \in 1..n
  <2> TAKE i \in kept
  <2>1. below(i) \in SUBSET kept /\ i \in below(i)
    BY <1>2
  <2>2. Cardinality(below(i)) <= n
    BY <1>2, <2>1, FS_Subset
  <2>3. Cardinality(below(i)) # 0
    BY <1>2, <2>1, FS_EmptySet
  <2> HIDE DEF below, kept
  <2> QED
    BY <1>2, <2>2, <2>3
<1>4. \A i, j \in kept : i < j => rank[i] < rank[j]
  <2> SUFFICES ASSUME NEW i \in kept, NEW j \in kept, i < j
               PROVE  rank[i] < rank[j]
    OBVIOUS
  <2>1. below(i) \in SUBSET below(j) /\ j \in below(j) /\ j \notin below(i)
    BY <1>2
  <2>2. Cardinality(below(i)) <= Cardinality(below(j))
    BY <1>2, <2>1, FS_Subset
  <2>3. Cardinality(below(i)) # Cardinality(below(j))
    BY <1>2, <2>1, FS_Subset
  <2> HIDE DEF below, kept
  <2> QED
    BY <1>2, <2>2, <2>3
<1>5. rank \in Injection(kept, 1..n)
  <2>1. rank \in [kept -> 1..n]
    BY <1>3
  <2>2. \A i, j \in kept : rank[i] = rank[j] => i = j
    <3> SUFFICES ASSUME NEW i \in kept, NEW j \in kept, rank[i] = rank[j] PROVE i = j
      OBVIOUS
    <3>1. i \in Int /\ j \in Int
      BY <1>2
    <3>2. rank[i] \in Nat /\ rank[j] \in Nat
      BY <1>2
    <3> HIDE DEF rank, kept
    <3> QED
      BY <1>4, <3>1, <3>2
  <2> HIDE DEF rank, kept
  <2>3. DOMAIN rank = kept
    BY <2>1
  <2> QED
    BY <2>1, <2>2, <2>3 DEF Injection, IsInjective
<1>6. rank \in Surjection(kept, 1..n)
  <2>1. IsFiniteSet(1..n) /\ Cardinality(1..n) = n
    BY <1>2, FS_Interval
  <2> HIDE DEF rank, kept
  <2> QED
    BY <1>5, <2>1, FS_Injection
<1>7. \A k \in 1..n : \E i \in kept : rank[i] = k
  <2> HIDE DEF rank, kept
  <2> QED
    BY <1>6 DEF Surjection
<1>8. \A k \in 1..n : nth(k) \in kept /\ rank[nth(k)] = k
  <2> TAKE k \in 1..n
  <2>1. \E i \in kept : Cardinality(below(i)) = k
    BY <1>7
  <2>2. nth(k) \in kept /\ Cardinality(below(nth(k))) = k
    <3> HIDE DEF below, kept
    <3> QED
      BY <2>1
  <2> HIDE DEF below, kept, nth
  <2> QED
    BY <2>2
<1>9. \A i \in kept : nth(rank[i]) = i
  <2> TAKE i \in kept
  <2>1. rank[i] \in 1..n
    BY <1>3
  <2> HIDE DEF kept, rank, nth
  <2>2. nth(rank[i]) \in kept /\ rank[nth(rank[i])] = rank[i]
    BY <1>8, <2>1
  <2> QED
    BY <1>5, <2>2 DEF Injection, IsInjective
<1>10. Without(l, gone) = w
  BY DEF Without
<1>11. \A k \in 1..n : w[k] \in Rid /\ w[k] = l[nth(k)]
  <2> TAKE k \in 1..n
  <2>1. nth(k) \in 1..Len(l)
    BY <1>2, <1>8
  <2>2. w[k] = l[nth(k)]
    OBVIOUS
  <2> HIDE DEF nth, w
  <2> QED
    BY <1>1, <2>1, <2>2
<1>12. w \in Seq(Rid) /\ Len(w) = n
  <2> HIDE DEF nth, n
  <2> QED
    BY <1>2, <1>11
<1>13. \A k, m \in 1..n : w[k] = w[m] => k = m
  <2> SUFFICES ASSUME NEW k \in 1..n, NEW m \in 1..n, w[k] = w[m] PROVE k = m
    OBVIOUS
  <2>1. nth(k) \in 1..Len(l) /\ nth(m) \in 1..Len(l) /\ l[nth(k)] = l[nth(m)]
    BY <1>2, <1>8, <1>11
  <2> HIDE DEF nth, n, kept, rank
  <2>2. nth(k) = nth(m)
    BY <2>1 DEF Listed
  <2> QED
    BY <1>8, <2>2
<1>14. \A x : Contains(w, x) <=> Contains(l, x) /\ x \notin gone
  <2> TAKE x
  <2>1. ASSUME Contains(w, x) PROVE Contains(l, x) /\ x \notin gone
    <3>1. PICK k \in 1..n : w[k] = x
      BY <1>12, <2>1 DEF Contains
    <3>2. nth(k) \in kept /\ l[nth(k)] = x
      BY <1>8, <1>11, <3>1
    <3> QED
      BY <1>1, <3>2 DEF Contains
  <2>2. ASSUME Contains(l, x), x \notin gone PROVE Contains(w, x)
    <3>1. PICK i \in 1..Len(l) : l[i] = x
      BY <2>2 DEF Contains
    <3>2. i \in kept
      BY <1>1, <2>2, <3>1
    <3>3. rank[i] \in 1..n /\ nth(rank[i]) = i
      BY <1>3, <1>9, <3>2
    <3> HIDE DEF rank, nth, n, kept
    <3>4. w[rank[i]] = x
      BY <1>11, <3>1, <3>3
    <3> QED
      BY <1>12, <3>3, <3>4 DEF Contains
  <2> QED
    BY <2>1, <2>2
<1> HIDE DEF w, n
<1> QED
  BY <1>10, <1>12, <1>13, <1>14 DEF Listed
-----------------------------------------------------------------------------
(* Blocks. *)

\* Enough blocks for max_model_len tokens.
LEMMA MaxBlocksType == MaxBlocksPerReq \in Nat
<1>1. MaxModelLen + BlockSize - 1 \in Nat /\ BlockSize \in Nat \ {0}
  BY SizeAssumption, MaxModelLenAssumption
<1>2. (MaxModelLen + BlockSize - 1) \div BlockSize \in Nat
  BY <1>1
<1> QED
  BY <1>2 DEF MaxBlocksPerReq, CeilDiv

\* The blocks held are finitely many.
LEMMA HeldFinite ==
    ASSUME NEW b \in [Rid -> Nat]
    PROVE  IsFiniteSet(HeldBlocks(b)) /\ Cardinality(HeldBlocks(b)) \in Nat
<1> DEFINE F == {{r} \X (1..b[r]) : r \in Rid}
           f == [r \in Rid |-> {r} \X (1..b[r])]
<1>1. \A T \in F : IsFiniteSet(T)
  <2> SUFFICES ASSUME NEW r \in Rid PROVE IsFiniteSet({r} \X (1..b[r]))
    OBVIOUS
  <2>1. IsFiniteSet({r})
    BY FS_Singleton
  <2>2. IsFiniteSet(1..b[r])
    <3>1. b[r] \in Int
      OBVIOUS
    <3> QED
      BY <3>1, FS_Interval
  <2> QED
    BY <2>1, <2>2, FS_Product
<1>2. IsFiniteSet(F)
  <2>1. f \in Surjection(Rid, F)
    BY DEF Surjection
  <2>2. IsFiniteSet(Rid)
    BY RequestAssumption
  <2> QED
    BY <2>1, <2>2, FS_Surjection
<1>3. IsFiniteSet(UNION F)
  BY <1>1, <1>2, FS_UNION
<1> QED
  BY <1>3, FS_CardinalityType DEF HeldBlocks

\* Fewer blocks for each request are fewer blocks.
LEMMA HeldFewer ==
    ASSUME NEW b \in [Rid -> Nat], NEW c \in [Rid -> Nat], \A r \in Rid : c[r] <= b[r]
    PROVE  Cardinality(HeldBlocks(c)) <= Cardinality(HeldBlocks(b))
<1>1. HeldBlocks(c) \in SUBSET HeldBlocks(b)
  BY DEF HeldBlocks
<1> QED
  BY <1>1, HeldFinite, FS_Subset

\* Request r gets m more blocks.
LEMMA HeldMore ==
    ASSUME NEW b \in [Rid -> Nat], NEW r \in Rid, NEW m \in Nat
    PROVE  Cardinality(HeldBlocks([b EXCEPT ![r] = @ + m])) = Cardinality(HeldBlocks(b)) + m
<1> DEFINE N == {r} \X ((b[r] + 1)..(b[r] + m))
           c == [b EXCEPT ![r] = @ + m]
<1>1. IsFiniteSet(N) /\ Cardinality(N) = m
  <2>1. IsFiniteSet({r}) /\ Cardinality({r}) = 1
    BY FS_Singleton
  <2>2. /\ IsFiniteSet((b[r] + 1)..(b[r] + m))
        /\ Cardinality((b[r] + 1)..(b[r] + m)) = m
    <3>1. b[r] + 1 \in Int /\ b[r] + m \in Int
      OBVIOUS
    <3> QED
      BY <3>1, FS_Interval
  <2>3. IsFiniteSet(N) /\ Cardinality(N) = 1 * m
    BY <2>1, <2>2, FS_Product
  <2> QED
    BY <2>3
<1>2. HeldBlocks(c) = HeldBlocks(b) \cup N
  <2>1. c \in [Rid -> Nat] /\ c[r] = b[r] + m /\ \A x \in Rid \ {r} : c[x] = b[x]
    OBVIOUS
  <2>2. 1..(b[r] + m) = 1..b[r] \cup ((b[r] + 1)..(b[r] + m))
    OBVIOUS
  <2>3. \A p : p \in HeldBlocks(c) <=> \E x \in Rid : p \in {x} \X (1..c[x])
    BY DEF HeldBlocks
  <2>4. \A p : p \in HeldBlocks(b) <=> \E x \in Rid : p \in {x} \X (1..b[x])
    BY DEF HeldBlocks
  <2>5. {r} \X (1..c[r]) = ({r} \X (1..b[r])) \cup N
    BY <2>1, <2>2
  <2> HIDE DEF c, N
  <2> QED
    BY <2>1, <2>3, <2>4, <2>5
<1>3. HeldBlocks(b) \cap N = {}
  BY DEF HeldBlocks
<1>4. Cardinality(HeldBlocks(b) \cap N) = 0
  BY <1>3, FS_EmptySet
<1>5. IsFiniteSet(HeldBlocks(b)) /\ Cardinality(HeldBlocks(b)) \in Nat
  BY HeldFinite
<1> HIDE DEF N
<1>6. Cardinality(HeldBlocks(b) \cup N) = Cardinality(HeldBlocks(b)) + m - 0
  BY <1>1, <1>4, <1>5, FS_Union
<1>7. Cardinality(HeldBlocks(c)) = Cardinality(HeldBlocks(b)) + m
  <2> HIDE DEF c
  <2> QED
    BY <1>2, <1>5, <1>6
<1> QED
  BY <1>7

-----------------------------------------------------------------------------
(* Batches in flight. *)

\* The batches that hold a request are finitely many.
LEMMA HoldingFinite ==
    ASSUME NEW q, NEW r, IsSeq(q)
    PROVE  IsFiniteSet(Holding(q, r)) /\ InFlight(q, r) \in Nat
<1>1. Holding(q, r) \in SUBSET (1..Len(q)) /\ Len(q) \in Nat
  BY IsSeqLen DEF Holding
<1>2. IsFiniteSet(1..Len(q))
  BY <1>1, FS_Interval
<1>3. IsFiniteSet(Holding(q, r))
  BY <1>1, <1>2, FS_Subset
<1> QED
  BY <1>3, FS_CardinalityType DEF InFlight

\* A batch enters the pipeline.
LEMMA InFlightAppend ==
    ASSUME NEW q, NEW e, NEW r, IsSeq(q)
    PROVE  InFlight(Append(q, e), r)
              = InFlight(q, r) + (IF e[r].kind = "idle" THEN 0 ELSE 1)
<1>1. /\ DOMAIN Append(q, e) = 1..(Len(q) + 1) /\ DOMAIN q = 1..Len(q) /\ Len(q) \in Nat
      /\ Append(q, e)[Len(q) + 1] = e
      /\ \A i \in 1..Len(q) : Append(q, e)[i] = q[i]
  BY IsSeqLen, IsSeqAppend
<1>2. Holding(Append(q, e), r) = IF e[r].kind = "idle" THEN Holding(q, r)
                                 ELSE Holding(q, r) \cup {Len(q) + 1}
  <2>1. 1..(Len(q) + 1) = 1..Len(q) \cup {Len(q) + 1}
    BY <1>1
  <2> QED
    BY <1>1, <2>1 DEF Holding
<1>3. Len(q) + 1 \notin Holding(q, r)
  BY <1>1 DEF Holding
<1>4. IsFiniteSet(Holding(q, r)) /\ InFlight(q, r) \in Nat
  BY HoldingFinite
<1>5. CASE e[r].kind # "idle"
  <2>1. Cardinality(Holding(q, r) \cup {Len(q) + 1}) = Cardinality(Holding(q, r)) + 1
    BY <1>3, <1>4, FS_AddElement
  <2> QED
    BY <1>2, <1>5, <2>1 DEF InFlight
<1>6. CASE e[r].kind = "idle"
  BY <1>2, <1>4, <1>6 DEF InFlight
<1> QED
  BY <1>5, <1>6

\* The oldest batch leaves the pipeline.
LEMMA InFlightTail ==
    ASSUME NEW q, NEW r, IsSeq(q), Len(q) > 0
    PROVE  InFlight(q, r) = InFlight(Tail(q), r) + (IF Head(q)[r].kind = "idle" THEN 0 ELSE 1)
<1> DEFINE T == Holding(Tail(q), r)
           Q == Holding(q, r) \ {1}
           f == [i \in T |-> i + 1]
<1>1. /\ IsSeq(Tail(q)) /\ DOMAIN Tail(q) = 1..(Len(q) - 1)
      /\ DOMAIN q = 1..Len(q) /\ Len(q) \in Nat \ {0} /\ Head(q) = q[1]
      /\ \A i \in 1..(Len(q) - 1) : Tail(q)[i] = q[i + 1]
  BY IsSeqLen, IsSeqTail
<1>2. IsFiniteSet(T) /\ InFlight(Tail(q), r) \in Nat /\ IsFiniteSet(Holding(q, r))
      /\ InFlight(q, r) \in Nat
  BY <1>1, HoldingFinite
<1>3. f \in Bijection(T, Q)
  <2>1. T = {i \in 1..(Len(q) - 1) : q[i + 1][r].kind # "idle"}
    BY <1>1 DEF Holding
  <2>2. Q = {i \in 2..Len(q) : q[i][r].kind # "idle"}
    BY <1>1 DEF Holding
  <2> HIDE DEF T, Q
  <2>3. f \in [T -> Q] /\ \A i, j \in T : f[i] = f[j] => i = j
    BY <1>1, <2>1, <2>2
  <2>4. \A j \in Q : \E i \in T : f[i] = j
    <3>1. ASSUME NEW j \in Q PROVE j - 1 \in T /\ f[j - 1] = j
      BY <1>1, <2>1, <2>2
    <3> QED
      BY <3>1
  <2> QED
    BY <2>3, <2>4 DEF Bijection, Injection, Surjection, IsInjective
<1>4. IsFiniteSet(Q) /\ Cardinality(Q) = Cardinality(T)
  <2>1. IsFiniteSet(Q)
    BY <1>2, FS_Subset
  <2> HIDE DEF T, Q, f
  <2>2. Cardinality(T) = Cardinality(Q)
    BY <1>2, <1>3, <2>1, FS_Bijection DEF ExistsBijection
  <2> QED
    BY <2>1, <2>2
<1>5. CASE Head(q)[r].kind # "idle"
  <2>1. 1 \in Holding(q, r)
    BY <1>1, <1>5 DEF Holding
  <2>2. Cardinality(Holding(q, r) \ {1}) = Cardinality(Holding(q, r)) - 1
    BY <1>2, <2>1, FS_RemoveElement
  <2> QED
    BY <1>2, <1>4, <1>5, <2>2 DEF InFlight
<1>6. CASE Head(q)[r].kind = "idle"
  <2>1. Q = Holding(q, r)
    BY <1>1, <1>6 DEF Holding
  <2> HIDE DEF T, Q
  <2>2. Cardinality(T) = Cardinality(Holding(q, r))
    BY <1>4, <2>1
  <2> QED
    BY <1>2, <1>6, <2>2 DEF InFlight, T
<1> QED
  BY <1>5, <1>6
-----------------------------------------------------------------------------
(* What the operations on a request do to the fields the scheduler reads. *)

\* verify_output_token_ids leaves status and counters alone.
LEMMA VerifyFields ==
    ASSUME NEW q, NEW t, RequestOK(q)
    PROVE  /\ RequestOK(verify_output_token_ids(q, t))
           /\ verify_output_token_ids(q, t).status = q.status
           /\ verify_output_token_ids(q, t).should_preempt = q.should_preempt
           /\ verify_output_token_ids(q, t).num_scheduled = q.num_scheduled
<1> DEFINE Same(p, d) == /\ RequestOK(d) /\ d.status = p.status
                         /\ d.should_preempt = p.should_preempt
                         /\ d.num_scheduled = p.num_scheduled
<1>1. ASSUME NEW p, RequestOK(p) PROVE Same(p, FlushOne(p))
  BY <1>1 DEF RequestOK, RequestFields, FlushOne
<1>2. ASSUME NEW p, RequestOK(p) PROVE Same(p, EndDrop(p, t))
  <2>1. IsSeq(ReplaceTail(p.output_token_ids, 1, t))
    BY <1>2, IsSeqReplaceTail DEF RequestOK
  <2>2. RequestFields = DOMAIN p
    BY <1>2 DEF RequestOK
  <2>3. /\ DOMAIN EndDrop(p, t) = DOMAIN p
        /\ \A x \in DOMAIN p :
              x \notin {"stop_dropped", "confidence_dropped", "drop_len", "drop_end",
                        "output_token_ids", "spec_result", "flush_len", "sp_len", "fixed_idx"}
              => EndDrop(p, t)[x] = p[x]
    BY DEF EndDrop
  <2>4. /\ EndDrop(p, t).output_token_ids = ReplaceTail(p.output_token_ids, 1, t)
        /\ EndDrop(p, t).sp_len = 0
    BY <2>2 DEF EndDrop, RequestFields
  <2>5. /\ EndDrop(p, t).status = p.status /\ EndDrop(p, t).num_scheduled = p.num_scheduled
        /\ EndDrop(p, t).should_preempt = p.should_preempt
        /\ EndDrop(p, t).num_prompt_tokens = p.num_prompt_tokens
        /\ EndDrop(p, t).num_computed_tokens = p.num_computed_tokens
    BY <2>2, <2>3 DEF RequestFields
  <2> QED
    BY <1>2, <2>1, <2>3, <2>4, <2>5 DEF RequestOK
<1>3. ASSUME NEW p, RequestOK(p) PROVE Same(p, Accept(p))
  BY <1>3 DEF RequestOK, RequestFields, Accept
<1>4. ASSUME NEW p, RequestOK(p) PROVE Same(p, Correct(p, t))
  <2>1. IsSeq(ReplaceTail(p.output_token_ids, p.sp_len, t))
    BY <1>4, IsSeqReplaceTail DEF RequestOK
  <2>2. RequestFields = DOMAIN p
    BY <1>4 DEF RequestOK
  <2>3. /\ DOMAIN Correct(p, t) = DOMAIN p
        /\ \A x \in DOMAIN p :
              x \notin {"num_computed_tokens", "output_token_ids", "flush_len", "sp_len",
                        "just_fixed", "confidence_dropped", "stop_dropped", "drop_len",
                        "spec_result", "fixed_idx"}
              => Correct(p, t)[x] = p[x]
    BY DEF Correct
  <2>4. /\ Correct(p, t).output_token_ids = ReplaceTail(p.output_token_ids, p.sp_len, t)
        /\ Correct(p, t).sp_len = 0
        /\ Correct(p, t).num_computed_tokens = p.num_computed_tokens - (p.sp_len - 1)
    BY <2>2 DEF Correct, RequestFields
  <2>5. /\ Correct(p, t).status = p.status /\ Correct(p, t).num_scheduled = p.num_scheduled
        /\ Correct(p, t).should_preempt = p.should_preempt
        /\ Correct(p, t).num_prompt_tokens = p.num_prompt_tokens
    BY <2>2, <2>3 DEF RequestFields
  <2> QED
    BY <1>4, <2>1, <2>3, <2>4, <2>5 DEF RequestOK
<1>5. Same(q, [q EXCEPT !.drop_len = @ - 1])
  BY DEF RequestOK, RequestFields
<1> HIDE DEF Same
<1>6. Same(q, verify_output_token_ids(q, t))
  <2> DEFINE d == IF Dropped(q) THEN [q EXCEPT !.drop_len = @ - 1] ELSE q
  <2>1. Same(q, d)
    BY <1>5 DEF Same
  <2>2. Same(d, Accept(d)) /\ Same(d, Correct(d, t))
    BY <1>3, <1>4, <2>1 DEF Same
  <2>3. Same(q, Accept(d)) /\ Same(q, Correct(d, t))
    <3> HIDE DEF d
    <3> QED
      BY <2>1, <2>2 DEF Same
  <2>4. Same(q, FlushOne(q)) /\ Same(q, EndDrop(q, t))
    BY <1>1, <1>2
  <2>5. \/ verify_output_token_ids(q, t) = FlushOne(q)
        \/ verify_output_token_ids(q, t) = EndDrop(q, t)
        \/ verify_output_token_ids(q, t) = Accept(d)
        \/ verify_output_token_ids(q, t) = Correct(d, t)
    BY DEF verify_output_token_ids
  <2> HIDE DEF d
  <2> QED
    BY <2>3, <2>4, <2>5
<1> QED
  BY <1>6 DEF Same

\* An iteration leaves the pipeline: one less is in flight, and the request
\* may finish.
LEMMA RetireFields ==
    ASSUME NEW q, NEW slot, RequestOK(q)
    PROVE  /\ RequestOK(Retire(q, slot))
           /\ Retire(q, slot).num_scheduled = q.num_scheduled - 1
           /\ Retire(q, slot).should_preempt = q.should_preempt
           /\ \/ Retire(q, slot).status = q.status
              \/ is_finished(Retire(q, slot))
<1> DEFINE c == [q EXCEPT !.num_scheduled = @ - 1]
           v == verify_output_token_ids(c, slot.tok)
<1>1. /\ RequestOK(c) /\ c.num_scheduled = q.num_scheduled - 1
      /\ c.should_preempt = q.should_preempt /\ c.status = q.status
  BY DEF RequestOK, RequestFields
<1>2. /\ RequestOK(v) /\ v.num_scheduled = q.num_scheduled - 1
      /\ v.should_preempt = q.should_preempt /\ v.status = q.status
  <2> HIDE DEF c
  <2> QED
    BY <1>1, VerifyFields
<1>3. LET e == check_stop_from_validation(v) IN
        /\ RequestOK(e) /\ e.num_scheduled = v.num_scheduled
        /\ e.should_preempt = v.should_preempt
        /\ e.status = v.status \/ is_finished(e)
  <2> HIDE DEF v
  <2>1. ASSUME NEW st \in FinishedStatus
        PROVE  LET e == [v EXCEPT !.status = st] IN
                 /\ RequestOK(e) /\ e.num_scheduled = v.num_scheduled
                 /\ e.should_preempt = v.should_preempt /\ is_finished(e)
    BY <1>2, <2>1 DEF RequestOK, RequestFields, RequestStatus, is_finished
  <2>2. \/ check_stop_from_validation(v) = v
        \/ \E st \in FinishedStatus : check_stop_from_validation(v) = [v EXCEPT !.status = st]
    BY DEF check_stop_from_validation, FinishedStatus
  <2> QED
    BY <1>2, <2>1, <2>2
<1>4. Retire(q, slot) = c \/ Retire(q, slot) = check_stop_from_validation(v)
  BY DEF Retire
<1> HIDE DEF c, v
<1> QED
  BY <1>1, <1>2, <1>3, <1>4

\* preempt_request: should_preempt tells whether iterations are in flight.
LEMMA PreemptFields ==
    ASSUME NEW q, RequestOK(q)
    PROVE  /\ RequestOK(preempt_request(q))
           /\ preempt_request(q).status = q.status
           /\ preempt_request(q).num_scheduled = q.num_scheduled
           /\ preempt_request(q).should_preempt <=> q.num_scheduled > 0
<1>1. CASE q.num_scheduled > 0
  BY <1>1 DEF RequestOK, RequestFields, preempt_request
<1>2. CASE ~(q.num_scheduled > 0)
  <2> DEFINE p == preempt_request(q)
  <2>1. RequestFields = DOMAIN q
    BY DEF RequestOK
  <2>2. /\ DOMAIN p = DOMAIN q
        /\ \A x \in DOMAIN q :
              x \notin {"sp_len", "spec_result", "fixed_idx", "flush_len", "just_fixed",
                        "drop_len", "confidence_dropped", "stop_dropped",
                        "should_preempt", "num_computed_tokens"}
              => p[x] = q[x]
    BY <1>2 DEF preempt_request
  <2>3. p.sp_len = 0 /\ p.should_preempt = FALSE /\ p.num_computed_tokens = 0
    BY <1>2, <2>1 DEF preempt_request, RequestFields
  <2> HIDE DEF p
  <2>4. /\ p.status = q.status /\ p.num_scheduled = q.num_scheduled
        /\ p.num_prompt_tokens = q.num_prompt_tokens
        /\ p.output_token_ids = q.output_token_ids
    BY <2>1, <2>2 DEF RequestFields
  <2>5. /\ RequestOK(p) /\ p.status = q.status /\ p.num_scheduled = q.num_scheduled
        /\ (p.should_preempt <=> q.num_scheduled > 0)
    <3>1. p.sp_len \in Int /\ p.num_computed_tokens \in Int
      BY <2>3
    <3>2. p.should_preempt \in BOOLEAN
      BY <2>3, Zenon
    <3>3. RequestOK(p)
      BY <2>1, <2>2, <2>4, <3>1, <3>2, Zenon DEF RequestOK
    <3>4. p.should_preempt <=> q.num_scheduled > 0
      BY <1>2, <2>3, Zenon
    <3> QED
      BY <2>4, <3>3, <3>4
  <2> QED
    BY <2>5 DEF p
<1> QED
  BY <1>1, <1>2

\* The exit layer's token is appended.
LEMMA SpeculatedFields ==
    ASSUME NEW q, NEW t, RequestOK(q)
    PROVE  /\ RequestOK(Speculated(q, t))
           /\ Speculated(q, t).status = q.status
           /\ Speculated(q, t).should_preempt = q.should_preempt
           /\ Speculated(q, t).num_scheduled = q.num_scheduled
<1> DEFINE p == [q EXCEPT !.output_token_ids = Append(@, t), !.sp_len = @ + 1]
<1>1. IsSeq(Append(q.output_token_ids, t))
  BY IsSeqAppend DEF RequestOK
<1>2. /\ RequestOK(p) /\ p.status = q.status /\ p.should_preempt = q.should_preempt
      /\ p.num_scheduled = q.num_scheduled
  BY <1>1 DEF RequestOK, RequestFields
<1>3. Speculated(q, t) = IF check_stop_from_spec(p)
                         THEN [p EXCEPT !.stop_dropped = TRUE, !.drop_len = p.sp_len] ELSE p
  BY DEF Speculated
<1> HIDE DEF p
<1>4. LET e == [p EXCEPT !.stop_dropped = TRUE, !.drop_len = p.sp_len] IN
        /\ RequestOK(e) /\ e.status = p.status /\ e.should_preempt = p.should_preempt
        /\ e.num_scheduled = p.num_scheduled
  BY <1>2 DEF RequestOK, RequestFields
<1> QED
  BY <1>2, <1>3, <1>4

-----------------------------------------------------------------------------
(* Preemption. *)

\* PreemptOne changes the request, its place, and the note of the correction.
LEMMA PreemptOneFields ==
    ASSUME NEW s, NEW r \in Rid, DOMAIN s = LocalFields, DOMAIN s.req = Rid
    PROVE  LET p == PreemptOne(s, r)
               drained == s.req[r].num_scheduled = 0 IN
           /\ DOMAIN p = LocalFields
           /\ p.req = [s.req EXCEPT ![r] = preempt_request(s.req[r])]
           /\ p.waiting = IF drained THEN <<r>> \o s.waiting ELSE s.waiting
           /\ p.to_be_preempted = IF drained THEN s.to_be_preempted
                                  ELSE Append(s.to_be_preempted, r)
           /\ p.running = s.running /\ p.blocks = s.blocks
           /\ p.num_scheduled_tokens = s.num_scheduled_tokens
           /\ p.budget = s.budget /\ p.pc = s.pc /\ p.todo = s.todo /\ p.ask = s.ask
<1> DEFINE p == PreemptOne(s, r)
           drained == s.req[r].num_scheduled = 0
<1>1. /\ DOMAIN p = DOMAIN s
      /\ \A x \in DOMAIN s :
            x \notin {"req", "postpreempt", "waiting", "to_be_preempted", "preempted"}
            => p[x] = s[x]
  BY DEF PreemptOne
<1>2. /\ "req" \in DOMAIN s /\ "waiting" \in DOMAIN s /\ "to_be_preempted" \in DOMAIN s
      /\ "running" \in DOMAIN s /\ "blocks" \in DOMAIN s
      /\ "num_scheduled_tokens" \in DOMAIN s /\ "budget" \in DOMAIN s
      /\ "pc" \in DOMAIN s /\ "todo" \in DOMAIN s /\ "ask" \in DOMAIN s
  BY DEF LocalFields
<1>3. p.req = [s.req EXCEPT ![r] = preempt_request(s.req[r])]
  BY <1>2 DEF PreemptOne
<1>4. /\ p.waiting = IF drained THEN <<r>> \o s.waiting ELSE s.waiting
      /\ p.to_be_preempted = IF drained THEN s.to_be_preempted
                             ELSE Append(s.to_be_preempted, r)
  BY <1>2 DEF PreemptOne
<1> HIDE DEF p
<1>5. /\ p.running = s.running /\ p.blocks = s.blocks
      /\ p.num_scheduled_tokens = s.num_scheduled_tokens
      /\ p.budget = s.budget /\ p.pc = s.pc /\ p.todo = s.todo /\ p.ask = s.ask
  BY <1>1, <1>2
<1> QED
  BY <1>1, <1>3, <1>4, <1>5 DEF p

\* A preempted request that is in no list is put where it belongs: in
\* to_be_preempted when iterations of it are in flight, else in waiting.
LEMMA PreemptPlaces ==
    ASSUME NEW s, NEW r \in Rid, NEW todo, IsSeq(queue),
           DOMAIN s = LocalFields, RequestsOK(s.req),
           Listed(s.waiting), Listed(s.running), Listed(s.to_be_preempted), Listed(todo),
           \A x \in Rid \ {r} :
               PlacedAt(x, s.req[x], s.waiting, s.running, s.to_be_preempted, todo),
           ~Contains(s.waiting, r), ~Contains(s.running, r),
           ~Contains(s.to_be_preempted, r), ~Contains(todo, r),
           Contains(arrived, r), s.req[r].status = "PREEMPTED",
           BlocksOK(s.req, s.blocks), s.num_scheduled_tokens \in [Rid -> Int],
           Counted(s.req, s.num_scheduled_tokens), s.budget \in Int
    PROVE  Consistent(PreemptOne(s, r), todo)
<1> DEFINE p == PreemptOne(s, r)
           q == s.req[r]
           drained == q.num_scheduled = 0
<1>1. /\ DOMAIN p = LocalFields
      /\ p.req = [s.req EXCEPT ![r] = preempt_request(q)]
      /\ p.waiting = IF drained THEN <<r>> \o s.waiting ELSE s.waiting
      /\ p.to_be_preempted = IF drained THEN s.to_be_preempted
                             ELSE Append(s.to_be_preempted, r)
      /\ p.running = s.running /\ p.blocks = s.blocks
      /\ p.num_scheduled_tokens = s.num_scheduled_tokens
      /\ p.budget = s.budget
  BY PreemptOneFields DEF RequestsOK
<1>2. RequestOK(q) /\ DOMAIN s.req = Rid
  BY DEF RequestsOK
<1> HIDE DEF p
<1>3. /\ RequestOK(preempt_request(q))
      /\ preempt_request(q).status = q.status
      /\ preempt_request(q).num_scheduled = q.num_scheduled
      /\ preempt_request(q).should_preempt <=> q.num_scheduled > 0
  BY <1>2, PreemptFields
<1>4. p.req[r] = preempt_request(q) /\ DOMAIN p.req = Rid
      /\ \A x \in Rid \ {r} : p.req[x] = s.req[x]
  BY <1>1, <1>2
<1>5. RequestsOK(p.req)
  BY <1>3, <1>4 DEF RequestsOK
<1>6. q.num_scheduled \in Int /\ q.num_scheduled >= 0
  <2>1. q.num_scheduled >= InFlight(queue, r) + (IF s.num_scheduled_tokens[r] = 0 THEN 0 ELSE 1)
    BY DEF Counted
  <2>2. InFlight(queue, r) \in Nat
    BY HoldingFinite
  <2> QED
    BY <1>2, <2>1, <2>2 DEF RequestOK
<1>7. /\ Listed(p.waiting) /\ Listed(p.to_be_preempted)
      /\ \A x : Contains(p.waiting, x) <=> Contains(s.waiting, x) \/ (drained /\ x = r)
      /\ \A x : Contains(p.to_be_preempted, x)
                  <=> Contains(s.to_be_preempted, x) \/ (~drained /\ x = r)
  <2>1. CASE drained
    BY <1>1, <2>1, ListedCons
  <2>2. CASE ~drained
    BY <1>1, <2>2, ListedAppend
  <2> QED
    BY <2>1, <2>2
<1>8. \A x \in Rid : PlacedAt(x, p.req[x], p.waiting, p.running, p.to_be_preempted, todo)
  <2> TAKE x \in Rid
  <2>1. CASE x # r
    BY <1>1, <1>4, <1>7, <2>1 DEF PlacedAt
  <2>2. CASE x = r
    <3>1. ~(q.num_scheduled > 0) <=> drained
      BY <1>6
    <3>2. /\ InWaiting(p.req[r]) <=> drained
          /\ InToBePreempted(p.req[r]) <=> ~drained
          /\ ~InRunning(p.req[r])
      BY <1>3, <1>4, <3>1 DEF InWaiting, InToBePreempted, InRunning
    <3>3. drained => p.req[r].num_scheduled = 0
      BY <1>3, <1>4
    <3> HIDE DEF drained
    <3> QED
      BY <1>1, <1>7, <2>2, <3>2, <3>3 DEF PlacedAt
  <2> QED
    BY <2>1, <2>2
<1>9. Placed(p.req, p.waiting, p.running, p.to_be_preempted, todo)
  BY <1>1, <1>7, <1>8 DEF Placed
<1>10. BlocksOK(p.req, p.blocks)
  BY <1>1, <1>3, <1>4 DEF BlocksOK, InRunning
<1>11. Counted(p.req, p.num_scheduled_tokens)
  <2>1. \A x \in Rid : p.req[x].num_scheduled = s.req[x].num_scheduled
    BY <1>3, <1>4
  <2> QED
    BY <1>1, <2>1 DEF Counted
<1> QED
  BY <1>1, <1>5, <1>9, <1>10, <1>11 DEF Consistent, p

\* The loop over to_be_preempted looks at the next request.
LEMMA RetryConsistent ==
    ASSUME NEW s, IsSeq(queue), Consistent(s, s.todo), s.todo # <<>>
    PROVE  LET p == [PreemptOne(s, Head(s.todo)) EXCEPT !.todo = Tail(@)] IN
           Consistent(p, p.todo) /\ p.pc = s.pc
<1> DEFINE r == Head(s.todo)
           todo == Tail(s.todo)
           p == PreemptOne(s, r)
<1>1. /\ DOMAIN s = LocalFields /\ RequestsOK(s.req)
      /\ Placed(s.req, s.waiting, s.running, s.to_be_preempted, s.todo)
      /\ BlocksOK(s.req, s.blocks) /\ s.num_scheduled_tokens \in [Rid -> Int]
      /\ Counted(s.req, s.num_scheduled_tokens) /\ s.budget \in Int
  BY DEF Consistent
<1>2. /\ Listed(s.waiting) /\ Listed(s.running) /\ Listed(s.to_be_preempted) /\ Listed(s.todo)
      /\ \A x \in Rid :
            PlacedAt(x, s.req[x], s.waiting, s.running, s.to_be_preempted, s.todo)
  BY <1>1 DEF Placed
<1>3. /\ Listed(todo) /\ r \in Rid /\ Contains(s.todo, r)
      /\ \A x : Contains(todo, x) <=> Contains(s.todo, x) /\ x # r
  BY <1>2, ListedTail
<1> HIDE DEF r, todo
<1>4. PlacedAt(r, s.req[r], s.waiting, s.running, s.to_be_preempted, s.todo)
  BY <1>2, <1>3
<1>5. s.req[r].status = "PREEMPTED" /\ InToBePreempted(s.req[r]) /\ ~InWaiting(s.req[r])
      /\ ~InRunning(s.req[r])
  BY <1>3, <1>4 DEF PlacedAt, InToBePreempted, InWaiting, InRunning
<1>6. /\ ~Contains(s.waiting, r) /\ ~Contains(s.running, r)
      /\ ~Contains(s.to_be_preempted, r) /\ ~Contains(todo, r) /\ Contains(arrived, r)
  BY <1>3, <1>4, <1>5 DEF PlacedAt
<1>7. \A x \in Rid \ {r} :
          PlacedAt(x, s.req[x], s.waiting, s.running, s.to_be_preempted, todo)
  BY <1>2, <1>3 DEF PlacedAt
<1>8. Consistent(p, todo)
  BY <1>1, <1>2, <1>3, <1>5, <1>6, <1>7, PreemptPlaces
<1>9. p.todo = s.todo /\ p.pc = s.pc
  BY <1>1, <1>3, PreemptOneFields DEF RequestsOK
<1> HIDE DEF p
<1>10. DOMAIN p = LocalFields
  BY <1>8 DEF Consistent
<1>11. LET e == [p EXCEPT !.todo = Tail(@)] IN
         /\ DOMAIN e = LocalFields /\ e.todo = todo /\ e.pc = p.pc
         /\ e.req = p.req /\ e.waiting = p.waiting /\ e.running = p.running
         /\ e.to_be_preempted = p.to_be_preempted /\ e.blocks = p.blocks
         /\ e.num_scheduled_tokens = p.num_scheduled_tokens /\ e.budget = p.budget
  BY <1>9, <1>10 DEF LocalFields, todo
<1> QED
  BY <1>8, <1>9, <1>11 DEF Consistent, p, r

\* The last of running is evicted: it leaves its blocks.
LEMMA EvictConsistent ==
    ASSUME NEW s, IsSeq(queue), Consistent(s, <<>>), s.running # <<>>
    PROVE  LET p == EvictLast(s) IN
           /\ Consistent(p, <<>>) /\ DOMAIN p = LocalFields
           /\ p.running = Front(s.running) /\ p.todo = s.todo /\ p.ask = s.ask /\ p.pc = s.pc
<1> DEFINE r == Last(s.running)
           e == [s EXCEPT !.running = Front(@), !.blocks[r] = 0, !.req[r].status = "PREEMPTED"]
<1>1. /\ DOMAIN s = LocalFields /\ RequestsOK(s.req)
      /\ Placed(s.req, s.waiting, s.running, s.to_be_preempted, <<>>)
      /\ BlocksOK(s.req, s.blocks) /\ s.num_scheduled_tokens \in [Rid -> Int]
      /\ Counted(s.req, s.num_scheduled_tokens) /\ s.budget \in Int
  BY DEF Consistent
<1>2. /\ Listed(s.waiting) /\ Listed(s.running) /\ Listed(s.to_be_preempted)
      /\ \A x \in Rid : PlacedAt(x, s.req[x], s.waiting, s.running, s.to_be_preempted, <<>>)
  BY <1>1 DEF Placed
<1>3. /\ Listed(Front(s.running)) /\ r \in Rid /\ Contains(s.running, r)
      /\ \A x : Contains(Front(s.running), x) <=> Contains(s.running, x) /\ x # r
  BY <1>2, ListedFront
<1> HIDE DEF r
<1>4. PlacedAt(r, s.req[r], s.waiting, s.running, s.to_be_preempted, <<>>)
  BY <1>2, <1>3
<1>5. s.req[r].status = "RUNNING"
  BY <1>3, <1>4 DEF PlacedAt, InRunning
<1>6. /\ ~Contains(s.waiting, r) /\ ~Contains(s.to_be_preempted, r) /\ Contains(arrived, r)
  BY <1>3, <1>4, <1>5 DEF PlacedAt, InWaiting, InToBePreempted
<1>7. /\ DOMAIN e = LocalFields
      /\ e.running = Front(s.running) /\ e.blocks = [s.blocks EXCEPT ![r] = 0]
      /\ e.req = [s.req EXCEPT ![r] = [s.req[r] EXCEPT !.status = "PREEMPTED"]]
      /\ e.waiting = s.waiting /\ e.to_be_preempted = s.to_be_preempted
      /\ e.num_scheduled_tokens = s.num_scheduled_tokens
      /\ e.budget = s.budget /\ e.pc = s.pc /\ e.todo = s.todo /\ e.ask = s.ask
  BY <1>1 DEF LocalFields
<1> HIDE DEF e
<1>8. /\ DOMAIN e.req = Rid /\ e.req[r] = [s.req[r] EXCEPT !.status = "PREEMPTED"]
      /\ \A x \in Rid \ {r} : e.req[x] = s.req[x]
  BY <1>1, <1>3, <1>7 DEF RequestsOK
<1>9. /\ RequestOK(e.req[r]) /\ e.req[r].status = "PREEMPTED"
      /\ e.req[r].num_scheduled = s.req[r].num_scheduled
  <2>1. RequestOK(s.req[r])
    BY <1>1, <1>3 DEF RequestsOK
  <2> QED
    BY <1>8, <2>1 DEF RequestOK, RequestFields, RequestStatus
<1>10. RequestsOK(e.req)
  BY <1>1, <1>8, <1>9 DEF RequestsOK
<1>11. \A x \in Rid \ {r} :
          PlacedAt(x, e.req[x], e.waiting, e.running, e.to_be_preempted, <<>>)
  BY <1>2, <1>3, <1>7, <1>8 DEF PlacedAt
<1>12. BlocksOK(e.req, e.blocks)
  <2>1. s.blocks \in [Rid -> 0..MaxBlocksPerReq] /\ MaxBlocksPerReq \in Nat
    BY <1>1, MaxBlocksType DEF BlocksOK
  <2>2. /\ e.blocks \in [Rid -> 0..MaxBlocksPerReq] /\ e.blocks[r] = 0
        /\ \A x \in Rid \ {r} : e.blocks[x] = s.blocks[x]
    BY <1>3, <1>7, <2>1
  <2>3. \A x \in Rid : e.blocks[x] <= s.blocks[x]
    BY <2>1, <2>2
  <2>4. s.blocks \in [Rid -> Nat] /\ e.blocks \in [Rid -> Nat]
    BY <2>1, <2>2
  <2>5. Cardinality(HeldBlocks(e.blocks)) <= Cardinality(HeldBlocks(s.blocks))
    BY <2>3, <2>4, HeldFewer
  <2>6. Cardinality(HeldBlocks(e.blocks)) \in Nat /\ Cardinality(HeldBlocks(s.blocks)) \in Nat
    BY <2>4, HeldFinite
  <2>7. Cardinality(HeldBlocks(e.blocks)) <= NumBlocks
    BY <1>1, <2>5, <2>6, SizeAssumption DEF BlocksOK
  <2>8. \A x \in Rid : ~InRunning(e.req[x]) => e.blocks[x] = 0
    BY <1>1, <1>8, <2>2 DEF BlocksOK
  <2> QED
    BY <2>2, <2>7, <2>8 DEF BlocksOK
<1>13. Counted(e.req, e.num_scheduled_tokens)
  BY <1>1, <1>7, <1>8, <1>9 DEF Counted
<1>14. Consistent(PreemptOne(e, r), <<>>)
  <2>1. /\ Listed(e.waiting) /\ Listed(e.running) /\ Listed(e.to_be_preempted)
        /\ ~Contains(e.waiting, r) /\ ~Contains(e.running, r)
        /\ ~Contains(e.to_be_preempted, r)
        /\ e.num_scheduled_tokens \in [Rid -> Int] /\ e.budget \in Int
    BY <1>1, <1>2, <1>3, <1>6, <1>7
  <2>2. Listed(<<>>) /\ ~Contains(<<>>, r)
    BY ListedEmpty
  <2>3. DOMAIN e = LocalFields
    BY <1>7
  <2> QED
    BY <1>3, <1>6, <1>9, <1>10, <1>11, <1>12, <1>13, <2>1, <2>2, <2>3, PreemptPlaces
<1>15. EvictLast(s) = PreemptOne(e, r)
  BY DEF EvictLast, e, r
<1>16. LET p == PreemptOne(e, r) IN
         /\ DOMAIN p = LocalFields
         /\ p.running = e.running /\ p.todo = e.todo /\ p.ask = e.ask /\ p.pc = e.pc
  <2>1. DOMAIN e = LocalFields /\ DOMAIN e.req = Rid
    BY <1>7, <1>8
  <2> QED
    BY <1>3, <2>1, PreemptOneFields
<1> QED
  BY <1>7, <1>14, <1>15, <1>16

-----------------------------------------------------------------------------
(* Allocation. *)

\* allocate_slots hands out at most what is free, and at most max_model_len
\* tokens' worth.
LEMMA AllocateBlocks ==
    ASSUME NEW s, NEW r \in Rid, NEW n \in Int, Consistent(s, <<>>)
    PROVE  LET a == allocate_slots(s, r, n) IN
           /\ a.blocks \in [Rid -> 0..MaxBlocksPerReq]
           /\ Cardinality(HeldBlocks(a.blocks)) <= NumBlocks
           /\ \A x \in Rid \ {r} : a.blocks[x] = s.blocks[x]
           /\ DOMAIN a = LocalFields
           /\ \A x \in LocalFields \ {"blocks"} : a[x] = s[x]
<1> DEFINE a == allocate_slots(s, r, n)
           new == num_new_blocks(s, r, n)
           free == num_free_blocks(s)
           rest == MaxBlocksPerReq - s.blocks[r]
           m == Least(new + NumPreallocateBlocks, Least(free, rest))
<1>1. /\ DOMAIN s = LocalFields /\ BlocksOK(s.req, s.blocks) /\ RequestsOK(s.req)
  BY DEF Consistent
<1>2. /\ s.blocks \in [Rid -> 0..MaxBlocksPerReq] /\ MaxBlocksPerReq \in Nat
      /\ s.blocks \in [Rid -> Nat]
      /\ Cardinality(HeldBlocks(s.blocks)) <= NumBlocks
  BY <1>1, MaxBlocksType DEF BlocksOK
<1>3. Cardinality(HeldBlocks(s.blocks)) \in Nat
  BY <1>2, HeldFinite
<1>4. free \in Nat /\ free = NumBlocks - Cardinality(HeldBlocks(s.blocks))
  BY <1>2, <1>3, SizeAssumption DEF num_free_blocks
<1>5. rest \in Nat
  BY <1>2
<1>6. new \in Int
  <2>1. s.req[r].num_computed_tokens \in Int
    BY <1>1 DEF RequestsOK, RequestOK
  <2>2. PICK c \in Int : c = s.req[r].num_computed_tokens + n
    BY <2>1
  <2>3. c + BlockSize - 1 \in Int /\ BlockSize \in Nat \ {0}
    BY <2>2, SizeAssumption
  <2>4. CeilDiv(c, BlockSize) \in Int
    BY <2>3 DEF CeilDiv
  <2> QED
    BY <1>2, <2>2, <2>4 DEF num_new_blocks
<1>7. CASE new <= 0
  <2>1. a = s
    BY <1>7 DEF allocate_slots
  <2> QED
    BY <1>1, <1>2, <2>1
<1>8. CASE ~(new <= 0)
  <2>1. a = [s EXCEPT !.blocks[r] = @ + m]
    BY <1>8 DEF allocate_slots, MaxBlocksPerReq
  <2>2. m \in Nat /\ m <= free /\ m <= rest
    <3> HIDE DEF new, free, rest
    <3> QED
      BY <1>4, <1>5, <1>6, <1>8, SizeAssumption DEF Least
  <2> HIDE DEF m, a
  <2>3. /\ DOMAIN a = LocalFields /\ a.blocks = [s.blocks EXCEPT ![r] = @ + m]
        /\ \A x \in LocalFields \ {"blocks"} : a[x] = s[x]
    <3>1. "blocks" \in DOMAIN s
      BY <1>1 DEF LocalFields
    <3> QED
      BY <1>1, <2>1, <3>1
  <2>4. Cardinality(HeldBlocks(a.blocks)) = Cardinality(HeldBlocks(s.blocks)) + m
    BY <1>2, <2>2, <2>3, HeldMore
  <2>5. Cardinality(HeldBlocks(a.blocks)) <= NumBlocks
    <3> HIDE DEF free
    <3> QED
      BY <1>3, <1>4, <2>2, <2>4, SizeAssumption
  <2>6. a.blocks[r] = s.blocks[r] + m /\ a.blocks[r] \in 0..MaxBlocksPerReq
    BY <1>2, <2>2, <2>3
  <2>7. a.blocks \in [Rid -> 0..MaxBlocksPerReq] /\ \A x \in Rid \ {r} : a.blocks[x] = s.blocks[x]
    BY <1>2, <2>3, <2>6
  <2> QED
    BY <2>3, <2>5, <2>7 DEF a
<1> QED
  BY <1>7, <1>8

\* One more iteration of a request is in flight.
OneMore(q) == [q EXCEPT !.num_scheduled = @ + 1]

\* p is s with r in the batch with n tokens.
IsPut(s, r, n, p) ==
    /\ DOMAIN p = LocalFields
    /\ p.req = [s.req EXCEPT ![r] = OneMore(s.req[r])]
    /\ p.num_scheduled_tokens = [s.num_scheduled_tokens EXCEPT ![r] = n]
    /\ p.budget \in Int
    /\ p.waiting = s.waiting /\ p.running = s.running
    /\ p.to_be_preempted = s.to_be_preempted
    /\ p.pc = s.pc /\ p.todo = s.todo /\ p.ask = s.ask
    /\ p.blocks \in [Rid -> 0..MaxBlocksPerReq]
    /\ Cardinality(HeldBlocks(p.blocks)) <= NumBlocks
    /\ \A x \in Rid \ {r} : p.blocks[x] = s.blocks[x]

\* A request gets its blocks and its place in the batch.
LEMMA PutFields ==
    ASSUME NEW s, NEW r \in Rid, NEW n \in Int, Consistent(s, <<>>)
    PROVE  IsPut(s, r, n, Put(allocate_slots(s, r, n), r, n))
<1> DEFINE a == allocate_slots(s, r, n)
           p == Put(a, r, n)
<1>1. /\ DOMAIN a = LocalFields /\ \A x \in LocalFields \ {"blocks"} : a[x] = s[x]
      /\ a.blocks \in [Rid -> 0..MaxBlocksPerReq]
      /\ Cardinality(HeldBlocks(a.blocks)) <= NumBlocks
      /\ \A x \in Rid \ {r} : a.blocks[x] = s.blocks[x]
  BY AllocateBlocks
<1>2. /\ a.req = s.req /\ a.num_scheduled_tokens = s.num_scheduled_tokens
      /\ a.budget = s.budget /\ a.waiting = s.waiting /\ a.running = s.running
      /\ a.to_be_preempted = s.to_be_preempted
      /\ a.pc = s.pc /\ a.todo = s.todo /\ a.ask = s.ask
  BY <1>1 DEF LocalFields
<1> HIDE DEF a
<1>3. /\ DOMAIN p = DOMAIN a
      /\ \A x \in DOMAIN a : x \notin {"req", "num_scheduled_tokens", "budget"} => p[x] = a[x]
  BY DEF Put
<1>4. /\ p.req = [a.req EXCEPT ![r].num_scheduled = @ + 1]
      /\ p.num_scheduled_tokens = [a.num_scheduled_tokens EXCEPT ![r] = n]
      /\ p.budget = a.budget - n
  BY <1>1 DEF Put, LocalFields
<1> HIDE DEF p
<1>5. /\ p.waiting = a.waiting /\ p.running = a.running /\ p.blocks = a.blocks
      /\ p.to_be_preempted = a.to_be_preempted
      /\ p.pc = a.pc /\ p.todo = a.todo /\ p.ask = a.ask
  BY <1>1, <1>3 DEF LocalFields
<1>6. p.req = [s.req EXCEPT ![r] = OneMore(s.req[r])]
  BY <1>2, <1>4 DEF OneMore
<1>7. p.budget \in Int
  BY <1>2, <1>4 DEF Consistent
<1>8. DOMAIN p = LocalFields
  BY <1>1, <1>3
<1> QED
  BY <1>1, <1>2, <1>4, <1>5, <1>6, <1>7, <1>8 DEF p, a, IsPut

\* One more iteration is counted for a request.
LEMMA PutCounts ==
    ASSUME NEW q, RequestOK(q)
    PROVE  /\ RequestOK(OneMore(q)) /\ OneMore(q).num_scheduled = q.num_scheduled + 1
           /\ OneMore(q).status = q.status /\ OneMore(q).should_preempt = q.should_preempt
  BY DEF RequestOK, RequestFields, OneMore

\* A running request gets what it asked for.
LEMMA PutRunningConsistent ==
    ASSUME NEW s, NEW r \in Rid, NEW n \in Int, Consistent(s, <<>>), IsSeq(queue),
           Contains(s.running, r)
    PROVE  Consistent(Put(allocate_slots(s, r, n), r, n), <<>>)
<1> DEFINE p == Put(allocate_slots(s, r, n), r, n)
           q == OneMore(s.req[r])
<1>0. IsPut(s, r, n, p)
  BY PutFields
<1> HIDE DEF p
<1>1. /\ DOMAIN p = LocalFields
      /\ p.req = [s.req EXCEPT ![r] = q]
      /\ p.num_scheduled_tokens = [s.num_scheduled_tokens EXCEPT ![r] = n]
      /\ p.budget \in Int
      /\ p.waiting = s.waiting /\ p.running = s.running
      /\ p.to_be_preempted = s.to_be_preempted
      /\ p.blocks \in [Rid -> 0..MaxBlocksPerReq]
      /\ Cardinality(HeldBlocks(p.blocks)) <= NumBlocks
      /\ \A x \in Rid \ {r} : p.blocks[x] = s.blocks[x]
  BY <1>0 DEF IsPut
<1>2. /\ RequestsOK(s.req) /\ DOMAIN s.req = Rid /\ RequestOK(s.req[r])
      /\ Placed(s.req, s.waiting, s.running, s.to_be_preempted, <<>>)
      /\ BlocksOK(s.req, s.blocks) /\ s.num_scheduled_tokens \in [Rid -> Int]
      /\ Counted(s.req, s.num_scheduled_tokens)
  BY DEF Consistent, RequestsOK
<1>3. /\ RequestOK(q) /\ q.num_scheduled = s.req[r].num_scheduled + 1
      /\ q.status = s.req[r].status /\ q.should_preempt = s.req[r].should_preempt
  BY <1>2, PutCounts
<1> HIDE DEF q
<1>4. /\ p.req[r] = q /\ DOMAIN p.req = Rid
      /\ \A x \in Rid \ {r} : p.req[x] = s.req[x]
  BY <1>1, <1>2
<1>5. RequestsOK(p.req)
  BY <1>2, <1>3, <1>4 DEF RequestsOK
<1>6. \A x \in Rid : /\ InWaiting(p.req[x]) <=> InWaiting(s.req[x])
                     /\ InRunning(p.req[x]) <=> InRunning(s.req[x])
                     /\ InToBePreempted(p.req[x]) <=> InToBePreempted(s.req[x])
                     /\ p.req[x].status = s.req[x].status
  BY <1>3, <1>4 DEF InWaiting, InRunning, InToBePreempted
<1>7. Placed(p.req, p.waiting, p.running, p.to_be_preempted, <<>>)
  <2>1. ~InWaiting(s.req[r])
    BY <1>2 DEF Placed, PlacedAt, InWaiting, InRunning
  <2>2. \A x \in Rid : InWaiting(s.req[x]) => p.req[x].num_scheduled = s.req[x].num_scheduled
    BY <1>4, <2>1
  <2> QED
    BY <1>1, <1>2, <1>6, <2>2 DEF Placed, PlacedAt
<1>8. BlocksOK(p.req, p.blocks)
  <2>1. InRunning(p.req[r])
    BY <1>2, <1>6 DEF Placed, PlacedAt
  <2> QED
    BY <1>1, <1>2, <1>6, <2>1 DEF BlocksOK
<1>9. Counted(p.req, p.num_scheduled_tokens)
  <2> SUFFICES ASSUME NEW x \in Rid
               PROVE  p.req[x].num_scheduled >=
                         InFlight(queue, x) + (IF p.num_scheduled_tokens[x] = 0 THEN 0 ELSE 1)
    BY DEF Counted
  <2>1. s.req[x].num_scheduled >=
           InFlight(queue, x) + (IF s.num_scheduled_tokens[x] = 0 THEN 0 ELSE 1)
    BY <1>2 DEF Counted
  <2>2. InFlight(queue, x) \in Nat /\ s.req[x].num_scheduled \in Int
    BY <1>2, HoldingFinite DEF RequestsOK, RequestOK
  <2>3. CASE x = r
    BY <1>3, <1>4, <2>1, <2>2, <2>3
  <2>4. CASE x # r
    BY <1>1, <1>2, <1>4, <2>1, <2>4
  <2> QED
    BY <2>3, <2>4
<1>10. p.num_scheduled_tokens \in [Rid -> Int]
  BY <1>1, <1>2
<1> QED
  BY <1>1, <1>5, <1>7, <1>8, <1>9, <1>10 DEF Consistent, p

-----------------------------------------------------------------------------
(* The steps of schedule(). *)

\* The fields that Consistent reads, except for the requests.
SamePlaces(s, t) ==
    /\ DOMAIN t = LocalFields
    /\ t.waiting = s.waiting /\ t.running = s.running
    /\ t.to_be_preempted = s.to_be_preempted /\ t.blocks = s.blocks
    /\ t.num_scheduled_tokens = s.num_scheduled_tokens /\ t.budget = s.budget

\* A request whose status and count stay the same stays where it is.
SameRequest(q, p) ==
    /\ RequestOK(p) /\ p.status = q.status
    /\ p.should_preempt = q.should_preempt /\ p.num_scheduled = q.num_scheduled

\* Requests that keep status and counts leave a consistent state consistent: what
\* steps need that only touch tokens.
LEMMA SameConsistent ==
    ASSUME NEW s, NEW t, NEW todo, Consistent(s, todo), SamePlaces(s, t),
           DOMAIN t.req = Rid, \A x \in Rid : SameRequest(s.req[x], t.req[x])
    PROVE  Consistent(t, todo)
<1>1. /\ Placed(s.req, s.waiting, s.running, s.to_be_preempted, todo)
      /\ BlocksOK(s.req, s.blocks) /\ s.num_scheduled_tokens \in [Rid -> Int]
      /\ Counted(s.req, s.num_scheduled_tokens) /\ s.budget \in Int
  BY DEF Consistent
<1>2. RequestsOK(t.req)
  BY DEF RequestsOK, SameRequest
<1>3. \A x \in Rid : /\ InWaiting(t.req[x]) <=> InWaiting(s.req[x])
                     /\ InRunning(t.req[x]) <=> InRunning(s.req[x])
                     /\ InToBePreempted(t.req[x]) <=> InToBePreempted(s.req[x])
                     /\ t.req[x].status = s.req[x].status
                     /\ t.req[x].num_scheduled = s.req[x].num_scheduled
  BY DEF InWaiting, InRunning, InToBePreempted, SameRequest
<1>4. Placed(t.req, t.waiting, t.running, t.to_be_preempted, todo)
  BY <1>1, <1>3 DEF Placed, PlacedAt, SamePlaces
<1>5. BlocksOK(t.req, t.blocks)
  BY <1>1, <1>3 DEF BlocksOK, SamePlaces
<1>6. Counted(t.req, t.num_scheduled_tokens)
  BY <1>1, <1>3 DEF Counted, SamePlaces
<1> QED
  BY <1>1, <1>2, <1>4, <1>5, <1>6 DEF Consistent, SamePlaces

\* The case in which the requests are not touched at all.
LEMMA SameAllConsistent ==
    ASSUME NEW s, NEW t, NEW todo, Consistent(s, todo), SamePlaces(s, t), t.req = s.req
    PROVE  Consistent(t, todo)
  BY DEF Consistent, SamePlaces

\* A step of schedule() that leads to a good local state keeps the invariant.
LEMMA LocalStep ==
    ASSUME NEW t, NEW pc, SchedInv, phase = "schedule", LocalInv(t), Local(pc, t)
    PROVE  SchedInv'
<1>1. /\ requests' = requests /\ waiting' = waiting
      /\ running_scheduled' = running_scheduled /\ to_be_preempted' = to_be_preempted
      /\ req_to_blocks' = req_to_blocks /\ phase' = phase /\ queue' = queue
      /\ arrived' = arrived /\ local' = t
  BY DEF Local, schedVars
<1>2. PublishedInv'
  BY <1>1 DEF SchedInv, PublishedInv, Placed, PlacedAt, Counted
<1>3. \A s, todo : Consistent(s, todo) => (Consistent(s, todo))'
  BY <1>1 DEF Consistent, Placed, PlacedAt, Counted
<1>4. LocalInv(local)'
  BY <1>1, <1>3 DEF LocalInv
<1> QED
  BY <1>1, <1>2, <1>4 DEF SchedInv

\* In a call of schedule().
LEMMA InCall ==
    ASSUME SchedInv, local.pc # "idle"
    PROVE  phase = "schedule" /\ LocalInv(local) /\ IsSeq(queue)
<1>1. NoCall.pc = "idle"
  BY DEF NoCall
<1> QED
  BY <1>1 DEF SchedInv

\* schedule() starts with every list as the last call left it (scheduler.py:195).
LEMMA ScheduleKeeps ==
    ASSUME SchedInv, schedule
    PROVE  SchedInv'
<1> DEFINE t == [pc |-> "preempt", todo |-> to_be_preempted,
                 req |-> requests, waiting |-> waiting, running |-> running_scheduled,
                 to_be_preempted |-> <<>>, postpreempt |-> postpreempt,
                 blocks |-> req_to_blocks,
                 num_scheduled_tokens |-> [r \in Rid |-> 0],
                 new |-> {}, resumed |-> {}, preempted |-> FALSE,
                 passed |-> {}, ask |-> <<>>, estimate |-> FALSE,
                 budget |-> MaxNumBatchedTokens]
<1>1. phase = "schedule" /\ Local("idle", t)
  BY DEF schedule
<1>2. /\ DOMAIN t = LocalFields /\ t.pc = "preempt" /\ t.todo = to_be_preempted
      /\ t.req = requests /\ t.waiting = waiting /\ t.running = running_scheduled
      /\ t.to_be_preempted = <<>> /\ t.blocks = req_to_blocks
      /\ t.num_scheduled_tokens = NoTokens /\ t.budget = MaxNumBatchedTokens
  BY DEF LocalFields, NoTokens
<1> HIDE DEF t
<1>3. /\ RequestsOK(requests)
      /\ Placed(requests, waiting, running_scheduled, to_be_preempted, <<>>)
      /\ BlocksOK(requests, req_to_blocks)
      /\ Counted(requests, NoTokens)
  BY DEF SchedInv, PublishedInv
<1>4. Placed(requests, waiting, running_scheduled, <<>>, to_be_preempted)
  BY <1>3 DEF Placed, PlacedAt
<1>5. MaxNumBatchedTokens \in Int /\ NoTokens \in [Rid -> Int]
  BY SizeAssumption DEF NoTokens
<1>6. Consistent(t, t.todo)
  BY <1>2, <1>3, <1>4, <1>5 DEF Consistent
<1>7. LocalInv(t)
  BY <1>2, <1>6 DEF LocalInv
<1> QED
  BY <1>1, <1>7, LocalStep

\* The retry of postponed preemptions moves only requests whose iterations have
\* all returned (scheduler.py:247).
LEMMA RetryKeeps ==
    ASSUME SchedInv, RetryPreemption
    PROVE  SchedInv'
<1> DEFINE t == [PreemptOne(local, Head(local.todo)) EXCEPT !.todo = Tail(@)]
<1>1. local.pc = "preempt" /\ local.todo # <<>> /\ Local("preempt", t)
  BY DEF RetryPreemption
<1>2. phase = "schedule" /\ LocalInv(local) /\ IsSeq(queue)
  BY <1>1, InCall
<1>3. Consistent(local, local.todo)
  BY <1>1, <1>2 DEF LocalInv
<1>4. Consistent(t, t.todo) /\ t.pc = "preempt"
  BY <1>1, <1>2, <1>3, RetryConsistent
<1> HIDE DEF t
<1>5. LocalInv(t)
  BY <1>4 DEF LocalInv
<1> QED
  BY <1>1, <1>2, <1>5, LocalStep

\* A confidence drop keeps a request in running_scheduled and changes only its status.
LEMMA ConfidenceDropKeeps ==
    ASSUME SchedInv, apply_confidence_drop
    PROVE  SchedInv'
<1>1. local.pc = "preempt" /\ local.todo = <<>>
  BY DEF apply_confidence_drop
<1>2. PICK passed : Local("preempt", [local EXCEPT !.pc = "running", !.todo = local.running,
                                                   !.passed = passed])
  BY DEF apply_confidence_drop
<1> DEFINE t == [local EXCEPT !.pc = "running", !.todo = local.running, !.passed = passed]
<1>3. phase = "schedule" /\ LocalInv(local)
  BY <1>1, InCall
<1>4. Consistent(local, <<>>) /\ DOMAIN local = LocalFields
  BY <1>1, <1>3 DEF LocalInv, Consistent
<1>5. /\ SamePlaces(local, t) /\ t.req = local.req
      /\ t.pc = "running" /\ t.todo = t.running
  BY <1>4 DEF SamePlaces, LocalFields
<1> HIDE DEF t
<1>6. Consistent(t, <<>>)
  BY <1>4, <1>5, SameAllConsistent
<1>7. Suffix(t.todo, t.running)
  <2>1. t.running \in Seq(Rid)
    BY <1>6 DEF Consistent, Placed, Listed
  <2> QED
    BY <1>5, <2>1 DEF Suffix
<1>8. LocalInv(t)
  BY <1>5, <1>6, <1>7 DEF LocalInv
<1> QED
  BY <1>2, <1>3, <1>8, LocalStep DEF t

\* The next of a suffix, and the rest of it.
LEMMA SuffixTail ==
    ASSUME NEW todo, NEW run, run \in Seq(Rid), Suffix(todo, run), todo # <<>>
    PROVE  /\ Suffix(Tail(todo), run) /\ Len(Tail(todo)) < Len(run)
           /\ Head(todo) = run[Len(run) - Len(Tail(todo))]
           /\ Head(todo) \in Rid
<1>1. /\ todo \in Seq(Rid) /\ Len(todo) \in Nat \ {0} /\ Tail(todo) \in Seq(Rid)
      /\ Len(Tail(todo)) = Len(todo) - 1 /\ Head(todo) = todo[1] /\ Head(todo) \in Rid
      /\ \A i \in 1..(Len(todo) - 1) : Tail(todo)[i] = todo[i + 1]
      /\ Len(run) \in Nat /\ Len(todo) <= Len(run)
  BY DEF Suffix
<1>2. todo[1] = run[Len(run) - Len(todo) + 1]
  BY <1>1 DEF Suffix
<1>3. Len(run) - Len(todo) + 1 = Len(run) - Len(Tail(todo))
  BY <1>1
<1>4. ASSUME NEW k \in 1..Len(Tail(todo))
      PROVE  Tail(todo)[k] = run[Len(run) - Len(Tail(todo)) + k]
  <2>1. k + 1 \in 1..Len(todo) /\ Tail(todo)[k] = todo[k + 1]
    BY <1>1
  <2>2. todo[k + 1] = run[Len(run) - Len(todo) + (k + 1)]
    BY <2>1 DEF Suffix
  <2>3. Len(run) - Len(todo) + (k + 1) = Len(run) - Len(Tail(todo)) + k
    BY <1>1
  <2> QED
    BY <2>1, <2>2, <2>3
<1> QED
  BY <1>1, <1>2, <1>3, <1>4 DEF Suffix

\* The tokens a request still needs are a number.
LEMMA CapType ==
    ASSUME NEW s, NEW n \in Int, s.budget \in Int
    PROVE  CapTokens(s, n) \in Int
  BY SizeAssumption DEF CapTokens, Least

\* The number of tokens a request is due is an integer.
LEMMA DueType ==
    ASSUME NEW q, RequestOK(q)
    PROVE  num_tokens(q) \in Int /\ TokensDue(q) \in Int
<1>1. Len(q.output_token_ids) \in Nat
  BY IsSeqLen DEF RequestOK
<1> QED
  BY <1>1 DEF RequestOK, num_tokens, TokensDue

\* One turn of the running loop hands tokens to a request that is in its list.
LEMMA ScheduleRunningKeeps ==
    ASSUME SchedInv, ScheduleRunning
    PROVE  SchedInv'
<1> DEFINE r == Head(local.todo)
           q == local.req[r]
           s == [local EXCEPT !.todo = Tail(@)]
           d == [s EXCEPT !.req[r].drop_end = FALSE]
           Ask(t, n) == [t EXCEPT !.pc = "allocate", !.ask = <<r, CapTokens(t, n)>>]
           real == IF q.num_computed_tokens < q.num_prompt_tokens THEN TokensDue(q) ELSE 1
           dropped == [s EXCEPT !.req[r] = ConfidenceDropped(@)]
<1>1. local.pc = "running" /\ local.todo # <<>>
  BY DEF ScheduleRunning
<1>2. phase = "schedule" /\ LocalInv(local) /\ IsSeq(queue)
  BY <1>1, InCall
<1>3. Consistent(local, <<>>) /\ Suffix(local.todo, local.running)
  BY <1>1, <1>2 DEF LocalInv
<1>4. DOMAIN local = LocalFields /\ DOMAIN local.req = Rid /\ local.running \in Seq(Rid)
      /\ local.budget \in Int
  BY <1>3 DEF Consistent, RequestsOK, Placed, Listed
<1>5. /\ Suffix(Tail(local.todo), local.running)
      /\ Len(Tail(local.todo)) < Len(local.running)
      /\ r = local.running[Len(local.running) - Len(Tail(local.todo))]
      /\ r \in Rid
  BY <1>1, <1>3, <1>4, SuffixTail
<1>6. RequestOK(q)
  BY <1>3, <1>5 DEF Consistent, RequestsOK
<1>7. real \in Int /\ TokensDue(q) \in Int
  BY <1>6, DueType
<1>8. \/ Local("running", Ask(d, real))
      \/ Local("running", s)
      \/ Local("running", Ask(s, TokensDue(q)))
      \/ Local("running", dropped)
  BY DEF ScheduleRunning
<1> HIDE DEF r, q, real
<1>9. /\ SamePlaces(local, s) /\ s.req = local.req /\ s.todo = Tail(local.todo)
      /\ s.pc = "running"
  BY <1>1, <1>4 DEF SamePlaces, LocalFields
<1> HIDE DEF s
<1>10. Consistent(s, <<>>)
  BY <1>3, <1>9, SameAllConsistent
<1>11. DOMAIN s = LocalFields /\ DOMAIN s.req = Rid /\ s.budget \in Int
       /\ s.running = local.running
  BY <1>4, <1>9 DEF SamePlaces
\* Asking for slots changes only pc and ask.
<1>12. ASSUME NEW t, NEW n \in Int, Consistent(t, <<>>), t.todo = s.todo, t.running = s.running,
              Local("running", Ask(t, n))
       PROVE  SchedInv'
  <2> DEFINE a == Ask(t, n)
  <2>1. DOMAIN t = LocalFields /\ t.budget \in Int
    BY <1>12 DEF Consistent
  <2>2. /\ SamePlaces(t, a) /\ a.req = t.req /\ a.todo = t.todo
        /\ a.pc = "allocate" /\ a.ask = <<r, CapTokens(t, n)>>
    BY <2>1 DEF SamePlaces, LocalFields
  <2>3. CapTokens(t, n) \in Int
    BY <1>12, <2>1, CapType
  <2>4. Local("running", a)
    BY <1>12
  <2> HIDE DEF a, Ask
  <2>5. Consistent(a, <<>>)
    BY <1>12, <2>2, SameAllConsistent
  <2>6. a.ask[1] = r /\ a.ask[2] \in Int
    BY <2>2, <2>3
  <2>7. a.running = local.running /\ a.todo = Tail(local.todo)
    BY <1>9, <1>11, <1>12, <2>2 DEF SamePlaces
  <2>8. LocalInv(a)
    BY <1>5, <2>2, <2>5, <2>6, <2>7 DEF LocalInv
  <2> QED
    BY <1>2, <2>4, <2>8, LocalStep
<1>13. CASE Local("running", Ask(d, real))
  <2>1. /\ SamePlaces(s, d) /\ d.todo = s.todo
        /\ d.req = [s.req EXCEPT ![r] = [s.req[r] EXCEPT !.drop_end = FALSE]]
    BY <1>11 DEF SamePlaces, LocalFields
  <2> HIDE DEF d, Ask
  <2>2. SameRequest(q, [q EXCEPT !.drop_end = FALSE])
    BY <1>6 DEF SameRequest, RequestOK, RequestFields
  <2>3. \A x \in Rid : SameRequest(s.req[x], s.req[x])
    BY <1>10 DEF SameRequest, Consistent, RequestsOK
  <2>4. DOMAIN d.req = Rid /\ \A x \in Rid : SameRequest(s.req[x], d.req[x])
    BY <1>5, <1>9, <1>11, <2>1, <2>2, <2>3 DEF q
  <2>5. Consistent(d, <<>>)
    BY <1>10, <2>1, <2>4, SameConsistent
  <2>6. d.running = s.running
    BY <2>1 DEF SamePlaces
  <2> QED
    BY <1>7, <1>12, <1>13, <2>1, <2>5, <2>6
<1>14. CASE Local("running", s)
  <2>1. Suffix(s.todo, s.running)
    BY <1>5, <1>9, <1>11
  <2>2. LocalInv(s)
    BY <1>9, <1>10, <2>1 DEF LocalInv
  <2> QED
    BY <1>2, <1>14, <2>2, LocalStep
<1>15. CASE Local("running", Ask(s, TokensDue(q)))
  BY <1>7, <1>10, <1>12, <1>15
<1>16. CASE Local("running", dropped)
  <2>1. /\ SamePlaces(s, dropped) /\ dropped.todo = s.todo /\ dropped.pc = s.pc
        /\ dropped.req = [s.req EXCEPT ![r] = ConfidenceDropped(s.req[r])]
    BY <1>11 DEF SamePlaces, LocalFields
  <2> HIDE DEF dropped
  <2>2. SameRequest(q, ConfidenceDropped(q))
    BY <1>6 DEF SameRequest, RequestOK, RequestFields, ConfidenceDropped
  <2>3. \A x \in Rid : SameRequest(s.req[x], s.req[x])
    BY <1>10 DEF SameRequest, Consistent, RequestsOK
  <2>4. DOMAIN dropped.req = Rid /\ \A x \in Rid : SameRequest(s.req[x], dropped.req[x])
    BY <1>5, <1>9, <1>11, <2>1, <2>2, <2>3 DEF q
  <2>5. Consistent(dropped, <<>>)
    BY <1>10, <2>1, <2>4, SameConsistent
  <2>6. Suffix(dropped.todo, dropped.running)
    BY <1>5, <1>9, <1>11, <2>1 DEF SamePlaces
  <2>7. LocalInv(dropped)
    BY <1>9, <2>1, <2>5, <2>6 DEF LocalInv
  <2> QED
    BY <1>2, <1>16, <2>7, LocalStep
<1> QED
  BY <1>8, <1>13, <1>14, <1>15, <1>16

\* Eviction takes the last of running, which the loop has still to visit.
LEMMA SuffixFront ==
    ASSUME NEW todo, NEW run, run \in Seq(Rid), Suffix(todo, run), Len(todo) < Len(run),
           Front(run) \in Seq(Rid), Len(Front(run)) = Len(run) - 1,
           \A i \in 1..(Len(run) - 1) : Front(run)[i] = run[i],
           todo # <<>>
    PROVE  /\ Suffix(Front(todo), Front(run)) /\ Len(Front(todo)) < Len(Front(run))
           /\ Front(run)[Len(Front(run)) - Len(Front(todo))] = run[Len(run) - Len(todo)]
<1>1. /\ todo \in Seq(Rid) /\ Len(todo) \in Nat \ {0} /\ Len(run) \in Nat
      /\ \A k \in 1..Len(todo) : todo[k] = run[Len(run) - Len(todo) + k]
  <2>1. todo \in Seq(Rid) /\ \A k \in 1..Len(todo) : todo[k] = run[Len(run) - Len(todo) + k]
    BY DEF Suffix
  <2>2. Len(todo) \in Nat \ {0} /\ Len(run) \in Nat
    BY <2>1
  <2> QED
    BY <2>1, <2>2
<1>2. PICK m \in Nat : m = Len(todo) - 1
  <2>1. Len(todo) \in Nat \ {0}
    BY <1>1
  <2>2. Len(todo) - 1 \in Nat
    BY ONLY <2>1
  <2> QED
    BY <2>2
<1>3. \A i \in 1..m : todo[i] \in Rid
  BY <1>1, <1>2
<1>4. /\ SubSeq(todo, 1, m) \in Seq(Rid) /\ Len(SubSeq(todo, 1, m)) = IF 1 <= m THEN m - 1 + 1 ELSE 0
      /\ \A i \in 1..(m - 1 + 1) : SubSeq(todo, 1, m)[i] = todo[1 + i - 1]
  BY <1>3, SubSeqProperties
<1>5. /\ Front(todo) \in Seq(Rid) /\ Len(Front(todo)) = Len(todo) - 1
      /\ \A i \in 1..(Len(todo) - 1) : Front(todo)[i] = todo[i]
  BY <1>2, <1>4 DEF Front
<1>6. ASSUME NEW k \in 1..Len(Front(todo))
      PROVE  Front(todo)[k] = Front(run)[Len(Front(run)) - Len(Front(todo)) + k]
  <2>1. k \in 1..Len(todo) /\ Front(todo)[k] = run[Len(run) - Len(todo) + k]
    BY <1>1, <1>5
  <2>2. Len(run) - Len(todo) + k \in 1..(Len(run) - 1)
    BY <1>1, <1>5
  <2>3. Len(Front(run)) - Len(Front(todo)) + k = Len(run) - Len(todo) + k
    BY <1>1, <1>5
  <2> QED
    BY <2>1, <2>2, <2>3
<1>7. Len(Front(run)) - Len(Front(todo)) = Len(run) - Len(todo)
      /\ Len(run) - Len(todo) \in 1..(Len(run) - 1)
  BY <1>1, <1>5
<1>8. Front(run)[Len(Front(run)) - Len(Front(todo))] = run[Len(run) - Len(todo)]
  BY <1>7
<1> QED
  BY <1>1, <1>5, <1>6, <1>8 DEF Suffix

\* allocate_slots takes free blocks only; without enough of them the tail is evicted.
LEMMA AllocateKeeps ==
    ASSUME SchedInv, AllocateOrEvict
    PROVE  SchedInv'
<1> DEFINE r == local.ask[1]
           n == local.ask[2]
           evicted == EvictLast(local)
           put == Put(allocate_slots(local, r, n), r, n)
           got == [put EXCEPT !.pc = "running", !.ask = <<>>]
           gone == [evicted EXCEPT !.pc = "dispatch", !.todo = <<>>, !.ask = <<>>]
           more == [evicted EXCEPT !.todo = Front(@)]
<1>1. local.pc = "allocate"
  BY DEF AllocateOrEvict
<1>2. phase = "schedule" /\ LocalInv(local) /\ IsSeq(queue)
  BY <1>1, InCall
<1>3. /\ Consistent(local, <<>>) /\ Suffix(local.todo, local.running)
      /\ Len(local.todo) < Len(local.running)
      /\ r = local.running[Len(local.running) - Len(local.todo)] /\ n \in Int
  BY <1>1, <1>2 DEF LocalInv
<1>4. DOMAIN local = LocalFields /\ Listed(local.running) /\ local.running \in Seq(Rid)
  BY <1>3 DEF Consistent, Placed, Listed
<1>5. \/ Local("allocate", got)
      \/ Last(local.running) = r /\ Local("allocate", gone)
      \/ Last(local.running) # r /\ Local("allocate", more)
  BY DEF AllocateOrEvict
<1>6. /\ Len(local.running) \in Nat \ {0} /\ local.running # <<>> /\ Len(local.todo) \in Nat
      /\ Len(local.running) - Len(local.todo) \in 1..Len(local.running)
  <2>1. local.todo \in Seq(Rid)
    BY <1>3 DEF Suffix
  <2>2. Len(local.todo) \in Nat /\ Len(local.running) \in Nat
    BY <1>4, <2>1
  <2>3. Len(local.running) # 0 /\ Len(local.running) - Len(local.todo) \in 1..Len(local.running)
    <3>1. Len(local.todo) < Len(local.running)
      BY <1>3
    <3>2. \A a, b \in Nat : a < b => b # 0 /\ b - a \in 1..b
      OBVIOUS
    <3> QED
      BY ONLY <2>2, <3>1, <3>2
  <2>4. local.running # <<>>
    BY <2>3
  <2> QED
    BY <2>2, <2>3, <2>4
<1>7. r \in Rid /\ Contains(local.running, r)
  BY <1>3, <1>4, <1>6 DEF Contains
<1> HIDE DEF r, n
<1>8. CASE Local("allocate", got)
  <2>1. Consistent(put, <<>>) /\ IsPut(local, r, n, put)
    BY <1>2, <1>3, <1>7, PutRunningConsistent, PutFields
  <2> HIDE DEF put
  <2>2. DOMAIN put = LocalFields /\ put.running = local.running /\ put.todo = local.todo
    BY <2>1 DEF IsPut
  <2>3. SamePlaces(put, got) /\ got.req = put.req /\ got.todo = put.todo /\ got.pc = "running"
    BY <2>2 DEF SamePlaces, LocalFields
  <2> HIDE DEF got
  <2>4. Consistent(got, <<>>)
    BY <2>1, <2>3, SameAllConsistent
  <2>5. Suffix(got.todo, got.running)
    BY <1>3, <2>2, <2>3 DEF SamePlaces
  <2>6. LocalInv(got)
    BY <2>3, <2>4, <2>5 DEF LocalInv
  <2> QED
    BY <1>2, <1>8, <2>6, LocalStep
<1>9. /\ Consistent(evicted, <<>>) /\ DOMAIN evicted = LocalFields
      /\ evicted.running = Front(local.running) /\ evicted.todo = local.todo
      /\ evicted.ask = local.ask /\ evicted.pc = "allocate"
  BY <1>1, <1>2, <1>3, <1>6, EvictConsistent
<1> HIDE DEF evicted
<1>10. CASE Local("allocate", gone)
  <2>1. SamePlaces(evicted, gone) /\ gone.req = evicted.req /\ gone.pc = "dispatch"
    BY <1>9 DEF SamePlaces, LocalFields
  <2> HIDE DEF gone
  <2>2. LocalInv(gone)
    BY <1>9, <2>1, SameAllConsistent DEF LocalInv
  <2> QED
    BY <1>2, <1>10, <2>2, LocalStep
<1>11. CASE Last(local.running) # r /\ Local("allocate", more)
  <2>1. SamePlaces(evicted, more) /\ more.req = evicted.req /\ more.pc = "allocate"
        /\ more.todo = Front(local.todo) /\ more.ask = local.ask
    BY <1>9 DEF SamePlaces, LocalFields
  <2> HIDE DEF more
  <2>2. Consistent(more, <<>>)
    BY <1>9, <2>1, SameAllConsistent
  <2>3. local.todo # <<>>
    <3> SUFFICES ASSUME local.todo = <<>> PROVE FALSE
      OBVIOUS
    <3>1. Len(local.running) - Len(local.todo) = Len(local.running)
      BY <1>6
    <3> QED
      BY <1>3, <1>11, <3>1 DEF Last
  <2>4. /\ Front(local.running) \in Seq(Rid)
        /\ Len(Front(local.running)) = Len(local.running) - 1
        /\ \A i \in 1..(Len(local.running) - 1) : Front(local.running)[i] = local.running[i]
    BY <1>4, <1>6, ListedFront DEF Listed
  <2>5. /\ Suffix(Front(local.todo), Front(local.running))
        /\ Len(Front(local.todo)) < Len(Front(local.running))
        /\ Front(local.running)[Len(Front(local.running)) - Len(Front(local.todo))] = r
    BY <1>3, <1>4, <2>3, <2>4, SuffixFront
  <2>6. more.running = Front(local.running)
    BY <1>9, <2>1 DEF SamePlaces
  <2>7. more.ask[1] = r /\ more.ask[2] \in Int
    BY <1>3, <2>1 DEF r, n
  <2>8. LocalInv(more)
    BY <2>1, <2>2, <2>5, <2>6, <2>7 DEF LocalInv
  <2> QED
    BY <1>2, <1>11, <2>8, LocalStep
<1> QED
  BY <1>5, <1>8, <1>10, <1>11

\* The end of the running loop leaves nothing of the loop's own lists behind.
LEMMA EndRunningKeeps ==
    ASSUME SchedInv, EndRunning
    PROVE  SchedInv'
<1>1. local.pc = "running"
  BY DEF EndRunning
<1>2. PICK delay_prefill :
        Local("running", [local EXCEPT !.pc = IF local.preempted \/ delay_prefill
                                              THEN "dispatch" ELSE "waiting",
                                       !.estimate = should_estimate_length(local)])
  BY DEF EndRunning
<1> DEFINE t == [local EXCEPT !.pc = IF local.preempted \/ delay_prefill
                                     THEN "dispatch" ELSE "waiting",
                              !.estimate = should_estimate_length(local)]
<1>3. phase = "schedule" /\ LocalInv(local)
  BY <1>1, InCall
<1>4. Consistent(local, <<>>) /\ DOMAIN local = LocalFields
  BY <1>1, <1>3 DEF LocalInv, Consistent
<1>5. SamePlaces(local, t) /\ t.req = local.req /\ t.pc \in {"waiting", "dispatch"}
  BY <1>4 DEF SamePlaces, LocalFields
<1> HIDE DEF t
<1>6. Consistent(t, <<>>)
  BY <1>4, <1>5, SameAllConsistent
<1>7. LocalInv(t)
  BY <1>5, <1>6 DEF LocalInv
<1> QED
  BY <1>2, <1>3, <1>7, LocalStep DEF t

\* A request of the waiting queue is admitted.
LEMMA AdmitConsistent ==
    ASSUME NEW s, NEW n \in Int, NEW t, IsSeq(queue), Consistent(s, <<>>), s.waiting # <<>>,
           t.req = [s.req EXCEPT ![Head(s.waiting)] =
                       [OneMore(s.req[Head(s.waiting)]) EXCEPT
                            !.status = "RUNNING", !.num_computed_tokens = 0]],
           DOMAIN t = LocalFields,
           t.num_scheduled_tokens = [s.num_scheduled_tokens EXCEPT ![Head(s.waiting)] = n],
           t.budget \in Int, t.waiting = Tail(s.waiting),
           t.running = Append(s.running, Head(s.waiting)),
           t.to_be_preempted = s.to_be_preempted,
           t.blocks \in [Rid -> 0..MaxBlocksPerReq],
           Cardinality(HeldBlocks(t.blocks)) <= NumBlocks,
           \A x \in Rid \ {Head(s.waiting)} : t.blocks[x] = s.blocks[x]
    PROVE  Consistent(t, <<>>)
<1> DEFINE r == Head(s.waiting)
           q == [OneMore(s.req[r]) EXCEPT !.status = "RUNNING", !.num_computed_tokens = 0]
<1>1. /\ RequestsOK(s.req) /\ DOMAIN s.req = Rid
      /\ Listed(s.waiting) /\ Listed(s.running) /\ Listed(s.to_be_preempted) /\ Listed(<<>>)
      /\ \A x \in Rid : PlacedAt(x, s.req[x], s.waiting, s.running, s.to_be_preempted, <<>>)
      /\ BlocksOK(s.req, s.blocks) /\ s.num_scheduled_tokens \in [Rid -> Int]
      /\ Counted(s.req, s.num_scheduled_tokens)
  BY DEF Consistent, RequestsOK, Placed
<1>2. /\ Listed(Tail(s.waiting)) /\ r \in Rid /\ Contains(s.waiting, r)
      /\ \A x : Contains(Tail(s.waiting), x) <=> Contains(s.waiting, x) /\ x # r
  BY <1>1, ListedTail
<1>3. t.req = [s.req EXCEPT ![r] = q]
  OBVIOUS
<1>4. /\ t.num_scheduled_tokens = [s.num_scheduled_tokens EXCEPT ![r] = n]
      /\ t.running = Append(s.running, r)
      /\ \A x \in Rid \ {r} : t.blocks[x] = s.blocks[x]
  OBVIOUS
<1> HIDE DEF r
<1>5. RequestOK(OneMore(s.req[r])) /\ OneMore(s.req[r]).num_scheduled = s.req[r].num_scheduled + 1
  BY <1>1, <1>2, PutCounts DEF RequestsOK
<1>6. RequestOK(q) /\ q.status = "RUNNING" /\ q.num_scheduled = s.req[r].num_scheduled + 1
  BY <1>5 DEF RequestOK, RequestFields, RequestStatus
<1> HIDE DEF q
<1>7. /\ t.req[r] = q /\ DOMAIN t.req = Rid /\ \A x \in Rid \ {r} : t.req[x] = s.req[x]
  BY <1>1, <1>2, <1>3
<1>8. RequestsOK(t.req)
  BY <1>1, <1>6, <1>7 DEF RequestsOK
<1>9. /\ ~Contains(s.running, r) /\ ~Contains(s.to_be_preempted, r) /\ ~Contains(<<>>, r)
      /\ Contains(arrived, r)
  <2>1. PlacedAt(r, s.req[r], s.waiting, s.running, s.to_be_preempted, <<>>)
    BY <1>1, <1>2
  <2> QED
    BY <1>2, <2>1 DEF PlacedAt, InWaiting, InRunning, InToBePreempted
<1>10. /\ Listed(t.running)
       /\ \A x : Contains(t.running, x) <=> Contains(s.running, x) \/ x = r
  BY <1>1, <1>2, <1>4, <1>9, ListedAppend
<1>11. /\ Listed(t.waiting)
       /\ \A x : Contains(t.waiting, x) <=> Contains(s.waiting, x) /\ x # r
  BY <1>2
<1>12. \A x \in Rid : PlacedAt(x, t.req[x], t.waiting, t.running, t.to_be_preempted, <<>>)
  <2> TAKE x \in Rid
  <2>1. CASE x # r
    BY <1>1, <1>7, <1>10, <1>11, <2>1 DEF PlacedAt
  <2>2. CASE x = r
    <3>1. InRunning(t.req[r]) /\ ~InWaiting(t.req[r]) /\ ~InToBePreempted(t.req[r])
      BY <1>6, <1>7 DEF InRunning, InWaiting, InToBePreempted
    <3> QED
      BY <1>9, <1>10, <1>11, <2>2, <3>1 DEF PlacedAt
  <2> QED
    BY <2>1, <2>2
<1>13. Placed(t.req, t.waiting, t.running, t.to_be_preempted, <<>>)
  BY <1>1, <1>10, <1>11, <1>12 DEF Placed
<1>14. BlocksOK(t.req, t.blocks)
  BY <1>1, <1>4, <1>6, <1>7 DEF BlocksOK, InRunning
<1>15. Counted(t.req, t.num_scheduled_tokens)
  <2> SUFFICES ASSUME NEW x \in Rid
               PROVE  t.req[x].num_scheduled >=
                         InFlight(queue, x) + (IF t.num_scheduled_tokens[x] = 0 THEN 0 ELSE 1)
    BY DEF Counted
  <2>1. s.req[x].num_scheduled >=
           InFlight(queue, x) + (IF s.num_scheduled_tokens[x] = 0 THEN 0 ELSE 1)
    BY <1>1 DEF Counted
  <2>2. InFlight(queue, x) \in Nat /\ s.req[x].num_scheduled \in Int
    BY <1>1, HoldingFinite DEF RequestsOK, RequestOK
  <2>3. CASE x = r
    <3>1. t.req[x].num_scheduled = s.req[x].num_scheduled + 1
      BY <1>6, <1>7, <2>3
    <3> QED
      BY <2>1, <2>2, <3>1
  <2>4. CASE x # r
    BY <1>1, <1>4, <1>7, <2>1, <2>4
  <2> QED
    BY <2>3, <2>4
<1>16. t.num_scheduled_tokens \in [Rid -> Int]
  BY <1>1, <1>4
<1> QED
  BY <1>8, <1>13, <1>14, <1>15, <1>16 DEF Consistent

\* A request leaves waiting in the step that puts it into running_scheduled.
LEMMA ScheduleWaitingKeeps ==
    ASSUME SchedInv, ScheduleWaiting
    PROVE  SchedInv'
<1> DEFINE r == Head(local.waiting)
           q == local.req[r]
           n == CapTokens(local, num_tokens(q))
           put == Put(allocate_slots(local, r, n), r, n)
           stop == [local EXCEPT !.pc = "dispatch"]
           admit == [put EXCEPT
                       !.waiting = Tail(@), !.running = Append(@, r),
                       !.new = IF q.status = "WAITING" THEN @ \cup {r} ELSE @,
                       !.resumed = IF q.status = "PREEMPTED" THEN @ \cup {r} ELSE @,
                       !.req[r].status = "RUNNING",
                       !.req[r].num_computed_tokens = 0]
<1>1. local.pc = "waiting"
  BY DEF ScheduleWaiting
<1>2. phase = "schedule" /\ LocalInv(local) /\ IsSeq(queue)
  BY <1>1, InCall
<1>3. Consistent(local, <<>>) /\ DOMAIN local = LocalFields
  BY <1>1, <1>2 DEF LocalInv, Consistent
<1>4. \/ Local("waiting", stop)
      \/ local.waiting # <<>> /\ Local("waiting", admit)
  BY DEF ScheduleWaiting
<1>5. CASE Local("waiting", stop)
  <2>1. SamePlaces(local, stop) /\ stop.req = local.req /\ stop.pc = "dispatch"
    BY <1>3 DEF SamePlaces, LocalFields
  <2> HIDE DEF stop
  <2>2. LocalInv(stop)
    BY <1>3, <2>1, SameAllConsistent DEF LocalInv
  <2> QED
    BY <1>2, <1>5, <2>2, LocalStep
<1>6. CASE local.waiting # <<>> /\ Local("waiting", admit)
  <2>1. r \in Rid /\ RequestsOK(local.req) /\ local.budget \in Int
    BY <1>3, <1>6, ListedTail DEF Consistent, Placed
  <2>2. n \in Int
    BY <2>1, DueType, CapType DEF RequestsOK
  <2> HIDE DEF n
  <2>3. IsPut(local, r, n, put)
    BY <1>3, <2>1, <2>2, PutFields
  <2> HIDE DEF put
  <2>4. DOMAIN put = LocalFields /\ put.req = [local.req EXCEPT ![r] = OneMore(q)]
        /\ put.waiting = local.waiting /\ put.running = local.running /\ put.pc = local.pc
        /\ put.to_be_preempted = local.to_be_preempted /\ put.budget \in Int
    BY <2>3 DEF IsPut
  <2>5. /\ DOMAIN admit = LocalFields
        /\ \A x \in LocalFields :
              x \notin {"waiting", "running", "new", "resumed", "req"} => admit[x] = put[x]
        /\ admit.waiting = Tail(put.waiting) /\ admit.running = Append(put.running, r)
    BY <2>4 DEF LocalFields
  <2>6. admit.req = [put.req EXCEPT ![r] = [put.req[r] EXCEPT !.status = "RUNNING",
                                                              !.num_computed_tokens = 0]]
    BY <2>4 DEF LocalFields
  <2>7. put.req[r] = OneMore(q)
    BY <2>1, <2>4 DEF RequestsOK
  <2>8. admit.req = [local.req EXCEPT ![r] = [OneMore(q) EXCEPT !.status = "RUNNING",
                                                               !.num_computed_tokens = 0]]
    BY <2>4, <2>6, <2>7
  <2> HIDE DEF admit
  <2>9. /\ admit.num_scheduled_tokens = put.num_scheduled_tokens
        /\ admit.budget = put.budget /\ admit.blocks = put.blocks
        /\ admit.to_be_preempted = put.to_be_preempted /\ admit.pc = put.pc
    BY <2>5 DEF LocalFields
  <2>10. /\ admit.num_scheduled_tokens = [local.num_scheduled_tokens EXCEPT ![r] = n]
         /\ admit.blocks \in [Rid -> 0..MaxBlocksPerReq]
         /\ Cardinality(HeldBlocks(admit.blocks)) <= NumBlocks
         /\ \A x \in Rid \ {r} : admit.blocks[x] = local.blocks[x]
    BY <2>3, <2>9 DEF IsPut
  <2>11. Consistent(admit, <<>>)
    <3>1. /\ DOMAIN admit = LocalFields /\ admit.budget \in Int
          /\ admit.waiting = Tail(local.waiting) /\ admit.running = Append(local.running, r)
          /\ admit.to_be_preempted = local.to_be_preempted
      BY <2>4, <2>5, <2>9
    <3> QED
      BY <1>2, <1>3, <1>6, <2>2, <2>8, <2>10, <3>1, AdmitConsistent
  <2>12. LocalInv(admit)
    BY <1>1, <2>4, <2>9, <2>11 DEF LocalInv
  <2> QED
    BY <1>2, <1>6, <2>12, LocalStep
<1> QED
  BY <1>4, <1>5, <1>6

\* The end of schedule(): the local state becomes the scheduler's.
LEMMA DispatchKeeps ==
    ASSUME SchedInv, dispatch
    PROVE  SchedInv'
<1> DEFINE s == local
           n(r) == s.num_scheduled_tokens[r]
           e == [r \in Rid |-> SlotOf(s, r)]
<1>1. /\ local.pc = "dispatch" /\ local' = NoCall /\ phase' = "speculate"
      /\ requests' = [r \in Rid |-> [s.req[r] EXCEPT !.num_computed_tokens = @ + n(r)]]
      /\ waiting' = s.waiting /\ running_scheduled' = s.running
      /\ to_be_preempted' = s.to_be_preempted /\ req_to_blocks' = s.blocks
      /\ queue' = Append(queue, e) /\ arrived' = arrived
  BY DEF dispatch
<1>2. phase = "schedule" /\ LocalInv(local) /\ IsSeq(queue)
  BY <1>1, InCall
<1>3. Consistent(s, <<>>)
  BY <1>1, <1>2 DEF LocalInv
<1>4. /\ RequestsOK(s.req)
      /\ Placed(s.req, s.waiting, s.running, s.to_be_preempted, <<>>)
      /\ BlocksOK(s.req, s.blocks)
      /\ s.num_scheduled_tokens \in [Rid -> Int]
      /\ Counted(s.req, s.num_scheduled_tokens)
  BY <1>3 DEF Consistent
<1>5. ASSUME NEW r \in Rid PROVE SameRequest(s.req[r], requests'[r])
  <2>1. requests'[r] = [s.req[r] EXCEPT !.num_computed_tokens = @ + n(r)]
    BY <1>1
  <2>2. RequestOK(s.req[r]) /\ n(r) \in Int
    BY <1>4 DEF RequestsOK
  <2> HIDE DEF s
  <2> QED
    BY <2>1, <2>2 DEF SameRequest, RequestOK, RequestFields
<1>6. DOMAIN requests' = Rid
  BY <1>1
<1>7. \A r \in Rid : /\ InWaiting(requests'[r]) <=> InWaiting(s.req[r])
                     /\ InRunning(requests'[r]) <=> InRunning(s.req[r])
                     /\ InToBePreempted(requests'[r]) <=> InToBePreempted(s.req[r])
                     /\ requests'[r].status = s.req[r].status
                     /\ requests'[r].num_scheduled = s.req[r].num_scheduled
                     /\ RequestOK(requests'[r])
  BY <1>5 DEF InWaiting, InRunning, InToBePreempted, SameRequest
<1>8. \A r \in Rid : InFlight(queue', r) <= InFlight(queue, r) + (IF n(r) = 0 THEN 0 ELSE 1)
  <2> TAKE r \in Rid
  <2>1. InFlight(queue', r) = InFlight(queue, r) + (IF e[r].kind = "idle" THEN 0 ELSE 1)
    BY <1>1, <1>2, InFlightAppend
  <2>2. n(r) = 0 => e[r].kind = "idle"
    BY DEF SlotOf, Idle
  <2>3. InFlight(queue, r) \in Nat
    BY <1>2, HoldingFinite
  <2> HIDE DEF e, s
  <2> QED
    BY <2>1, <2>2, <2>3
<1>9. IsSeq(queue') /\ Len(queue') = PP /\ \A r \in Rid : InFlight(queue', r) \in Nat
  <2>1. Len(queue) = PP - 1
    BY <1>2 DEF SchedInv
  <2>2. IsSeq(queue') /\ Len(queue') = Len(queue) + 1
    BY <1>1, <1>2, IsSeqAppend
  <2> QED
    BY <2>1, <2>2, SizeAssumption, HoldingFinite
<1> HIDE DEF e
<1>10. RequestsOK(requests)'
  BY <1>6, <1>7 DEF RequestsOK
<1>11. Placed(requests, waiting, running_scheduled, to_be_preempted, <<>>)'
  BY <1>1, <1>4, <1>7 DEF Placed, PlacedAt
<1>12. BlocksOK(requests, req_to_blocks)'
  BY <1>1, <1>4, <1>7 DEF BlocksOK
<1>13. Counted(requests, NoTokens)'
  <2> SUFFICES ASSUME NEW r \in Rid
               PROVE  requests'[r].num_scheduled >= InFlight(queue', r) + 0
    BY DEF Counted, NoTokens
  <2>1. s.req[r].num_scheduled >= InFlight(queue, r) + (IF n(r) = 0 THEN 0 ELSE 1)
    BY <1>4 DEF Counted
  <2>2. InFlight(queue, r) \in Nat /\ s.req[r].num_scheduled \in Int /\ InFlight(queue', r) \in Nat
    BY <1>2, <1>4, <1>9, HoldingFinite DEF RequestsOK, RequestOK
  <2>3. InFlight(queue', r) <= InFlight(queue, r) + (IF n(r) = 0 THEN 0 ELSE 1)
    BY <1>8
  <2>4. requests'[r].num_scheduled = s.req[r].num_scheduled
    BY <1>7
  <2> HIDE DEF n, s
  <2> QED
    BY <2>1, <2>2, <2>3, <2>4
<1>14. PublishedInv'
  BY <1>10, <1>11, <1>12, <1>13 DEF PublishedInv
<1> QED
  BY <1>1, <1>9, <1>14 DEF SchedInv
-----------------------------------------------------------------------------
(* The other steps of the engine core. *)

\* Between two calls of schedule().
LEMMA BetweenCalls ==
    ASSUME SchedInv, phase # "schedule"
    PROVE  /\ local = NoCall /\ Len(queue) = PP /\ IsSeq(queue) /\ arrived \in Seq(Rid)
           /\ RequestsOK(requests)
           /\ Placed(requests, waiting, running_scheduled, to_be_preempted, <<>>)
           /\ BlocksOK(requests, req_to_blocks)
           /\ Counted(requests, NoTokens)
  BY DEF SchedInv, PublishedInv

\* update_from_true_output removes what it finished from the lists and frees its blocks.
LEMMA TrueOutputKeeps ==
    ASSUME SchedInv, update_from_true_output
    PROVE  SchedInv'
<1> DEFINE batch == Head(queue)
           seen == {r \in Rid : Tracked(r) /\ batch[r].kind # "idle"}
           done == {r \in seen : is_finished(requests'[r])}
<1>1. /\ phase = "verify" /\ phase' = "schedule" /\ queue' = Tail(queue)
      /\ requests' = [r \in Rid |-> IF r \in seen THEN Retire(requests[r], batch[r])
                                    ELSE requests[r]]
      /\ running_scheduled' = Without(running_scheduled, done)
      /\ to_be_preempted' = Without(to_be_preempted, done)
      /\ req_to_blocks' = [r \in Rid |-> IF r \in done THEN 0 ELSE req_to_blocks[r]]
      /\ waiting' = waiting /\ local' = local /\ arrived' = arrived
  BY DEF update_from_true_output
<1>2. /\ local = NoCall /\ Len(queue) = PP /\ IsSeq(queue) /\ arrived \in Seq(Rid)
      /\ RequestsOK(requests)
      /\ Placed(requests, waiting, running_scheduled, to_be_preempted, <<>>)
      /\ BlocksOK(requests, req_to_blocks)
      /\ Counted(requests, NoTokens)
  BY <1>1, BetweenCalls
<1>3. /\ Listed(waiting) /\ Listed(running_scheduled) /\ Listed(to_be_preempted)
      /\ Listed(<<>>) /\ \A x : ~Contains(<<>>, x)
      /\ \A x \in Rid : PlacedAt(x, requests[x], waiting, running_scheduled,
                                 to_be_preempted, <<>>)
  BY <1>2, ListedEmpty DEF Placed
<1>4. ASSUME NEW x \in seen
      PROVE  /\ requests'[x] = Retire(requests[x], batch[x]) /\ x \in Rid
             /\ RequestOK(requests'[x])
             /\ requests'[x].num_scheduled = requests[x].num_scheduled - 1
             /\ requests'[x].should_preempt = requests[x].should_preempt
             /\ requests'[x].status = requests[x].status \/ x \in done
  <2>1. x \in Rid /\ requests'[x] = Retire(requests[x], batch[x])
    BY <1>1, <1>4
  <2>2. RequestOK(requests[x])
    BY <1>2, <2>1 DEF RequestsOK
  <2>3. /\ RequestOK(Retire(requests[x], batch[x]))
        /\ Retire(requests[x], batch[x]).num_scheduled = requests[x].num_scheduled - 1
        /\ Retire(requests[x], batch[x]).should_preempt = requests[x].should_preempt
        /\ \/ Retire(requests[x], batch[x]).status = requests[x].status
           \/ is_finished(Retire(requests[x], batch[x]))
    BY <2>2, RetireFields
  <2>4. is_finished(requests'[x]) => x \in done
    BY <1>4
  <2> HIDE DEF seen, done, batch
  <2> QED
    BY <2>1, <2>3, <2>4
<1>5. /\ \A x \in Rid \ seen : requests'[x] = requests[x] /\ x \notin done
      /\ DOMAIN requests' = Rid
      /\ \A x \in done : is_finished(requests'[x]) /\ x \in seen
      /\ \A x \in seen : Tracked(x) /\ batch[x].kind # "idle"
      /\ seen \subseteq Rid
  BY <1>1
<1> HIDE DEF seen, done
<1>6. RequestsOK(requests)'
  <2>1. \A x \in Rid : RequestOK(requests'[x])
    BY <1>2, <1>4, <1>5 DEF RequestsOK
  <2> QED
    BY <1>5, <2>1 DEF RequestsOK
<1>7. /\ Listed(running_scheduled') /\ Listed(to_be_preempted')
      /\ \A x : Contains(running_scheduled', x) <=> Contains(running_scheduled, x) /\ x \notin done
      /\ \A x : Contains(to_be_preempted', x) <=> Contains(to_be_preempted, x) /\ x \notin done
  BY <1>1, <1>3, ListedWithout
<1>8. ASSUME NEW x \in Rid
      PROVE  /\ Contains(waiting, x) <=> Contains(arrived, x) /\ InWaiting(requests'[x])
             /\ Contains(running_scheduled', x) <=> InRunning(requests'[x])
             /\ Contains(to_be_preempted', x) <=> InToBePreempted(requests'[x])
             /\ ~Contains(arrived, x) => requests'[x].status = "WAITING"
             /\ InWaiting(requests'[x]) => requests'[x].num_scheduled = 0
  <2>1. /\ Contains(waiting, x) <=> Contains(arrived, x) /\ InWaiting(requests[x])
        /\ Contains(running_scheduled, x) <=> InRunning(requests[x])
        /\ Contains(to_be_preempted, x) <=> InToBePreempted(requests[x])
        /\ ~Contains(arrived, x) => requests[x].status = "WAITING"
        /\ InWaiting(requests[x]) => requests[x].num_scheduled = 0
    BY <1>3 DEF PlacedAt
  <2>2. CASE x \notin seen
    BY <1>5, <1>7, <2>1, <2>2
  <2>3. CASE x \in seen /\ x \notin done
    <3>1. requests'[x].status = requests[x].status
          /\ requests'[x].should_preempt = requests[x].should_preempt
      BY <1>4, <2>3
    <3>2. /\ InWaiting(requests'[x]) <=> InWaiting(requests[x])
          /\ InRunning(requests'[x]) <=> InRunning(requests[x])
          /\ InToBePreempted(requests'[x]) <=> InToBePreempted(requests[x])
      BY <3>1 DEF InWaiting, InRunning, InToBePreempted
    <3>3. Tracked(x)
      BY <1>5, <2>3
    <3>4. ~InWaiting(requests[x])
      BY <2>1, <3>3 DEF Tracked, InWaiting, InRunning, InToBePreempted
    <3> QED
      BY <1>7, <2>1, <2>3, <3>1, <3>2, <3>4
  <2>4. CASE x \in done
    <3>1. is_finished(requests'[x]) /\ Tracked(x)
      BY <1>5, <2>4
    <3>2. InRunning(requests[x]) \/ InToBePreempted(requests[x])
      BY <2>1, <3>1 DEF Tracked
    <3>3. ~InWaiting(requests[x]) /\ Contains(arrived, x)
      BY <2>1, <3>2 DEF InWaiting, InRunning, InToBePreempted
    <3>4. ~InWaiting(requests'[x]) /\ ~InRunning(requests'[x]) /\ ~InToBePreempted(requests'[x])
      BY <3>1 DEF is_finished, FinishedStatus, InWaiting, InRunning, InToBePreempted
    <3> QED
      BY <1>7, <2>1, <2>4, <3>3, <3>4
  <2> QED
    BY <2>2, <2>3, <2>4
<1>9. Placed(requests, waiting, running_scheduled, to_be_preempted, <<>>)'
  BY <1>1, <1>3, <1>7, <1>8 DEF Placed, PlacedAt
<1>10. BlocksOK(requests, req_to_blocks)'
  <2>1. /\ req_to_blocks \in [Rid -> 0..MaxBlocksPerReq] /\ MaxBlocksPerReq \in Nat
        /\ req_to_blocks \in [Rid -> Nat]
        /\ Cardinality(HeldBlocks(req_to_blocks)) <= NumBlocks
    BY <1>2, MaxBlocksType DEF BlocksOK
  <2>2. /\ req_to_blocks' \in [Rid -> 0..MaxBlocksPerReq] /\ req_to_blocks' \in [Rid -> Nat]
        /\ \A x \in Rid : req_to_blocks'[x] <= req_to_blocks[x]
        /\ \A x \in Rid : req_to_blocks'[x] = IF x \in done THEN 0 ELSE req_to_blocks[x]
    BY <1>1, <2>1
  <2>3. Cardinality(HeldBlocks(req_to_blocks')) <= Cardinality(HeldBlocks(req_to_blocks))
    BY <2>1, <2>2, HeldFewer
  <2>4. /\ Cardinality(HeldBlocks(req_to_blocks')) \in Nat
        /\ Cardinality(HeldBlocks(req_to_blocks)) \in Nat
    BY <2>1, <2>2, HeldFinite
  <2>5. Cardinality(HeldBlocks(req_to_blocks')) <= NumBlocks
    BY <2>1, <2>3, <2>4, SizeAssumption
  <2>6. ASSUME NEW x \in Rid, ~InRunning(requests'[x]) PROVE req_to_blocks'[x] = 0
    <3>1. ~InRunning(requests[x]) => req_to_blocks[x] = 0
      BY <1>2 DEF BlocksOK
    <3>2. x \notin done => ~InRunning(requests[x])
      BY <1>4, <1>5, <2>6 DEF InRunning
    <3> QED
      BY <2>2, <3>1, <3>2
  <2> QED
    BY <2>2, <2>5, <2>6 DEF BlocksOK
<1>11. IsSeq(queue') /\ Len(queue') = PP - 1
  BY <1>1, <1>2, IsSeqTail, SizeAssumption
<1>12. Counted(requests, NoTokens)'
  <2> SUFFICES ASSUME NEW r \in Rid
               PROVE  requests'[r].num_scheduled >= InFlight(queue', r) + 0
    BY DEF Counted, NoTokens
  <2>1. requests[r].num_scheduled >= InFlight(queue, r) + 0
    BY <1>2 DEF Counted, NoTokens
  <2>2. InFlight(queue, r) \in Nat /\ requests[r].num_scheduled \in Int /\ InFlight(queue', r) \in Nat
    BY <1>2, <1>11, HoldingFinite DEF RequestsOK, RequestOK
  <2>3. InFlight(queue, r) = InFlight(queue', r) + (IF batch[r].kind = "idle" THEN 0 ELSE 1)
    <3>1. Len(queue) > 0
      BY <1>2, SizeAssumption
    <3> QED
      BY <1>1, <1>2, <3>1, InFlightTail
  <2> HIDE DEF batch
  <2>4. CASE r \in seen
    <3>1. batch[r].kind # "idle" /\ requests'[r].num_scheduled = requests[r].num_scheduled - 1
      BY <1>4, <1>5, <2>4
    <3> QED
      BY <2>1, <2>2, <2>3, <3>1
  <2>5. CASE r \notin seen
    BY <1>5, <2>1, <2>2, <2>3, <2>5
  <2> QED
    BY <2>4, <2>5
<1>13. PublishedInv'
  BY <1>6, <1>9, <1>10, <1>12 DEF PublishedInv
<1> QED
  BY <1>1, <1>2, <1>11, <1>13 DEF SchedInv

\* update_from_spec_output changes the tokens of requests, not their places.
LEMMA SpecOutputKeeps ==
    ASSUME SchedInv, update_from_spec_output
    PROVE  SchedInv'
<1> DEFINE sampled == {r \in Rid : Last(queue)[r].kind = "sample"}
<1>1. /\ phase = "speculate" /\ phase' = "verify" /\ queue' = queue /\ local' = local
      /\ waiting' = waiting /\ running_scheduled' = running_scheduled
      /\ to_be_preempted' = to_be_preempted /\ req_to_blocks' = req_to_blocks
      /\ arrived' = arrived
  BY DEF update_from_spec_output
<1>2. PICK guess : requests' = [r \in Rid |-> IF r \in sampled
                                              THEN Speculated(requests[r], guess[r])
                                              ELSE requests[r]]
  BY DEF update_from_spec_output
<1>3. /\ local = NoCall /\ Len(queue) = PP /\ IsSeq(queue) /\ arrived \in Seq(Rid)
      /\ RequestsOK(requests)
      /\ Placed(requests, waiting, running_scheduled, to_be_preempted, <<>>)
      /\ BlocksOK(requests, req_to_blocks)
      /\ Counted(requests, NoTokens)
  BY <1>1, BetweenCalls
<1> HIDE DEF sampled
<1>4. ASSUME NEW r \in Rid PROVE SameRequest(requests[r], requests'[r])
  <2>1. RequestOK(requests[r])
    BY <1>3 DEF RequestsOK
  <2>2. SameRequest(requests[r], requests[r])
    BY <2>1 DEF SameRequest
  <2>3. SameRequest(requests[r], Speculated(requests[r], guess[r]))
    BY <2>1, SpeculatedFields DEF SameRequest
  <2> QED
    BY <1>2, <2>2, <2>3
<1>5. DOMAIN requests' = Rid
  BY <1>2
<1>6. \A r \in Rid : /\ InWaiting(requests'[r]) <=> InWaiting(requests[r])
                     /\ InRunning(requests'[r]) <=> InRunning(requests[r])
                     /\ InToBePreempted(requests'[r]) <=> InToBePreempted(requests[r])
                     /\ requests'[r].status = requests[r].status
                     /\ requests'[r].num_scheduled = requests[r].num_scheduled
                     /\ RequestOK(requests'[r])
  BY <1>4 DEF InWaiting, InRunning, InToBePreempted, SameRequest
<1>7. RequestsOK(requests)'
  BY <1>5, <1>6 DEF RequestsOK
<1>8. Placed(requests, waiting, running_scheduled, to_be_preempted, <<>>)'
  BY <1>1, <1>3, <1>6 DEF Placed, PlacedAt
<1>9. BlocksOK(requests, req_to_blocks)'
  BY <1>1, <1>3, <1>6 DEF BlocksOK
<1>10. Counted(requests, NoTokens)'
  BY <1>1, <1>3, <1>6 DEF Counted, NoTokens
<1>11. PublishedInv'
  BY <1>7, <1>8, <1>9, <1>10 DEF PublishedInv
<1> QED
  BY <1>1, <1>3, <1>11 DEF SchedInv

\* add_request appends a request that is in no list yet.
LEMMA AddKeeps ==
    ASSUME NEW r \in Rid, SchedInv, add_request(r)
    PROVE  SchedInv'
<1>1. /\ phase = "verify" /\ phase' = phase /\ queue' = queue /\ local' = local
      /\ ~Contains(arrived, r) /\ arrived' = Append(arrived, r)
      /\ waiting' = Append(waiting, r) /\ requests' = requests
      /\ running_scheduled' = running_scheduled
      /\ to_be_preempted' = to_be_preempted /\ req_to_blocks' = req_to_blocks
  BY DEF add_request
<1>2. /\ local = NoCall /\ Len(queue) = PP /\ IsSeq(queue) /\ arrived \in Seq(Rid)
      /\ RequestsOK(requests)
      /\ Placed(requests, waiting, running_scheduled, to_be_preempted, <<>>)
      /\ BlocksOK(requests, req_to_blocks)
      /\ Counted(requests, NoTokens)
  BY <1>1, BetweenCalls
<1>3. /\ Listed(waiting) /\ Listed(running_scheduled) /\ Listed(to_be_preempted)
      /\ Listed(<<>>) /\ \A x : ~Contains(<<>>, x)
      /\ \A x \in Rid : PlacedAt(x, requests[x], waiting, running_scheduled,
                                 to_be_preempted, <<>>)
  BY <1>2, ListedEmpty DEF Placed
<1>4. PlacedAt(r, requests[r], waiting, running_scheduled, to_be_preempted, <<>>)
  BY <1>3
<1>5. requests[r].status = "WAITING" /\ ~Contains(waiting, r)
  BY <1>1, <1>4 DEF PlacedAt
<1>6. Listed(waiting') /\ \A x : Contains(waiting', x) <=> Contains(waiting, x) \/ x = r
  BY <1>1, <1>3, <1>5, ListedAppend
<1>7. arrived' \in Seq(Rid) /\ \A x : Contains(arrived', x) <=> Contains(arrived, x) \/ x = r
  <2>1. /\ Len(arrived) \in Nat /\ Append(arrived, r) \in Seq(Rid)
        /\ Len(Append(arrived, r)) = Len(arrived) + 1
        /\ Append(arrived, r)[Len(arrived) + 1] = r
        /\ \A i \in 1..Len(arrived) : Append(arrived, r)[i] = arrived[i]
    BY <1>2
  <2>2. 1..(Len(arrived) + 1) = 1..Len(arrived) \cup {Len(arrived) + 1}
    BY <2>1
  <2> QED
    BY <1>1, <2>1, <2>2 DEF Contains
<1>8. ASSUME NEW x \in Rid
      PROVE  PlacedAt(x, requests[x], waiting, running_scheduled, to_be_preempted, <<>>)'
  <2>1. PlacedAt(x, requests[x], waiting, running_scheduled, to_be_preempted, <<>>)
    BY <1>3
  <2>2. CASE x # r
    BY <1>1, <1>6, <1>7, <2>1, <2>2 DEF PlacedAt
  <2>3. CASE x = r
    <3>1. InWaiting(requests[r])
      BY <1>5 DEF InWaiting
    <3> QED
      BY <1>1, <1>6, <1>7, <2>1, <2>3, <3>1 DEF PlacedAt
  <2> QED
    BY <2>2, <2>3
<1>9. Placed(requests, waiting, running_scheduled, to_be_preempted, <<>>)'
  BY <1>1, <1>3, <1>6, <1>8 DEF Placed
<1>10. PublishedInv'
  BY <1>1, <1>2, <1>9 DEF PublishedInv, Counted, BlocksOK, RequestsOK
<1> QED
  BY <1>1, <1>2, <1>7, <1>10 DEF SchedInv

-----------------------------------------------------------------------------
(* The specification. *)

\* The engine starts with empty lists, a free pool and PP empty batches.
LEMMA InitSched ==
    ASSUME Init
    PROVE  SchedInv
<1>1. /\ requests = [r \in Rid |-> NewRequest(NumPromptTokens[r], MaxTokens[r])]
      /\ waiting = <<>> /\ running_scheduled = <<>> /\ to_be_preempted = <<>>
      /\ req_to_blocks = [r \in Rid |-> 0] /\ phase = "verify"
      /\ queue = batch_queue_for_spec /\ local = NoCall /\ arrived = <<>>
  BY DEF Init
<1>2. ASSUME NEW r \in Rid
      PROVE  /\ RequestOK(requests[r]) /\ requests[r].status = "WAITING"
             /\ requests[r].num_scheduled = 0
  <2>1. requests[r] = NewRequest(NumPromptTokens[r], MaxTokens[r])
    BY <1>1
  <2>2. NumPromptTokens[r] \in Nat
    BY RequestAssumption, MaxModelLenAssumption
  <2>3. <<>> \in Seq({})
    OBVIOUS
  <2>4. IsSeq(<<>>)
    BY <2>3 DEF IsSeq
  <2> QED
    BY <2>1, <2>2, <2>4 DEF NewRequest, RequestOK, RequestFields, RequestStatus
<1>3. RequestsOK(requests)
  BY <1>1, <1>2 DEF RequestsOK
<1>4. Placed(requests, waiting, running_scheduled, to_be_preempted, <<>>)
  <2>1. \A r \in Rid : PlacedAt(r, requests[r], <<>>, <<>>, <<>>, <<>>)
    BY <1>1, <1>2, ListedEmpty DEF PlacedAt, InWaiting, InRunning, InToBePreempted
  <2> QED
    BY <1>1, <2>1, ListedEmpty DEF Placed
<1>5. BlocksOK(requests, req_to_blocks)
  <2>1. req_to_blocks \in [Rid -> 0..MaxBlocksPerReq]
    BY <1>1, MaxBlocksType
  <2>2. HeldBlocks(req_to_blocks) = {}
    BY <1>1 DEF HeldBlocks
  <2>3. Cardinality(HeldBlocks(req_to_blocks)) = 0
    BY <2>2, FS_EmptySet
  <2>4. NumBlocks \in Nat
    BY SizeAssumption
  <2> QED
    BY <1>1, <2>1, <2>3, <2>4 DEF BlocksOK
<1>6. IsSeq(queue) /\ Len(queue) = PP /\ DOMAIN queue = 1..PP
  <2>1. PP \in Nat
    BY SizeAssumption
  <2>2. queue \in Seq({EmptyBatch})
    BY <1>1, <2>1 DEF batch_queue_for_spec
  <2>3. DOMAIN queue = 1..PP
    BY <1>1 DEF batch_queue_for_spec
  <2>4. Len(queue) = PP
    BY <2>1, <2>2, <2>3
  <2> QED
    BY <2>2, <2>3, <2>4 DEF IsSeq
<1>7. Counted(requests, NoTokens)
  <2> SUFFICES ASSUME NEW r \in Rid
               PROVE  requests[r].num_scheduled
                        >= InFlight(queue, r) + (IF NoTokens[r] = 0 THEN 0 ELSE 1)
    BY DEF Counted
  <2>1. \A i \in DOMAIN queue : queue[i][r].kind = "idle"
    BY <1>1, <1>6 DEF batch_queue_for_spec, EmptyBatch, Idle
  <2>2. Holding(queue, r) = {}
    BY <2>1 DEF Holding
  <2>3. InFlight(queue, r) = 0
    BY <2>2, FS_EmptySet DEF InFlight
  <2> QED
    BY <1>2, <2>3 DEF NoTokens
<1> QED
  BY <1>1, <1>3, <1>4, <1>5, <1>6, <1>7 DEF SchedInv, PublishedInv

\* Every step of the engine keeps the invariant.
LEMMA NextSched ==
    ASSUME SchedInv, [Next]_vars
    PROVE  SchedInv'
<1>1. ASSUME UNCHANGED vars
      PROVE  SchedInv'
  <2>1. /\ requests' = requests /\ waiting' = waiting
        /\ running_scheduled' = running_scheduled
        /\ to_be_preempted' = to_be_preempted /\ req_to_blocks' = req_to_blocks
        /\ phase' = phase /\ queue' = queue /\ local' = local /\ arrived' = arrived
    BY <1>1 DEF vars, schedVars
  <2>2. PublishedInv'
    BY <2>1 DEF SchedInv, PublishedInv, RequestsOK, Placed, PlacedAt, BlocksOK, Counted
  <2>3. LocalInv(local) => LocalInv(local)'
    BY <2>1 DEF LocalInv, Consistent, RequestsOK, Placed, PlacedAt, BlocksOK, Counted
  <2> QED
    BY <2>1, <2>2, <2>3 DEF SchedInv
<1>2. CASE \E r \in Rid : add_request(r)
  BY <1>2, AddKeeps
<1>3. CASE EngineStep
  BY <1>3, TrueOutputKeeps, ScheduleKeeps, RetryKeeps, ConfidenceDropKeeps,
     ScheduleRunningKeeps, AllocateKeeps, EndRunningKeeps, ScheduleWaitingKeeps,
     DispatchKeeps, SpecOutputKeeps DEF EngineStep
<1>4. CASE Quiescent
  BY <1>1, <1>4 DEF Quiescent
<1> QED
  BY <1>1, <1>2, <1>3, <1>4 DEF Next

\* A request occurs once in a list that holds it, and else not at all.
LEMMA OccursOnce ==
    ASSUME NEW l, NEW r, Listed(l)
    PROVE  Cardinality({i \in DOMAIN l : l[i] = r}) = IF Contains(l, r) THEN 1 ELSE 0
<1>1. DOMAIN l = 1..Len(l) /\ \A i, j \in 1..Len(l) : l[i] = l[j] => i = j
  BY DEF Listed
<1>2. CASE Contains(l, r)
  <2>1. PICK k \in 1..Len(l) : l[k] = r
    BY <1>2 DEF Contains
  <2>2. {i \in DOMAIN l : l[i] = r} = {k}
    BY <1>1, <2>1
  <2> QED
    BY <1>2, <2>2, FS_Singleton
<1>3. CASE ~Contains(l, r)
  <2>1. {i \in DOMAIN l : l[i] = r} = {}
    BY <1>1, <1>3 DEF Contains
  <2> QED
    BY <1>3, <2>1, FS_EmptySet
<1> QED
  BY <1>2, <1>3

\* The lists hold each unfinished request that has arrived, once.
LEMMA SchedNotLost ==
    ASSUME SchedInv
    PROVE  NoRequestLost
<1>1. /\ Placed(requests, waiting, running_scheduled, to_be_preempted, <<>>)
      /\ RequestsOK(requests)
  BY DEF SchedInv, PublishedInv
<1>2. Listed(waiting) /\ Listed(running_scheduled) /\ Listed(to_be_preempted)
  BY <1>1 DEF Placed
<1> SUFFICES ASSUME NEW r \in Rid
             PROVE  /\ Occurrences(r) = IF Contains(arrived, r) /\ ~is_finished(requests[r])
                                        THEN 1 ELSE 0
                    /\ Contains(running_scheduled, r) <=> InRunning(requests[r])
                    /\ Contains(to_be_preempted, r) <=> InToBePreempted(requests[r])
  BY DEF NoRequestLost
<1>3. /\ Contains(waiting, r) <=> Contains(arrived, r) /\ InWaiting(requests[r])
      /\ Contains(running_scheduled, r) <=> InRunning(requests[r])
      /\ Contains(to_be_preempted, r) <=> InToBePreempted(requests[r])
      /\ ~Contains(arrived, r) => requests[r].status = "WAITING"
  BY <1>1, ListedEmpty DEF Placed, PlacedAt
<1>4. requests[r].status \in RequestStatus /\ requests[r].should_preempt \in BOOLEAN
  BY <1>1 DEF RequestsOK, RequestOK
<1>5. Occurrences(r) = (IF Contains(waiting, r) THEN 1 ELSE 0)
                       + (IF Contains(running_scheduled, r) THEN 1 ELSE 0)
                       + (IF Contains(to_be_preempted, r) THEN 1 ELSE 0)
  BY <1>2, OccursOnce DEF Occurrences
<1>6. CASE requests[r].status = "WAITING"
  BY <1>3, <1>5, <1>6
     DEF InWaiting, InRunning, InToBePreempted, is_finished, FinishedStatus
<1>7. CASE requests[r].status = "RUNNING"
  BY <1>3, <1>5, <1>7
     DEF InWaiting, InRunning, InToBePreempted, is_finished, FinishedStatus
<1>8. CASE requests[r].status = "PREEMPTED"
  BY <1>3, <1>4, <1>5, <1>8
     DEF InWaiting, InRunning, InToBePreempted, is_finished, FinishedStatus
<1>9. CASE requests[r].status \in FinishedStatus
  BY <1>3, <1>5, <1>9
     DEF InWaiting, InRunning, InToBePreempted, is_finished, FinishedStatus
<1> QED
  BY <1>4, <1>6, <1>7, <1>8, <1>9 DEF RequestStatus

\* No request is lost or served twice: through arrivals, evictions, drains
\* and finishes in any order, for any number of requests and any pool, an
\* arrived request that has not finished is in exactly one of waiting,
\* running_scheduled and to_be_preempted, the one its status tells.
THEOREM RequestsKept == Spec => []NoRequestLost
<1>1. Init => SchedInv
  BY InitSched
<1>2. SchedInv /\ [Next]_vars => SchedInv'
  BY NextSched
<1>3. SchedInv => NoRequestLost
  BY SchedNotLost
<1> QED
  BY <1>1, <1>2, <1>3, PTL DEF Spec

\* Whatever allocate_slots hands out, with preallocation and while the loops
\* of schedule() evict and admit, the requests never hold more than the pool,
\* and only those in running_scheduled hold any of it.
THEOREM PoolKept == Spec => []PoolRespected
<1>1. Init => SchedInv
  BY InitSched
<1>2. SchedInv /\ [Next]_vars => SchedInv'
  BY NextSched
<1>3. SchedInv => PoolRespected
  BY DEF SchedInv, PublishedInv, BlocksOK, PoolRespected
<1> QED
  BY <1>1, <1>2, <1>3, PTL DEF Spec

\* A waiting request counts no iteration in flight, so no batch holds it.
LEMMA SchedDrained ==
    ASSUME SchedInv
    PROVE  WaitingDrained
<1>1. /\ Placed(requests, waiting, running_scheduled, to_be_preempted, <<>>)
      /\ RequestsOK(requests) /\ Counted(requests, NoTokens) /\ IsSeq(queue)
  BY DEF SchedInv, PublishedInv
<1> SUFFICES ASSUME NEW r \in Rid, Contains(waiting, r)
             PROVE  \A i \in DOMAIN queue : queue[i][r].kind = "idle"
  BY DEF WaitingDrained
<1>2. requests[r].num_scheduled = 0
  BY <1>1 DEF Placed, PlacedAt
<1>3. IsFiniteSet(Holding(queue, r)) /\ InFlight(queue, r) \in Nat
  BY <1>1, HoldingFinite
<1>4. 0 >= InFlight(queue, r) + 0
  BY <1>1, <1>2 DEF Counted, NoTokens
<1>5. Cardinality(Holding(queue, r)) = 0
  BY <1>3, <1>4 DEF InFlight
<1>6. Holding(queue, r) = {}
  BY <1>3, <1>5, FS_EmptySet
<1> QED
  BY <1>6 DEF Holding

\* No request is requeued while an iteration of it is in the pipeline,
\* however long the eviction of a request with batches in flight is retried.
THEOREM WaitingKeptDrained == Spec => []WaitingDrained
<1>1. Init => SchedInv
  BY InitSched
<1>2. SchedInv /\ [Next]_vars => SchedInv'
  BY NextSched
<1>3. SchedInv => WaitingDrained
  BY SchedDrained
<1> QED
  BY <1>1, <1>2, <1>3, PTL DEF Spec
=============================================================================
