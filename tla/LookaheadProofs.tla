-------------------------- MODULE LookaheadProofs --------------------------
(***************************************************************************)
(* Proofs about the two calculations of look-ahead scheduling, and that    *)
(* the specification that runs both keeps what each of them does.          *)
(*                                                                         *)
(* ConfidenceDrop, for running lists of any length and any number of       *)
(* buckets, confidences, drop ratio and boost limit.  The bucket sort      *)
(* lists every candidate it has seen in its bucket, in the order of the    *)
(* running list.  The pass then takes candidates from the front of that    *)
(* order only: what it has passed is closed under preference, and with     *)
(* what is left of the budget adds up to the share of candidates that      *)
(* speculate.  A set of candidates that is closed under preference and has *)
(* Quota members can only be TopCandidates.                                *)
(*                                                                         *)
(* LookaheadMemory, for any number of pipeline stages and of iterations,   *)
(* any acceptance probability, thresholds and batches.  An outcome is      *)
(* given by the places of its rejections, whose number follows from its    *)
(* length and the iterations it takes; so the outcomes are counted by the  *)
(* binomials of the closed forms, and all have the same probability.       *)
(* The rest is what the loops do with the numbers: sums over finite sets.  *)
(***************************************************************************)
EXTENDS MCLookahead, FiniteSetTheorems, TLAPS

BktOf(r) == BucketOf(running[r].conf)

\* The requests that speculate, real-token ones included.
Share == Len(running) - (Len(running) * DropNum) \div DropDen

RealBelow(w) == {r \in DOMAIN running : r < w /\ running[r].kind = "real"}

\* What the real-token requests leave of it to the candidates.
Budget ==
    LET left == Share - Cardinality(RealBelow(Len(running) + 1))
    IN  IF left < 0 THEN 0 ELSE left

\* The candidates of a bucket.
InBucket(b) == {r \in Candidates : BktOf(r) = b}

\* l lists the members of S below w, in their order.
Lists(l, S, w) ==
    /\ l \in Seq(S)
    /\ \A m \in 1..Len(l) : l[m] < w
    /\ \A m, n \in 1..Len(l) : m < n => l[m] < l[n]
    /\ \A r \in S : r < w => \E m \in 1..Len(l) : l[m] = r

\* Each bucket lists its candidates among the first w - 1 requests.
SortedBelow(w) == \A b \in Bucket : Lists(buckets[b], InBucket(b), w)

\* The candidates in the buckets above b.
Above(b) == {r \in Candidates : BktOf(r) > b}

ClosedUnderPreference(S) ==
    \A r \in S, q \in Candidates : Preferred(q, r) => q \in S

\* The bucket sort has seen the requests before i.
SortInv ==
    /\ sel_pc = "sort" /\ i \in 1..(Len(running) + 1)
    /\ SortedBelow(i)
    /\ num_real = Cardinality(RealBelow(i)) /\ pass_num = Share
    /\ tmp_idx = NumBuckets - 1 /\ tmp_req_idx = 0
    /\ max_boost_reqs = MaxBoost /\ passed = {}

\* Until the budget runs out, whole buckets have passed.
PassInv ==
    /\ sel_pc = "pass" /\ i = 1
    /\ SortedBelow(Len(running) + 1)
    /\ pass_num \in Nat /\ Cardinality(passed) + pass_num = Budget
    /\ tmp_idx \in -1..(NumBuckets - 1)
    /\ pass_num > 0 => tmp_req_idx = 0
    /\ tmp_req_idx = 0 => passed = Above(tmp_idx)
    /\ ClosedUnderPreference(passed)
    /\ max_boost_reqs = MaxBoost

\* The boost only adds to the top candidates, eligible ones and few enough.
TopAndBoosted ==
    /\ TopCandidates \subseteq passed
    /\ Cardinality(passed \ TopCandidates) <= MaxBoost - max_boost_reqs
    /\ \A r \in passed \ TopCandidates : EnableLaSched2 /\ Eligible(running[r])

\* The boost has begun, or the selection is made.
BoostInv ==
    /\ \/ sel_pc = "boost_rest" /\ i = 1 /\ tmp_idx \in -1..(NumBuckets - 1)
       \/ sel_pc \in {"boost", "done"} /\ tmp_idx \in -2..(NumBuckets - 1)
    /\ sel_pc # "done" => EnableLaSched2
    /\ pass_num \in 0..MaxRunning
    /\ TopAndBoosted

DropInv ==
    /\ running \in Seq(RequestView) /\ Len(running) <= MaxRunning
    /\ buckets \in [Bucket -> Seq(Candidates)]
    /\ \A b \in Bucket : Len(buckets[b]) <= MaxRunning
    /\ i \in 1..(MaxRunning + 1)
    /\ num_real \in 0..MaxRunning
    /\ tmp_req_idx \in 0..MaxRunning
    /\ max_boost_reqs \in 0..MaxBoost
    /\ passed \in SUBSET Candidates
    /\ SortInv \/ PassInv \/ BoostInv

-----------------------------------------------------------------------------
(* The running list and its buckets. *)

\* What the model knows of a candidate.
LEMMA CandidateFields ==
    ASSUME running \in Seq(RequestView), NEW r \in Candidates
    PROVE  /\ r \in 1..Len(running) /\ running[r] \in Candidate
           /\ running[r].conf \in 0..Scale /\ running[r].short \in BOOLEAN
<1>1. r \in 1..Len(running) /\ running[r] \in RequestView /\ running[r].kind = "candidate"
  BY DEF Candidates
<1>2. running[r] \in Candidate
  BY <1>1 DEF RequestView, Real, Skip
<1> QED
  BY <1>1, <1>2 DEF Candidate

\* Every confidence has a bucket.
LEMMA BucketType ==
    ASSUME NEW c \in 0..Scale
    PROVE  BucketOf(c) \in Bucket
<1>1. c \in Nat /\ Scale \in Nat \ {0} /\ NumBuckets \in Nat \ {0}
  BY DropAssumption
<1>2. c * NumBuckets \in Nat
  BY <1>1
<1>3. (c * NumBuckets) \div Scale \in Nat
  BY <1>1, <1>2
<1> QED
  BY <1>1, <1>3 DEF BucketOf, Bucket

\* So has every candidate.
LEMMA BktType ==
    ASSUME running \in Seq(RequestView), NEW r \in Candidates
    PROVE  BktOf(r) \in Bucket /\ BktOf(r) \in Int /\ r \in Int
<1>1. running[r].conf \in 0..Scale /\ r \in 1..Len(running)
  BY CandidateFields
<1>2. BktOf(r) \in Bucket
  BY <1>1, BucketType DEF BktOf
<1>3. NumBuckets \in Nat
  BY DropAssumption
<1> QED
  BY <1>1, <1>2, <1>3 DEF Bucket

\* The candidates are finitely many.
LEMMA CandidatesFinite ==
    ASSUME running \in Seq(RequestView)
    PROVE  /\ IsFiniteSet(Candidates) /\ Cardinality(Candidates) \in Nat
           /\ Cardinality(Candidates) <= Len(running)
<1>1. Len(running) \in Nat /\ DOMAIN running = 1..Len(running)
  OBVIOUS
<1>2. IsFiniteSet(1..Len(running)) /\ Cardinality(1..Len(running)) = Len(running)
  BY <1>1, FS_Interval
<1>3. Candidates \in SUBSET (1..Len(running))
  BY <1>1 DEF Candidates
<1>4. IsFiniteSet(Candidates) /\ Cardinality(Candidates) <= Cardinality(1..Len(running))
  BY <1>2, <1>3, FS_Subset
<1> QED
  BY <1>2, <1>4, FS_CardinalityType

\* The share of a list is part of it.
LEMMA ShareType ==
    ASSUME running \in Seq(RequestView)
    PROVE  Share \in 0..Len(running)
<1>1. /\ Len(running) \in Nat /\ DropNum \in Nat /\ DropDen \in Nat \ {0}
      /\ DropNum <= DropDen
  BY DropAssumption
<1>2. \A n, a, d \in Nat : a <= d => n * a <= n * d /\ n * a \in Nat
  OBVIOUS
<1>3. \A x, n, d \in Nat : d > 0 /\ x <= n * d => x \div d \in 0..n
  OBVIOUS
<1>4. (Len(running) * DropNum) \div DropDen \in 0..Len(running)
  BY <1>1, <1>2, <1>3
<1> QED
  BY <1>1, <1>4 DEF Share

\* The requests at the head of a bucket are as many as their number says.
LEMMA HeadCount ==
    ASSUME NEW s \in Seq(Candidates), NEW n \in 0..Len(s),
           \A a, b \in 1..Len(s) : a < b => s[a] < s[b],
           Candidates \subseteq Int
    PROVE  LET S == {s[w] : w \in 1..n} IN IsFiniteSet(S) /\ Cardinality(S) = n
<1> DEFINE S == {s[w] : w \in 1..n}
           f == [w \in 1..n |-> s[w]]
<1>1. IsFiniteSet(1..n) /\ Cardinality(1..n) = n
  BY FS_Interval
<1>2. \A w \in 1..Len(s) : s[w] \in Int
  <2>1. \A w \in 1..Len(s) : s[w] \in Candidates
    OBVIOUS
  <2> QED
    BY <2>1
<1>3. \A a, b \in 1..n : s[a] = s[b] => a = b
  BY <1>2
<1>4. f \in Bijection(1..n, S)
  <2>1. f \in [1..n -> S] /\ \A w \in 1..n : f[w] = s[w]
    OBVIOUS
  <2>2. \A a, b \in 1..n : f[a] = f[b] => a = b
    BY <1>3, <2>1
  <2>3. \A y \in S : \E w \in 1..n : f[w] = y
    BY <2>1
  <2> HIDE DEF f, S
  <2>4. f \in Injection(1..n, S)
    BY <2>1, <2>2 DEF Injection, IsInjective
  <2>5. f \in Surjection(1..n, S)
    BY <2>1, <2>3 DEF Surjection
  <2> QED
    BY <2>4, <2>5 DEF Bijection
<1>5. ExistsBijection(1..n, S)
  BY <1>4 DEF ExistsBijection
<1>6. IsFiniteSet(S) /\ Cardinality(S) = Cardinality(1..n)
  BY <1>1, <1>5, FS_Bijection
<1> QED
  BY <1>1, <1>6

\* Of two candidates, one is preferred.
LEMMA PreferredTotal ==
    ASSUME running \in Seq(RequestView), NEW r \in Candidates, NEW q \in Candidates
    PROVE  /\ r # q => Preferred(r, q) \/ Preferred(q, r)
           /\ ~Preferred(r, r)
<1>1. BktOf(r) \in Int /\ BktOf(q) \in Int /\ r \in Int /\ q \in Int
  BY BktType
<1>2. /\ Preferred(r, q) <=> BktOf(r) > BktOf(q) \/ (BktOf(r) = BktOf(q) /\ r < q)
      /\ Preferred(q, r) <=> BktOf(q) > BktOf(r) \/ (BktOf(q) = BktOf(r) /\ q < r)
      /\ Preferred(r, r) <=> BktOf(r) > BktOf(r) \/ (BktOf(r) = BktOf(r) /\ r < r)
  BY DEF Preferred, BktOf
<1> QED
  BY <1>1, <1>2

\* Quota candidates of which none is passed over are the top candidates.
LEMMA ClosedIsTop ==
    ASSUME running \in Seq(RequestView), NEW S \in SUBSET Candidates,
           ClosedUnderPreference(S), Cardinality(S) = Quota
    PROVE  S = TopCandidates
<1> DEFINE better(r) == {q \in Candidates : Preferred(q, r)}
<1>1. IsFiniteSet(Candidates) /\ IsFiniteSet(S) /\ Cardinality(S) \in Nat
  BY CandidatesFinite, FS_Subset, FS_CardinalityType
<1>2. ASSUME NEW r \in Candidates
      PROVE  IsFiniteSet(better(r)) /\ Cardinality(better(r)) \in Nat
  <2>1. better(r) \in SUBSET Candidates
    OBVIOUS
  <2> QED
    BY <1>1, <2>1, FS_Subset, FS_CardinalityType
<1>3. ASSUME NEW r \in S
      PROVE  Cardinality(better(r)) < Quota
  <2>1. better(r) \in SUBSET (S \ {r})
    BY PreferredTotal DEF ClosedUnderPreference
  <2>2. IsFiniteSet(S \ {r}) /\ Cardinality(S \ {r}) = Cardinality(S) - 1
    BY <1>1, FS_RemoveElement
  <2>3. Cardinality(better(r)) <= Cardinality(S \ {r})
    BY <2>1, <2>2, FS_Subset
  <2>4. Cardinality(better(r)) \in Nat
    BY <1>2
  <2> HIDE DEF better
  <2> QED
    BY <1>1, <2>2, <2>3, <2>4
<1>4. ASSUME NEW r \in Candidates \ S
      PROVE  ~(Cardinality(better(r)) < Quota)
  <2>1. S \in SUBSET better(r)
    BY PreferredTotal DEF ClosedUnderPreference
  <2>2. IsFiniteSet(better(r)) /\ Cardinality(better(r)) \in Nat
    BY <1>2
  <2>3. Cardinality(S) <= Cardinality(better(r))
    BY <2>1, <2>2, FS_Subset
  <2> HIDE DEF better
  <2> QED
    BY <1>1, <2>2, <2>3
<1>5. \A r : r \in TopCandidates <=> r \in Candidates /\ Cardinality(better(r)) < Quota
  BY DEF TopCandidates
<1> HIDE DEF better
<1> QED
  BY <1>3, <1>4, <1>5

\* Quota is the budget, or all the candidates when they are fewer.
LEMMA QuotaBudget ==
    ASSUME running \in Seq(RequestView)
    PROVE  /\ Budget \in 0..Len(running)
           /\ Quota = IF Budget < Cardinality(Candidates) THEN Budget
                      ELSE Cardinality(Candidates)
<1>1. RealBelow(Len(running) + 1) = {r \in DOMAIN running : running[r].kind = "real"}
  <2>1. DOMAIN running = 1..Len(running) /\ Len(running) \in Nat
    OBVIOUS
  <2>2. \A r \in DOMAIN running : r < Len(running) + 1
    BY <2>1
  <2> QED
    BY <2>2 DEF RealBelow
<1>2. IsFiniteSet(RealBelow(Len(running) + 1))
  <2>1. IsFiniteSet(1..Len(running)) /\ RealBelow(Len(running) + 1) \in SUBSET (1..Len(running))
    BY FS_Interval DEF RealBelow
  <2> QED
    BY <2>1, FS_Subset
<1>3. Cardinality(RealBelow(Len(running) + 1)) \in Nat /\ Share \in 0..Len(running)
  BY <1>2, FS_CardinalityType, ShareType
<1>4. Quota = IF Budget < Cardinality(Candidates) THEN Budget ELSE Cardinality(Candidates)
  BY <1>1 DEF Quota, Budget, Share
<1> QED
  BY <1>3, <1>4 DEF Budget

\* A list of candidates in order is no longer than the running list.
LEMMA OrderedLen ==
    ASSUME running \in Seq(RequestView), NEW s \in Seq(Candidates),
           \A a, b \in 1..Len(s) : a < b => s[a] < s[b]
    PROVE  Len(s) <= Len(running)
<1> DEFINE S == {s[w] : w \in 1..Len(s)}
<1>1. Candidates \subseteq Int
  BY BktType
<1>2. Len(s) \in Nat /\ Len(s) \in 0..Len(s)
  OBVIOUS
<1>3. IsFiniteSet(S) /\ Cardinality(S) = Len(s)
  BY <1>1, <1>2, HeadCount
<1>4. S \in SUBSET Candidates
  OBVIOUS
<1> HIDE DEF S
<1>5. Cardinality(S) <= Cardinality(Candidates)
  BY <1>4, CandidatesFinite, FS_Subset
<1>6. Cardinality(Candidates) \in Nat /\ Cardinality(Candidates) <= Len(running)
  BY CandidatesFinite
<1> QED
  BY <1>2, <1>3, <1>5, <1>6

\* Nothing that depends on the running list alone changes.
LEMMA SameRunning ==
    ASSUME running' = running
    PROVE  /\ Candidates' = Candidates /\ TopCandidates' = TopCandidates
           /\ Share' = Share /\ Budget' = Budget
           /\ \A r : BktOf(r)' = BktOf(r)
           /\ \A w : RealBelow(w)' = RealBelow(w)
           /\ \A b : Above(b)' = Above(b) /\ InBucket(b)' = InBucket(b)
           /\ \A S : ClosedUnderPreference(S)' = ClosedUnderPreference(S)
<1>1. Candidates' = Candidates
  BY DEF Candidates
<1>2. \A r, q : Preferred(r, q)' = Preferred(r, q)
  BY DEF Preferred
<1>3. Quota' = Quota
  BY <1>1 DEF Quota
<1>4. TopCandidates' = TopCandidates
  BY <1>1, <1>2, <1>3 DEF TopCandidates
<1>5. Share' = Share /\ (\A r : BktOf(r)' = BktOf(r)) /\ \A w : RealBelow(w)' = RealBelow(w)
  BY DEF Share, BktOf, RealBelow
<1>6. Budget' = Budget
  BY <1>5 DEF Budget, RealBelow
<1>7. \A b : Above(b)' = Above(b) /\ InBucket(b)' = InBucket(b)
  BY <1>1 DEF Above, InBucket, BktOf
<1>8. \A S : ClosedUnderPreference(S)' = ClosedUnderPreference(S)
  BY <1>1, <1>2 DEF ClosedUnderPreference
<1> QED
  BY <1>1, <1>4, <1>5, <1>6, <1>7, <1>8

\* The list goes on with w, if w is one of S, and else stays as it is.
LEMMA ListsNext ==
    ASSUME NEW S \in SUBSET Int, NEW w \in Int, NEW l, Lists(l, S, w)
    PROVE  /\ w \notin S => Lists(l, S, w + 1)
           /\ w \in S => Lists(Append(l, w), S, w + 1)
<1>1. /\ l \in Seq(S) /\ Len(l) \in Nat
      /\ \A m \in 1..Len(l) : l[m] < w /\ l[m] \in Int
      /\ \A m, n \in 1..Len(l) : m < n => l[m] < l[n]
      /\ \A r \in S : r < w => \E m \in 1..Len(l) : l[m] = r
  <2>1. l \in Seq(S)
    BY DEF Lists
  <2>2. \A m \in 1..Len(l) : l[m] \in S
    BY <2>1
  <2>3. \A m \in 1..Len(l) : l[m] \in Int
    BY <2>2
  <2> QED
    BY <2>1, <2>3 DEF Lists
<1>2. ASSUME w \notin S
      PROVE  Lists(l, S, w + 1)
  <2>1. \A r \in S : r < w + 1 => r < w
    BY <1>2
  <2>2. \A m \in 1..Len(l) : l[m] < w + 1
    BY <1>1
  <2> QED
    BY <1>1, <2>1, <2>2 DEF Lists
<1>3. ASSUME w \in S
      PROVE  Lists(Append(l, w), S, w + 1)
  <2> DEFINE e == Append(l, w)
  <2>1. /\ e \in Seq(S) /\ Len(e) = Len(l) + 1 /\ e[Len(l) + 1] = w
        /\ \A m \in 1..Len(l) : e[m] = l[m]
    BY <1>1, <1>3
  <2> HIDE DEF e
  <2>2. \A m \in 1..Len(e) : m \in 1..Len(l) \/ m = Len(l) + 1
    BY <1>1, <2>1
  <2>3. \A m \in 1..Len(e) : e[m] < w + 1
    BY <1>1, <2>1, <2>2
  <2>4. \A m, n \in 1..Len(e) : m < n => e[m] < e[n]
    BY <1>1, <2>1, <2>2
  <2>5. \A r \in S : r < w + 1 => \E m \in 1..Len(e) : e[m] = r
    <3> SUFFICES ASSUME NEW r \in S, r < w + 1
                 PROVE  \E m \in 1..Len(e) : e[m] = r
      OBVIOUS
    <3>1. CASE r < w
      <4>1. PICK m \in 1..Len(l) : l[m] = r
        BY <1>1, <3>1
      <4>2. m \in 1..Len(e) /\ e[m] = r
        BY <1>1, <2>1, <4>1
      <4> QED
        BY <4>2
    <3>2. CASE r = w
      <4>1. Len(l) + 1 \in 1..Len(e)
        BY <1>1, <2>1
      <4> QED
        BY <2>1, <3>2, <4>1
    <3> QED
      BY <3>1, <3>2
  <2> QED
    BY <2>1, <2>3, <2>4, <2>5 DEF Lists, e
<1> QED
  BY <1>2, <1>3

-----------------------------------------------------------------------------
(* The steps. *)

\* Nothing is sorted yet.
LEMMA InitDrop ==
    ASSUME DropInit
    PROVE  DropInv
<1>1. PICK n \in 0..MaxRunning : running \in [1..n -> RequestView]
  BY DEF DropInit
<1>2. /\ sel_pc = "sort" /\ i = 1 /\ buckets = [b \in Bucket |-> <<>>]
      /\ pass_num = Share /\ num_real = 0 /\ tmp_idx = NumBuckets - 1 /\ tmp_req_idx = 0
      /\ max_boost_reqs = MaxBoost /\ passed = {}
  BY DEF DropInit, Share
<1>3. running \in Seq(RequestView) /\ Len(running) = n /\ n \in Nat /\ MaxRunning \in Nat
  BY <1>1, DropAssumption
<1>4. buckets \in [Bucket -> Seq(Candidates)] /\ \A b \in Bucket : Len(buckets[b]) = 0
  BY <1>2
<1>5. SortedBelow(1)
  <2>1. \A r \in Candidates : ~(r < 1)
    BY <1>3, BktType, CandidateFields
  <2>2. \A b \in Bucket : buckets[b] = <<>>
    BY <1>2
  <2>3. \A S : <<>> \in Seq(S) /\ Len(<<>>) = 0
    OBVIOUS
  <2>4. \A b : \A r \in InBucket(b) : ~(r < 1)
    BY <2>1 DEF InBucket
  <2>5. \A b \in Bucket : Lists(<<>>, InBucket(b), 1)
    BY <2>3, <2>4 DEF Lists
  <2> QED
    BY <2>2, <2>5 DEF SortedBelow
<1>6. Cardinality(RealBelow(1)) = 0
  <2>1. RealBelow(1) = {}
    BY <1>3 DEF RealBelow
  <2> QED
    BY <2>1, FS_EmptySet
<1>7. SortInv
  BY <1>2, <1>3, <1>5, <1>6 DEF SortInv
<1>8. MaxBoost \in Nat
  BY DropAssumption
<1> QED
  BY <1>1, <1>2, <1>3, <1>4, <1>7, <1>8 DEF DropInv

\* The next request is put at the end of its bucket.
LEMMA SortKeeps ==
    ASSUME DropInv, Sort
    PROVE  DropInv'
<1> DEFINE q == running[i]
           b0 == BucketOf(q.conf)
<1>1. /\ running \in Seq(RequestView) /\ Len(running) <= MaxRunning /\ MaxRunning \in Nat
      /\ Len(running) \in Nat
      /\ buckets \in [Bucket -> Seq(Candidates)]
      /\ num_real \in 0..MaxRunning /\ tmp_req_idx \in 0..MaxRunning
      /\ max_boost_reqs \in 0..MaxBoost /\ passed \in SUBSET Candidates
  BY DropAssumption DEF DropInv
<1>2. SortInv
  BY DEF DropInv, Sort, PassInv, BoostInv
<1>3. /\ i \in 1..Len(running) /\ i' = i + 1 /\ running' = running /\ sel_pc' = "sort"
      /\ pass_num' = pass_num /\ tmp_idx' = tmp_idx /\ tmp_req_idx' = tmp_req_idx
      /\ max_boost_reqs' = max_boost_reqs /\ passed' = passed
      /\ num_real' = IF q.kind = "real" THEN num_real + 1 ELSE num_real
      /\ buckets' = IF q.kind = "candidate" THEN [buckets EXCEPT ![b0] = Append(@, i)]
                    ELSE buckets
  <2>1. i \in 1..(Len(running) + 1) /\ i <= Len(running)
    BY <1>2 DEF Sort, SortInv
  <2>2. i \in 1..Len(running)
    BY <1>1, <2>1
  <2> QED
    BY <2>2, Zenon DEF Sort
<1>4. q.kind = "candidate" <=> i \in Candidates
  BY <1>1, <1>3 DEF Candidates
<1>5. /\ Candidates' = Candidates /\ Share' = Share
      /\ \A b : InBucket(b)' = InBucket(b)
      /\ \A w : RealBelow(w)' = RealBelow(w)
  BY <1>3, SameRunning
<1>6. /\ i \in Int /\ \A b : InBucket(b) \in SUBSET Int
      /\ \A b : InBucket(b) \in SUBSET Candidates
  BY <1>1, <1>3, BktType DEF InBucket
<1>7. \A b \in Bucket : Lists(buckets[b], InBucket(b), i)
  BY <1>2 DEF SortInv, SortedBelow
<1>8. \A b \in Bucket : Lists(buckets'[b], InBucket(b), i + 1)
  <2> SUFFICES ASSUME NEW b \in Bucket
               PROVE  Lists(buckets'[b], InBucket(b), i + 1)
    OBVIOUS
  <2>1. /\ i \notin InBucket(b) => Lists(buckets[b], InBucket(b), i + 1)
        /\ i \in InBucket(b) => Lists(Append(buckets[b], i), InBucket(b), i + 1)
    BY <1>6, <1>7, ListsNext
  <2>2. CASE i \in InBucket(b)
    <3>1. b0 = b /\ i \in Candidates
      BY <2>2 DEF InBucket, BktOf
    <3> HIDE DEF b0, q
    <3>2. buckets'[b] = Append(buckets[b], i)
      BY <1>1, <1>3, <1>4, <3>1
    <3> QED
      BY <2>1, <2>2, <3>2
  <2>3. CASE i \notin InBucket(b)
    <3>1. ~(b0 = b /\ i \in Candidates)
      BY <2>3 DEF InBucket, BktOf
    <3> HIDE DEF b0, q
    <3>2. buckets'[b] = buckets[b]
      BY <1>1, <1>3, <1>4, <3>1
    <3> QED
      BY <2>1, <2>3, <3>2
  <2> QED
    BY <2>2, <2>3
<1>9. buckets' \in [Bucket -> Seq(Candidates)]
  <2>1. CASE i \in Candidates
    <3>1. b0 \in Bucket
      BY <1>1, <2>1, BktType DEF BktOf
    <3> HIDE DEF b0, q
    <3>2. Append(buckets[b0], i) \in Seq(Candidates)
      BY <1>1, <2>1, <3>1
    <3> QED
      BY <1>1, <1>3, <1>4, <2>1, <3>1, <3>2
  <2>2. CASE i \notin Candidates
    BY <1>1, <1>3, <1>4, <2>2
  <2> QED
    BY <2>1, <2>2
<1>10. \A b \in Bucket : Len(buckets'[b]) <= MaxRunning
  <2> SUFFICES ASSUME NEW b \in Bucket
               PROVE  Len(buckets'[b]) <= MaxRunning
    OBVIOUS
  <2>1. buckets'[b] \in Seq(Candidates)
    BY <1>9
  <2>2. \A m, n \in 1..Len(buckets'[b]) : m < n => buckets'[b][m] < buckets'[b][n]
    BY <1>8 DEF Lists
  <2>3. Len(buckets'[b]) <= Len(running)
    BY <1>1, <2>1, <2>2, OrderedLen
  <2>4. Len(buckets'[b]) \in Nat
    BY <2>1
  <2> QED
    BY <1>1, <2>3, <2>4
<1>11. SortedBelow(i)'
  BY <1>3, <1>5, <1>8 DEF SortedBelow
<1>12. num_real' = Cardinality(RealBelow(i)') /\ num_real' \in 0..MaxRunning
  <2>1. IsFiniteSet(1..Len(running)) /\ Cardinality(1..Len(running)) = Len(running)
    <3>1. 1 \in Int /\ Len(running) \in Int
      BY <1>1
    <3>2. /\ IsFiniteSet(1..Len(running))
          /\ Cardinality(1..Len(running)) = IF 1 > Len(running) THEN 0
                                            ELSE Len(running) - 1 + 1
      BY <3>1, FS_Interval
    <3> QED
      BY <1>1, <3>2
  <2>2. RealBelow(i) \in SUBSET (1..Len(running)) /\ RealBelow(i + 1) \in SUBSET (1..Len(running))
    BY <1>1 DEF RealBelow
  <2>3. /\ IsFiniteSet(RealBelow(i)) /\ IsFiniteSet(RealBelow(i + 1))
        /\ Cardinality(RealBelow(i + 1)) <= Len(running)
        /\ Cardinality(RealBelow(i + 1)) \in Nat
    BY <2>1, <2>2, FS_Subset, FS_CardinalityType
  <2>4. num_real = Cardinality(RealBelow(i))
    BY <1>2 DEF SortInv
  <2>5. RealBelow(i + 1) = IF q.kind = "real" THEN RealBelow(i) \cup {i} ELSE RealBelow(i)
    BY <1>1, <1>3 DEF RealBelow
  <2>6. i \notin RealBelow(i)
    BY <1>6 DEF RealBelow
  <2>7. num_real' = Cardinality(RealBelow(i + 1))
    BY <1>3, <2>3, <2>4, <2>5, <2>6, FS_AddElement
  <2>8. RealBelow(i)' = RealBelow(i + 1)
    BY <1>3 DEF RealBelow
  <2> QED
    BY <1>1, <2>3, <2>7, <2>8
<1>13. SortInv'
  BY <1>1, <1>2, <1>3, <1>5, <1>11, <1>12 DEF SortInv
<1>14. i' \in 1..(MaxRunning + 1)
  BY <1>1, <1>3
<1> QED
  BY <1>1, <1>3, <1>5, <1>9, <1>10, <1>12, <1>13, <1>14 DEF DropInv

\* What is known before every step but the sort's.
LEMMA Common ==
    ASSUME DropInv
    PROVE  /\ running \in Seq(RequestView) /\ Len(running) \in Nat
           /\ Len(running) <= MaxRunning /\ MaxRunning \in Nat
           /\ buckets \in [Bucket -> Seq(Candidates)]
           /\ \A b \in Bucket : Len(buckets[b]) <= MaxRunning
           /\ i \in 1..(MaxRunning + 1) /\ num_real \in 0..MaxRunning
           /\ tmp_req_idx \in 0..MaxRunning /\ max_boost_reqs \in 0..MaxBoost
           /\ passed \in SUBSET Candidates
           /\ NumBuckets \in Nat \ {0} /\ MaxBoost \in Nat
  BY DropAssumption DEF DropInv

\* The steps after the sort leave the list and its buckets alone.
LEMMA CommonKept ==
    ASSUME DropInv, running' = running, buckets' = buckets, num_real' = num_real,
           i' \in 1..(MaxRunning + 1), tmp_req_idx' \in 0..MaxRunning,
           max_boost_reqs' \in 0..MaxBoost, passed' \in SUBSET Candidates,
           PassInv' \/ BoostInv'
    PROVE  DropInv'
<1>1. Candidates' = Candidates
  BY SameRunning
<1>2. /\ running' \in Seq(RequestView) /\ Len(running') <= MaxRunning
      /\ buckets' \in [Bucket -> Seq(Candidates')]
      /\ \A b \in Bucket : Len(buckets'[b]) <= MaxRunning
      /\ num_real' \in 0..MaxRunning
  BY <1>1, Common
<1> QED
  BY <1>1, <1>2 DEF DropInv

\* The order of buckets that stay the same.
LEMMA SameSorted ==
    ASSUME running' = running, buckets' = buckets, SortedBelow(Len(running) + 1)
    PROVE  SortedBelow(Len(running) + 1)'
<1>1. \A b : InBucket(b)' = InBucket(b)
  BY SameRunning
<1> QED
  BY <1>1 DEF SortedBelow

\* The real-token requests are taken off the share.
LEMMA EndSortKeeps ==
    ASSUME DropInv, EndSort
    PROVE  DropInv'
<1>1. SortInv
  BY DEF DropInv, EndSort, PassInv, BoostInv
<1>2. /\ i > Len(running) /\ sel_pc' = "pass" /\ i' = 1
      /\ pass_num' = IF pass_num > num_real THEN pass_num - num_real ELSE 0
      /\ running' = running /\ buckets' = buckets /\ num_real' = num_real
      /\ tmp_idx' = tmp_idx /\ tmp_req_idx' = tmp_req_idx
      /\ max_boost_reqs' = max_boost_reqs /\ passed' = passed
  BY DEF EndSort
<1>3. i = Len(running) + 1
  BY <1>1, <1>2, Common DEF SortInv
<1>4. /\ SortedBelow(Len(running) + 1) /\ num_real = Cardinality(RealBelow(Len(running) + 1))
      /\ pass_num = Share /\ tmp_idx = NumBuckets - 1 /\ tmp_req_idx = 0
      /\ max_boost_reqs = MaxBoost /\ passed = {}
  BY <1>1, <1>3 DEF SortInv
<1>5. Share \in Int /\ num_real \in Int
  BY Common, ShareType
<1>6. pass_num' = Budget /\ pass_num' \in Nat
  BY <1>2, <1>4, <1>5 DEF Budget
<1>7. Cardinality(passed) = 0 /\ ClosedUnderPreference(passed)
  BY <1>4, FS_EmptySet DEF ClosedUnderPreference
<1>8. passed = Above(tmp_idx)
  <2>1. \A r \in Candidates : ~(BktOf(r) > NumBuckets - 1)
    BY Common, BktType DEF Bucket
  <2> QED
    BY <1>4, <2>1 DEF Above
<1>9. SortedBelow(Len(running) + 1)'
  BY <1>2, <1>4, SameSorted
<1>10. Budget' = Budget /\ Above(tmp_idx)' = Above(tmp_idx)
       /\ ClosedUnderPreference(passed)' = ClosedUnderPreference(passed)
  BY <1>2, SameRunning DEF Above, ClosedUnderPreference, BktOf, Preferred
<1>11. tmp_idx \in -1..(NumBuckets - 1)
  BY <1>4, Common
<1>12. PassInv'
  BY <1>2, <1>4, <1>6, <1>7, <1>8, <1>9, <1>10, <1>11 DEF PassInv
<1>13. i' \in 1..(MaxRunning + 1)
  BY <1>2, Common
<1> QED
  BY <1>2, <1>12, <1>13, Common, CommonKept

\* A bucket lists its candidates, once each.
LEMMA BucketWhole ==
    ASSUME DropInv, SortedBelow(Len(running) + 1), NEW b \in Bucket
    PROVE  LET l == buckets[b] IN
           /\ l \in Seq(InBucket(b)) /\ Len(l) \in Nat
           /\ \A m, n \in 1..Len(l) : m < n => l[m] < l[n]
           /\ \A r \in InBucket(b) : \E m \in 1..Len(l) : l[m] = r
           /\ \A n \in 0..Len(l) : LET S == {l[w] : w \in 1..n} IN
                 IsFiniteSet(S) /\ Cardinality(S) = n
<1> DEFINE l == buckets[b]
<1>1. Lists(l, InBucket(b), Len(running) + 1)
  BY DEF SortedBelow
<1>2. l \in Seq(Candidates) /\ Candidates \subseteq Int /\ Len(l) \in Nat
  BY Common, BktType
<1> HIDE DEF l
<1>3. /\ l \in Seq(InBucket(b))
      /\ \A m, n \in 1..Len(l) : m < n => l[m] < l[n]
  BY <1>1 DEF Lists
<1>4. \A r \in InBucket(b) : r < Len(running) + 1
  BY Common, CandidateFields DEF InBucket
<1>5. \A r \in InBucket(b) : \E m \in 1..Len(l) : l[m] = r
  BY <1>1, <1>4 DEF Lists
<1>6. \A n \in 0..Len(l) : LET S == {l[w] : w \in 1..n} IN IsFiniteSet(S) /\ Cardinality(S) = n
  BY <1>2, <1>3, HeadCount
<1> QED
  BY <1>2, <1>3, <1>5, <1>6 DEF l

\* Whoever is preferred to a candidate is in its bucket or a higher one.
LEMMA PreferredBucket ==
    ASSUME running \in Seq(RequestView), NEW r \in Candidates, NEW q \in Candidates,
           Preferred(q, r)
    PROVE  BktOf(q) > BktOf(r) \/ (BktOf(q) = BktOf(r) /\ q < r)
  BY DEF Preferred, BktOf

\* The candidates passed and those of the next bucket are counted apart.
LEMMA CountPassed ==
    ASSUME NEW S, NEW T, NEW n \in Nat, IsFiniteSet(S), IsFiniteSet(T),
           Cardinality(T) = n, S \cap T = {}
    PROVE  Cardinality(S \cup T) = Cardinality(S) + n
<1>1. Cardinality(S) \in Nat /\ Cardinality(S \cap T) = 0
  BY FS_CardinalityType, FS_EmptySet
<1>2. Cardinality(S \cup T) = Cardinality(S) + Cardinality(T) - Cardinality(S \cap T)
  BY FS_Union
<1> QED
  BY <1>1, <1>2

\* The next bucket passes as a whole.
LEMMA PassBucketKeeps ==
    ASSUME DropInv, PassBucket
    PROVE  DropInv'
<1> DEFINE l == buckets[tmp_idx]
<1>1. PassInv
  BY DEF DropInv, PassBucket, SortInv, BoostInv
<1>2. /\ pass_num > 0 /\ tmp_idx >= 0 /\ Len(l) <= pass_num
      /\ passed' = passed \cup ToSet(l) /\ pass_num' = pass_num - Len(l)
      /\ tmp_idx' = tmp_idx - 1
      /\ running' = running /\ sel_pc' = sel_pc /\ i' = i /\ buckets' = buckets
      /\ num_real' = num_real /\ tmp_req_idx' = tmp_req_idx
      /\ max_boost_reqs' = max_boost_reqs
  BY DEF PassBucket
<1>3. /\ sel_pc = "pass" /\ i = 1 /\ SortedBelow(Len(running) + 1)
      /\ pass_num \in Nat /\ Cardinality(passed) + pass_num = Budget
      /\ tmp_idx \in -1..(NumBuckets - 1) /\ tmp_req_idx = 0 /\ passed = Above(tmp_idx)
      /\ max_boost_reqs = MaxBoost
  BY <1>1, <1>2 DEF PassInv
<1>4. tmp_idx \in Bucket /\ tmp_idx \in Int
  BY <1>2, <1>3, Common DEF Bucket
<1>5. /\ l \in Seq(InBucket(tmp_idx)) /\ Len(l) \in Nat
      /\ \A r \in InBucket(tmp_idx) : \E m \in 1..Len(l) : l[m] = r
      /\ LET S == {l[w] : w \in 1..Len(l)} IN IsFiniteSet(S) /\ Cardinality(S) = Len(l)
  <2>1. /\ l \in Seq(InBucket(tmp_idx)) /\ Len(l) \in Nat
        /\ \A r \in InBucket(tmp_idx) : \E m \in 1..Len(l) : l[m] = r
        /\ \A n \in 0..Len(l) : LET S == {l[w] : w \in 1..n} IN
              IsFiniteSet(S) /\ Cardinality(S) = n
    BY <1>3, <1>4, BucketWhole
  <2>2. Len(l) \in 0..Len(l)
    BY <2>1
  <2> QED
    BY <2>1, <2>2
<1>6. ToSet(l) = {l[w] : w \in 1..Len(l)}
  BY <1>5 DEF ToSet
<1>7. ToSet(l) = InBucket(tmp_idx)
  BY <1>5, <1>6
<1> HIDE DEF l
<1>8. \A r \in Candidates : BktOf(r) \in Int
  BY Common, BktType
<1>9. passed' = Above(tmp_idx - 1)
  BY <1>2, <1>3, <1>4, <1>7, <1>8 DEF Above, InBucket
<1>10. Cardinality(passed') = Cardinality(passed) + Len(l)
  <2>1. passed \cap ToSet(l) = {}
    BY <1>3, <1>4, <1>7, <1>8 DEF Above, InBucket
  <2>2. IsFiniteSet(passed)
    BY Common, CandidatesFinite, FS_Subset
  <2>3. IsFiniteSet(ToSet(l)) /\ Cardinality(ToSet(l)) = Len(l)
    BY <1>5, <1>6
  <2> QED
    BY <1>2, <1>5, <2>1, <2>2, <2>3, CountPassed
<1>11. Cardinality(passed) \in Nat
  BY Common, CandidatesFinite, FS_Subset, FS_CardinalityType
<1>12. pass_num' \in Nat /\ Cardinality(passed') + pass_num' = Budget
  <2>1. Len(l) \in Nat
    BY <1>5
  <2> QED
    BY <1>2, <1>3, <1>10, <1>11, <2>1
<1>13. ClosedUnderPreference(passed')
  <2> SUFFICES ASSUME NEW r \in Above(tmp_idx - 1), NEW q \in Candidates, Preferred(q, r)
               PROVE  q \in Above(tmp_idx - 1)
    BY <1>9 DEF ClosedUnderPreference
  <2>1. r \in Candidates /\ BktOf(r) > tmp_idx - 1 /\ BktOf(r) \in Int /\ BktOf(q) \in Int
    BY <1>8 DEF Above
  <2>2. BktOf(q) >= BktOf(r)
    BY <2>1, Common, PreferredBucket
  <2> QED
    BY <1>4, <2>1, <2>2 DEF Above
<1>14. /\ Budget' = Budget /\ \A b : Above(b)' = Above(b)
       /\ \A S : ClosedUnderPreference(S)' = ClosedUnderPreference(S)
  BY <1>2, SameRunning
<1>15. ClosedUnderPreference(passed)'
  BY <1>2, <1>13, <1>14 DEF ClosedUnderPreference, Preferred, Candidates
<1>16. passed' = Above(tmp_idx)'
  BY <1>2, <1>9 DEF Above, BktOf, Candidates
<1>17. SortedBelow(Len(running) + 1)'
  BY <1>2, <1>3, SameSorted
<1>18. tmp_idx' \in -1..(NumBuckets - 1)
  BY <1>2, <1>3, Common
<1>19. PassInv'
  BY <1>2, <1>3, <1>12, <1>14, <1>15, <1>16, <1>17, <1>18 DEF PassInv
<1>20. passed' \in SUBSET Candidates
  BY <1>9 DEF Above
<1> QED
  BY <1>2, <1>19, <1>20, Common, CommonKept

\* The budget ends in the next bucket.
LEMMA PassPartKeeps ==
    ASSUME DropInv, PassPart
    PROVE  DropInv'
<1> DEFINE l == buckets[tmp_idx]
           T == {l[w] : w \in 1..pass_num}
<1>1. PassInv
  BY DEF DropInv, PassPart, SortInv, BoostInv
<1>2. /\ pass_num > 0 /\ tmp_idx >= 0 /\ Len(l) > pass_num
      /\ passed' = passed \cup T /\ pass_num' = 0 /\ tmp_req_idx' = pass_num
      /\ tmp_idx' = tmp_idx - 1
      /\ running' = running /\ sel_pc' = sel_pc /\ i' = i /\ buckets' = buckets
      /\ num_real' = num_real /\ max_boost_reqs' = max_boost_reqs
  BY DEF PassPart
<1>3. /\ sel_pc = "pass" /\ i = 1 /\ SortedBelow(Len(running) + 1)
      /\ pass_num \in Nat /\ Cardinality(passed) + pass_num = Budget
      /\ tmp_idx \in -1..(NumBuckets - 1) /\ tmp_req_idx = 0 /\ passed = Above(tmp_idx)
      /\ max_boost_reqs = MaxBoost
  BY <1>1, <1>2 DEF PassInv
<1>4. tmp_idx \in Bucket /\ tmp_idx \in Int
  BY <1>2, <1>3, Common DEF Bucket
<1>5. /\ l \in Seq(InBucket(tmp_idx)) /\ Len(l) \in Nat
      /\ \A m, n \in 1..Len(l) : m < n => l[m] < l[n]
      /\ \A r \in InBucket(tmp_idx) : \E m \in 1..Len(l) : l[m] = r
      /\ \A n \in 0..Len(l) : LET S == {l[w] : w \in 1..n} IN
            IsFiniteSet(S) /\ Cardinality(S) = n
  BY <1>3, <1>4, BucketWhole
<1>6. pass_num \in 0..Len(l)
  BY <1>2, <1>3, <1>5
<1>7. IsFiniteSet(T) /\ Cardinality(T) = pass_num
  BY <1>5, <1>6
<1>8. /\ T \subseteq InBucket(tmp_idx)
      /\ \A r \in T : \E w \in 1..pass_num : r = l[w]
      /\ \A w \in 1..pass_num : l[w] \in T /\ w \in 1..Len(l)
  BY <1>5, <1>6
<1> HIDE DEF l, T
<1>9. \A r \in Candidates : BktOf(r) \in Int /\ r \in Int
  BY Common, BktType
<1>10. Cardinality(passed') = Cardinality(passed) + pass_num
  <2>1. passed \cap T = {}
    BY <1>3, <1>4, <1>8, <1>9 DEF Above, InBucket
  <2>2. IsFiniteSet(passed)
    BY Common, CandidatesFinite, FS_Subset
  <2> QED
    BY <1>2, <1>3, <1>7, <2>1, <2>2, CountPassed
<1>11. Cardinality(passed') + 0 = Budget
  <2>1. Cardinality(passed) \in Nat
    BY Common, CandidatesFinite, FS_Subset, FS_CardinalityType
  <2> QED
    BY <1>3, <1>10, <2>1
<1>12. ClosedUnderPreference(passed')
  <2> SUFFICES ASSUME NEW r \in passed', NEW q \in Candidates, Preferred(q, r)
               PROVE  q \in passed'
    BY DEF ClosedUnderPreference
  <2>1. CASE r \in Above(tmp_idx)
    <3>1. r \in Candidates /\ BktOf(r) > tmp_idx /\ BktOf(r) \in Int /\ BktOf(q) \in Int
      BY <1>9, <2>1 DEF Above
    <3>2. BktOf(q) >= BktOf(r)
      BY <3>1, Common, PreferredBucket
    <3>3. q \in Above(tmp_idx)
      BY <1>4, <3>1, <3>2 DEF Above
    <3> QED
      BY <1>2, <1>3, <3>3
  <2>2. CASE r \in T
    <3>1. PICK w \in 1..pass_num : r = l[w]
      BY <1>8, <2>2
    <3>2. r \in Candidates /\ BktOf(r) = tmp_idx
      BY <1>8, <2>2 DEF InBucket
    <3>3. BktOf(q) > tmp_idx \/ (BktOf(q) = tmp_idx /\ q < r)
      BY <3>2, Common, PreferredBucket
    <3>4. CASE BktOf(q) > tmp_idx
      BY <1>2, <1>3, <3>4 DEF Above
    <3>5. CASE BktOf(q) = tmp_idx /\ q < r
      <4>1. q \in InBucket(tmp_idx)
        BY <3>5 DEF InBucket
      <4>2. PICK m \in 1..Len(l) : l[m] = q
        BY <1>5, <4>1
      <4>3. w \in 1..Len(l) /\ ~(w < m) /\ w # m
        <5>1. q \in Int /\ r \in Int /\ q < r /\ w \in 1..Len(l)
          BY <1>8, <1>9, <3>1, <3>2, <3>5
        <5>2. w < m => r < q
          BY <1>5, <3>1, <4>2, <5>1
        <5>3. w = m => r = q
          BY <3>1, <4>2
        <5> QED
          BY <5>1, <5>2, <5>3
      <4>4. m \in 1..pass_num
        BY <1>3, <1>5, <3>1, <4>2, <4>3
      <4> QED
        BY <1>2, <1>8, <4>2, <4>4
    <3> QED
      BY <3>3, <3>4, <3>5
  <2> QED
    BY <1>2, <1>3, <2>1, <2>2
<1>13. ClosedUnderPreference(passed)'
  BY <1>2, <1>12 DEF ClosedUnderPreference, Preferred, Candidates
<1>14. SortedBelow(Len(running) + 1)' /\ Budget' = Budget
  BY <1>2, <1>3, SameSorted, SameRunning
<1>15. tmp_idx' \in -1..(NumBuckets - 1)
  BY <1>2, <1>3, Common
<1>16. PassInv'
  BY <1>2, <1>3, <1>11, <1>13, <1>14, <1>15 DEF PassInv
<1>17. tmp_req_idx' \in 0..MaxRunning
  <2>1. Len(l) <= MaxRunning
    BY <1>4, Common DEF l
  <2> QED
    BY <1>2, <1>3, <1>5, <2>1, Common
<1>18. passed' \in SUBSET Candidates
  BY <1>2, <1>8, Common DEF InBucket
<1> QED
  BY <1>2, <1>16, <1>17, <1>18, Common, CommonKept

\* The budget is spent, or every candidate has passed.
LEMMA EndPassKeeps ==
    ASSUME DropInv, EndPass
    PROVE  DropInv'
<1>1. PassInv
  BY DEF DropInv, EndPass, SortInv, BoostInv
<1>2. /\ pass_num = 0 \/ tmp_idx < 0
      /\ sel_pc' = IF ~EnableLaSched2 THEN "done"
                   ELSE IF tmp_req_idx # 0 THEN "boost_rest" ELSE "boost"
      /\ running' = running /\ i' = i /\ buckets' = buckets /\ pass_num' = pass_num
      /\ num_real' = num_real /\ tmp_idx' = tmp_idx /\ tmp_req_idx' = tmp_req_idx
      /\ max_boost_reqs' = max_boost_reqs /\ passed' = passed
  BY DEF EndPass
<1>3. /\ i = 1 /\ pass_num \in Nat /\ Cardinality(passed) + pass_num = Budget
      /\ tmp_idx \in -1..(NumBuckets - 1)
      /\ pass_num > 0 => passed = Above(tmp_idx)
      /\ ClosedUnderPreference(passed) /\ max_boost_reqs = MaxBoost
  BY <1>1 DEF PassInv
<1>4. /\ IsFiniteSet(passed) /\ Cardinality(passed) \in Nat
      /\ Cardinality(passed) <= Cardinality(Candidates)
      /\ Cardinality(Candidates) \in Nat
  BY Common, CandidatesFinite, FS_Subset, FS_CardinalityType
<1>5. /\ Budget \in 0..Len(running)
      /\ Quota = IF Budget < Cardinality(Candidates) THEN Budget
                 ELSE Cardinality(Candidates)
  BY Common, QuotaBudget
<1>6. Cardinality(passed) = Quota
  <2>1. CASE pass_num = 0
    BY <1>3, <1>4, <1>5, <2>1
  <2>2. CASE pass_num > 0
    <3>1. tmp_idx = -1
      BY <1>2, <1>3, <2>2, Common
    <3>2. \A r \in Candidates : BktOf(r) > -1
      BY Common, BktType DEF Bucket
    <3>3. passed = Candidates
      BY <1>3, <2>2, <3>1, <3>2 DEF Above
    <3> QED
      BY <1>3, <1>4, <1>5, <2>2, <3>3
  <2> QED
    BY <1>3, <2>1, <2>2
<1>7. passed = TopCandidates
  BY <1>3, <1>6, Common, ClosedIsTop
<1>8. TopAndBoosted'
  <2>1. TopCandidates' = TopCandidates
    BY <1>2, SameRunning
  <2>2. passed' \ TopCandidates' = {}
    BY <1>2, <1>7, <2>1
  <2>3. Cardinality(passed' \ TopCandidates') = 0
    BY <2>2, FS_EmptySet
  <2> QED
    BY <1>2, <1>3, <1>7, <2>1, <2>2, <2>3, Common DEF TopAndBoosted
<1>9. pass_num' \in 0..MaxRunning
  BY <1>2, <1>3, <1>4, <1>5, Common
<1>10. BoostInv'
  <2>1. EnableLaSched2 \in BOOLEAN
    BY DropAssumption
  <2>2. tmp_idx' \in -1..(NumBuckets - 1) /\ tmp_idx' \in -2..(NumBuckets - 1) /\ i' = 1
    BY <1>2, <1>3, Common
  <2>3. sel_pc' # "done" => EnableLaSched2
    BY <1>2, <2>1
  <2>4. sel_pc' \in {"boost_rest", "boost", "done"}
    BY <1>2
  <2> QED
    BY <1>8, <1>9, <2>2, <2>3, <2>4 DEF BoostInv
<1> QED
  BY <1>2, <1>10, Common, CommonKept

\* What either loop of the boost does with a candidate.
LEMMA BoostOne ==
    ASSUME DropInv, TopAndBoosted, EnableLaSched2, running' = running,
           NEW r \in Candidates, Boost(r)
    PROVE  /\ TopAndBoosted' /\ passed' \in SUBSET Candidates
           /\ max_boost_reqs' \in 0..MaxBoost
<1>1. TopCandidates' = TopCandidates
  BY SameRunning
<1>2. CASE ~(Eligible(running[r]) /\ max_boost_reqs > 0)
  <2>1. passed' = passed /\ max_boost_reqs' = max_boost_reqs
    BY <1>2 DEF Boost
  <2> QED
    BY <1>1, <2>1, Common DEF TopAndBoosted, Eligible
<1>3. CASE Eligible(running[r]) /\ max_boost_reqs > 0
  <2>1. passed' = passed \cup {r} /\ max_boost_reqs' = max_boost_reqs - 1
    BY <1>3 DEF Boost
  <2> DEFINE X == passed \ TopCandidates
             Y == (passed \cup {r}) \ TopCandidates
  <2>2. IsFiniteSet(X) /\ Cardinality(X) \in Nat
    <3>1. X \in SUBSET Candidates
      BY Common
    <3> QED
      BY <3>1, Common, CandidatesFinite, FS_Subset, FS_CardinalityType
  <2>3. IsFiniteSet(X \cup {r}) /\ Cardinality(X \cup {r}) <= Cardinality(X) + 1
    BY <2>2, FS_AddElement
  <2>4. Y \in SUBSET (X \cup {r})
    OBVIOUS
  <2>5. Cardinality(Y) <= Cardinality(X \cup {r}) /\ Cardinality(Y) \in Nat
        /\ Cardinality(X \cup {r}) \in Nat
    BY <2>3, <2>4, FS_Subset, FS_CardinalityType
  <2>6. Cardinality(X) <= MaxBoost - max_boost_reqs
    BY DEF TopAndBoosted
  <2>7. Y = passed' \ TopCandidates'
    BY <1>1, <2>1
  <2>8. \A x \in Y : EnableLaSched2 /\ Eligible(running[x])
    BY <1>3 DEF TopAndBoosted
  <2> HIDE DEF X, Y
  <2>9. Cardinality(Y) <= MaxBoost - max_boost_reqs' /\ max_boost_reqs' \in 0..MaxBoost
    <3>1. max_boost_reqs \in Nat /\ max_boost_reqs <= MaxBoost /\ MaxBoost \in Nat
      BY Common
    <3>2. max_boost_reqs > 0
      BY <1>3
    <3>3. Cardinality(Y) <= Cardinality(X) + 1
      BY <2>2, <2>3, <2>5
    <3> QED
      BY <2>1, <2>2, <2>5, <2>6, <3>1, <3>2, <3>3
  <2>10. TopCandidates' \subseteq passed'
    BY <1>1, <2>1 DEF TopAndBoosted
  <2>11. TopAndBoosted'
    BY <2>7, <2>8, <2>9, <2>10 DEF TopAndBoosted, Eligible
  <2> QED
    BY <2>1, <2>9, <2>11, Common
<1> QED
  BY <1>2, <1>3

\* Nothing is boosted.
LEMMA BoostNone ==
    ASSUME TopAndBoosted, running' = running, passed' = passed,
           max_boost_reqs' = max_boost_reqs
    PROVE  TopAndBoosted'
<1>1. TopCandidates' = TopCandidates
  BY SameRunning
<1> QED
  BY <1>1 DEF TopAndBoosted, Eligible

\* Python's wraparound leads to a bucket.
LEMMA AtType ==
    ASSUME NEW b \in -1..(NumBuckets - 1), NumBuckets \in Nat \ {0}
    PROVE  At(b) \in Bucket
  BY DEF At, Bucket

\* The scan of the bucket at tmp_idx.
LEMMA BoostRestKeeps ==
    ASSUME DropInv, BoostRest
    PROVE  DropInv'
<1> DEFINE l == buckets[At(tmp_idx)]
<1>1. BoostInv /\ sel_pc = "boost_rest"
  BY DEF DropInv, BoostRest, SortInv, PassInv
<1>2. /\ i = 1 /\ tmp_idx \in -1..(NumBuckets - 1) /\ EnableLaSched2
      /\ pass_num \in 0..MaxRunning /\ TopAndBoosted
  BY <1>1 DEF BoostInv
<1>3. /\ running' = running /\ i' = i /\ buckets' = buckets /\ pass_num' = pass_num
      /\ num_real' = num_real
  BY DEF BoostRest
<1>4. At(tmp_idx) \in Bucket
  BY <1>2, Common, AtType
<1>5. l \in Seq(Candidates) /\ Len(l) \in Nat /\ Len(l) <= MaxRunning
  BY <1>4, Common
<1>6. /\ TopAndBoosted' /\ passed' \in SUBSET Candidates
      /\ max_boost_reqs' \in 0..MaxBoost
  <2>1. CASE tmp_req_idx < Len(l)
    <3>1. Boost(l[tmp_req_idx + 1])
      BY <2>1 DEF BoostRest
    <3>2. tmp_req_idx + 1 \in 1..Len(l)
      BY <1>5, <2>1, Common
    <3>3. l[tmp_req_idx + 1] \in Candidates
      BY <1>5, <3>2
    <3> QED
      BY <1>2, <1>3, <3>1, <3>3, BoostOne
  <2>2. CASE ~(tmp_req_idx < Len(l))
    <3>1. passed' = passed /\ max_boost_reqs' = max_boost_reqs
      BY <2>2 DEF BoostRest
    <3> QED
      BY <1>2, <1>3, <3>1, BoostNone, Common
  <2> QED
    BY <2>1, <2>2
<1>7. /\ \/ sel_pc' = "boost" /\ tmp_idx' = tmp_idx - 1
         \/ sel_pc' = "boost_rest" /\ tmp_idx' = tmp_idx
      /\ \/ tmp_req_idx' = tmp_req_idx
         \/ tmp_req_idx < Len(l) /\ tmp_req_idx' = tmp_req_idx + 1
  BY <1>1 DEF BoostRest
<1>8. tmp_req_idx' \in 0..MaxRunning
  BY <1>5, <1>7, Common
<1>9. BoostInv'
  <2>1. tmp_idx' \in -2..(NumBuckets - 1)
        /\ (tmp_idx' = tmp_idx => tmp_idx' \in -1..(NumBuckets - 1))
    BY <1>2, <1>7, Common
  <2> QED
    BY <1>2, <1>3, <1>6, <1>7, <2>1 DEF BoostInv
<1> QED
  BY <1>3, <1>6, <1>8, <1>9, Common, CommonKept

\* The scan of the buckets below.
LEMMA BoostBelowKeeps ==
    ASSUME DropInv, BoostBelow
    PROVE  DropInv'
<1> DEFINE l == buckets[tmp_idx]
<1>1. BoostInv /\ sel_pc = "boost"
  BY DEF DropInv, BoostBelow, SortInv, PassInv
<1>2. /\ tmp_idx \in -2..(NumBuckets - 1) /\ EnableLaSched2
      /\ pass_num \in 0..MaxRunning /\ TopAndBoosted
  BY <1>1 DEF BoostInv
<1>3. /\ running' = running /\ sel_pc' = sel_pc /\ buckets' = buckets
      /\ pass_num' = pass_num /\ num_real' = num_real /\ tmp_req_idx' = tmp_req_idx
      /\ tmp_idx >= 0
  BY DEF BoostBelow
<1>4. tmp_idx \in Bucket
  BY <1>2, <1>3, Common DEF Bucket
<1>5. l \in Seq(Candidates) /\ Len(l) \in Nat /\ Len(l) <= MaxRunning
  BY <1>4, Common
<1>6. /\ TopAndBoosted' /\ passed' \in SUBSET Candidates
      /\ max_boost_reqs' \in 0..MaxBoost
      /\ i' \in 1..(MaxRunning + 1) /\ tmp_idx' \in -2..(NumBuckets - 1)
  <2>1. CASE i <= Len(l)
    <3>1. Boost(l[i]) /\ i' = i + 1 /\ tmp_idx' = tmp_idx
      BY <2>1 DEF BoostBelow
    <3>2. i \in 1..Len(l)
      BY <1>5, <2>1, Common
    <3>3. l[i] \in Candidates
      BY <1>5, <3>2
    <3>4. i' \in 1..(MaxRunning + 1)
      BY <1>5, <3>1, <3>2, Common
    <3> QED
      BY <1>2, <1>3, <3>1, <3>3, <3>4, BoostOne
  <2>2. CASE ~(i <= Len(l))
    <3>1. /\ passed' = passed /\ max_boost_reqs' = max_boost_reqs
          /\ i' = 1 /\ tmp_idx' = tmp_idx - 1
      BY <2>2 DEF BoostBelow
    <3>2. i' \in 1..(MaxRunning + 1) /\ tmp_idx' \in -2..(NumBuckets - 1)
      BY <1>2, <1>3, <3>1, Common
    <3> QED
      BY <1>2, <1>3, <3>1, <3>2, BoostNone, Common
  <2> QED
    BY <2>1, <2>2
<1>7. BoostInv'
  BY <1>1, <1>2, <1>3, <1>6 DEF BoostInv
<1> QED
  BY <1>3, <1>6, <1>7, Common, CommonKept

\* The boost is used up, or no bucket is left.
LEMMA EndBoostKeeps ==
    ASSUME DropInv, EndBoost
    PROVE  DropInv'
<1>1. BoostInv /\ sel_pc = "boost"
  BY DEF DropInv, EndBoost, SortInv, PassInv
<1>2. /\ sel_pc' = "done" /\ running' = running /\ i' = i /\ buckets' = buckets
      /\ pass_num' = pass_num /\ num_real' = num_real /\ tmp_idx' = tmp_idx
      /\ tmp_req_idx' = tmp_req_idx /\ max_boost_reqs' = max_boost_reqs
      /\ passed' = passed
  BY DEF EndBoost
<1>3. TopAndBoosted'
  BY <1>1, <1>2, BoostNone DEF BoostInv
<1>4. BoostInv'
  BY <1>1, <1>2, <1>3 DEF BoostInv
<1> QED
  BY <1>2, <1>4, Common, CommonKept

\* Every step keeps the invariant.
LEMMA NextDrop ==
    ASSUME DropInv, [DropNext]_dropVars
    PROVE  DropInv'
<1>1. CASE UNCHANGED dropVars
  <2>1. /\ running' = running /\ sel_pc' = sel_pc /\ i' = i /\ buckets' = buckets
        /\ pass_num' = pass_num /\ num_real' = num_real /\ tmp_idx' = tmp_idx
        /\ tmp_req_idx' = tmp_req_idx /\ max_boost_reqs' = max_boost_reqs
        /\ passed' = passed
    BY <1>1 DEF dropVars
  <2>2. /\ Candidates' = Candidates /\ TopCandidates' = TopCandidates
        /\ Share' = Share /\ Budget' = Budget
        /\ \A w : RealBelow(w)' = RealBelow(w)
        /\ \A b : Above(b)' = Above(b) /\ InBucket(b)' = InBucket(b)
        /\ \A S : ClosedUnderPreference(S)' = ClosedUnderPreference(S)
    BY <2>1, SameRunning
  <2>3. SortInv => SortInv'
    BY <2>1, <2>2 DEF SortInv, SortedBelow, RealBelow
  <2>4. PassInv => PassInv'
    BY <2>1, <2>2 DEF PassInv, SortedBelow, Above, BktOf, ClosedUnderPreference, Preferred
  <2>5. BoostInv => BoostInv'
    BY <2>1, BoostNone DEF BoostInv
  <2> QED
    BY <2>1, <2>2, <2>3, <2>4, <2>5 DEF DropInv
<1>2. CASE DropNext
  BY <1>2, SortKeeps, EndSortKeeps, PassBucketKeeps, PassPartKeeps, EndPassKeeps,
     BoostRestKeeps, BoostBelowKeeps, EndBoostKeeps DEF DropNext
<1> QED
  BY <1>1, <1>2

\* The indices of both loops, the buckets and the counters stay in range, for
\* every running list, number of buckets, drop ratio and boost limit.
THEOREM DropTypeCorrect == DropSpec => []DropTypeOK
<1>1. DropInit => DropInv
  BY InitDrop
<1>2. DropInv /\ [DropNext]_dropVars => DropInv'
  BY NextDrop
<1>3. DropInv => DropTypeOK
  <2> SUFFICES ASSUME DropInv PROVE DropTypeOK
    OBVIOUS
  <2>1. \A s \in Seq(Candidates) : s \in Seq(DOMAIN running)
    BY DEF Candidates
  <2>2. buckets \in [Bucket -> Seq(DOMAIN running)] /\ passed \subseteq DOMAIN running
    BY <2>1, Common DEF Candidates
  <2>3. /\ sel_pc \in {"sort", "pass", "boost_rest", "boost", "done"}
        /\ tmp_idx \in -2..(NumBuckets - 1)
    BY Common DEF DropInv, SortInv, PassInv, BoostInv
  <2>4. pass_num \in 0..MaxRunning
    <3>1. CASE SortInv
      BY <3>1, Common, ShareType DEF SortInv
    <3>2. CASE PassInv
      <4>1. pass_num \in Nat /\ Cardinality(passed) + pass_num = Budget
        BY <3>2 DEF PassInv
      <4>2. Cardinality(passed) \in Nat /\ Budget \in 0..Len(running)
        BY Common, CandidatesFinite, FS_Subset, FS_CardinalityType, QuotaBudget
      <4> QED
        BY <4>1, <4>2, Common
    <3>3. CASE BoostInv
      BY <3>3 DEF BoostInv
    <3> QED
      BY <3>1, <3>2, <3>3 DEF DropInv
  <2> QED
    BY <2>2, <2>3, <2>4, Common DEF DropTypeOK
<1> QED
  BY <1>1, <1>2, <1>3, PTL DEF DropSpec

\* When _apply_confidence_drop returns, the candidates that go on speculating
\* are the most confident ones the drop ratio leaves room for after the
\* real-token requests, the longest running first within a bucket, and beside
\* them only short, confident ones that the boost was allowed to add.
THEOREM SelectionIsTop == DropSpec => []SelectionCorrect
<1>1. DropInit => DropInv
  BY InitDrop
<1>2. DropInv /\ [DropNext]_dropVars => DropInv'
  BY NextDrop
<1>3. DropInv => SelectionCorrect
  <2> SUFFICES ASSUME DropInv, sel_pc \in {"boost_rest", "boost", "done"}
               PROVE  SelectionCorrect
    BY DEF SelectionCorrect
  <2>1. BoostInv
    BY DEF DropInv, SortInv, PassInv
  <2> QED
    BY <2>1, Common DEF BoostInv, TopAndBoosted, Eligible, SelectionCorrect
<1> QED
  BY <1>1, <1>2, <1>3, PTL DEF DropSpec

-----------------------------------------------------------------------------
(* The projection: powers, by the loop that multiplies. *)

TimesGood(c, s, j) == s \in Nat

Pow == INSTANCE Iteration WITH Step <- Times, Good <- TimesGood

-----------------------------------------------------------------------------
(* Finite sums. *)

\* What holds for the empty set, and with a set for the set with one more
\* member, holds for every finite set.
LEMMA FiniteInduction ==
    ASSUME NEW S, IsFiniteSet(S), NEW T, {} \in T,
           \A s \in SUBSET S : \A x \in S : s \in T /\ x \notin s => s \cup {x} \in T
    PROVE  S \in T
<1> DEFINE Q == {m \in Nat : \A s \in SUBSET S : Cardinality(s) = m => s \in T}
<1>1. \A s \in SUBSET S : IsFiniteSet(s) /\ Cardinality(s) \in Nat
  BY FS_Subset, FS_CardinalityType
<1>2. 0 \in Q
  BY <1>1, FS_EmptySet
<1>3. ASSUME NEW m \in Nat, m \in Q PROVE m + 1 \in Q
  <2>1. SUFFICES ASSUME NEW s \in SUBSET S, Cardinality(s) = m + 1 PROVE s \in T
    OBVIOUS
  <2>2. PICK x : x \in s
    BY <1>1, <2>1, FS_EmptySet
  <2>3. Cardinality(s \ {x}) = m
    <3>1. IsFiniteSet(s)
      BY <1>1
    <3>2. Cardinality(s \ {x}) = Cardinality(s) - 1
      BY <2>2, <3>1, FS_RemoveElement
    <3> QED
      BY <2>1, <3>2
  <2>4. s \ {x} \in T
    BY <1>3, <2>3
  <2>5. s = (s \ {x}) \cup {x} /\ x \in S /\ s \ {x} \in SUBSET S
    BY <2>2
  <2> QED
    BY <2>4, <2>5
<1> HIDE DEF Q
<1>4. Cardinality(S) \in Q
  BY <1>1, <1>2, <1>3, Pow!Induction
<1> QED
  BY <1>4 DEF Q

\* The member a sum takes first.
First(s) == CHOOSE x \in s : TRUE

\* The function by which the sums over subsets of S are defined.
IsSum(g, f, S) ==
    g = [s \in SUBSET S |-> IF s = {} THEN 0 ELSE f[First(s)] + g[s \ {First(s)}]]

\* The same for the subsets with up to m members only.
SumUpto(g, f, S, m) ==
    \A s \in SUBSET S : Cardinality(s) <= m =>
        g[s] = IF s = {} THEN 0 ELSE f[First(s)] + g[s \ {First(s)}]

\* The function exists.
LEMMA SumExists ==
    ASSUME NEW f, NEW S, IsFiniteSet(S)
    PROVE  \E g : IsSum(g, f, S)
<1> DEFINE Q == {m \in Nat : \E g : SumUpto(g, f, S, m)}
<1>1. \A s \in SUBSET S : IsFiniteSet(s) /\ Cardinality(s) \in Nat
  BY FS_Subset, FS_CardinalityType
<1>2. \A s \in SUBSET S : s # {} =>
          First(s) \in s /\ Cardinality(s \ {First(s)}) = Cardinality(s) - 1
  BY <1>1, FS_RemoveElement DEF First
<1>3. 0 \in Q
  <2> DEFINE g == [s \in SUBSET S |-> 0]
  <2>1. \A s \in SUBSET S : Cardinality(s) <= 0 => s = {}
    BY <1>1, FS_EmptySet
  <2>2. SumUpto(g, f, S, 0)
    BY <2>1 DEF SumUpto
  <2> QED
    BY <2>2
<1>4. ASSUME NEW m \in Nat, m \in Q PROVE m + 1 \in Q
  <2>1. PICK g : SumUpto(g, f, S, m)
    BY <1>4
  <2> DEFINE h == [s \in SUBSET S |-> IF Cardinality(s) = m + 1
                                      THEN f[First(s)] + g[s \ {First(s)}] ELSE g[s]]
  <2>2. ASSUME NEW s \in SUBSET S, Cardinality(s) <= m + 1
        PROVE  h[s] = IF s = {} THEN 0 ELSE f[First(s)] + h[s \ {First(s)}]
    <3>1. s # {} => h[s \ {First(s)}] = g[s \ {First(s)}]
      <4>1. SUFFICES ASSUME s # {} PROVE h[s \ {First(s)}] = g[s \ {First(s)}]
        OBVIOUS
      <4>2. s \ {First(s)} \in SUBSET S /\ Cardinality(s \ {First(s)}) # m + 1
        BY <1>1, <1>2, <2>2, <4>1
      <4> QED
        BY <4>2
    <3>2. CASE Cardinality(s) = m + 1
      <4>1. s # {}
        BY <3>2, FS_EmptySet
      <4> QED
        BY <3>1, <3>2, <4>1
    <3>3. CASE Cardinality(s) # m + 1
      <4>1. Cardinality(s) <= m
        BY <1>1, <2>2, <3>3
      <4>2. h[s] = g[s]
        BY <3>3
      <4> QED
        BY <2>1, <3>1, <4>1, <4>2 DEF SumUpto
    <3> QED
      BY <3>2, <3>3
  <2> HIDE DEF h
  <2>3. SumUpto(h, f, S, m + 1)
    BY <2>2 DEF SumUpto
  <2> QED
    BY <2>3
<1> HIDE DEF Q
<1>5. Cardinality(S) \in Q
  BY <1>1, <1>3, <1>4, Pow!Induction
<1>6. PICK g : SumUpto(g, f, S, Cardinality(S))
  BY <1>5 DEF Q
<1> DEFINE h == [s \in SUBSET S |-> g[s]]
<1>7. ASSUME NEW s \in SUBSET S
      PROVE  h[s] = IF s = {} THEN 0 ELSE f[First(s)] + h[s \ {First(s)}]
  <2>1. Cardinality(s) <= Cardinality(S)
    BY FS_Subset
  <2> QED
    BY <1>6, <2>1 DEF SumUpto
<1>8. IsSum(h, f, S)
  <2> HIDE DEF h
  <2>1. h = [s \in SUBSET S |-> h[s]]
    BY DEF h
  <2> QED
    BY <1>7, <2>1 DEF IsSum
<1> QED
  BY <1>8

\* The sum is the function's value.
LEMMA SumValue ==
    ASSUME NEW f, NEW S, IsFiniteSet(S)
    PROVE  \E g : IsSum(g, f, S) /\ SumFunctionOnSet(f, S) = g[S]
<1> DEFINE g == CHOOSE g : IsSum(g, f, S)
<1>1. IsSum(g, f, S)
  BY SumExists
<1>2. SumFunctionOnSet(f, S) = g[S]
  BY DEF SumFunctionOnSet, FoldFunctionOnSet, MapThenFoldSet, IsSum, First
<1> QED
  BY <1>1, <1>2

\* A sum takes its values from the members only.
LEMMA SumUnique ==
    ASSUME NEW f, NEW g, NEW S, NEW T \in SUBSET S, IsFiniteSet(S),
           \A x \in T : f[x] = g[x],
           NEW u, IsSum(u, f, S), NEW v, IsSum(v, g, T)
    PROVE  u[T] = v[T]
<1> DEFINE Q == {m \in Nat : \A s \in SUBSET T : Cardinality(s) = m => u[s] = v[s]}
<1>1. \A s \in SUBSET S : IsFiniteSet(s) /\ Cardinality(s) \in Nat
  BY FS_Subset, FS_CardinalityType
<1>2. \A s \in SUBSET S : s # {} =>
          First(s) \in s /\ Cardinality(s \ {First(s)}) = Cardinality(s) - 1
  BY <1>1, FS_RemoveElement DEF First
<1>3. 0 \in Q
  <2>1. \A s \in SUBSET T : Cardinality(s) = 0 => s = {}
    BY <1>1, FS_EmptySet
  <2>2. u[{}] = 0 /\ v[{}] = 0
    BY DEF IsSum
  <2> QED
    BY <2>1, <2>2
<1>4. ASSUME NEW m \in Nat, m \in Q PROVE m + 1 \in Q
  <2>1. SUFFICES ASSUME NEW s \in SUBSET T, Cardinality(s) = m + 1 PROVE u[s] = v[s]
    OBVIOUS
  <2>2. s # {}
    BY <2>1, FS_EmptySet
  <2>3. s \in SUBSET S /\ First(s) \in s /\ s \ {First(s)} \in SUBSET T
    BY <1>2, <2>2
  <2>4. Cardinality(s \ {First(s)}) = m
    BY <1>2, <2>1, <2>2, <2>3
  <2>5. u[s \ {First(s)}] = v[s \ {First(s)}]
    BY <1>4, <2>3, <2>4
  <2>6. f[First(s)] = g[First(s)]
    BY <2>3
  <2>7. u[s] = f[First(s)] + u[s \ {First(s)}]
    BY <2>2, <2>3 DEF IsSum
  <2>8. v[s] = g[First(s)] + v[s \ {First(s)}]
    BY <2>2, <2>3 DEF IsSum
  <2> QED
    BY <2>5, <2>6, <2>7, <2>8
<1> HIDE DEF Q
<1>5. Cardinality(T) \in Q
  BY <1>1, <1>3, <1>4, Pow!Induction
<1> QED
  BY <1>5 DEF Q

\* Functions that agree on a set have the same sum over it.
LEMMA SumSame ==
    ASSUME NEW S, IsFiniteSet(S), NEW f, NEW g, \A x \in S : f[x] = g[x]
    PROVE  SumFunctionOnSet(f, S) = SumFunctionOnSet(g, S)
<1>1. PICK u : IsSum(u, f, S) /\ SumFunctionOnSet(f, S) = u[S]
  BY SumValue
<1>2. PICK v : IsSum(v, g, S) /\ SumFunctionOnSet(g, S) = v[S]
  BY SumValue
<1>3. S \in SUBSET S
  OBVIOUS
<1>4. u[S] = v[S]
  BY <1>1, <1>2, <1>3, SumUnique
<1> QED
  BY <1>1, <1>2, <1>4

\* A sum over nothing.
LEMMA SumEmpty ==
    ASSUME NEW f
    PROVE  SumFunctionOnSet(f, {}) = 0
<1>1. IsFiniteSet({})
  BY FS_EmptySet
<1>2. PICK u : IsSum(u, f, {}) /\ SumFunctionOnSet(f, {}) = u[{}]
  BY <1>1, SumValue
<1> QED
  BY <1>2 DEF IsSum

\* A sum takes its first member, and then the others.
LEMMA SumFirst ==
    ASSUME NEW S, IsFiniteSet(S), S # {}, NEW f
    PROVE  SumFunctionOnSet(f, S) = f[First(S)] + SumFunctionOnSet(f, S \ {First(S)})
<1> DEFINE T == S \ {First(S)}
<1>1. IsFiniteSet(T) /\ T \in SUBSET S
  BY FS_Subset
<1>2. PICK u : IsSum(u, f, S) /\ SumFunctionOnSet(f, S) = u[S]
  BY SumValue
<1>3. PICK v : IsSum(v, f, T) /\ SumFunctionOnSet(f, T) = v[T]
  BY <1>1, SumValue
<1>4. u[T] = v[T]
  <2> HIDE DEF T
  <2> QED
    BY <1>1, <1>2, <1>3, SumUnique
<1>5. u[S] = f[First(S)] + u[T]
  BY <1>2 DEF IsSum
<1> QED
  BY <1>2, <1>3, <1>4, <1>5

\* The sum of integers is one, and of naturals one too.
LEMMA SumType ==
    ASSUME NEW S, IsFiniteSet(S), NEW f
    PROVE  /\ (\A x \in S : f[x] \in Int) => SumFunctionOnSet(f, S) \in Int
           /\ (\A x \in S : f[x] \in Nat) => SumFunctionOnSet(f, S) \in Nat
<1> DEFINE Q == {m \in Nat : \A s \in SUBSET S : Cardinality(s) = m =>
                   /\ (\A x \in s : f[x] \in Int) => SumFunctionOnSet(f, s) \in Int
                   /\ (\A x \in s : f[x] \in Nat) => SumFunctionOnSet(f, s) \in Nat}
<1>1. \A s \in SUBSET S : IsFiniteSet(s) /\ Cardinality(s) \in Nat
  BY FS_Subset, FS_CardinalityType
<1>2. 0 \in Q
  <2>1. \A s \in SUBSET S : Cardinality(s) = 0 => s = {}
    BY <1>1, FS_EmptySet
  <2> QED
    BY <2>1, SumEmpty
<1>3. ASSUME NEW m \in Nat, m \in Q PROVE m + 1 \in Q
  <2>1. SUFFICES ASSUME NEW s \in SUBSET S, Cardinality(s) = m + 1
                 PROVE  /\ (\A x \in s : f[x] \in Int) => SumFunctionOnSet(f, s) \in Int
                        /\ (\A x \in s : f[x] \in Nat) => SumFunctionOnSet(f, s) \in Nat
    OBVIOUS
  <2> DEFINE t == s \ {First(s)}
  <2>2. s # {} /\ IsFiniteSet(s)
    BY <1>1, <2>1, FS_EmptySet
  <2>3. First(s) \in s /\ t \in SUBSET S /\ t \subseteq s
    BY <2>2 DEF First
  <2>4. Cardinality(t) = m
    <3>1. Cardinality(t) = Cardinality(s) - 1
      BY <2>2, <2>3, FS_RemoveElement
    <3> QED
      BY <2>1, <3>1
  <2>5. SumFunctionOnSet(f, s) = f[First(s)] + SumFunctionOnSet(f, t)
    BY <2>2, SumFirst
  <2> HIDE DEF t
  <2>6. /\ (\A x \in t : f[x] \in Int) => SumFunctionOnSet(f, t) \in Int
        /\ (\A x \in t : f[x] \in Nat) => SumFunctionOnSet(f, t) \in Nat
    BY <1>3, <2>3, <2>4
  <2>7. ASSUME \A x \in s : f[x] \in Int PROVE SumFunctionOnSet(f, s) \in Int
    <3>1. f[First(s)] \in Int /\ SumFunctionOnSet(f, t) \in Int
      BY <2>3, <2>6, <2>7
    <3> QED
      BY <2>5, <3>1
  <2>8. ASSUME \A x \in s : f[x] \in Nat PROVE SumFunctionOnSet(f, s) \in Nat
    <3>1. f[First(s)] \in Nat /\ SumFunctionOnSet(f, t) \in Nat
      BY <2>3, <2>6, <2>8
    <3> QED
      BY <2>5, <3>1
  <2> QED
    BY <2>7, <2>8
<1> HIDE DEF Q
<1>4. Cardinality(S) \in Q
  BY <1>1, <1>2, <1>3, Pow!Induction
<1> QED
  BY <1>4 DEF Q

\* A sum may take any of its members out.
LEMMA SumPeel ==
    ASSUME NEW S, IsFiniteSet(S), NEW f, \A x \in S : f[x] \in Int, NEW x \in S
    PROVE  SumFunctionOnSet(f, S) = f[x] + SumFunctionOnSet(f, S \ {x})
<1> DEFINE Q == {m \in Nat : \A s \in SUBSET S : Cardinality(s) = m =>
                   \A y \in s : SumFunctionOnSet(f, s) = f[y] + SumFunctionOnSet(f, s \ {y})}
<1>1. \A s \in SUBSET S : IsFiniteSet(s) /\ Cardinality(s) \in Nat
  BY FS_Subset, FS_CardinalityType
<1>2. 0 \in Q
  BY <1>1, FS_EmptySet
<1>3. ASSUME NEW m \in Nat, m \in Q PROVE m + 1 \in Q
  <2>1. SUFFICES ASSUME NEW s \in SUBSET S, Cardinality(s) = m + 1, NEW y \in s
                 PROVE  SumFunctionOnSet(f, s) = f[y] + SumFunctionOnSet(f, s \ {y})
    OBVIOUS
  <2> DEFINE c == First(s)
             t == s \ {c}
             r == s \ {y}
             q == s \ {c, y}
  <2>2. IsFiniteSet(s) /\ s # {} /\ c \in s
    BY <1>1 DEF First
  <2>3. SumFunctionOnSet(f, s) = f[c] + SumFunctionOnSet(f, t)
    BY <2>2, SumFirst
  <2> HIDE DEF c
  <2>4. CASE c = y
    BY <2>3, <2>4
  <2>5. CASE c # y
    <3>1. Cardinality(t) = m /\ Cardinality(r) = m
      <4>1. Cardinality(t) = Cardinality(s) - 1 /\ Cardinality(r) = Cardinality(s) - 1
        BY <2>2, FS_RemoveElement
      <4> QED
        BY <2>1, <4>1
    <3>2. y \in t /\ c \in r /\ t \in SUBSET S /\ r \in SUBSET S
      BY <2>2, <2>5
    <3>3. t \ {y} = q /\ r \ {c} = q
      OBVIOUS
    <3>4. SumFunctionOnSet(f, t) = f[y] + SumFunctionOnSet(f, q)
      BY <1>3, <3>1, <3>2, <3>3
    <3>5. SumFunctionOnSet(f, r) = f[c] + SumFunctionOnSet(f, q)
      BY <1>3, <3>1, <3>2, <3>3
    <3>6. f[c] \in Int /\ f[y] \in Int /\ SumFunctionOnSet(f, q) \in Int
      <4>1. q \in SUBSET S
        OBVIOUS
      <4>2. IsFiniteSet(q) /\ \A z \in q : f[z] \in Int
        BY <1>1, <4>1
      <4>3. SumFunctionOnSet(f, q) \in Int
        BY <4>2, SumType
      <4> QED
        BY <2>2, <4>3
    <3> HIDE DEF t, r, q
    <3>7. SumFunctionOnSet(f, s) = f[y] + SumFunctionOnSet(f, r)
      BY <2>3, <3>4, <3>5, <3>6
    <3> QED
      BY <3>7 DEF r
  <2> QED
    BY <2>4, <2>5
<1> HIDE DEF Q
<1>4. Cardinality(S) \in Q
  BY <1>1, <1>2, <1>3, Pow!Induction
<1> QED
  BY <1>4 DEF Q

\* A sum over one more member.
LEMMA SumAdd ==
    ASSUME NEW S, IsFiniteSet(S), NEW x, x \notin S, NEW f,
           \A y \in S \cup {x} : f[y] \in Int
    PROVE  SumFunctionOnSet(f, S \cup {x}) = f[x] + SumFunctionOnSet(f, S)
<1> DEFINE T == S \cup {x}
<1>1. IsFiniteSet(T) /\ x \in T /\ T \ {x} = S
  BY FS_AddElement
<1> HIDE DEF T
<1>2. SumFunctionOnSet(f, T) = f[x] + SumFunctionOnSet(f, T \ {x})
  BY <1>1, SumPeel DEF T
<1> QED
  BY <1>1, <1>2 DEF T

\* The sum of a constant.
LEMMA SumConst ==
    ASSUME NEW S, IsFiniteSet(S), NEW c \in Int, NEW f, \A x \in S : f[x] = c
    PROVE  SumFunctionOnSet(f, S) = Cardinality(S) * c
<1> DEFINE T == {s \in SUBSET S : SumFunctionOnSet(f, s) = Cardinality(s) * c}
<1>1. {} \in T
  BY SumEmpty, FS_EmptySet
<1>2. ASSUME NEW s \in SUBSET S, NEW x \in S, s \in T, x \notin s PROVE s \cup {x} \in T
  <2>1. IsFiniteSet(s) /\ Cardinality(s) \in Nat /\ Cardinality(s \cup {x}) = Cardinality(s) + 1
    BY <1>2, FS_Subset, FS_CardinalityType, FS_AddElement
  <2>2. SumFunctionOnSet(f, s \cup {x}) = c + SumFunctionOnSet(f, s)
    <3>1. \A y \in s \cup {x} : f[y] \in Int
      OBVIOUS
    <3>2. SumFunctionOnSet(f, s \cup {x}) = f[x] + SumFunctionOnSet(f, s)
      BY <1>2, <2>1, <3>1, SumAdd
    <3> QED
      BY <3>2
  <2>3. SumFunctionOnSet(f, s) = Cardinality(s) * c
    BY <1>2
  <2>4. \A m \in Nat : c + m * c = (m + 1) * c
    OBVIOUS
  <2> QED
    BY <2>1, <2>2, <2>3, <2>4
<1> HIDE DEF T
<1>3. S \in T
  BY <1>1, <1>2, FiniteInduction
<1> QED
  BY <1>3 DEF T

\* A sum is linear.
LEMMA SumLinear ==
    ASSUME NEW S, IsFiniteSet(S), NEW a \in Int, NEW b \in Int, NEW f, NEW g, NEW h,
           \A x \in S : g[x] \in Int /\ h[x] \in Int /\ f[x] = a * g[x] + b * h[x]
    PROVE  SumFunctionOnSet(f, S)
               = a * SumFunctionOnSet(g, S) + b * SumFunctionOnSet(h, S)
<1> DEFINE T == {s \in SUBSET S :
                   SumFunctionOnSet(f, s)
                       = a * SumFunctionOnSet(g, s) + b * SumFunctionOnSet(h, s)}
<1>1. {} \in T
  BY SumEmpty
<1>2. \A x \in S : f[x] \in Int
  <2>1. \A y, z \in Int : a * y + b * z \in Int
    OBVIOUS
  <2> QED
    BY <2>1
<1>3. ASSUME NEW s \in SUBSET S, NEW x \in S, s \in T, x \notin s PROVE s \cup {x} \in T
  <2>1. IsFiniteSet(s)
    BY FS_Subset
  <2>2. SumFunctionOnSet(f, s \cup {x}) = f[x] + SumFunctionOnSet(f, s)
    BY <1>2, <1>3, <2>1, SumAdd
  <2>3. SumFunctionOnSet(g, s \cup {x}) = g[x] + SumFunctionOnSet(g, s)
    BY <1>3, <2>1, SumAdd
  <2>4. SumFunctionOnSet(h, s \cup {x}) = h[x] + SumFunctionOnSet(h, s)
    BY <1>3, <2>1, SumAdd
  <2>5. SumFunctionOnSet(g, s) \in Int /\ SumFunctionOnSet(h, s) \in Int
    BY <2>1, SumType
  <2>6. SumFunctionOnSet(f, s) = a * SumFunctionOnSet(g, s) + b * SumFunctionOnSet(h, s)
    BY <1>3
  <2>7. \A y, z, u, v \in Int :
            (a * y + b * z) + (a * u + b * v) = a * (y + u) + b * (z + v)
    <3>1. \A y, u \in Int : a * (y + u) = a * y + a * u /\ a * y \in Int
      OBVIOUS
    <3>2. \A z, v \in Int : b * (z + v) = b * z + b * v /\ b * z \in Int
      OBVIOUS
    <3>3. \A p, q, r, t \in Int : (p + q) + (r + t) = (p + r) + (q + t)
      OBVIOUS
    <3> QED
      BY <3>1, <3>2, <3>3
  <2>8. g[x] \in Int /\ h[x] \in Int /\ f[x] = a * g[x] + b * h[x]
    OBVIOUS
  <2>9. (a * g[x] + b * h[x]) + (a * SumFunctionOnSet(g, s) + b * SumFunctionOnSet(h, s))
            = a * (g[x] + SumFunctionOnSet(g, s)) + b * (h[x] + SumFunctionOnSet(h, s))
    BY <2>5, <2>7, <2>8
  <2>10. SumFunctionOnSet(f, s \cup {x})
             = a * SumFunctionOnSet(g, s \cup {x}) + b * SumFunctionOnSet(h, s \cup {x})
    BY <2>2, <2>3, <2>4, <2>6, <2>8, <2>9
  <2> QED
    BY <2>10
<1> HIDE DEF T
<1>4. S \in T
  BY <1>1, <1>3, FiniteInduction
<1> QED
  BY <1>4 DEF T

\* Members with the value zero do not count.
LEMMA SumZeros ==
    ASSUME NEW S, IsFiniteSet(S), NEW A \in SUBSET S, NEW f, \A x \in S : f[x] \in Int,
           \A x \in S \ A : f[x] = 0
    PROVE  SumFunctionOnSet(f, S) = SumFunctionOnSet(f, A)
<1> DEFINE T == {s \in SUBSET (S \ A) :
                   SumFunctionOnSet(f, A \cup s) = SumFunctionOnSet(f, A)}
<1>1. IsFiniteSet(S \ A) /\ IsFiniteSet(A) /\ SumFunctionOnSet(f, A) \in Int
  <2>1. IsFiniteSet(S \ A) /\ IsFiniteSet(A) /\ \A x \in A : f[x] \in Int
    BY FS_Subset
  <2> QED
    BY <2>1, SumType
<1>2. {} \in T
  <2>1. A \cup {} = A
    OBVIOUS
  <2> QED
    BY <2>1
<1>3. ASSUME NEW s \in SUBSET (S \ A), NEW x \in S \ A, s \in T, x \notin s
      PROVE  s \cup {x} \in T
  <2> DEFINE U == A \cup s
  <2>1. IsFiniteSet(U) /\ x \notin U /\ A \cup (s \cup {x}) = U \cup {x}
        /\ \A y \in U \cup {x} : f[y] \in Int
    <3>1. U \in SUBSET S
      OBVIOUS
    <3> QED
      BY <1>3, <3>1, FS_Subset
  <2>2. SumFunctionOnSet(f, U) = SumFunctionOnSet(f, A)
    BY <1>3
  <2> HIDE DEF U
  <2>3. SumFunctionOnSet(f, U \cup {x}) = f[x] + SumFunctionOnSet(f, U)
    BY <2>1, SumAdd
  <2>4. f[x] = 0
    OBVIOUS
  <2>5. SumFunctionOnSet(f, U \cup {x}) = SumFunctionOnSet(f, A)
    BY <1>1, <2>2, <2>3, <2>4
  <2>6. SumFunctionOnSet(f, A \cup (s \cup {x})) = SumFunctionOnSet(f, A)
    BY <2>1, <2>5
  <2> QED
    BY <2>6
<1> HIDE DEF T
<1>4. S \ A \in T
  BY <1>1, <1>2, <1>3, FiniteInduction
<1>5. A \cup (S \ A) = S
  OBVIOUS
<1> QED
  BY <1>4, <1>5 DEF T

\* A sum over the indices h[x] of g, where the other values of g are zero, is
\* the sum of g.
LEMMA SumReindex ==
    ASSUME NEW S, IsFiniteSet(S), NEW U, IsFiniteSet(U), NEW h \in [S -> U],
           \A x, y \in S : h[x] = h[y] => x = y,
           NEW g, \A u \in U : g[u] \in Int,
           \A u \in U : (\A x \in S : h[x] # u) => g[u] = 0,
           NEW f, \A x \in S : f[x] = g[h[x]]
    PROVE  SumFunctionOnSet(f, S) = SumFunctionOnSet(g, U)
<1> DEFINE Image(s) == {h[x] : x \in s}
           T == {s \in SUBSET S : SumFunctionOnSet(f, s) = SumFunctionOnSet(g, Image(s))}
<1>1. {} \in T
  <2>1. Image({}) = {}
    OBVIOUS
  <2> QED
    BY <2>1, SumEmpty
<1>2. ASSUME NEW s \in SUBSET S, NEW x \in S, s \in T, x \notin s PROVE s \cup {x} \in T
  <2>1. Image(s \cup {x}) = Image(s) \cup {h[x]}
    OBVIOUS
  <2>2. h[x] \notin Image(s) /\ h[x] \in U /\ Image(s) \in SUBSET U
    BY <1>2
  <2>3. SumFunctionOnSet(f, s) = SumFunctionOnSet(g, Image(s))
    BY <1>2
  <2> HIDE DEF Image
  <2>4. IsFiniteSet(Image(s)) /\ \A u \in Image(s) \cup {h[x]} : g[u] \in Int
    BY <2>2, FS_Subset
  <2>5. SumFunctionOnSet(g, Image(s) \cup {h[x]}) = g[h[x]] + SumFunctionOnSet(g, Image(s))
    BY <2>2, <2>4, SumAdd
  <2>6. IsFiniteSet(s) /\ \A y \in s \cup {x} : f[y] \in Int
    BY FS_Subset
  <2>7. SumFunctionOnSet(f, s \cup {x}) = f[x] + SumFunctionOnSet(f, s)
    BY <1>2, <2>6, SumAdd
  <2> QED
    BY <2>1, <2>3, <2>5, <2>7
<1>3. SumFunctionOnSet(f, S) = SumFunctionOnSet(g, Image(S))
  <2> HIDE DEF T
  <2>1. S \in T
    BY <1>1, <1>2, FiniteInduction
  <2> QED
    BY <2>1 DEF T
<1>4. Image(S) \in SUBSET U
  OBVIOUS
<1>5. \A u \in U \ Image(S) : g[u] = 0
  OBVIOUS
<1> HIDE DEF Image
<1>6. SumFunctionOnSet(g, U) = SumFunctionOnSet(g, Image(S))
  BY <1>4, <1>5, SumZeros
<1> QED
  BY <1>3, <1>6

-----------------------------------------------------------------------------
(* Counting the outcomes. *)

\* Where an outcome has the value v.
Marked(o, v) == {j \in DOMAIN o : o[j] = v}

\* How many iterations an outcome takes.
LEMMA OutcomeSum ==
    ASSUME NEW l \in Nat, NEW o \in [1..l -> {1, PP}]
    PROVE  SumFunction(o) = l + (PP - 1) * Cardinality(Marked(o, PP))
<1> DEFINE T == {s \in SUBSET (1..l) :
                   SumFunctionOnSet(o, s)
                       = Cardinality(s) + (PP - 1) * Cardinality({j \in s : o[j] = PP})}
<1>1. IsFiniteSet(1..l) /\ Cardinality(1..l) = l
  BY FS_Interval
<1>2. {} \in T
  <2>1. {j \in {} : o[j] = PP} = {} /\ Cardinality({}) = 0
    BY FS_EmptySet
  <2>2. (PP - 1) * 0 = 0
    BY LookaheadAssumption
  <2> QED
    BY <2>1, <2>2, SumEmpty
<1>3. ASSUME NEW s \in SUBSET (1..l), NEW x \in 1..l, s \in T, x \notin s
      PROVE  s \cup {x} \in T
  <2> DEFINE M(t) == {j \in t : o[j] = PP}
  <2>1. PP \in Nat /\ PP >= 2
    BY LookaheadAssumption
  <2>2. IsFiniteSet(s) /\ Cardinality(s) \in Nat /\ Cardinality(s \cup {x}) = Cardinality(s) + 1
    BY <1>1, <1>3, FS_Subset, FS_CardinalityType, FS_AddElement
  <2>3. IsFiniteSet(M(s)) /\ Cardinality(M(s)) \in Nat /\ x \notin M(s)
    BY <1>3, <2>2, FS_Subset, FS_CardinalityType
  <2>4. \A y \in s \cup {x} : o[y] \in Int
    BY <2>1
  <2>5. SumFunctionOnSet(o, s \cup {x}) = o[x] + SumFunctionOnSet(o, s)
    BY <1>3, <2>2, <2>4, SumAdd
  <2>6. SumFunctionOnSet(o, s) = Cardinality(s) + (PP - 1) * Cardinality(M(s))
    BY <1>3
  <2>7. CASE o[x] = PP
    <3>1. M(s \cup {x}) = M(s) \cup {x}
      BY <2>7
    <3>2. Cardinality(M(s \cup {x})) = Cardinality(M(s)) + 1
      BY <2>3, <3>1, FS_AddElement
    <3>3. \A c \in Nat : (PP - 1) * (c + 1) = (PP - 1) * c + (PP - 1) /\ (PP - 1) * c \in Int
      BY <2>1
    <3> HIDE DEF M
    <3>4. SumFunctionOnSet(o, s \cup {x})
              = Cardinality(s \cup {x}) + (PP - 1) * Cardinality(M(s \cup {x}))
      BY <2>1, <2>2, <2>3, <2>5, <2>6, <2>7, <3>2, <3>3
    <3> QED
      BY <3>4 DEF M
  <2>8. CASE o[x] # PP
    <3>1. M(s \cup {x}) = M(s)
      BY <2>8
    <3>2. o[x] = 1
      BY <2>8
    <3>3. \A c \in Nat : (PP - 1) * c \in Int
      BY <2>1
    <3> HIDE DEF M
    <3>4. Cardinality(M(s \cup {x})) = Cardinality(M(s))
      BY <3>1
    <3>5. SumFunctionOnSet(o, s \cup {x})
              = Cardinality(s \cup {x}) + (PP - 1) * Cardinality(M(s \cup {x}))
      <4>1. (PP - 1) * Cardinality(M(s)) \in Int
        BY <2>3, <3>3
      <4>2. \A a, b \in Int : 1 + (a + b) = (a + 1) + b
        OBVIOUS
      <4> QED
        BY <2>2, <2>5, <2>6, <3>2, <3>4, <4>1, <4>2
    <3> QED
      BY <3>5 DEF M
  <2> QED
    BY <2>7, <2>8
<1> HIDE DEF T
<1>4. 1..l \in T
  BY <1>1, <1>2, <1>3, FiniteInduction
<1>5. Marked(o, PP) = {j \in 1..l : o[j] = PP} /\ DOMAIN o = 1..l
  BY DEF Marked
<1>6. SumFunctionOnSet(o, 1..l) = l + (PP - 1) * Cardinality({j \in 1..l : o[j] = PP})
  BY <1>1, <1>4 DEF T
<1> QED
  BY <1>5, <1>6 DEF SumFunction

\* An outcome is rejected where it is not accepted.
LEMMA MarkedType ==
    ASSUME NEW l \in Nat, NEW o \in [1..l -> {1, PP}]
    PROVE  /\ Marked(o, 1) = (1..l) \ Marked(o, PP)
           /\ Marked(o, PP) = (1..l) \ Marked(o, 1)
           /\ Cardinality(Marked(o, PP)) \in 0..l
           /\ Cardinality(Marked(o, 1)) = l - Cardinality(Marked(o, PP))
<1>1. PP # 1
  BY LookaheadAssumption
<1>2. /\ Marked(o, 1) = (1..l) \ Marked(o, PP)
      /\ Marked(o, PP) = (1..l) \ Marked(o, 1)
      /\ Marked(o, PP) \in SUBSET (1..l)
  BY <1>1 DEF Marked
<1>3. IsFiniteSet(1..l) /\ Cardinality(1..l) = l
  BY FS_Interval
<1>4. IsFiniteSet(Marked(o, PP)) /\ Cardinality(Marked(o, PP)) <= l
  BY <1>2, <1>3, FS_Subset
<1>5. Cardinality(Marked(o, PP)) \in Nat
  BY <1>4, FS_CardinalityType
<1>6. (1..l) \cap Marked(o, PP) = Marked(o, PP)
  BY <1>2
<1>7. Cardinality((1..l) \ Marked(o, PP)) = l - Cardinality(Marked(o, PP))
  <2>1. \A S, T : IsFiniteSet(S) =>
            Cardinality(S \ T) = Cardinality(S) - Cardinality(S \cap T)
    BY FS_Difference
  <2> QED
    BY <1>3, <1>6, <2>1
<1>8. Cardinality(Marked(o, 1)) = l - Cardinality(Marked(o, PP))
  BY <1>2, <1>7
<1> QED
  BY <1>2, <1>4, <1>5, <1>8

\* The outcomes of length speculations in n iterations have the same number
\* of rejections; without one there is no outcome.
LEMMA OutcomeWrong ==
    ASSUME NEW n \in Nat, NEW l \in Nat, NEW o \in [1..l -> {1, PP}]
    PROVE  o \in Outcomes(n, l) <=> n = l + (PP - 1) * Cardinality(Marked(o, PP))
BY OutcomeSum DEF Outcomes

\* wrong rejections make up for the iterations that are not acceptances.
Fits(n, l, wrong) == wrong \in 0..l /\ n = l + (PP - 1) * wrong

\* The multiples of PP - 1 are different.
LEMMA FitsOnce ==
    ASSUME NEW n \in Nat, NEW l \in Nat, NEW w, Fits(n, l, w), NEW v, Fits(n, l, v)
    PROVE  w = v
<1>1. PP \in Nat /\ PP >= 2
  BY LookaheadAssumption
<1>2. w \in Nat /\ v \in Nat /\ (PP - 1) * w = (PP - 1) * v
  <2>1. w \in Nat /\ v \in Nat /\ n = l + (PP - 1) * w /\ n = l + (PP - 1) * v
    BY DEF Fits
  <2>2. (PP - 1) * w \in Int /\ (PP - 1) * v \in Int
    BY <1>1, <2>1
  <2>3. \A a, b \in Int : l + a = l + b => a = b
    OBVIOUS
  <2> QED
    BY <2>1, <2>2, <2>3
<1>3. \A q, x, y \in Nat : q > 0 /\ x < y => q * x < q * y
  <2>1. SUFFICES ASSUME NEW q \in Nat, NEW x \in Nat, NEW y \in Nat, q > 0, x < y
                 PROVE  q * x < q * y
    OBVIOUS
  <2>2. y - x \in Nat /\ y - x > 0 /\ y = x + (y - x)
    BY <2>1
  <2>3. \A d \in Nat : d > 0 => q * (x + d) = q * x + q * d /\ q * d > 0
    BY <2>1
  <2>4. q * y = q * x + q * (y - x) /\ q * (y - x) > 0
    BY <2>2, <2>3
  <2>5. q * x \in Int /\ q * (y - x) \in Int
    BY <2>2
  <2> QED
    BY <2>4, <2>5
<1> DEFINE q == PP - 1
<1>4. q \in Nat /\ q > 0 /\ q * w = q * v
  BY <1>1, <1>2
<1> HIDE DEF q
<1>5. ~(w < v) /\ ~(v < w)
  <2>1. q * w \in Int
    BY <1>2, <1>4
  <2> QED
    BY <1>2, <1>3, <1>4, <2>1
<1> QED
  BY <1>2, <1>5

\* Without a number of rejections that fits there is no outcome.
LEMMA NoOutcome ==
    ASSUME NEW n \in Nat, NEW l \in Nat, \A w : ~Fits(n, l, w)
    PROVE  Outcomes(n, l) = {}
<1>1. SUFFICES ASSUME NEW o \in Outcomes(n, l) PROVE FALSE
  OBVIOUS
<1>2. o \in [1..l -> {1, PP}]
  BY DEF Outcomes
<1>3. Fits(n, l, Cardinality(Marked(o, PP)))
  BY <1>2, OutcomeWrong, MarkedType DEF Fits
<1> QED
  BY <1>3

\* Outcomes are the choices of the places with the value v, 1 or PP.
LEMMA OutcomesCounted ==
    ASSUME NEW n \in Nat, NEW l \in Nat, NEW wrong, Fits(n, l, wrong)
    PROVE  /\ IsFiniteSet(Outcomes(n, l))
           /\ Cardinality(Outcomes(n, l)) = Comb(l, wrong)
           /\ Cardinality(Outcomes(n, l)) = Comb(l, l - wrong)
           /\ Cardinality(Outcomes(n, l)) \in Nat
           /\ \A o \in Outcomes(n, l) :
                  Cardinality({j \in 1..l : o[j] = 1}) = l - wrong
<1> DEFINE O == Outcomes(n, l)
           count(v) == IF v = 1 THEN l - wrong ELSE wrong
<1>1. PP \in Nat /\ PP >= 2 /\ wrong \in 0..l
  BY LookaheadAssumption DEF Fits
<1>2. ASSUME NEW o \in [1..l -> {1, PP}]
      PROVE  o \in O <=> Cardinality(Marked(o, PP)) = wrong
  <2>1. CASE o \in O
    <3>1. Fits(n, l, Cardinality(Marked(o, PP)))
      BY <2>1, OutcomeWrong, MarkedType DEF Fits
    <3> QED
      BY <2>1, <3>1, FitsOnce
  <2>2. CASE Cardinality(Marked(o, PP)) = wrong
    BY <2>2, OutcomeWrong DEF Fits
  <2> QED
    BY <2>1, <2>2
<1>3. ASSUME NEW o \in [1..l -> {1, PP}], NEW v \in {1, PP}
      PROVE  o \in O <=> Cardinality(Marked(o, v)) = count(v)
  <2>1. /\ Cardinality(Marked(o, PP)) \in 0..l
        /\ Cardinality(Marked(o, 1)) = l - Cardinality(Marked(o, PP))
    BY MarkedType
  <2>2. Cardinality(Marked(o, PP)) = wrong <=> Cardinality(Marked(o, 1)) = l - wrong
    BY <1>1, <2>1
  <2> HIDE DEF O
  <2> QED
    BY <1>1, <1>2, <2>2
<1>4. \A o \in O : o \in [1..l -> {1, PP}]
  BY DEF Outcomes
<1>5. ASSUME NEW v \in {1, PP}
      PROVE  IsFiniteSet(O) /\ Cardinality(O) = Comb(l, count(v)) /\ Cardinality(O) \in Nat
  <2> DEFINE K == kSubset(count(v), 1..l)
             f == [s \in K |-> [j \in 1..l |->
                      IF j \in s THEN v ELSE IF v = 1 THEN PP ELSE 1]]
  <2>1. \A s \in K : f[s] \in [1..l -> {1, PP}] /\ Marked(f[s], v) = s
    <3>1. SUFFICES ASSUME NEW s \in K PROVE f[s] \in [1..l -> {1, PP}] /\ Marked(f[s], v) = s
      OBVIOUS
    <3>2. s \in SUBSET (1..l)
      BY DEF kSubset
    <3> HIDE DEF K
    <3>3. f[s] \in [1..l -> {1, PP}]
      OBVIOUS
    <3>4. \A j \in 1..l : f[s][j] = v <=> j \in s
      BY <1>1
    <3> HIDE DEF f
    <3>5. DOMAIN f[s] = 1..l
      BY <3>3
    <3> QED
      BY <3>2, <3>3, <3>4, <3>5 DEF Marked
  <2>2. f \in [K -> O]
    <3>1. ASSUME NEW s \in K PROVE f[s] \in O
      <4>1. Cardinality(s) = count(v)
        BY DEF kSubset
      <4> HIDE DEF f, K, O, count
      <4> QED
        BY <1>3, <2>1, <4>1
    <3> QED
      BY <3>1
  <2>3. \A s, t \in K : f[s] = f[t] => s = t
    <3> HIDE DEF f, K
    <3> QED
      BY <2>1
  <2>4. ASSUME NEW o \in O PROVE \E s \in K : f[s] = o
    <3> DEFINE s == Marked(o, v)
    <3>1. o \in [1..l -> {1, PP}] /\ Cardinality(s) = count(v)
      BY <1>3, <1>4
    <3>2. s \in K
      BY <3>1 DEF Marked, kSubset
    <3>3. \A j \in 1..l : f[s][j] = o[j]
      <4>1. SUFFICES ASSUME NEW j \in 1..l PROVE f[s][j] = o[j]
        OBVIOUS
      <4>2. o[j] \in {1, PP} /\ (j \in s <=> o[j] = v)
        BY <3>1 DEF Marked
      <4> HIDE DEF s, K
      <4> QED
        BY <1>1, <3>2, <4>2
    <3>4. f[s] \in [1..l -> {1, PP}]
      BY <2>1, <3>2
    <3> HIDE DEF s, f, K
    <3>5. f[s] = o
      BY <3>1, <3>3, <3>4
    <3> QED
      BY <3>2, <3>5
  <2>5. IsFiniteSet(K) /\ Cardinality(K) \in Nat
    <3>1. IsFiniteSet(1..l)
      BY FS_Interval
    <3>2. IsFiniteSet(SUBSET (1..l)) /\ K \subseteq SUBSET (1..l)
      BY <3>1, FS_SUBSET DEF kSubset
    <3> QED
      BY <3>2, FS_Subset, FS_CardinalityType
  <2>6. ExistsBijection(K, O)
    <3> HIDE DEF f, K, O
    <3>1. f \in Bijection(K, O)
      BY <2>2, <2>3, <2>4 DEF Bijection, Injection, Surjection, IsInjective
    <3> QED
      BY <3>1 DEF ExistsBijection
  <2> HIDE DEF O
  <2> QED
    BY <2>5, <2>6, FS_Bijection DEF Comb
<1>6. count(1) = l - wrong /\ count(PP) = wrong
  BY <1>1
<1>7. \A o \in O : Cardinality({j \in 1..l : o[j] = 1}) = l - wrong
  <2>1. SUFFICES ASSUME NEW o \in O PROVE Cardinality({j \in 1..l : o[j] = 1}) = l - wrong
    OBVIOUS
  <2>2. o \in [1..l -> {1, PP}] /\ Marked(o, 1) = {j \in 1..l : o[j] = 1}
    BY <1>4 DEF Marked
  <2> HIDE DEF O
  <2>3. Cardinality(Marked(o, 1)) = count(1)
    BY <1>3, <2>2
  <2> QED
    BY <1>6, <2>2, <2>3
<1> HIDE DEF O, count
<1> QED
  BY <1>5, <1>6, <1>7 DEF O

-----------------------------------------------------------------------------
(* The closed forms. *)

\* Powers are numbers.
LEMMA PowerType ==
    ASSUME NEW a \in Nat, NEW n \in Nat
    PROVE  Power(a, n) \in Nat
<1> DEFINE l == [j \in 1..n |-> a]
<1>1. l \in Seq(Nat) /\ Len(l) = n /\ DOMAIN l = 1..Len(l)
  OBVIOUS
<1>2. \A j \in 1..Len(l) : l[j] = a
  BY <1>1
<1> HIDE DEF l
<1>3. TimesGood(0, 1, 0)
  BY DEF TimesGood
<1>4. \A j \in 1..Len(l) : \A s :
          TimesGood(0, s, j - 1) => TimesGood(0, Times(s, l[j]), j)
  <2>1. \A s \in Nat : s * a \in Nat
    OBVIOUS
  <2> QED
    BY <1>2, <2>1 DEF TimesGood, Times
<1>5. TimesGood(0, Pow!End(1, l), Len(l))
  BY <1>1, <1>3, <1>4, Pow!LoopKeeps
<1>6. Power(a, n) = Pow!End(1, l)
  BY DEF Power, l, Pow!End, FoldLeft, Pow!FoldLeft, MapThenFoldSet, Pow!MapThenFoldSet,
         Max, Pow!Max
<1> QED
  BY <1>5, <1>6 DEF TimesGood

LEMMA WeightType ==
    ASSUME NEW true \in Nat, NEW wrong \in Nat, true + wrong <= MaxIter
    PROVE  Weight(true, wrong) \in Nat
<1>1. /\ AccNum \in Nat /\ AccDen \in Nat /\ AccDen - AccNum \in Nat
      /\ MaxIter - true - wrong \in Nat
  BY LookaheadAssumption
<1>2. /\ Power(AccNum, true) \in Nat /\ Power(AccDen - AccNum, wrong) \in Nat
      /\ Power(AccDen, MaxIter - true - wrong) \in Nat
  BY <1>1, PowerType
<1>3. \A x, y, z \in Nat : x * y * z \in Nat
  OBVIOUS
<1> QED
  BY <1>2, <1>3 DEF Weight

\* The number of subsets is one.
LEMMA CombType ==
    ASSUME NEW n \in Nat, NEW r
    PROVE  Comb(n, r) \in Nat
<1>1. IsFiniteSet(1..n)
  BY FS_Interval
<1>2. IsFiniteSet(SUBSET (1..n)) /\ kSubset(r, 1..n) \subseteq SUBSET (1..n)
  BY <1>1, FS_SUBSET DEF kSubset
<1>3. IsFiniteSet(kSubset(r, 1..n))
  BY <1>2, FS_Subset
<1> QED
  BY <1>3, FS_CardinalityType DEF Comb

\* The probability of a length with a number of rejections that fits.
LEMMA ProbabilityIs ==
    ASSUME NEW n \in Iter, NEW l \in 0..n, NEW wrong, Fits(n, l, wrong)
    PROVE  /\ Probability(n, l) = Comb(l, wrong) * Weight(l - wrong, wrong)
           /\ Probability(n, l) = Comb(l, l - wrong) * Weight(l - wrong, wrong)
           /\ Probability(n, l) \in Nat
<1>1. /\ MaxIter \in Nat /\ n \in Nat /\ l \in Nat /\ n <= MaxIter
      /\ wrong \in Nat /\ l - wrong \in Nat /\ l - (l - wrong) = wrong
      /\ (l - wrong) + wrong <= MaxIter
  <2>1. MaxIter \in Nat /\ n \in Nat /\ n <= MaxIter /\ l \in Nat /\ l <= n
    BY LookaheadAssumption DEF Iter
  <2>2. wrong \in 0..l
    BY DEF Fits
  <2> QED
    BY <2>1, <2>2
<1> DEFINE O == Outcomes(n, l)
           c == Weight(l - wrong, wrong)
           f == [o \in O |->
                   LET true == Cardinality({j \in 1..l : o[j] = 1})
                   IN  Weight(true, l - true)]
<1>2. c \in Nat
  BY <1>1, WeightType
<1>3. /\ IsFiniteSet(O) /\ Cardinality(O) \in Nat
      /\ Cardinality(O) = Comb(l, wrong) /\ Cardinality(O) = Comb(l, l - wrong)
      /\ \A o \in O : Cardinality({j \in 1..l : o[j] = 1}) = l - wrong
  BY <1>1, OutcomesCounted
<1>4. \A o \in O : f[o] = c
  <2> HIDE DEF O
  <2> QED
    BY <1>1, <1>3
<1>5. Probability(n, l) = SumFunctionOnSet(f, O)
  BY DEF Probability, SumFunction
<1> HIDE DEF f, O, c
<1>6. SumFunctionOnSet(f, O) = Cardinality(O) * c
  <2>1. c \in Int
    BY <1>2
  <2> QED
    BY <1>3, <1>4, <2>1, SumConst
<1>7. \A x, y \in Nat : x * y \in Nat
  OBVIOUS
<1>8. Cardinality(O) * c \in Nat
  BY <1>2, <1>3, <1>7
<1> QED
  BY <1>3, <1>5, <1>6, <1>8 DEF c

LEMMA ProbabilityZero ==
    ASSUME NEW n \in Nat, NEW l \in Nat, \A w : ~Fits(n, l, w)
    PROVE  Probability(n, l) = 0
<1>1. Outcomes(n, l) = {}
  BY NoOutcome
<1>2. DOMAIN [o \in Outcomes(n, l) |->
                LET true == Cardinality({j \in 1..l : o[j] = 1})
                IN  Weight(true, l - true)] = {}
  BY <1>1
<1> QED
  BY <1>2, SumEmpty DEF Probability, SumFunction

LEMMA ProbabilityType ==
    ASSUME NEW n \in Iter, NEW l \in 0..n
    PROVE  Probability(n, l) \in Nat
<1>1. n \in Nat /\ l \in Nat
  BY LookaheadAssumption DEF Iter
<1>2. CASE \E w : Fits(n, l, w)
  BY <1>2, ProbabilityIs
<1>3. CASE \A w : ~Fits(n, l, w)
  BY <1>1, <1>3, ProbabilityZero
<1> QED
  BY <1>2, <1>3

\* Division.
LEMMA Divide ==
    ASSUME NEW d \in Nat, NEW q \in Nat \ {0}
    PROVE  /\ d = q * (d \div q) + (d % q) /\ d % q \in 0..(q - 1) /\ d \div q \in Nat
OBVIOUS

\* Products grow with their factors.
LEMMA Monotone ==
    ASSUME NEW q \in Nat, NEW x \in Nat, NEW y \in Nat, x <= y
    PROVE  q * x <= q * y /\ (x # y /\ q # 0 => q * x + q <= q * y)
<1>1. y - x \in Nat /\ y = x + (y - x)
  OBVIOUS
<1>2. \A d \in Nat : q * (x + d) = q * x + q * d /\ q * d \in Nat
  OBVIOUS
<1>3. q * y = q * x + q * (y - x) /\ q * (y - x) \in Nat /\ q * x \in Nat
  BY <1>1, <1>2
<1>4. ASSUME x # y PROVE q * (y - x) >= q
  <2>1. y - x - 1 \in Nat /\ y - x = (y - x - 1) + 1
    BY <1>1, <1>4
  <2>2. \A e \in Nat : q * (e + 1) = q * e + q /\ q * e \in Nat
    OBVIOUS
  <2>3. q * (y - x) = q * (y - x - 1) + q /\ q * (y - x - 1) \in Nat
    BY <2>1, <2>2
  <2> QED
    BY <2>3
<1> QED
  BY <1>3, <1>4

\* A multiple is divided without a rest.
LEMMA DivideExact ==
    ASSUME NEW q \in Nat \ {0}, NEW w \in Nat
    PROVE  (q * w) % q = 0 /\ (q * w) \div q = w
<1> DEFINE d == q * w
           e == d \div q
           r == d % q
<1>1. d \in Nat
  OBVIOUS
<1>2. d = q * e + r /\ r \in 0..(q - 1) /\ e \in Nat
  <2> HIDE DEF d
  <2> QED
    BY <1>1, Divide
<1> HIDE DEF e, r
<1>3. q * w = q * e + r /\ q * e \in Nat /\ q * w \in Nat
  BY <1>2
<1>4. ~(w < e)
  <2>1. SUFFICES ASSUME w < e PROVE FALSE
    OBVIOUS
  <2>2. q * w + q <= q * e
    BY <1>2, <2>1, Monotone
  <2> QED
    BY <1>2, <1>3, <2>2
<1>5. ~(e < w)
  <2>1. SUFFICES ASSUME e < w PROVE FALSE
    OBVIOUS
  <2>2. q * e + q <= q * w
    BY <1>2, <2>1, Monotone
  <2> QED
    BY <1>2, <1>3, <2>2
<1>6. e = w
  BY <1>2, <1>4, <1>5
<1>7. r = 0
  BY <1>2, <1>3, <1>6
<1> QED
  BY <1>6, <1>7 DEF e, r, d

\* calc_prob_len enumerates nothing and gives what the enumeration does.
LEMMA ProbLenRight ==
    ASSUME NEW n \in Iter, NEW l \in 1..n
    PROVE  calc_prob_len(n, l) = Probability(n, l)
<1> DEFINE q == PP - 1
           d == n - l
           w == d \div q
<1>1. q \in Nat \ {0} /\ d \in Nat /\ n \in Nat /\ l \in Nat /\ l \in 0..n /\ n = l + d
  BY LookaheadAssumption DEF Iter
<1>2. d = q * w + (d % q) /\ w \in Nat /\ d % q \in Nat
  <2> HIDE DEF d, q
  <2>1. d = q * w + (d % q) /\ w \in Nat /\ d % q \in 0..(q - 1)
    BY <1>1, Divide
  <2> QED
    BY <1>1, <2>1
<1>3. ASSUME NEW v, Fits(n, l, v) PROVE d % q = 0 /\ v = w
  <2>1. v \in Nat /\ n = l + q * v
    BY <1>3 DEF Fits
  <2>2. d = q * v
    BY <1>1, <2>1
  <2> HIDE DEF d, q
  <2> QED
    BY <1>1, <2>1, <2>2, DivideExact
<1>4. CASE d % q # 0
  <2>1. Probability(n, l) = 0
    BY <1>1, <1>3, <1>4, ProbabilityZero
  <2> QED
    BY <1>4, <2>1 DEF calc_prob_len
<1>5. CASE d % q = 0 /\ w > l
  <2>1. \A v : ~Fits(n, l, v)
    BY <1>2, <1>3, <1>5 DEF Fits
  <2>2. Probability(n, l) = 0
    BY <1>1, <2>1, ProbabilityZero
  <2> QED
    BY <1>5, <2>2 DEF calc_prob_len
<1>6. CASE d % q = 0 /\ ~(w > l)
  <2>1. Fits(n, l, w)
    <3>1. w \in 0..l
      BY <1>1, <1>2, <1>6
    <3>2. d = q * w
      <4>1. q * w \in Nat
        BY <1>1, <1>2
      <4> HIDE DEF q, d, w
      <4> QED
        BY <1>1, <1>2, <1>6, <4>1
    <3>3. n = l + q * w
      BY <1>1, <3>2
    <3> QED
      BY <3>1, <3>3 DEF Fits
  <2>2. Probability(n, l) = Comb(l, w) * Weight(l - w, w)
    BY <1>1, <2>1, ProbabilityIs
  <2> QED
    BY <1>6, <2>2 DEF calc_prob_len
<1> QED
  BY <1>4, <1>5, <1>6

\* calculate goes through the numbers of rejections, and gives the expectation
\* over the lengths.
LEMMA CalculateRight ==
    ASSUME NEW n \in Iter
    PROVE  calculate(n) = ExpectedLen(n)
<1> DEFINE q == PP - 1
           S == 0..(n \div PP)
           U == 1..n
           true(w) == n - w * PP
           h == [w \in S |-> n - q * w]
           f == [wrong \in S |->
                   LET hits == n - wrong * PP
                       length == hits + wrong
                   IN  length * Comb(length, hits) * Weight(hits, wrong)]
           g == [l \in U |-> l * Probability(n, l)]
<1>1. PP \in Nat \ {0} /\ PP >= 2 /\ q \in Nat \ {0} /\ n \in Nat /\ n >= 1
  BY LookaheadAssumption DEF Iter
<1>2. n \div PP \in Nat /\ n = PP * (n \div PP) + (n % PP) /\ n % PP \in 0..(PP - 1)
  BY <1>1, Divide
<1>3. IsFiniteSet(S) /\ IsFiniteSet(U)
  BY <1>1, <1>2, FS_Interval
<1>4. ASSUME NEW w \in S
      PROVE  /\ w \in Nat /\ true(w) \in Nat /\ true(w) + w = h[w]
             /\ h[w] \in U /\ h[w] - w = true(w) /\ Fits(n, h[w], w)
  <2>1. w \in Nat /\ w <= n \div PP
    BY <1>2
  <2>2. PP * w <= PP * (n \div PP)
    BY <1>1, <1>2, <2>1, Monotone
  <2>3. PP * w \in Nat /\ w * PP = PP * w /\ q * w = PP * w - w /\ q * w \in Nat
    <3>1. q * w = PP * w - w
      BY <1>1, <2>1
    <3> QED
      BY <1>1, <2>1, <3>1
  <2>4. PP * w <= n
    <3>1. PP * (n \div PP) \in Nat
      BY <1>1, <1>2
    <3> HIDE DEF S
    <3> QED
      BY <1>1, <1>2, <2>2, <2>3, <3>1
  <2>5. h[w] = n - q * w
    OBVIOUS
  <2> HIDE DEF S, h, q
  <2>6. true(w) \in Nat /\ true(w) + w = h[w]
    BY <1>1, <2>1, <2>3, <2>4, <2>5
  <2>7. w >= 1 \/ true(w) >= 1
    BY <1>1, <2>1, <2>3
  <2>8. h[w] \in U
    BY <1>1, <2>1, <2>3, <2>5, <2>6, <2>7
  <2>9. w \in 0..h[w] /\ h[w] - w = true(w)
    BY <1>1, <2>1, <2>6
  <2>10. n = h[w] + q * w
    BY <1>1, <2>3, <2>5
  <2> QED
    BY <2>1, <2>6, <2>8, <2>9, <2>10 DEF Fits, q
<1>5. \A w, v \in S : h[w] = h[v] => w = v
  <2>1. SUFFICES ASSUME NEW w \in S, NEW v \in S, h[w] = h[v] PROVE w = v
    OBVIOUS
  <2>2. h[w] \in Nat
    <3>1. h[w] \in U
      BY <1>4
    <3> QED
      BY <3>1
  <2> HIDE DEF S, h
  <2> QED
    BY <1>1, <1>4, <2>1, <2>2, FitsOnce
<1>6. h \in [S -> U]
  <2> HIDE DEF U
  <2> QED
    BY <1>4
<1>7. \A l \in U : Probability(n, l) \in Nat
  BY ProbabilityType
<1>8. \A l \in U : g[l] \in Int
  BY <1>7
<1>9. ASSUME NEW l \in U, \A w \in S : h[w] # l PROVE g[l] = 0
  <2>1. ASSUME NEW w, Fits(n, l, w) PROVE FALSE
    <3>1. w \in Nat /\ w <= l /\ n = l + q * w /\ l \in Nat
      BY <2>1 DEF Fits
    <3>2. PP * w <= n
      <4>1. q * w = PP * w - w /\ PP * w \in Nat
        BY <1>1, <3>1
      <4> HIDE DEF q
      <4> QED
        BY <1>1, <3>1, <4>1
    <3>3. ~(n \div PP < w)
      <4>1. SUFFICES ASSUME n \div PP < w PROVE FALSE
        OBVIOUS
      <4>2. PP * (n \div PP) + PP <= PP * w
        BY <1>1, <1>2, <3>1, <4>1, Monotone
      <4>3. PP * (n \div PP) \in Nat /\ PP * w \in Nat
        BY <1>1, <1>2, <3>1
      <4> QED
        BY <1>1, <1>2, <3>2, <4>2, <4>3
    <3>4. w \in S
      BY <1>2, <3>1, <3>3
    <3>5. h[w] = l
      <4>1. q * w \in Nat
        BY <1>1, <3>1
      <4>2. h[w] = n - q * w
        BY <3>4
      <4> HIDE DEF q, h, S
      <4> QED
        BY <1>1, <3>1, <4>1, <4>2
    <3> QED
      BY <1>9, <3>4, <3>5
  <2>2. Probability(n, l) = 0
    BY <1>1, <2>1, ProbabilityZero
  <2> QED
    BY <2>2
<1>10. ASSUME NEW w \in S PROVE f[w] = g[h[w]]
  <2> DEFINE l == h[w]
             t == true(w)
  <2>1. t + w = l /\ l - w = t /\ l \in U /\ Fits(n, l, w) /\ w \in Nat /\ t \in Nat
    BY <1>4
  <2>2. f[w] = (t + w) * Comb(t + w, t) * Weight(t, w)
    OBVIOUS
  <2>3. g[l] = l * Probability(n, l)
    BY <2>1
  <2>4. l \in 0..n /\ l \in Nat /\ t + w <= MaxIter
    <3>1. l \in 1..n /\ n <= MaxIter /\ MaxIter \in Nat
      BY <2>1, LookaheadAssumption DEF Iter
    <3> HIDE DEF l, t
    <3> QED
      BY <1>1, <2>1, <3>1
  <2> HIDE DEF l, t, f, g, S, h
  <2>5. Probability(n, l) = Comb(l, t) * Weight(t, w)
    BY <2>1, <2>4, ProbabilityIs
  <2>6. Comb(l, t) \in Nat /\ Weight(t, w) \in Nat
    BY <2>1, <2>4, CombType, WeightType
  <2>7. \A x, y, z \in Nat : x * y * z = x * (y * z)
    OBVIOUS
  <2>8. f[w] = l * (Comb(l, t) * Weight(t, w))
    BY <2>1, <2>2, <2>4, <2>6, <2>7
  <2> QED
    BY <2>3, <2>5, <2>8 DEF l
<1>11. calculate(n) = SumFunctionOnSet(f, S)
  BY DEF calculate, SumFunction
<1>12. ExpectedLen(n) = SumFunctionOnSet(g, U)
  BY DEF ExpectedLen, SumFunction
<1> HIDE DEF f, g, h, S, U
<1>13. SumFunctionOnSet(f, S) = SumFunctionOnSet(g, U)
  BY <1>3, <1>5, <1>6, <1>8, <1>9, <1>10, SumReindex
<1> QED
  BY <1>11, <1>12, <1>13

\* The expected length is a number.
LEMMA ExpectedLenType ==
    ASSUME NEW n \in Iter
    PROVE  ExpectedLen(n) \in Nat
<1> DEFINE g == [l \in 1..n |-> l * Probability(n, l)]
<1>1. IsFiniteSet(1..n)
  BY FS_Interval DEF Iter
<1>2. \A l \in 1..n : g[l] \in Nat
  <2>1. \A l \in 1..n : Probability(n, l) \in Nat /\ l \in Nat
    BY ProbabilityType DEF Iter
  <2>2. \A x, y \in Nat : x * y \in Nat
    OBVIOUS
  <2> QED
    BY <2>1, <2>2
<1>3. ExpectedLen(n) = SumFunctionOnSet(g, 1..n)
  BY DEF ExpectedLen, SumFunction
<1> HIDE DEF g
<1> QED
  BY <1>1, <1>2, <1>3, SumType

\* What is asked of the lengths of a threshold.
LEMMA LengthsType ==
    ASSUME NEW idx \in LenIdx, NEW n \in Iter
    PROVE  /\ IsFiniteSet(Lengths(idx, n)) /\ Lengths(idx, n) \subseteq 1..n
           /\ Lengths(idx, n) \subseteq Iter
<1>1. expect_length[idx] \in Nat \ {0} /\ MaxIter \in Nat
  BY LookaheadAssumption DEF LenIdx
<1>2. n \in Nat /\ n <= MaxIter
  BY <1>1 DEF Iter
<1>3. IsFiniteSet(expect_length[idx]..n)
  BY <1>1, <1>2, FS_Interval
<1> QED
  BY <1>1, <1>2, <1>3 DEF Lengths, Iter

\* The probability to be finished is a number.
LEMMA FinishProbType ==
    ASSUME NEW idx \in LenIdx, NEW n \in Iter
    PROVE  FinishProb(idx, n) \in Nat
<1> DEFINE L == Lengths(idx, n)
           g == [l \in L |-> Probability(n, l)]
<1>1. IsFiniteSet(L) /\ L \subseteq 1..n
  BY LengthsType
<1>2. \A l \in L : g[l] \in Nat
  BY <1>1, ProbabilityType DEF Iter
<1>3. FinishProb(idx, n) = SumFunctionOnSet(g, L)
  BY DEF FinishProb, SumFunction
<1> HIDE DEF g, L
<1> QED
  BY <1>1, <1>2, <1>3, SumType

-----------------------------------------------------------------------------
(* The projection. *)

\* D and Unit are numbers.
LEMMA UnitType ==
    D \in Nat /\ Unit \in Nat /\ PrecDen \in Nat /\ Margin * Unit \in Nat
<1>1. AccDen \in Nat /\ MaxIter \in Nat /\ PrecDen \in Nat /\ Margin \in Nat
  BY LookaheadAssumption
<1>2. D \in Nat
  BY <1>1, PowerType DEF D
<1>3. \A x, y, z \in Nat : x * y * z \in Nat /\ x * y \in Nat
  OBVIOUS
<1>4. Unit \in Nat
  BY <1>1, <1>2, <1>3 DEF Unit
<1> QED
  BY <1>1, <1>2, <1>3, <1>4

\* The requests of a batch that may be finished after n iterations.
Finishing(b) == {j \in DOMAIN b : b[j].idx # 0}

\* What they release, in requests and in tokens.
FinishP(b, n) == [j \in Finishing(b) |-> FinishProb(b[j].idx, n) * PrecNum[b[j].idx]]
FinishT(b, n) ==
    [j \in Finishing(b) |-> FinishProb(b[j].idx, n) * PrecNum[b[j].idx] * b[j].tokens]

\* Projected for a given batch.
BatchPart(b, n) ==
    SumTokens(b) * Unit
    + Len(b) * D * PrecDen * ExpectedLen(n)
    - SumFunction([j \in {e \in DOMAIN b : b[e].idx # 0} |->
          LET p == FinishProb(b[j].idx, n) * PrecNum[b[j].idx]
          IN  p * ExpectedLen(n) + p * b[j].tokens * D])

CandPart(cands, n) ==
    SumFunction([c \in DOMAIN cands |-> cands[c] * Unit + ExpectedLen(n) * D * PrecDen])

ProjectedOf(b, cands, n) == BatchPart(b, n) + CandPart(cands, n)

\* A batch has requests with thresholds that exist.
LEMMA BatchFields ==
    ASSUME NEW b \in Seq(Request)
    PROVE  /\ IsFiniteSet(DOMAIN b) /\ Len(b) \in Nat
           /\ IsFiniteSet(Finishing(b)) /\ Finishing(b) \subseteq DOMAIN b
           /\ \A j \in DOMAIN b : b[j].tokens \in Nat /\ b[j].idx \in {0} \cup LenIdx
           /\ \A j \in Finishing(b) : b[j].idx \in LenIdx /\ PrecNum[b[j].idx] \in Nat
<1>1. DOMAIN b = 1..Len(b) /\ Len(b) \in Nat
  OBVIOUS
<1>2. IsFiniteSet(DOMAIN b)
  BY <1>1, FS_Interval
<1>3. ASSUME NEW j \in DOMAIN b
      PROVE  b[j].tokens \in Nat /\ b[j].idx \in {0} \cup LenIdx
  <2>1. b[j] \in Request
    BY <1>1
  <2>2. TokenCounts \subseteq Nat
    BY LookaheadAssumption
  <2> QED
    BY <2>1, <2>2 DEF Request
<1>4. Finishing(b) \subseteq DOMAIN b
  BY DEF Finishing
<1>5. ASSUME NEW j \in Finishing(b) PROVE b[j].idx \in LenIdx /\ PrecNum[b[j].idx] \in Nat
  <2>1. b[j].idx \in LenIdx
    BY <1>3 DEF Finishing
  <2>2. PrecNum[b[j].idx] \in 0..PrecDen /\ PrecDen \in Nat
    BY <2>1, LookaheadAssumption DEF LenIdx
  <2> QED
    BY <2>1, <2>2
<1> QED
  BY <1>1, <1>2, <1>3, <1>4, <1>5, FS_Subset

LEMMA FinishType ==
    ASSUME NEW b \in Seq(Request), NEW n \in Iter
    PROVE  /\ \A j \in Finishing(b) : FinishP(b, n)[j] \in Nat /\ FinishT(b, n)[j] \in Nat
           /\ SumFunctionOnSet(FinishP(b, n), Finishing(b)) \in Nat
           /\ SumFunctionOnSet(FinishT(b, n), Finishing(b)) \in Nat
<1>1. \A x, y, z \in Nat : x * y * z \in Nat /\ x * y \in Nat
  OBVIOUS
<1>2. ASSUME NEW j \in Finishing(b)
      PROVE  FinishP(b, n)[j] \in Nat /\ FinishT(b, n)[j] \in Nat
  <2>1. b[j].idx \in LenIdx /\ PrecNum[b[j].idx] \in Nat /\ b[j].tokens \in Nat
    BY BatchFields
  <2>2. FinishProb(b[j].idx, n) \in Nat
    BY <2>1, FinishProbType
  <2> QED
    BY <1>1, <2>1, <2>2 DEF FinishP, FinishT
<1>3. IsFiniteSet(Finishing(b))
  BY BatchFields
<1> QED
  BY <1>2, <1>3, SumType

\* The batch's part of the projection as calculate_iter_mem puts it together.
LEMMA BatchPartIs ==
    ASSUME NEW b \in Seq(Request), NEW n \in Iter
    PROVE  /\ BatchPart(b, n) \in Int
           /\ BatchPart(b, n) =
                  SumTokens(b) * Unit
                  + (Len(b) * D * PrecDen - SumFunction(FinishP(b, n))) * ExpectedLen(n)
                  - SumFunction(FinishT(b, n)) * D
<1> DEFINE F == Finishing(b)
           E == ExpectedLen(n)
           f == [j \in {e \in DOMAIN b : b[e].idx # 0} |->
                   LET p == FinishProb(b[j].idx, n) * PrecNum[b[j].idx]
                   IN  p * ExpectedLen(n) + p * b[j].tokens * D]
           P == FinishP(b, n)
           T == FinishT(b, n)
           X == Len(b) * D * PrecDen
           ST == SumTokens(b) * Unit
           SP == SumFunctionOnSet(P, F)
           SQ == SumFunctionOnSet(T, F)
<1>1. E \in Nat /\ D \in Nat /\ Unit \in Nat /\ PrecDen \in Nat
  BY ExpectedLenType, UnitType
<1>2. IsFiniteSet(F) /\ Len(b) \in Nat
  BY BatchFields
<1>3. \A j \in F : P[j] \in Nat /\ T[j] \in Nat
  BY FinishType
<1>4. SP \in Nat /\ SQ \in Nat
  BY FinishType
<1>5. \A j \in F : f[j] = E * P[j] + D * T[j]
  <2>1. SUFFICES ASSUME NEW j \in F PROVE f[j] = E * P[j] + D * T[j]
    OBVIOUS
  <2>2. f[j] = P[j] * E + T[j] * D
    BY DEF Finishing, FinishP, FinishT
  <2> HIDE DEF f, P, T, E, F
  <2>3. P[j] * E = E * P[j] /\ T[j] * D = D * T[j]
    BY <1>1, <1>3
  <2> QED
    BY <2>2, <2>3
<1>6. SumFunction(f) = SumFunctionOnSet(f, F)
  BY DEF SumFunction, Finishing
<1>7. SumFunctionOnSet(f, F) = E * SP + D * SQ
  <2> HIDE DEF f, P, T, E, F
  <2>1. E \in Int /\ D \in Int
    BY <1>1
  <2>2. \A j \in F : P[j] \in Int /\ T[j] \in Int /\ f[j] = E * P[j] + D * T[j]
    BY <1>3, <1>5
  <2>3. SumFunctionOnSet(f, F) = E * SumFunctionOnSet(P, F) + D * SumFunctionOnSet(T, F)
    <3>1. \A u, v, w :
              (\A j \in F : v[j] \in Int /\ w[j] \in Int /\ u[j] = E * v[j] + D * w[j])
              => SumFunctionOnSet(u, F) = E * SumFunctionOnSet(v, F) + D * SumFunctionOnSet(w, F)
      BY <1>2, <2>1, SumLinear
    <3> QED
      BY <2>2, <3>1
  <2> QED
    BY <2>3 DEF SP, SQ
<1>8. SumTokens(b) \in Nat
  <2> DEFINE t == [j \in DOMAIN b |-> b[j].tokens]
  <2>1. \A j \in DOMAIN b : t[j] \in Nat
    BY BatchFields
  <2>2. SumTokens(b) = SumFunctionOnSet(t, DOMAIN b)
    BY DEF SumTokens, SumFunction
  <2> HIDE DEF t
  <2> QED
    BY <2>1, <2>2, BatchFields, SumType
<1>9. ST \in Nat /\ X \in Nat /\ X * E \in Nat
  <2>1. \A x, y, z, u \in Nat : x * y \in Nat /\ x * y * z \in Nat /\ x * y * z * u \in Nat
    OBVIOUS
  <2> QED
    BY <1>1, <1>2, <1>8, <2>1
<1>10. BatchPart(b, n) = ST + X * E - (E * SP + D * SQ)
  BY <1>6, <1>7 DEF BatchPart
<1>11. SumFunction(P) = SP /\ SumFunction(T) = SQ
  BY DEF SumFunction, FinishP, FinishT
<1> HIDE DEF E, X, ST, SP, SQ, P, T, f, F
<1>12. (X - SP) * E = X * E - E * SP /\ E * SP \in Nat /\ SQ * D = D * SQ /\ D * SQ \in Nat
  BY <1>1, <1>4, <1>9
<1>13. ST + X * E - (E * SP + D * SQ) = ST + (X - SP) * E - SQ * D
  BY <1>9, <1>12
<1>14. BatchPart(b, n) \in Int
  BY <1>9, <1>10, <1>12
<1> QED
  BY <1>10, <1>11, <1>13, <1>14 DEF E, X, ST, P, T

\* One more candidate.
LEMMA OneMore ==
    ASSUME NEW cands \in Seq(Nat), NEW c \in Nat, NEW n \in Iter
    PROVE  /\ CandPart(cands, n) \in Nat
           /\ CandPart(Append(cands, c), n)
                  = CandPart(cands, n) + (c * Unit + ExpectedLen(n) * D * PrecDen)
           /\ c * Unit + ExpectedLen(n) * D * PrecDen \in Nat
<1> DEFINE more == Append(cands, c)
           g(x) == x * Unit + ExpectedLen(n) * D * PrecDen
           f == [e \in DOMAIN cands |-> g(cands[e])]
           h == [e \in DOMAIN more |-> g(more[e])]
           S == 1..Len(cands)
           z == Len(cands) + 1
<1>1. \A x \in Nat : g(x) \in Nat
  <2>1. ExpectedLen(n) \in Nat /\ D \in Nat /\ Unit \in Nat /\ PrecDen \in Nat
    BY ExpectedLenType, UnitType
  <2>2. \A x, y, w, u, v \in Nat : x * y + w * u * v \in Nat
    OBVIOUS
  <2> HIDE DEF g
  <2> QED
    BY <2>1, <2>2 DEF g
<1>2. /\ Len(cands) \in Nat /\ DOMAIN cands = S /\ DOMAIN more = S \cup {z}
      /\ \A e \in S : more[e] = cands[e] /\ cands[e] \in Nat
      /\ more[z] = c /\ z \notin S
  OBVIOUS
<1>3. IsFiniteSet(S)
  BY <1>2, FS_Interval
<1>4. CandPart(cands, n) = SumFunctionOnSet(f, S)
  BY <1>2 DEF CandPart, SumFunction
<1>5. CandPart(more, n) = SumFunctionOnSet(h, S \cup {z})
  BY <1>2 DEF CandPart, SumFunction
<1> HIDE DEF g
<1>6. (\A e \in S : f[e] \in Nat /\ h[e] = f[e]) /\ h[z] = g(c) /\ g(c) \in Nat
  BY <1>1, <1>2
<1> HIDE DEF f, h, S, z, more
<1>7. \A e \in S \cup {z} : h[e] \in Int
  <2>1. ASSUME NEW e \in S PROVE h[e] \in Int
    <3>1. f[e] \in Nat /\ h[e] = f[e]
      BY <1>6
    <3> QED
      BY <3>1
  <2>2. h[z] \in Int
    BY <1>6
  <2> QED
    BY <2>1, <2>2
<1>8. SumFunctionOnSet(h, S \cup {z}) = g(c) + SumFunctionOnSet(h, S)
  <2>1. z \notin S /\ h[z] = g(c)
    BY <1>2, <1>6
  <2>2. SumFunctionOnSet(h, S \cup {z}) = h[z] + SumFunctionOnSet(h, S)
    BY <1>3, <1>7, <2>1, SumAdd
  <2> QED
    BY <2>1, <2>2
<1>9. SumFunctionOnSet(h, S) = SumFunctionOnSet(f, S)
  BY <1>3, <1>6, SumSame
<1>10. SumFunctionOnSet(f, S) \in Nat
  BY <1>3, <1>6, SumType
<1>11. CandPart(more, n) = CandPart(cands, n) + g(c)
  BY <1>1, <1>4, <1>5, <1>8, <1>9, <1>10
<1> QED
  BY <1>1, <1>4, <1>10, <1>11 DEF g, more

\* No candidate.
LEMMA NoCandidate ==
    ASSUME NEW n
    PROVE  CandPart(<<>>, n) = 0
<1>1. DOMAIN <<>> = {}
  OBVIOUS
<1> QED
  BY <1>1, SumEmpty DEF CandPart, SumFunction

-----------------------------------------------------------------------------
(* The invariant. *)

MemTypes ==
    /\ exp_cache \in [Iter -> Int]
    /\ prob_cache \in [Iter -> [Iter -> Int]]
    /\ cum_cache \in [LenIdx -> [Iter -> Int]]
    /\ mem_pc \in {"project", "admit", "done"} /\ k \in 0..Len(iter_list)
    /\ batch \in Seq(Request) /\ waiting \in Seq(TokenCounts)
    /\ mem_usage \in Seq(Int) /\ Len(mem_usage) = k
    /\ peak \in Nat /\ admitted \in Seq(TokenCounts)
    /\ delay_prefill \in BOOLEAN

\* What has been projected is the projection, with the candidates admitted.
ProjectionRight ==
    \A j \in 1..k :
        /\ exp_cache[iter_list[j]] = ExpectedLen(iter_list[j])
        /\ mem_usage[j] = ProjectedOf(batch, admitted, iter_list[j])

\* The peak is the largest of the projections so far.
PeakRight ==
    /\ \A j \in 1..k : mem_usage[j] <= peak
    /\ peak = 0 \/ \E j \in 1..k : mem_usage[j] = peak

\* With these candidates an iteration is above the margin.
OverMargin(b, cands) ==
    \E j \in 1..Len(iter_list) : ProjectedOf(b, cands, iter_list[j]) > Margin * Unit

\* Where the call is, and what the projection decides there.
PhaseRight ==
    /\ mem_pc = "project" => admitted = <<>> /\ ~delay_prefill /\ waiting # <<>> /\ PeakRight
    /\ mem_pc # "project" => k = Len(iter_list)
    /\ mem_pc = "admit" => ~delay_prefill
    /\ mem_pc = "admit" \/ admitted # <<>> => \A j \in 1..k : mem_usage[j] <= Margin * Unit
    /\ mem_pc = "done" =>
           waiting # <<>> /\ OverMargin(batch, Append(admitted, Head(waiting)))

MemInv == MemTypes /\ CachesCorrect /\ ProjectionRight /\ PhaseRight

\* The iterations to project are within the limit.
LEMMA IterListType ==
    /\ Len(iter_list) \in Nat
    /\ \A j \in 1..Len(iter_list) : iter_list[j] \in Iter
BY LookaheadAssumption DEF Iter

LEMMA InitRight == MemInit => MemInv
<1> SUFFICES ASSUME MemInit PROVE MemInv
  OBVIOUS
<1>1. MemTypes
  <2>1. /\ exp_cache \in [Iter -> Int] /\ prob_cache \in [Iter -> [Iter -> Int]]
        /\ cum_cache \in [LenIdx -> [Iter -> Int]]
    BY DEF MemInit, Unset
  <2>2. batch \in Seq(Request) /\ waiting \in Seq(TokenCounts)
    <3>1. PICK m \in 0..MaxBatch : batch \in [1..m -> Request]
      BY DEF MemInit, Batches
    <3>2. PICK w \in 1..MaxWaiting : waiting \in [1..w -> TokenCounts]
      BY DEF MemInit, WaitingLists
    <3>3. m \in Nat /\ w \in Nat
      BY LookaheadAssumption
    <3> QED
      BY <3>1, <3>2, <3>3
  <2>3. /\ mem_pc \in {"project", "admit", "done"} /\ k \in 0..Len(iter_list)
        /\ mem_usage \in Seq(Int) /\ Len(mem_usage) = k
        /\ peak \in Nat /\ admitted \in Seq(TokenCounts) /\ delay_prefill \in BOOLEAN
    <3>1. <<>> \in Seq(Int) /\ Len(<<>>) = 0 /\ <<>> \in Seq(TokenCounts)
      OBVIOUS
    <3>2. mem_usage \in Seq(Int) /\ admitted \in Seq(TokenCounts) /\ Len(mem_usage) = k
      BY <3>1 DEF MemInit
    <3>3. k \in 0..Len(iter_list)
      BY IterListType DEF MemInit
    <3> QED
      BY <3>2, <3>3 DEF MemInit
  <2> QED
    BY <2>1, <2>2, <2>3 DEF MemTypes
<1>2. CachesCorrect
  BY DEF MemInit, CachesCorrect
<1>3. ProjectionRight /\ PeakRight
  <2>1. k = 0 /\ 1..0 = {} /\ peak = 0
    BY DEF MemInit
  <2> QED
    BY <2>1 DEF ProjectionRight, PeakRight
<1>4. waiting # <<>>
  BY DEF MemInit, WaitingLists
<1>5. PhaseRight
  BY <1>3, <1>4 DEF MemInit, PhaseRight
<1> QED
  BY <1>1, <1>2, <1>3, <1>5 DEF MemInv

-----------------------------------------------------------------------------
(* The memo tables. *)

Asked == {batch[j].idx : j \in DOMAIN batch} \ {0}
Missing(n) == {idx \in Asked : cum_cache[idx][n] = Unset}
Probs(n) == ProbAfter(n, UNION {Lengths(idx, n) : idx \in Missing(n)})
ExpLen(n) == IF exp_cache[n] # Unset THEN exp_cache[n] ELSE calculate(n)
CumAfter(n) ==
    [idx \in LenIdx |->
        IF idx \in Asked
        THEN [cum_cache[idx] EXCEPT ![n] = cum_prob_get(idx, n, Probs(n))]
        ELSE cum_cache[idx]]

\* The thresholds asked for exist.
LEMMA AskedType ==
    ASSUME MemTypes
    PROVE  Asked \subseteq LenIdx
<1>1. \A j \in DOMAIN batch : batch[j].idx \in {0} \cup LenIdx
  BY BatchFields DEF MemTypes
<1> QED
  BY <1>1 DEF Asked

\* The expected length, from the table or not.
LEMMA ExpLenRight ==
    ASSUME CachesCorrect, NEW n \in Iter
    PROVE  ExpLen(n) = ExpectedLen(n) /\ ExpLen(n) \in Nat
<1>1. ExpLen(n) = ExpectedLen(n)
  BY CalculateRight DEF ExpLen, CachesCorrect
<1> QED
  BY <1>1, ExpectedLenType

\* The probabilities after the lookups.
LEMMA ProbsRight ==
    ASSUME MemTypes, CachesCorrect, NEW n \in Iter
    PROVE  /\ Probs(n) \in [Iter -> [Iter -> Int]]
           /\ \A m \in Iter : \A l \in Iter :
                  Probs(n)[m][l] # Unset => Probs(n)[m][l] = Probability(m, l)
           /\ \A idx \in Missing(n) : \A l \in Lengths(idx, n) :
                  Probs(n)[n][l] = Probability(n, l)
<1> DEFINE L == UNION {Lengths(idx, n) : idx \in Missing(n)}
           R == [l \in Iter |-> IF l \in L /\ prob_cache[n][l] = Unset
                                THEN calc_prob_len(n, l) ELSE prob_cache[n][l]]
<1>1. prob_cache \in [Iter -> [Iter -> Int]]
  BY DEF MemTypes
<1>2. Probs(n) = [prob_cache EXCEPT ![n] = R]
  BY <1>1 DEF Probs, ProbAfter
<1>3. L \subseteq 1..n /\ L \subseteq Iter
  <2>1. \A idx \in Missing(n) : Lengths(idx, n) \subseteq 1..n /\ Lengths(idx, n) \subseteq Iter
    BY AskedType, LengthsType DEF Missing
  <2> QED
    BY <2>1
<1>4. \A l \in L : calc_prob_len(n, l) = Probability(n, l) /\ Probability(n, l) \in Nat
  <2>1. ASSUME NEW l \in L
        PROVE  calc_prob_len(n, l) = Probability(n, l) /\ Probability(n, l) \in Nat
    <3>1. l \in 1..n
      BY <1>3
    <3>2. l \in 0..n
      BY <3>1
    <3> QED
      BY <3>1, <3>2, ProbLenRight, ProbabilityType
  <2> QED
    BY <2>1
<1>5. \A l \in Iter : prob_cache[n][l] # Unset => prob_cache[n][l] = Probability(n, l)
  BY DEF CachesCorrect
<1> HIDE DEF L
<1>6. \A l \in Iter : /\ R[l] \in Int
                      /\ R[l] # Unset => R[l] = Probability(n, l)
                      /\ l \in L => R[l] = Probability(n, l)
  <2>1. SUFFICES ASSUME NEW l \in Iter
                 PROVE  /\ R[l] \in Int
                        /\ R[l] # Unset => R[l] = Probability(n, l)
                        /\ l \in L => R[l] = Probability(n, l)
    OBVIOUS
  <2>2. prob_cache[n][l] \in Int
    BY <1>1
  <2>3. R[l] = IF l \in L /\ prob_cache[n][l] = Unset
               THEN calc_prob_len(n, l) ELSE prob_cache[n][l]
    OBVIOUS
  <2> HIDE DEF R
  <2>4. CASE l \in L /\ prob_cache[n][l] = Unset
    BY <1>4, <2>3, <2>4
  <2>5. CASE ~(l \in L /\ prob_cache[n][l] = Unset)
    BY <1>5, <2>2, <2>3, <2>5
  <2> QED
    BY <2>4, <2>5
<1>7. R \in [Iter -> Int]
  <2>1. R = [l \in Iter |-> R[l]]
    OBVIOUS
  <2> HIDE DEF R
  <2> QED
    BY <1>6, <2>1
<1> HIDE DEF R
<1>8. Probs(n) \in [Iter -> [Iter -> Int]]
  BY <1>1, <1>2, <1>7
<1>9. Probs(n)[n] = R /\ \A m \in Iter \ {n} : Probs(n)[m] = prob_cache[m]
  BY <1>1, <1>2
<1>10. ASSUME NEW m \in Iter, NEW l \in Iter, Probs(n)[m][l] # Unset
       PROVE  Probs(n)[m][l] = Probability(m, l)
  <2>1. CASE m = n
    BY <1>6, <1>9, <1>10, <2>1
  <2>2. CASE m # n
    BY <1>9, <1>10, <2>2 DEF CachesCorrect
  <2> QED
    BY <2>1, <2>2
<1>11. ASSUME NEW idx \in Missing(n), NEW l \in Lengths(idx, n)
       PROVE  Probs(n)[n][l] = Probability(n, l)
  <2>1. l \in L
    BY DEF L
  <2>2. l \in Iter
    BY <1>3, <2>1
  <2> QED
    BY <1>6, <1>9, <2>1, <2>2
<1> QED
  BY <1>8, <1>10, <1>11

\* The probabilities to be finished after them.
LEMMA CumRight ==
    ASSUME MemTypes, CachesCorrect, NEW n \in Iter, NEW idx \in Asked
    PROVE  cum_prob_get(idx, n, Probs(n)) = FinishProb(idx, n)
<1>1. idx \in LenIdx
  BY AskedType
<1>2. CASE cum_cache[idx][n] # Unset
  BY <1>1, <1>2 DEF cum_prob_get, CachesCorrect
<1>3. CASE cum_cache[idx][n] = Unset
  <2>1. idx \in Missing(n)
    BY <1>3 DEF Missing
  <2>2. \A l \in Lengths(idx, n) : Probs(n)[n][l] = Probability(n, l)
    BY <2>1, ProbsRight
  <2>3. [l \in Lengths(idx, n) |-> Probs(n)[n][l]] = [l \in Lengths(idx, n) |-> Probability(n, l)]
    BY <2>2
  <2> QED
    BY <1>3, <2>3 DEF cum_prob_get, FinishProb
<1> QED
  BY <1>2, <1>3

LEMMA CumAfterRight ==
    ASSUME MemTypes, CachesCorrect, NEW n \in Iter
    PROVE  /\ CumAfter(n) \in [LenIdx -> [Iter -> Int]]
           /\ \A idx \in LenIdx : \A m \in Iter :
                  CumAfter(n)[idx][m] # Unset => CumAfter(n)[idx][m] = FinishProb(idx, m)
<1>1. cum_cache \in [LenIdx -> [Iter -> Int]]
  BY DEF MemTypes
<1>2. ASSUME NEW idx \in LenIdx
      PROVE  /\ CumAfter(n)[idx] \in [Iter -> Int]
             /\ \A m \in Iter :
                    CumAfter(n)[idx][m] # Unset => CumAfter(n)[idx][m] = FinishProb(idx, m)
  <2>1. \A m \in Iter : cum_cache[idx][m] # Unset => cum_cache[idx][m] = FinishProb(idx, m)
    BY DEF CachesCorrect
  <2>2. CASE idx \in Asked
    <3>1. FinishProb(idx, n) \in Int
      BY FinishProbType
    <3>2. CumAfter(n)[idx] = [cum_cache[idx] EXCEPT ![n] = FinishProb(idx, n)]
      BY <2>2, CumRight DEF CumAfter
    <3> QED
      BY <1>1, <2>1, <3>1, <3>2
  <2>3. CASE idx \notin Asked
    <3>1. CumAfter(n)[idx] = cum_cache[idx]
      BY <2>3 DEF CumAfter
    <3> QED
      BY <1>1, <2>1, <3>1
  <2> QED
    BY <2>2, <2>3
<1>3. CumAfter(n) = [idx \in LenIdx |-> CumAfter(n)[idx]]
  BY DEF CumAfter
<1> QED
  BY <1>2, <1>3

-----------------------------------------------------------------------------
(* The steps. *)

LEMMA TableStep ==
    ASSUME MemInv, calculate_iter_mem, NEW n, n = iter_list[k + 1]
    PROVE  /\ n \in Iter
           /\ exp_cache' = [exp_cache EXCEPT ![n] = ExpectedLen(n)]
           /\ prob_cache' = Probs(n)
           /\ cum_cache' = CumAfter(n)
           /\ mem_usage' = Append(mem_usage, BatchPart(batch, n))
<1>1. k \in Nat /\ k < Len(iter_list) /\ k + 1 \in 1..Len(iter_list)
  BY IterListType DEF calculate_iter_mem, MemInv, MemTypes
<1>2. n \in Iter
  BY <1>1, IterListType
<1>3. batch \in Seq(Request) /\ MemTypes /\ CachesCorrect
  BY DEF MemInv, MemTypes
<1>4. ExpLen(n) = ExpectedLen(n)
  BY <1>2, <1>3, ExpLenRight
<1>5. exp_cache' = [exp_cache EXCEPT ![n] = ExpLen(n)]
  BY DEF calculate_iter_mem, ExpLen
<1>6. prob_cache' = Probs(n)
  BY DEF calculate_iter_mem, Probs, Missing, Asked
<1>7. cum_cache' = CumAfter(n)
  BY DEF calculate_iter_mem, CumAfter, Probs, Missing, Asked
<1> DEFINE eff_prob(j) == cum_prob_get(batch[j].idx, n, Probs(n)) * PrecNum[batch[j].idx]
           P == [j \in Finishing(batch) |-> eff_prob(j)]
           T == [j \in Finishing(batch) |-> eff_prob(j) * batch[j].tokens]
<1>8. mem_usage' = Append(mem_usage,
          SumTokens(batch) * Unit
          + (Len(batch) * D * PrecDen - SumFunction(P)) * ExpLen(n)
          - SumFunction(T) * D)
  BY DEF calculate_iter_mem, ExpLen, Probs, Missing, Asked, Finishing
<1>9. \A j \in Finishing(batch) :
          eff_prob(j) = FinishProb(batch[j].idx, n) * PrecNum[batch[j].idx]
  <2>1. SUFFICES ASSUME NEW j \in Finishing(batch)
                 PROVE  eff_prob(j) = FinishProb(batch[j].idx, n) * PrecNum[batch[j].idx]
    OBVIOUS
  <2>2. batch[j].idx \in Asked
    BY DEF Finishing, Asked
  <2> QED
    BY <1>2, <1>3, <2>2, CumRight
<1>10. P = FinishP(batch, n) /\ T = FinishT(batch, n)
  <2> HIDE DEF eff_prob
  <2> QED
    BY <1>9 DEF FinishP, FinishT
<1> HIDE DEF P, T
<1>11. BatchPart(batch, n) =
           SumTokens(batch) * Unit
           + (Len(batch) * D * PrecDen - SumFunction(P)) * ExpLen(n)
           - SumFunction(T) * D
  BY <1>2, <1>3, <1>4, <1>10, BatchPartIs
<1> QED
  BY <1>2, <1>4, <1>5, <1>6, <1>7, <1>8, <1>11

LEMMA CalculateStep ==
    ASSUME MemInv, calculate_iter_mem
    PROVE  MemInv'
<1> DEFINE n == iter_list[k + 1]
           u == BatchPart(batch, n)
<1>1. /\ n \in Iter
      /\ exp_cache' = [exp_cache EXCEPT ![n] = ExpectedLen(n)]
      /\ prob_cache' = Probs(n) /\ cum_cache' = CumAfter(n)
      /\ mem_usage' = Append(mem_usage, u)
  BY TableStep
<1>2. MemTypes /\ CachesCorrect /\ ProjectionRight /\ PhaseRight
  BY DEF MemInv
<1>3. mem_pc = "project" /\ k \in Nat /\ k < Len(iter_list) /\ k' = k + 1
  BY <1>2 DEF calculate_iter_mem, MemTypes
<1>4. /\ mem_pc' = mem_pc /\ batch' = batch /\ waiting' = waiting
      /\ admitted' = admitted /\ delay_prefill' = delay_prefill
  BY DEF calculate_iter_mem
<1>5. admitted = <<>> /\ ~delay_prefill /\ waiting # <<>> /\ PeakRight
  BY <1>2, <1>3 DEF PhaseRight
<1>6. u \in Int /\ ExpectedLen(n) \in Nat
  <2>1. batch \in Seq(Request)
    BY <1>2 DEF MemTypes
  <2> QED
    BY <1>1, <2>1, BatchPartIs, ExpectedLenType
<1>7. peak' = IF u > peak THEN u ELSE peak
  <2>1. peak' = IF Last(mem_usage') > peak THEN Last(mem_usage') ELSE peak
    BY DEF calculate_iter_mem
  <2>2. Last(mem_usage') = u
    <3>1. mem_usage \in Seq(Int)
      BY <1>2 DEF MemTypes
    <3> HIDE DEF u
    <3> QED
      BY <1>1, <1>6, <3>1 DEF Last
  <2> QED
    BY <2>1, <2>2
<1>8. /\ mem_usage' \in Seq(Int) /\ Len(mem_usage') = k + 1 /\ mem_usage'[k + 1] = u
      /\ \A j \in 1..k : mem_usage'[j] = mem_usage[j] /\ mem_usage[j] \in Int
  <2>1. mem_usage \in Seq(Int) /\ Len(mem_usage) = k
    BY <1>2 DEF MemTypes
  <2> HIDE DEF u
  <2> QED
    BY <1>1, <1>3, <1>6, <2>1
<1>9. peak' \in Nat /\ peak \in Nat
  BY <1>2, <1>6, <1>7 DEF MemTypes
<1> HIDE DEF u
<1>10. MemTypes'
  <2>1. exp_cache' \in [Iter -> Int]
    BY <1>1, <1>2, <1>6 DEF MemTypes
  <2>2. prob_cache' \in [Iter -> [Iter -> Int]]
    BY <1>1, <1>2, ProbsRight
  <2>3. cum_cache' \in [LenIdx -> [Iter -> Int]]
    BY <1>1, <1>2, CumAfterRight
  <2>4. k' \in 0..Len(iter_list)
    BY <1>3, IterListType
  <2> QED
    BY <1>2, <1>3, <1>4, <1>8, <1>9, <2>1, <2>2, <2>3, <2>4 DEF MemTypes
<1>11. CachesCorrect'
  <2>1. ASSUME NEW m \in Iter
        PROVE  exp_cache'[m] # Unset => exp_cache'[m] = ExpectedLen(m)
    BY <1>1, <1>2 DEF MemTypes, CachesCorrect
  <2>2. ASSUME NEW m \in Iter, NEW l \in Iter
        PROVE  prob_cache'[m][l] # Unset => prob_cache'[m][l] = Probability(m, l)
    BY <1>1, <1>2, ProbsRight
  <2>3. ASSUME NEW m \in Iter, NEW idx \in LenIdx
        PROVE  cum_cache'[idx][m] # Unset => cum_cache'[idx][m] = FinishProb(idx, m)
    BY <1>1, <1>2, CumAfterRight
  <2> QED
    BY <2>1, <2>2, <2>3 DEF CachesCorrect
<1>12. ProjectionRight'
  <2>1. ASSUME NEW j \in 1..k
        PROVE  /\ exp_cache'[iter_list[j]] = ExpectedLen(iter_list[j])
               /\ mem_usage'[j] = ProjectedOf(batch, admitted, iter_list[j])
    <3>1. iter_list[j] \in Iter
      BY <1>3, IterListType
    <3> QED
      BY <1>1, <1>2, <1>8, <3>1 DEF ProjectionRight, MemTypes
  <2>2. /\ exp_cache'[iter_list[k + 1]] = ExpectedLen(iter_list[k + 1])
        /\ mem_usage'[k + 1] = ProjectedOf(batch, admitted, iter_list[k + 1])
    <3>1. exp_cache'[n] = ExpectedLen(n)
      BY <1>1, <1>2 DEF MemTypes
    <3>2. ProjectedOf(batch, <<>>, n) = u
      BY <1>6, NoCandidate DEF ProjectedOf, u
    <3> QED
      BY <1>5, <1>8, <3>1, <3>2
  <2>3. \A j \in 1..(k + 1) : j \in 1..k \/ j = k + 1
    BY <1>3
  <2> QED
    BY <1>3, <1>4, <2>1, <2>2, <2>3 DEF ProjectionRight
<1>13. PeakRight'
  <2>1. \A j \in 1..(k + 1) : j \in 1..k \/ j = k + 1
    BY <1>3
  <2>2. \A j \in 1..(k + 1) : mem_usage'[j] <= peak'
    <3>1. \A j \in 1..k : mem_usage[j] <= peak
      BY <1>5 DEF PeakRight
    <3>2. ASSUME NEW j \in 1..k PROVE mem_usage'[j] <= peak'
      BY <1>6, <1>7, <1>8, <1>9, <3>1
    <3>3. mem_usage'[k + 1] <= peak'
      BY <1>6, <1>7, <1>8, <1>9
    <3> QED
      BY <2>1, <3>2, <3>3
  <2>3. peak' = 0 \/ \E j \in 1..(k + 1) : mem_usage'[j] = peak'
    <3>1. k + 1 \in 1..(k + 1) /\ \A j \in 1..k : j \in 1..(k + 1)
      BY <1>3
    <3>2. CASE u > peak
      BY <1>7, <1>8, <3>1, <3>2
    <3>3. CASE ~(u > peak)
      <4>1. peak' = peak
        BY <1>7, <3>3
      <4> QED
        BY <1>5, <1>8, <3>1, <4>1 DEF PeakRight
    <3> QED
      BY <3>2, <3>3
  <2> QED
    BY <1>3, <2>2, <2>3 DEF PeakRight
<1>14. PhaseRight'
  BY <1>3, <1>4, <1>5, <1>13 DEF PhaseRight
<1> QED
  BY <1>10, <1>11, <1>12, <1>14 DEF MemInv

\* The candidates' lengths are numbers.
LEMMA CandsType ==
    ASSUME NEW cands \in Seq(TokenCounts)
    PROVE  cands \in Seq(Nat)
<1>1. TokenCounts \subseteq Nat
  BY LookaheadAssumption
<1>2. \E n \in Nat : cands \in [1..n -> TokenCounts]
  <2>1. Len(cands) \in Nat /\ cands \in [1..Len(cands) -> TokenCounts]
    OBVIOUS
  <2> QED
    BY <2>1
<1>3. PICK n \in Nat : cands \in [1..n -> TokenCounts]
  BY <1>2
<1>4. cands \in [1..n -> Nat]
  BY <1>1, <1>3
<1> QED
  BY <1>4

\* The projections are numbers.
LEMMA ProjectedType ==
    ASSUME NEW b \in Seq(Request), NEW cands \in Seq(TokenCounts), NEW n \in Iter
    PROVE  ProjectedOf(b, cands, n) \in Int
<1>1. cands \in Seq(Nat)
  BY CandsType
<1>2. CandPart(cands, n) \in Nat
  BY <1>1, OneMore
<1>3. BatchPart(b, n) \in Int
  BY BatchPartIs
<1> QED
  BY <1>2, <1>3 DEF ProjectedOf

\* A candidate adds its footprint.
LEMMA ProjectedMore ==
    ASSUME NEW b \in Seq(Request), NEW cands \in Seq(TokenCounts), NEW c \in TokenCounts,
           NEW n \in Iter, exp_cache[n] = ExpectedLen(n)
    PROVE  /\ ProjectedOf(b, Append(cands, c), n) = ProjectedOf(b, cands, n) + Footprint(c, n)
           /\ Footprint(c, n) \in Nat
<1>1. cands \in Seq(Nat) /\ c \in Nat
  BY CandsType, LookaheadAssumption
<1>2. Footprint(c, n) = c * Unit + ExpectedLen(n) * D * PrecDen
  BY DEF Footprint
<1>3. /\ CandPart(cands, n) \in Nat /\ Footprint(c, n) \in Nat
      /\ CandPart(Append(cands, c), n) = CandPart(cands, n) + Footprint(c, n)
  BY <1>1, <1>2, OneMore
<1>4. BatchPart(b, n) \in Int
  BY BatchPartIs
<1> QED
  BY <1>3, <1>4 DEF ProjectedOf

\* The candidates' list is a list.
LEMMA WaitingFields ==
    ASSUME waiting \in Seq(TokenCounts), waiting # <<>>
    PROVE  Head(waiting) \in TokenCounts /\ Tail(waiting) \in Seq(TokenCounts)
OBVIOUS

LEMMA EstimateStep ==
    ASSUME MemInv, estimate_done
    PROVE  MemInv'
<1>1. MemTypes /\ CachesCorrect /\ ProjectionRight /\ PhaseRight
  BY DEF MemInv
<1>2. /\ mem_pc = "project" /\ k = Len(iter_list)
      /\ delay_prefill' = (peak > Margin * Unit)
      /\ mem_pc' = IF delay_prefill' THEN "done" ELSE "admit"
      /\ exp_cache' = exp_cache /\ prob_cache' = prob_cache /\ cum_cache' = cum_cache
      /\ k' = k /\ batch' = batch /\ waiting' = waiting /\ mem_usage' = mem_usage
      /\ peak' = peak /\ admitted' = admitted
  BY DEF estimate_done
<1>3. admitted = <<>> /\ ~delay_prefill /\ waiting # <<>> /\ PeakRight
  BY <1>1, <1>2 DEF PhaseRight
<1>4. /\ k \in Nat /\ batch \in Seq(Request) /\ waiting \in Seq(TokenCounts)
      /\ peak \in Nat /\ Margin * Unit \in Nat /\ mem_usage \in Seq(Int) /\ Len(mem_usage) = k
      /\ admitted \in Seq(TokenCounts)
  BY <1>1, UnitType DEF MemTypes
<1>5. \A j \in 1..k : mem_usage[j] \in Int
  BY <1>4
<1>6. MemTypes' /\ CachesCorrect' /\ ProjectionRight'
  BY <1>1, <1>2 DEF MemTypes, CachesCorrect, ProjectionRight
<1>7. CASE peak > Margin * Unit
  <2>1. PICK j \in 1..k : mem_usage[j] = peak
    BY <1>3, <1>4, <1>7 DEF PeakRight
  <2> DEFINE n == iter_list[j]
             c == Head(waiting)
  <2>2. n \in Iter /\ c \in TokenCounts
    BY <1>2, <1>3, <1>4, IterListType, WaitingFields
  <2>3. exp_cache[n] = ExpectedLen(n) /\ mem_usage[j] = ProjectedOf(batch, admitted, n)
    BY <1>1 DEF ProjectionRight
  <2> HIDE DEF n, c
  <2>4. /\ ProjectedOf(batch, Append(admitted, c), n)
               = ProjectedOf(batch, admitted, n) + Footprint(c, n)
        /\ Footprint(c, n) \in Nat
    BY <1>4, <2>2, <2>3, ProjectedMore
  <2>5. ProjectedOf(batch, Append(admitted, c), n) > Margin * Unit
    BY <1>4, <1>7, <2>1, <2>3, <2>4
  <2>6. OverMargin(batch, Append(admitted, Head(waiting)))
    BY <1>2, <2>5 DEF OverMargin, n, c
  <2>7. mem_pc' = "done" /\ delay_prefill'
    BY <1>2, <1>7
  <2>8. PhaseRight'
    BY <1>2, <1>3, <2>6, <2>7 DEF PhaseRight, OverMargin
  <2> QED
    BY <1>6, <2>8 DEF MemInv
<1>8. CASE ~(peak > Margin * Unit)
  <2>1. mem_pc' = "admit" /\ ~delay_prefill'
    BY <1>2, <1>8
  <2>2. \A j \in 1..k : mem_usage[j] <= Margin * Unit
    <3>1. \A j \in 1..k : mem_usage[j] <= peak
      BY <1>3 DEF PeakRight
    <3> QED
      BY <1>4, <1>5, <1>8, <3>1
  <2>3. PhaseRight'
    BY <1>2, <1>3, <2>1, <2>2 DEF PhaseRight
  <2> QED
    BY <1>6, <2>3 DEF MemInv
<1> QED
  BY <1>7, <1>8

LEMMA AdmitStep ==
    ASSUME MemInv, Admit
    PROVE  MemInv'
<1> DEFINE c == Head(waiting)
           with == [j \in DOMAIN mem_usage |-> mem_usage[j] + Footprint(c, iter_list[j])]
           M == Margin * Unit
<1>1. MemTypes /\ CachesCorrect /\ ProjectionRight /\ PhaseRight
  BY DEF MemInv
<1>2. /\ mem_pc = "admit" /\ waiting # <<>>
      /\ exp_cache' = exp_cache /\ prob_cache' = prob_cache /\ cum_cache' = cum_cache
      /\ k' = k /\ batch' = batch /\ peak' = peak
      /\ IF \E j \in DOMAIN with : with[j] > M
         THEN /\ delay_prefill' = TRUE /\ mem_pc' = "done"
              /\ mem_usage' = mem_usage /\ waiting' = waiting /\ admitted' = admitted
         ELSE /\ mem_usage' = with
              /\ admitted' = Append(admitted, c)
              /\ waiting' = Tail(waiting)
              /\ mem_pc' = mem_pc /\ delay_prefill' = delay_prefill
  BY DEF Admit
<1>3. /\ k = Len(iter_list) /\ ~delay_prefill
      /\ \A j \in 1..k : mem_usage[j] <= M
  BY <1>1, <1>2 DEF PhaseRight
<1>4. /\ k \in Nat /\ batch \in Seq(Request) /\ waiting \in Seq(TokenCounts) /\ peak \in Nat
      /\ mem_usage \in Seq(Int) /\ Len(mem_usage) = k /\ DOMAIN mem_usage = 1..k
      /\ admitted \in Seq(TokenCounts) /\ M \in Nat
  BY <1>1, UnitType DEF MemTypes
<1>5. c \in TokenCounts /\ Tail(waiting) \in Seq(TokenCounts)
  BY <1>2, <1>4, WaitingFields
<1>6. ASSUME NEW j \in 1..k
      PROVE  /\ with[j] = ProjectedOf(batch, Append(admitted, c), iter_list[j])
             /\ with[j] \in Int
  <2> DEFINE n == iter_list[j]
  <2>1. n \in Iter
    BY <1>3, <1>4, IterListType
  <2>2. exp_cache[n] = ExpectedLen(n) /\ mem_usage[j] = ProjectedOf(batch, admitted, n)
    BY <1>1 DEF ProjectionRight
  <2>3. with[j] = mem_usage[j] + Footprint(c, n)
    BY <1>4
  <2> HIDE DEF n, c, with
  <2>4. /\ ProjectedOf(batch, Append(admitted, c), n)
               = ProjectedOf(batch, admitted, n) + Footprint(c, n)
        /\ Footprint(c, n) \in Nat
    BY <1>4, <1>5, <2>1, <2>2, ProjectedMore
  <2>5. mem_usage[j] \in Int
    BY <1>4
  <2>6. with[j] \in Int /\ with[j] = ProjectedOf(batch, Append(admitted, c), n)
    BY <2>2, <2>3, <2>4, <2>5
  <2> QED
    BY <2>6 DEF n
<1>7. DOMAIN with = 1..k
  BY <1>4
<1>8. with \in Seq(Int) /\ Len(with) = k
  <2>1. with = [j \in 1..k |-> with[j]]
    BY <1>4
  <2> HIDE DEF with
  <2> QED
    BY <1>4, <1>6, <2>1
<1> HIDE DEF with, c, M
<1>9. CASE \E j \in DOMAIN with : with[j] > M
  <2>1. /\ delay_prefill' = TRUE /\ mem_pc' = "done"
        /\ mem_usage' = mem_usage /\ waiting' = waiting /\ admitted' = admitted
    BY <1>2, <1>9
  <2>2. OverMargin(batch, Append(admitted, c))
    <3>1. PICK j \in 1..k : with[j] > M
      BY <1>7, <1>9
    <3>2. ProjectedOf(batch, Append(admitted, c), iter_list[j]) > M
      BY <1>6, <3>1
    <3> QED
      BY <1>3, <3>2 DEF OverMargin, M
  <2>3. MemTypes' /\ CachesCorrect' /\ ProjectionRight'
    BY <1>1, <1>2, <2>1 DEF MemTypes, CachesCorrect, ProjectionRight
  <2>4. PhaseRight'
    BY <1>2, <1>3, <2>1, <2>2 DEF PhaseRight, OverMargin, c, M
  <2> QED
    BY <2>3, <2>4 DEF MemInv
<1>10. CASE ~\E j \in DOMAIN with : with[j] > M
  <2>1. /\ mem_usage' = with /\ admitted' = Append(admitted, c)
        /\ waiting' = Tail(waiting) /\ mem_pc' = mem_pc /\ delay_prefill' = delay_prefill
    BY <1>2, <1>10
  <2>2. Append(admitted, c) \in Seq(TokenCounts)
    BY <1>4, <1>5
  <2>3. MemTypes' /\ CachesCorrect'
    BY <1>1, <1>2, <1>5, <1>8, <2>1, <2>2 DEF MemTypes, CachesCorrect
  <2>4. ProjectionRight'
    BY <1>1, <1>2, <1>6, <2>1 DEF ProjectionRight
  <2>5. \A j \in 1..k : with[j] <= M
    <3>1. ASSUME NEW j \in 1..k PROVE with[j] <= M
      <4>1. ~(with[j] > M)
        BY <1>7, <1>10
      <4>2. with[j] \in Int
        BY <1>6
      <4> QED
        BY <1>4, <4>1, <4>2
    <3> QED
      BY <3>1
  <2>6. PhaseRight'
    BY <1>2, <1>3, <2>1, <2>5 DEF PhaseRight, M
  <2> QED
    BY <2>3, <2>4, <2>6 DEF MemInv
<1> QED
  BY <1>9, <1>10

LEMMA NextCallStep ==
    ASSUME MemInv, NextCall
    PROVE  MemInv'
<1>1. MemTypes /\ CachesCorrect
  BY DEF MemInv
<1>2. /\ exp_cache' = exp_cache /\ prob_cache' = prob_cache /\ cum_cache' = cum_cache
      /\ mem_pc' = "project" /\ k' = 0 /\ mem_usage' = <<>> /\ peak' = 0
      /\ admitted' = <<>> /\ delay_prefill' = FALSE
      /\ batch' \in Batches /\ waiting' \in WaitingLists
  BY DEF NextCall
<1>3. batch' \in Seq(Request) /\ waiting' \in Seq(TokenCounts) /\ waiting' # <<>>
  <2>1. PICK m \in 0..MaxBatch : batch' \in [1..m -> Request]
    BY <1>2 DEF Batches
  <2>2. PICK w \in 1..MaxWaiting : waiting' \in [1..w -> TokenCounts]
    BY <1>2 DEF WaitingLists
  <2>3. m \in Nat /\ w \in Nat /\ w >= 1
    BY LookaheadAssumption
  <2> QED
    BY <2>1, <2>2, <2>3
<1>4. <<>> \in Seq(Int) /\ Len(<<>>) = 0 /\ <<>> \in Seq(TokenCounts) /\ 1..0 = {}
      /\ 0 \in 0..Len(iter_list)
  BY IterListType
<1>5. MemTypes'
  BY <1>1, <1>2, <1>3, <1>4 DEF MemTypes
<1>6. CachesCorrect'
  BY <1>1, <1>2 DEF CachesCorrect
<1>7. ProjectionRight'
  BY <1>2, <1>4 DEF ProjectionRight
<1>8. PhaseRight'
  BY <1>2, <1>3, <1>4 DEF PhaseRight, PeakRight
<1> QED
  BY <1>5, <1>6, <1>7, <1>8 DEF MemInv

\* The invariant holds always.
THEOREM MemInvHolds == MemSpec => []MemInv
<1>1. MemInit => MemInv
  BY InitRight
<1>2. MemInv /\ [MemNext]_memVars => MemInv'
  <2> SUFFICES ASSUME MemInv, [MemNext]_memVars PROVE MemInv'
    OBVIOUS
  <2>1. CASE calculate_iter_mem
    BY <2>1, CalculateStep
  <2>2. CASE estimate_done
    BY <2>2, EstimateStep
  <2>3. CASE Admit
    BY <2>3, AdmitStep
  <2>4. CASE NextCall
    BY <2>4, NextCallStep
  <2>5. CASE UNCHANGED memVars
    BY <2>5 DEF memVars, MemInv, MemTypes, CachesCorrect, ProjectionRight, PhaseRight,
                PeakRight, OverMargin
  <2> QED
    BY <2>1, <2>2, <2>3, <2>4, <2>5 DEF MemNext
<1> QED
  BY <1>1, <1>2, PTL DEF MemSpec

\* The memo tables hold what enumerating the outcomes gives, whatever batches
\* were projected and in whatever order the tables were filled
\* (ExpGenLenCache.get, LenProbCache.get and cum_prob_get).
THEOREM CachesKept == MemSpec => []CachesCorrect
<1>1. MemInv => CachesCorrect
  BY DEF MemInv
<1> QED
  BY <1>1, MemInvHolds, PTL

\* Prefills are admitted up to the projection and no further
\* (_estimate_lookahead_memory and the admission loop of schedule).
THEOREM AdmissionKept == MemSpec => []AdmissionWithinMargin
<1>1. ASSUME MemInv PROVE AdmissionWithinMargin
  <2>1. MemTypes /\ ProjectionRight /\ PhaseRight
    BY <1>1 DEF MemInv
  <2>2. /\ batch \in Seq(Request) /\ k \in Nat /\ waiting \in Seq(TokenCounts)
        /\ admitted \in Seq(TokenCounts) /\ Margin * Unit \in Int
    BY <2>1, UnitType DEF MemTypes
  <2>3. \A cands, n : Projected(cands, n) = ProjectedOf(batch, cands, n)
    BY DEF Projected, ProjectedOf, BatchPart, CandPart
  <2>4. DOMAIN iter_list = 1..Len(iter_list)
    BY LookaheadAssumption
  <2>5. mem_pc = "admit" \/ admitted # <<>> => Within(admitted)
    <3>1. SUFFICES ASSUME mem_pc = "admit" \/ admitted # <<>>, NEW j \in 1..Len(iter_list)
                   PROVE  Projected(admitted, iter_list[j]) <= Margin * Unit
      BY <2>4 DEF Within
    <3>2. k = Len(iter_list) /\ mem_usage[j] <= Margin * Unit
      BY <2>1, <3>1 DEF PhaseRight
    <3> QED
      BY <2>1, <2>3, <3>2 DEF ProjectionRight
  <2>6. delay_prefill => ~Within(IF waiting = <<>> THEN admitted
                                 ELSE Append(admitted, Head(waiting)))
    <3>1. SUFFICES ASSUME delay_prefill
                   PROVE  ~Within(IF waiting = <<>> THEN admitted
                                  ELSE Append(admitted, Head(waiting)))
      OBVIOUS
    <3>2. mem_pc = "done"
      BY <2>1, <3>1 DEF PhaseRight, MemTypes
    <3>3. waiting # <<>> /\ OverMargin(batch, Append(admitted, Head(waiting)))
      BY <2>1, <3>2 DEF PhaseRight
    <3> DEFINE cands == Append(admitted, Head(waiting))
    <3>4. cands \in Seq(TokenCounts)
      BY <2>2, <3>3, WaitingFields
    <3> HIDE DEF cands
    <3>5. PICK j \in 1..Len(iter_list) :
              ProjectedOf(batch, cands, iter_list[j]) > Margin * Unit
      BY <3>3 DEF OverMargin, cands
    <3>6. ProjectedOf(batch, cands, iter_list[j]) \in Int
      BY <2>2, <3>4, IterListType, ProjectedType
    <3>7. ~Within(cands)
      BY <2>2, <2>3, <2>4, <3>5, <3>6 DEF Within
    <3> QED
      BY <3>3, <3>7 DEF cands
  <2> QED
    BY <2>5, <2>6 DEF AdmissionWithinMargin
<1> QED
  BY <1>1, MemInvHolds, PTL

\* The types of the projection's state.
THEOREM MemTypeCorrect == MemSpec => []MemTypeOK
<1>1. MemInv => MemTypeOK
  BY DEF MemInv, MemTypes, MemTypeOK
<1> QED
  BY <1>1, MemInvHolds, PTL

-----------------------------------------------------------------------------
(* The two side by side. *)

\* What runs both calculations, a behaviour one of them, runs each of them as
\* it is specified: _apply_confidence_drop reads nothing of the projection and
\* the projection nothing of the drop.
THEOREM SideBySide == Spec => DropSpec /\ MemSpec
<1>1. Init => DropInit /\ MemInit
  BY DEF Init, DropAtRest, MemAtRest
<1>2. [Next]_vars => [DropNext]_dropVars /\ [MemNext]_memVars
  BY DEF Next, vars, DropStep, MemStep, Returned
<1> QED
  BY <1>1, <1>2, PTL DEF Spec, DropSpec, MemSpec

\* The types of both (DropTypeOK: the indices into confidence_bucket_list stay
\* inside; MemTypeOK: one projection per iteration of iter_list so far).
THEOREM TypeCorrect == Spec => []TypeOK
<1>1. DropTypeOK /\ MemTypeOK => TypeOK
  BY DEF TypeOK
<1> QED
  BY <1>1, SideBySide, DropTypeCorrect, MemTypeCorrect, PTL
=============================================================================
