--------------------------- MODULE KVSlotsProofs ---------------------------
(***************************************************************************)
(* What the slots of the KV cache hold: a step attends over entries that   *)
(* were computed from its own tokens, for all constants of KVBlocks.  The  *)
(* steps in flight have still to write their entries, so the invariant is  *)
(* about the contents of the slots after each of them.                     *)
(***************************************************************************)
EXTENDS KVBlocksProofs

\* The slots when step has written its entries.
Written(kv, step) ==
    [b \in KVBlock |-> [s \in Slot |->
        IF \E k \in Computes(step) : At(step, k) = <<b, s>>
        THEN SubSeq(step.tokens, 1, CHOOSE k \in Computes(step) : At(step, k) = <<b, s>>)
        ELSE kv[b][s]]]

\* blocks have the entries of the first n tokens.
Holds(kv, blocks, tokens, n) ==
    \A i \in 1..n : kv[blocks[cdiv(i, KVBlockSize)]][(i - 1) % KVBlockSize] = SubSeq(tokens, 1, i)

\* The blocks of a step have a place for each of its tokens.
StepFits(step) ==
    /\ Distinct(step.blocks)
    /\ \A i \in 1..Len(step.tokens) : cdiv(i, KVBlockSize) \in 1..Len(step.blocks)

\* The tokens of a step whose request has not been corrected since.
StepFollows(step) ==
    step.live /\ seqs[step.r].status = "RUNNING" =>
        /\ Len(step.tokens) <= seqs[step.r].num_computed_tokens
        /\ step.tokens = SubSeq(seqs[step.r].tokens, 1, Len(step.tokens))

\* The entries of r's tokens that are computed or under way.
RequestHolds(kv, r) ==
    seqs[r].status = "RUNNING" =>
        /\ \A i \in 1..seqs[r].num_computed_tokens :
               cdiv(i, KVBlockSize) \in 1..Len(mgr[r].blocks)
        /\ Holds(kv, mgr[r].blocks, seqs[r].tokens, seqs[r].num_computed_tokens)

\* A block with a hash has the entries of the hash's last tokens.
CacheHolds(kv, hash) ==
    \A b \in KVBlock : hash[b] # NoHash =>
        \A s \in Slot : kv[b][s] = SubSeq(hash[b], 1, Len(hash[b]) - KVBlockSize + s + 1)

\* f[k] are the slots after the k oldest steps in flight.
Future(f) ==
    /\ f[0] = slot_kv
    /\ \A k \in 1..Len(flight) :
           /\ f[k] = Written(f[k - 1], flight[k])
           /\ StepFits(flight[k]) /\ StepFollows(flight[k])
           /\ Holds(f[k], flight[k].blocks, flight[k].tokens, Len(flight[k].tokens))
    /\ \A r \in KVRid : RequestHolds(f[Len(flight)], r)
    /\ CacheHolds(f[Len(flight)], pool.block_hash)

SlotInv == KVInv /\ \E f : Future(f)

-----------------------------------------------------------------------------
(* Places. *)

\* The block and the slot of the i-th token.
LEMMA PlaceOf ==
    ASSUME NEW i \in Nat, i >= 1
    PROVE  /\ cdiv(i, KVBlockSize) \in Nat /\ cdiv(i, KVBlockSize) >= 1
           /\ (i - 1) % KVBlockSize \in Slot
           /\ i = (cdiv(i, KVBlockSize) - 1) * KVBlockSize + ((i - 1) % KVBlockSize) + 1
<1> DEFINE n == KVBlockSize
           q == (i - 1) \div n
           m == (i - 1) % n
           c == cdiv(i, n)
<1>1. n \in Nat \ {0} /\ i - 1 \in Nat
  BY KVAssumption
<1>2. q \in Nat /\ q * n <= i - 1 /\ i - 1 < q * n + n
  BY <1>1, Division
<1>3. m \in 0..(n - 1) /\ i - 1 = n * q + m
  BY <1>1
<1> HIDE DEF q, m
<1>4. c \in Nat /\ c * n <= i - 1 + n /\ i - 1 + n < c * n + n
  <2>1. i - 1 + n \in Nat /\ i - 1 + n = i + n - 1
    BY <1>1
  <2>2. c = (i - 1 + n) \div n
    BY <2>1 DEF cdiv
  <2> QED
    BY <1>1, <2>1, <2>2, Division
<1> HIDE DEF c
<1>5. (q + 1) * n = q * n + n
  BY <1>1, <1>2
<1>6. c = q + 1
  <2>1. q * n \in Nat /\ c * n \in Nat
    BY <1>1, <1>2, <1>4
  <2>2. ASSUME c <= q PROVE FALSE
    <3>1. c * n <= q * n
      BY <1>1, <1>2, <1>4, <2>2, TimesMonotone
    <3> QED
      BY <1>1, <1>2, <1>4, <2>1, <3>1
  <2>3. ASSUME c >= q + 2 PROVE FALSE
    <3>1. (q + 2) * n <= c * n
      BY <1>1, <1>2, <1>4, <2>3, TimesMonotone
    <3>2. (q + 2) * n = q * n + n + n
      BY <1>1, <1>2
    <3> QED
      BY <1>1, <1>2, <1>4, <2>1, <3>1, <3>2
  <2> QED
    BY <1>2, <1>4, <2>2, <2>3
<1>7. n * q = q * n /\ (c - 1) * n = q * n /\ q * n \in Nat
  BY <1>1, <1>2, <1>6
<1>8. i = (c - 1) * n + m + 1
  <2> DEFINE p == q * n
             t == (c - 1) * n
             u == n * q
  <2>1. p \in Nat /\ t = p /\ u = p /\ i - 1 = u + m /\ m \in Nat /\ i \in Nat
    BY <1>1, <1>3, <1>7
  <2> HIDE DEF p, t, u
  <2>2. i = t + m + 1
    BY <2>1
  <2> QED
    BY <2>2 DEF t
<1> QED
  BY <1>2, <1>3, <1>4, <1>6, <1>8 DEF m, c, Slot

\* The token at a place.
LEMMA PlaceIs ==
    ASSUME NEW k \in Nat, k >= 1, NEW s \in Slot, NEW i, i = (k - 1) * KVBlockSize + s + 1
    PROVE  /\ i \in Nat /\ i >= 1 /\ i <= k * KVBlockSize
           /\ cdiv(i, KVBlockSize) = k /\ (i - 1) % KVBlockSize = s
<1> DEFINE n == KVBlockSize
           d == (k - 1) * n
           c == cdiv(i, n)
           m == (i - 1) % n
<1>1. n \in Nat \ {0} /\ s \in 0..(n - 1) /\ k - 1 \in Nat
  BY KVAssumption DEF Slot
<1>2. d \in Nat /\ k * n = d + n
  BY <1>1
<1>3. i \in Nat /\ i >= 1 /\ i <= k * n
  <2> HIDE DEF d
  <2>1. i = d + s + 1
    BY DEF d
  <2> DEFINE e == k * n
  <2>2. e = d + n
    BY <1>2
  <2> HIDE DEF e
  <2>3. i \in Nat /\ i >= 1 /\ i <= e
    BY <1>1, <1>2, <2>1, <2>2
  <2> QED
    BY <2>3 DEF e
<1>4. c \in Nat /\ c >= 1 /\ m \in Slot /\ i = (c - 1) * n + m + 1
  BY <1>3, PlaceOf
<1> HIDE DEF c, m
<1>5. (c - 1) * n \in Nat /\ c - 1 \in Nat /\ m \in 0..(n - 1)
  BY <1>1, <1>4 DEF Slot
<1>6. c = k
  <2>1. ASSUME c - 1 < k - 1 PROVE FALSE
    <3>1. (c - 1 + 1) * n <= (k - 1) * n
      BY <1>1, <1>5, <2>1, TimesMonotone
    <3>2. (c - 1 + 1) * n = (c - 1) * n + n
      BY <1>1, <1>5
    <3> HIDE DEF d
    <3>3. (c - 1) * n + n <= d /\ i = d + s + 1
      BY <3>1, <3>2 DEF d
    <3> DEFINE e == (c - 1) * n
    <3>4. e \in Nat /\ e + n <= d /\ i = e + m + 1
      BY <1>4, <1>5, <3>3
    <3> HIDE DEF e
    <3> QED
      BY <1>1, <1>2, <1>5, <3>3, <3>4
  <2>2. ASSUME k - 1 < c - 1 PROVE FALSE
    <3>1. (k - 1 + 1) * n <= (c - 1) * n
      BY <1>1, <1>5, <2>2, TimesMonotone
    <3>2. (k - 1 + 1) * n = (k - 1) * n + n
      BY <1>1
    <3> HIDE DEF d
    <3>3. d + n <= (c - 1) * n /\ i = d + s + 1
      BY <3>1, <3>2 DEF d
    <3> DEFINE e == (c - 1) * n
    <3>4. e \in Nat /\ d + n <= e /\ i = e + m + 1
      BY <1>4, <1>5, <3>3
    <3> HIDE DEF e
    <3> QED
      BY <1>1, <1>2, <1>5, <3>3, <3>4
  <2> QED
    BY <1>4, <2>1, <2>2
<1>7. m = s
  <2>1. i = d + m + 1 /\ i = d + s + 1
    BY <1>4, <1>6
  <2> HIDE DEF d
  <2> QED
    BY <1>1, <1>2, <1>5, <2>1
<1> QED
  BY <1>3, <1>6, <1>7 DEF c, m

\* The first i of the first n tokens.
LEMMA PrefixOfPrefix ==
    ASSUME NEW S, NEW tokens \in Seq(S), NEW n \in 0..Len(tokens), NEW i \in 0..n
    PROVE  /\ SubSeq(tokens, 1, n) \in Seq(S) /\ Len(SubSeq(tokens, 1, n)) = n
           /\ SubSeq(SubSeq(tokens, 1, n), 1, i) = SubSeq(tokens, 1, i)
<1> DEFINE h == SubSeq(tokens, 1, n)
           a == SubSeq(h, 1, i)
           b == SubSeq(tokens, 1, i)
<1>1. n \in Nat /\ i \in Nat /\ i <= n /\ \A k \in 1..n : tokens[k] \in S
  OBVIOUS
<1>2. h \in Seq(S) /\ Len(h) = (IF 1 <= n THEN n - 1 + 1 ELSE 0)
      /\ \A k \in 1..(n - 1 + 1) : h[k] = tokens[1 + k - 1]
  BY <1>1, SubSeqProperties
<1> HIDE DEF h
<1>3. Len(h) = n /\ \A k \in 1..n : h[k] = tokens[k]
  BY <1>1, <1>2
<1>4. a \in Seq(S) /\ Len(a) = (IF 1 <= i THEN i - 1 + 1 ELSE 0)
      /\ \A k \in 1..(i - 1 + 1) : a[k] = h[1 + k - 1]
  <2>1. \A k \in 1..i : h[k] \in S
    BY <1>1, <1>3
  <2> QED
    BY <1>1, <2>1, SubSeqProperties
<1>5. b \in Seq(S) /\ Len(b) = (IF 1 <= i THEN i - 1 + 1 ELSE 0)
      /\ \A k \in 1..(i - 1 + 1) : b[k] = tokens[1 + k - 1]
  <2>1. \A k \in 1..i : tokens[k] \in S
    BY <1>1
  <2> QED
    BY <1>1, <2>1, SubSeqProperties
<1> HIDE DEF a, b
<1>6. Len(a) = i /\ Len(b) = i /\ \A k \in 1..i : a[k] = b[k]
  BY <1>1, <1>3, <1>4, <1>5
<1>7. a = b
  BY <1>1, <1>4, <1>5, <1>6
<1> QED
  BY <1>2, <1>3, <1>7 DEF a, b, h

-----------------------------------------------------------------------------
(* Writing. *)

\* Each token has a place of its own.
LEMMA OnePlaceEach ==
    ASSUME NEW blocks, Distinct(blocks), NEW n \in Nat,
           \A i \in 1..n : cdiv(i, KVBlockSize) \in 1..Len(blocks),
           NEW i \in 1..n, NEW j \in 1..n,
           blocks[cdiv(i, KVBlockSize)] = blocks[cdiv(j, KVBlockSize)],
           (i - 1) % KVBlockSize = (j - 1) % KVBlockSize
    PROVE  i = j
<1>1. cdiv(i, KVBlockSize) = cdiv(j, KVBlockSize)
  BY DEF Distinct
<1>2. /\ i = (cdiv(i, KVBlockSize) - 1) * KVBlockSize + ((i - 1) % KVBlockSize) + 1
      /\ j = (cdiv(j, KVBlockSize) - 1) * KVBlockSize + ((j - 1) % KVBlockSize) + 1
  <2>1. i \in Nat /\ i >= 1 /\ j \in Nat /\ j >= 1
    OBVIOUS
  <2> QED
    BY <2>1, PlaceOf
<1> QED
  BY <1>1, <1>2

\* What step writes, and what it leaves alone.
LEMMA WrittenAt ==
    ASSUME NEW kv, NEW step \in StepType, StepFits(step)
    PROVE  LET w == Written(kv, step)
           IN  /\ \A i \in 1..Len(step.tokens) :
                      w[step.blocks[cdiv(i, KVBlockSize)]][(i - 1) % KVBlockSize] =
                          IF i > step.from THEN SubSeq(step.tokens, 1, i)
                          ELSE kv[step.blocks[cdiv(i, KVBlockSize)]][(i - 1) % KVBlockSize]
               /\ \A b \in KVBlock : \A s \in Slot :
                      (\A i \in Computes(step) : step.blocks[cdiv(i, KVBlockSize)] # b) =>
                          w[b][s] = kv[b][s]
<1> DEFINE w == Written(kv, step)
           n == Len(step.tokens)
           blocks == step.blocks
           from == step.from
           blk(i) == blocks[cdiv(i, KVBlockSize)]
           slt(i) == (i - 1) % KVBlockSize
<1>1. blocks \in Seq(KVBlock) /\ n \in Nat /\ from \in Nat
  BY DEF StepType, KVHash
<1>2. \A b \in KVBlock : \A s \in Slot :
          w[b][s] = IF \E i \in Computes(step) : At(step, i) = <<b, s>>
                    THEN SubSeq(step.tokens, 1, CHOOSE i \in Computes(step) : At(step, i) = <<b, s>>)
                    ELSE kv[b][s]
  BY DEF Written
<1>3. \A i : At(step, i) = <<blk(i), slt(i)>>
  BY DEF At
<1>4. \A i : i \in Computes(step) <=> i \in (from + 1)..n
  BY DEF Computes
<1>5. \A i \in Computes(step) : i \in 1..n /\ i > from
  BY <1>1, <1>4
<1> HIDE DEF w
<1>6. \A i, j \in 1..n : blk(i) = blk(j) /\ slt(i) = slt(j) => i = j
  BY <1>1, OnePlaceEach DEF StepFits
<1>7. ASSUME NEW i \in 1..n PROVE blk(i) \in KVBlock /\ slt(i) \in Slot
  <2>1. cdiv(i, KVBlockSize) \in 1..Len(blocks)
    BY DEF StepFits
  <2>2. i \in Nat /\ i >= 1
    BY <1>1
  <2>3. blk(i) \in KVBlock
    <3> DEFINE c == cdiv(i, KVBlockSize)
    <3> HIDE DEF blocks
    <3>1. c \in 1..Len(blocks)
      BY <2>1
    <3> HIDE DEF c
    <3>2. blocks[c] \in KVBlock
      BY <1>1, <3>1
    <3> QED
      BY <3>2 DEF c
  <2>4. slt(i) \in Slot
    BY <2>2, PlaceOf
  <2> QED
    BY <2>3, <2>4
<1> HIDE DEF n, blocks, from, blk, slt
<1>8. ASSUME NEW i \in 1..n
      PROVE  w[blk(i)][slt(i)] = IF i > from THEN SubSeq(step.tokens, 1, i) ELSE kv[blk(i)][slt(i)]
  <2> DEFINE p == <<blk(i), slt(i)>>
  <2>1. blk(i) \in KVBlock /\ slt(i) \in Slot
    BY <1>7
  <2>2. \A j \in Computes(step) : At(step, j) = p => j = i
    BY <1>3, <1>5, <1>6
  <2>3. CASE i > from
    <3>1. i \in Computes(step) /\ At(step, i) = p
      BY <1>1, <1>3, <1>4, <2>3
    <3>2. (CHOOSE j \in Computes(step) : At(step, j) = p) = i
      BY <2>2, <3>1
    <3>3. w[blk(i)][slt(i)] = SubSeq(step.tokens, 1, CHOOSE j \in Computes(step) : At(step, j) = p)
      BY <1>2, <2>1, <3>1
    <3> QED
      BY <2>3, <3>2, <3>3
  <2>4. CASE ~(i > from)
    <3>1. ~\E j \in Computes(step) : At(step, j) = p
      BY <1>5, <2>2, <2>4
    <3> QED
      BY <1>2, <2>1, <2>4, <3>1
  <2> QED
    BY <2>3, <2>4
<1>9. ASSUME NEW b \in KVBlock, NEW s \in Slot, \A i \in Computes(step) : blk(i) # b
      PROVE  w[b][s] = kv[b][s]
  <2>1. ~\E i \in Computes(step) : At(step, i) = <<b, s>>
    BY <1>3, <1>9
  <2> QED
    BY <1>2, <2>1
<1> QED
  BY <1>8, <1>9 DEF w, n, blocks, from, blk, slt

\* A step adds its tokens to those that its blocks hold.
LEMMA StepHolds ==
    ASSUME NEW kv, NEW step \in StepType, StepFits(step), NEW tokens \in KVHash,
           NEW n \in 0..Len(tokens), step.tokens = SubSeq(tokens, 1, n),
           Holds(kv, step.blocks, tokens, step.from)
    PROVE  LET w == Written(kv, step)
           IN  Holds(w, step.blocks, tokens, n) /\ Holds(w, step.blocks, step.tokens, n)
<1> DEFINE w == Written(kv, step)
           blk(i) == step.blocks[cdiv(i, KVBlockSize)]
           slt(i) == (i - 1) % KVBlockSize
<1>1. n \in Nat /\ step.from \in Nat /\ tokens \in Seq(KVTok)
  BY DEF StepType, KVHash
<1>2. Len(step.tokens) = n
  BY <1>1, PrefixOfPrefix
<1>3. \A i \in 1..n : w[blk(i)][slt(i)] = IF i > step.from THEN SubSeq(step.tokens, 1, i)
                                          ELSE kv[blk(i)][slt(i)]
  BY <1>2, WrittenAt
<1>4. \A i \in 1..step.from : kv[blk(i)][slt(i)] = SubSeq(tokens, 1, i)
  BY DEF Holds
<1> HIDE DEF w, blk, slt
<1>5. ASSUME NEW i \in 1..n
      PROVE  w[blk(i)][slt(i)] = SubSeq(tokens, 1, i) /\ SubSeq(step.tokens, 1, i) = SubSeq(tokens, 1, i)
  <2>1. SubSeq(step.tokens, 1, i) = SubSeq(tokens, 1, i)
    <3>1. i \in 0..n
      BY <1>1
    <3> QED
      BY <1>1, <3>1, PrefixOfPrefix
  <2>2. CASE i > step.from
    BY <1>3, <2>1, <2>2
  <2>3. CASE ~(i > step.from)
    <3>1. i \in 1..step.from
      BY <1>1, <2>3
    <3> QED
      BY <1>3, <1>4, <2>1, <2>3, <3>1
  <2> QED
    BY <2>2, <2>3
<1> QED
  BY <1>5 DEF Holds, w, blk, slt

-----------------------------------------------------------------------------
(* Steps that neither send nor end anything. *)

LEMMA QuietKeeps ==
    ASSUME NEW f, Future(f), KVInv, slot_kv' = slot_kv, flight' = flight,
           \A x \in KVRid : seqs'[x].status = "RUNNING" =>
               seqs'[x] = seqs[x] /\ mgr'[x].blocks = mgr[x].blocks,
           \A b \in KVBlock : pool'.block_hash[b] \in {pool.block_hash[b], NoHash}
    PROVE  Future(f)'
<1>1. flight \in Seq(StepType) /\ Len(flight) \in Nat
  BY DEF KVInv, KVTypes, StepType
<1>2. f[0] = slot_kv'
  BY DEF Future
<1>3. ASSUME NEW k \in 1..Len(flight)
      PROVE  /\ f[k] = Written(f[k - 1], flight'[k])
             /\ StepFits(flight'[k]) /\ StepFollows(flight[k])'
             /\ Holds(f[k], flight'[k].blocks, flight'[k].tokens, Len(flight'[k].tokens))
  <2>1. /\ f[k] = Written(f[k - 1], flight[k]) /\ StepFits(flight[k]) /\ StepFollows(flight[k])
        /\ Holds(f[k], flight[k].blocks, flight[k].tokens, Len(flight[k].tokens))
    BY DEF Future
  <2>2. flight[k].r \in KVRid
    <3>1. flight[k] \in StepType
      BY <1>1
    <3> QED
      BY <3>1 DEF StepType
  <2>3. StepFollows(flight[k])'
    BY <2>1, <2>2 DEF StepFollows
  <2> QED
    BY <2>1, <2>3
<1>4. ASSUME NEW x \in KVRid PROVE RequestHolds(f[Len(flight)], x)'
  BY DEF Future, RequestHolds
<1>5. CacheHolds(f[Len(flight)], pool'.block_hash)
  BY DEF Future, CacheHolds
<1> QED
  BY <1>2, <1>3, <1>4, <1>5 DEF Future

LEMMA PreemptSlots ==
    ASSUME NEW f, Future(f), KVInv, NEW r \in KVRid, NEW p \in KVRid, Preempt(r, p)
    PROVE  Future(f)'
<1>1. KVTypes /\ mgr[p] \in [blocks : Seq(KVBlock), hashes : Seq(KVHash), num_cached : Int]
  BY DEF KVInv, KVTypes
<1>2. Released(p, mgr[p].hashes)
  <2> DEFINE m == [mgr[p] EXCEPT !.blocks = <<>>, !.num_cached = -1]
  <2>1. mgr' = [mgr EXCEPT ![p] = m]
    BY <1>1 DEF Preempt, free, KVTypes
  <2>2. m = [blocks |-> <<>>, hashes |-> mgr[p].hashes, num_cached |-> -1]
    <3>1. m \in [blocks : {<<>>}, hashes : {mgr[p].hashes}, num_cached : {-1}]
      BY <1>1
    <3> HIDE DEF m
    <3> QED
      BY <3>1
  <2> QED
    BY <2>1, <2>2 DEF Preempt, free, Released
<1>3. ReleasedWell(p, mgr[p].hashes)
  BY <1>1, <1>2, ReleaseKeeps
<1>4. seqs'[p].status # "RUNNING" /\ \A x \in KVRid : x # p => seqs'[x] = seqs[x]
  BY <1>1 DEF Preempt, KVTypes, SeqType
<1>5. slot_kv' = slot_kv /\ flight' = flight
  BY DEF Preempt
<1>6. \A x \in KVRid : seqs'[x].status = "RUNNING" =>
          seqs'[x] = seqs[x] /\ mgr'[x].blocks = mgr[x].blocks
  BY <1>3, <1>4 DEF ReleasedWell
<1>7. pool'.block_hash = pool.block_hash
  BY <1>3 DEF ReleasedWell
<1> QED
  BY <1>5, <1>6, <1>7, QuietKeeps

LEMMA FinishSlots ==
    ASSUME NEW f, Future(f), KVInv, NEW p \in KVRid, Finish(p)
    PROVE  Future(f)'
<1>1. KVTypes
  BY DEF KVInv
<1>2. ReleasedWell(p, <<>>)
  <2>1. Released(p, <<>>) /\ <<>> \in Seq(KVHash)
    BY DEF Finish, Released
  <2> QED
    BY <2>1, ReleaseKeeps
<1>3. seqs'[p].status # "RUNNING" /\ \A x \in KVRid : x # p => seqs'[x] = seqs[x]
  BY <1>1 DEF Finish, KVTypes, SeqType
<1>4. slot_kv' = slot_kv /\ flight' = flight
  BY DEF Finish
<1>5. \A x \in KVRid : seqs'[x].status = "RUNNING" =>
          seqs'[x] = seqs[x] /\ mgr'[x].blocks = mgr[x].blocks
  BY <1>2, <1>3 DEF ReleasedWell
<1>6. pool'.block_hash = pool.block_hash
  BY <1>2 DEF ReleasedWell
<1> QED
  BY <1>4, <1>5, <1>6, QuietKeeps

LEMMA RequeueSlots ==
    ASSUME NEW f, Future(f), KVInv, NEW r \in KVRid, Requeue(r)
    PROVE  Future(f)'
<1>1. seqs'[r].status # "RUNNING" /\ \A x \in KVRid : x # r => seqs'[x] = seqs[x]
  BY DEF Requeue, KVInv, KVTypes, SeqType
<1>2. slot_kv' = slot_kv /\ flight' = flight /\ mgr' = mgr /\ pool' = pool
  BY DEF Requeue
<1>3. \A x \in KVRid : seqs'[x].status = "RUNNING" =>
          seqs'[x] = seqs[x] /\ mgr'[x].blocks = mgr[x].blocks
  BY <1>1, <1>2
<1> QED
  BY <1>2, <1>3, QuietKeeps

LEMMA ResetSlots ==
    ASSUME NEW f, Future(f), KVInv, reset_prefix_cache
    PROVE  Future(f)'
<1>1. slot_kv' = slot_kv /\ flight' = flight /\ mgr' = mgr /\ seqs' = seqs
  BY DEF reset_prefix_cache
<1>2. \A b \in KVBlock : pool'.block_hash[b] = NoHash
  <2>1. PoolType(pool)
    BY DEF KVInv, Pool
  <2> QED
    BY <2>1 DEF reset_prefix_cache, PoolType
<1> QED
  BY <1>1, <1>2, QuietKeeps

LEMMA NoRoomSlots ==
    ASSUME NEW f, Future(f), KVInv, NEW r \in KVRid,
           mgr' = [mgr EXCEPT ![r].hashes = block_hashes(r)],
           UNCHANGED <<spexis, pool, seqs, flight, slot_kv, evictions>>
    PROVE  Future(f)'
<1>1. \A x \in KVRid : mgr'[x].blocks = mgr[x].blocks
  BY DEF KVInv, KVTypes
<1> QED
  BY <1>1, QuietKeeps

-----------------------------------------------------------------------------
(* The end of a step. *)

\* One step as it was, perhaps for tokens that have been corrected.
SameStep(a, b) ==
    a.r = b.r /\ a.blocks = b.blocks /\ a.from = b.from /\ a.tokens = b.tokens /\ (a.live => b.live)

\* The request of the step that ends keeps its tokens, perhaps with one more, or
\* the tokens after the step are replaced and its other steps are not live.
EndsTokens(step) ==
    \/ /\ seqs'[step.r].num_computed_tokens = seqs[step.r].num_computed_tokens
       /\ \/ seqs'[step.r].tokens = seqs[step.r].tokens
          \/ \E t \in KVTok : seqs'[step.r].tokens = Append(seqs[step.r].tokens, t)
    \/ /\ step.live /\ seqs'[step.r].num_computed_tokens = Len(step.tokens)
       /\ \E t \in KVTok : seqs'[step.r].tokens = Append(step.tokens, t)
       /\ \A k \in 1..Len(flight') : flight'[k].live => flight'[k].r # step.r

LEMMA EndEffect ==
    ASSUME KVInv, Len(flight) > 0, EndStep(1)
    PROVE  /\ slot_kv' = Written(slot_kv, flight[1])
           /\ mgr' = mgr /\ pool' = pool
           /\ \A x \in KVRid : x # flight[1].r => seqs'[x] = seqs[x]
           /\ seqs'[flight[1].r].status \in {seqs[flight[1].r].status, "STOPPED"}
           /\ EndsTokens(flight[1])
           /\ Len(flight') = Len(flight) - 1
           /\ \A k \in 1..(Len(flight) - 1) : SameStep(flight'[k], flight[k + 1])
<1> DEFINE step == flight[1]
           r == step.r
           n == Len(step.tokens)
           q == seqs[r]
           later == RemoveAt(flight, 1)
<1>1. KVTypes /\ flight \in Seq(StepType) /\ seqs \in [KVRid -> SeqType]
  BY DEF KVInv, KVTypes, StepType
<1>2. step \in StepType /\ r \in KVRid /\ Len(flight) \in Nat
  <2>1. 1 \in 1..Len(flight) /\ step \in StepType
    BY <1>1
  <2> QED
    BY <1>1, <2>1 DEF StepType
<1>3. /\ later \in Seq(StepType) /\ Len(later) = Len(flight) - 1
      /\ \A k \in 1..(Len(flight) - 1) : later[k] = flight[k + 1]
  BY <1>1, WithoutFirst
<1>4. EndsWell(r) /\ OneLess
  BY EndKeeps
<1>5. KVToken \subseteq KVTok
  BY DEF KVTok
<1>6. slot_kv' = Written(slot_kv, step) /\ mgr' = mgr /\ pool' = pool
  BY DEF EndStep, Written
<1> HIDE DEF later
<1>7. \/ UNCHANGED seqs /\ flight' = later
      \/ \E status \in {q.status, "STOPPED"}, t \in KVToken :
            \/ /\ ~spexis /\ n = Len(q.tokens) /\ n < KVMaxLen
               /\ Verified(r, Append(q.tokens, t), q.num_computed_tokens, status)
               /\ flight' = later
            \/ /\ Verified(r, q.tokens, q.num_computed_tokens, status)
               /\ flight' \in {later, Stale(later, r)}
            \/ /\ spexis /\ step.live /\ n \in q.num_prompt_tokens..(Len(q.tokens) - 1)
               /\ Verified(r, Append(step.tokens, t), n, status)
               /\ flight' = Stale(later, r)
  BY EndCases DEF later
<1>8. DOMAIN later = 1..(Len(flight) - 1) /\ Len(flight') = Len(flight) - 1
  BY <1>2, <1>3, <1>4 DEF OneLess
<1>9. ASSUME flight' \in {later, Stale(later, r)}, NEW k \in 1..(Len(flight) - 1)
      PROVE  /\ SameStep(flight'[k], flight[k + 1])
             /\ flight' = Stale(later, r) => (flight'[k].live => flight'[k].r # r)
  <2>1. later[k] \in StepType /\ later[k] = flight[k + 1]
    BY <1>3, <1>8
  <2>2. CASE flight' = later /\ flight' # Stale(later, r)
    BY <2>1, <2>2 DEF SameStep
  <2>3. CASE flight' = Stale(later, r)
    <3>1. flight'[k] = [later[k] EXCEPT !.live = @ /\ later[k].r # r]
      BY <1>8, <2>3 DEF Stale
    <3> QED
      BY <2>1, <3>1 DEF StepType, SameStep
  <2> QED
    BY <1>9, <2>2, <2>3
<1>10. q \in SeqType /\ q.tokens \in KVHash /\ q.num_computed_tokens \in Nat
       /\ step.tokens \in KVHash /\ n \in Nat
  BY <1>1, <1>2 DEF SeqType, StepType, KVHash
<1>11. ASSUME NEW tokens \in KVHash, NEW computed \in Nat, NEW status \in {q.status, "STOPPED"},
              Verified(r, tokens, computed, status)
       PROVE  seqs'[r].tokens = tokens /\ seqs'[r].num_computed_tokens = computed
  BY <1>1, <1>2, <1>11, VerifiedRequest
<1>12. CASE UNCHANGED seqs /\ flight' = later
  <2>1. EndsTokens(step)
    BY <1>12 DEF EndsTokens
  <2> QED
    BY <1>4, <1>6, <1>8, <1>9, <1>12, <2>1 DEF EndsWell
<1>13. ASSUME NEW status \in {q.status, "STOPPED"}, NEW t \in KVToken, flight' = later,
              Verified(r, Append(q.tokens, t), q.num_computed_tokens, status)
       PROVE  EndsTokens(step)
  <2>1. Append(q.tokens, t) \in KVHash /\ t \in KVTok
    BY <1>5, <1>10 DEF KVHash
  <2>2. /\ seqs'[r].num_computed_tokens = seqs[r].num_computed_tokens
        /\ seqs'[r].tokens = Append(seqs[r].tokens, t)
    <3>1. q.num_computed_tokens \in Nat
      BY <1>10
    <3> QED
      BY <1>13, <1>11, <2>1, <3>1
  <2> HIDE DEF step
  <2> QED
    BY <2>1, <2>2 DEF EndsTokens
<1>14. ASSUME NEW status \in {q.status, "STOPPED"},
              Verified(r, q.tokens, q.num_computed_tokens, status)
       PROVE  EndsTokens(step)
  <2>1. /\ seqs'[r].num_computed_tokens = seqs[r].num_computed_tokens
        /\ seqs'[r].tokens = seqs[r].tokens
    BY <1>10, <1>14, <1>11
  <2> QED
    BY <2>1 DEF EndsTokens
<1>15. ASSUME NEW status \in {q.status, "STOPPED"}, NEW t \in KVToken, step.live,
              Verified(r, Append(step.tokens, t), n, status), flight' = Stale(later, r)
       PROVE  EndsTokens(step)
  <2>1. Append(step.tokens, t) \in KVHash /\ t \in KVTok
    BY <1>5, <1>10 DEF KVHash
  <2>2. seqs'[r].num_computed_tokens = n /\ seqs'[r].tokens = Append(step.tokens, t)
    <3>1. n \in Nat
      BY <1>10
    <3> QED
      BY <1>15, <1>11, <2>1, <3>1
  <2>3. \A k \in 1..Len(flight') : flight'[k].live => flight'[k].r # r
    BY <1>8, <1>9, <1>15
  <2> HIDE DEF step
  <2> QED
    BY <1>15, <2>1, <2>2, <2>3 DEF EndsTokens
<1>16. CASE \E status \in {q.status, "STOPPED"}, t \in KVToken :
               \/ /\ ~spexis /\ n = Len(q.tokens) /\ n < KVMaxLen
                  /\ Verified(r, Append(q.tokens, t), q.num_computed_tokens, status)
                  /\ flight' = later
               \/ /\ Verified(r, q.tokens, q.num_computed_tokens, status)
                  /\ flight' \in {later, Stale(later, r)}
               \/ /\ spexis /\ step.live /\ n \in q.num_prompt_tokens..(Len(q.tokens) - 1)
                  /\ Verified(r, Append(step.tokens, t), n, status)
                  /\ flight' = Stale(later, r)
  <2>1. EndsTokens(step) /\ flight' \in {later, Stale(later, r)}
    BY <1>13, <1>14, <1>15, <1>16, Zenon
  <2> QED
    BY <1>4, <1>6, <1>8, <1>9, <2>1 DEF EndsWell
<1> QED
  BY <1>7, <1>12, <1>16, Zenon

\* A token more.
LEMMA AppendHolds ==
    ASSUME NEW kv, NEW blocks, NEW tokens \in KVHash, NEW t \in KVTok, NEW n \in 0..Len(tokens),
           Holds(kv, blocks, tokens, n)
    PROVE  Holds(kv, blocks, Append(tokens, t), n)
<1>1. n \in Nat /\ Len(tokens) \in Nat
  BY DEF KVHash
<1>2. ASSUME NEW i \in 1..n
      PROVE  kv[blocks[cdiv(i, KVBlockSize)]][(i - 1) % KVBlockSize] = SubSeq(Append(tokens, t), 1, i)
  <2>1. i \in 0..Len(tokens)
    BY <1>1
  <2>2. SubSeq(Append(tokens, t), 1, i) = SubSeq(tokens, 1, i)
    BY <2>1, PrefixStays
  <2> QED
    BY <2>2 DEF Holds
<1> QED
  BY <1>2 DEF Holds

\* Some tokens less.
LEMMA PrefixHolds ==
    ASSUME NEW kv, NEW blocks, NEW tokens \in KVHash, NEW m \in 0..Len(tokens), NEW n \in 0..m,
           Holds(kv, blocks, tokens, m)
    PROVE  Holds(kv, blocks, SubSeq(tokens, 1, n), n)
<1>1. n \in Nat /\ m \in Nat /\ Len(tokens) \in Nat /\ tokens \in Seq(KVTok)
  BY DEF KVHash
<1>2. ASSUME NEW i \in 1..n
      PROVE  kv[blocks[cdiv(i, KVBlockSize)]][(i - 1) % KVBlockSize] = SubSeq(SubSeq(tokens, 1, n), 1, i)
  <2>1. i \in 0..n /\ i \in 1..m /\ n \in 0..Len(tokens)
    BY <1>1
  <2>2. SubSeq(SubSeq(tokens, 1, n), 1, i) = SubSeq(tokens, 1, i)
    BY <1>1, <2>1, PrefixOfPrefix
  <2> QED
    BY <2>1, <2>2 DEF Holds
<1> QED
  BY <1>2 DEF Holds

LEMMA SameStepWrites ==
    ASSUME NEW a, NEW b, SameStep(a, b), NEW kv
    PROVE  Written(kv, a) = Written(kv, b) /\ (StepFits(b) => StepFits(a))
<1>1. Computes(a) = Computes(b) /\ a.tokens = b.tokens /\ \A k : At(a, k) = At(b, k)
  BY DEF SameStep, Computes, At
<1>2. Written(kv, a) = Written(kv, b)
  BY <1>1 DEF Written
<1> QED
  BY <1>2 DEF StepFits, SameStep

\* The tokens of r after the end of the first step.
LEMMA EndHolds ==
    ASSUME NEW f, Future(f), KVInv, Len(flight) > 0, EndStep(1),
           NEW r, r = flight[1].r, NEW kv, kv = f[Len(flight)]
    PROVE  RequestHolds(kv, r)'
<1> DEFINE step == flight[1]
           n == Len(step.tokens)
           done == seqs[r].num_computed_tokens
           tokens == seqs[r].tokens
<1>1. flight \in Seq(StepType) /\ seqs \in [KVRid -> SeqType] /\ KVTypes
  BY DEF KVInv, KVTypes, StepType
<1>2. 1 \in 1..Len(flight) /\ step \in StepType /\ Len(flight) \in Nat
  <2>1. 1 \in 1..Len(flight)
    BY <1>1
  <2> QED
    BY <1>1, <2>1
<1>3. r = step.r /\ r \in KVRid /\ step.tokens \in KVHash /\ n \in Nat
  BY <1>2 DEF StepType, KVHash
<1>4. tokens \in KVHash /\ Len(tokens) \in Nat /\ done \in Nat /\ done <= Len(tokens)
  BY <1>1, <1>3 DEF KVInv, RequestOK, SeqType, KVHash
<1>5. /\ mgr' = mgr /\ seqs'[r].status \in {seqs[r].status, "STOPPED"} /\ EndsTokens(step)
  BY EndEffect
<1>6. RequestHolds(kv, r) /\ StepFollows(step)
  BY <1>2, <1>3 DEF Future
<1> HIDE DEF step
<1>7. SUFFICES ASSUME seqs[r].status = "RUNNING"
               PROVE  /\ \A i \in 1..seqs'[r].num_computed_tokens :
                             cdiv(i, KVBlockSize) \in 1..Len(mgr[r].blocks)
                      /\ Holds(kv, mgr[r].blocks, seqs'[r].tokens, seqs'[r].num_computed_tokens)
  BY <1>5 DEF RequestHolds, Holds, step
<1>8. /\ \A i \in 1..done : cdiv(i, KVBlockSize) \in 1..Len(mgr[r].blocks)
      /\ Holds(kv, mgr[r].blocks, tokens, done)
  BY <1>6, <1>7 DEF RequestHolds
<1>9. CASE /\ seqs'[r].num_computed_tokens = done
           /\ \/ seqs'[r].tokens = tokens
              \/ \E t \in KVTok : seqs'[r].tokens = Append(tokens, t)
  <2>1. done \in 0..Len(tokens)
    BY <1>4
  <2> QED
    BY <1>4, <1>8, <1>9, <2>1, AppendHolds
<1>10. CASE /\ step.live /\ seqs'[r].num_computed_tokens = n
            /\ \E t \in KVTok : seqs'[r].tokens = Append(step.tokens, t)
  <2>1. n <= done /\ step.tokens = SubSeq(tokens, 1, n)
    BY <1>3, <1>6, <1>7, <1>10 DEF StepFollows
  <2>2. done \in 0..Len(tokens) /\ n \in 0..done /\ n \in 0..n
    BY <1>3, <1>4, <2>1
  <2>3. Holds(kv, mgr[r].blocks, step.tokens, n)
    BY <1>4, <1>8, <2>1, <2>2, PrefixHolds
  <2>4. PICK t \in KVTok : seqs'[r].tokens = Append(step.tokens, t)
    BY <1>10
  <2>5. n \in 0..Len(step.tokens)
    BY <1>3
  <2>6. Holds(kv, mgr[r].blocks, Append(step.tokens, t), n)
    BY <1>3, <2>3, <2>5, AppendHolds
  <2>7. \A i \in 1..n : i \in 1..done
    BY <1>3, <1>4, <2>1
  <2> QED
    BY <1>8, <1>10, <2>4, <2>6, <2>7
<1> QED
  BY <1>3, <1>5, <1>9, <1>10 DEF EndsTokens

\* The k-th step follows its request also after that.
LEMMA EndFollows ==
    ASSUME NEW f, Future(f), KVInv, Len(flight) > 0, EndStep(1), NEW k \in 1..(Len(flight) - 1)
    PROVE  StepFollows(flight[k])'
<1> DEFINE step == flight[1]
           r == step.r
           old == flight[k + 1]
           new == flight'[k]
           x == old.r
           n == Len(old.tokens)
<1>1. flight \in Seq(StepType) /\ seqs \in [KVRid -> SeqType] /\ Len(flight) \in Nat
  BY DEF KVInv, KVTypes, StepType
<1>2. k + 1 \in 1..Len(flight)
  <2> DEFINE N == Len(flight)
  <2>1. N \in Nat /\ k \in 1..(N - 1)
    BY <1>1
  <2> HIDE DEF N
  <2>2. k + 1 \in 1..N
    BY <2>1
  <2> QED
    BY <2>2 DEF N
<1>3. old \in StepType /\ x \in KVRid /\ old.tokens \in KVHash /\ n \in Nat
  <2>1. old \in StepType
    BY <1>1, <1>2
  <2> HIDE DEF old
  <2> QED
    BY <2>1 DEF StepType, KVHash
<1>4. StepFollows(old)
  BY <1>2 DEF Future
<1>5. /\ SameStep(new, old) /\ EndsTokens(step) /\ Len(flight') = Len(flight) - 1
      /\ \A y \in KVRid : y # r => seqs'[y] = seqs[y]
      /\ seqs'[r].status \in {seqs[r].status, "STOPPED"}
  BY EndEffect
<1>6. new.r = x /\ new.tokens = old.tokens /\ (new.live => old.live)
  BY <1>5 DEF SameStep
<1>7. seqs[x].tokens \in KVHash /\ Len(seqs[x].tokens) \in Nat
      /\ seqs[x].num_computed_tokens \in Nat /\ seqs[x].num_computed_tokens <= Len(seqs[x].tokens)
  BY <1>1, <1>3 DEF KVInv, RequestOK, SeqType, KVHash
<1> HIDE DEF old, new
<1>8. SUFFICES ASSUME new.live, seqs'[x].status = "RUNNING"
               PROVE  /\ n <= seqs'[x].num_computed_tokens
                      /\ old.tokens = SubSeq(seqs'[x].tokens, 1, n)
  BY <1>6 DEF StepFollows, new
<1>9. n <= seqs[x].num_computed_tokens /\ old.tokens = SubSeq(seqs[x].tokens, 1, n)
  BY <1>3, <1>4, <1>5, <1>6, <1>8 DEF StepFollows
<1>10. CASE x # r
  BY <1>3, <1>5, <1>9, <1>10
<1>11. CASE x = r
  <2>1. /\ seqs'[x].num_computed_tokens = seqs[x].num_computed_tokens
        /\ \/ seqs'[x].tokens = seqs[x].tokens
           \/ \E t \in KVTok : seqs'[x].tokens = Append(seqs[x].tokens, t)
    <3>1. new.live /\ new.r = r /\ k \in 1..Len(flight')
      BY <1>5, <1>6, <1>8, <1>11
    <3> QED
      BY <1>5, <1>11, <3>1 DEF EndsTokens, new
  <2>2. n \in 0..Len(seqs[x].tokens)
    BY <1>3, <1>7, <1>9
  <2>3. SubSeq(seqs'[x].tokens, 1, n) = SubSeq(seqs[x].tokens, 1, n)
    BY <1>7, <2>1, <2>2, PrefixStays
  <2> QED
    BY <1>9, <2>1, <2>3
<1> QED
  BY <1>10, <1>11

LEMMA WorkSlots ==
    ASSUME NEW f, Future(f), KVInv, Work
    PROVE  \E g : Future(g)'
<1>0. PICK N, r : N = Len(flight) /\ r = flight[1].r
  OBVIOUS
<1>1. flight \in Seq(StepType) /\ N \in Nat /\ N > 0 /\ EndStep(1)
  <2>1. flight # <<>> /\ EndStep(1)
    BY DEF Work, NextInFlight
  <2>2. flight \in Seq(StepType)
    BY DEF KVInv, KVTypes, StepType
  <2> QED
    BY <1>0, <2>1, <2>2
<1>2. PICK g : g = [k \in 0..(N - 1) |-> f[k + 1]]
  OBVIOUS
<1>3. /\ slot_kv' = Written(slot_kv, flight[1]) /\ mgr' = mgr /\ pool' = pool
      /\ \A x \in KVRid : x # r => seqs'[x] = seqs[x]
      /\ Len(flight') = N - 1
      /\ \A k \in 1..(N - 1) : SameStep(flight'[k], flight[k + 1])
  BY <1>0, <1>1, EndEffect
<1>4. \A k \in 0..(N - 1) : g[k] = f[k + 1]
  BY <1>2
<1>5. g[0] = slot_kv'
  <2>1. 0 \in 0..(N - 1) /\ 1 \in 1..N /\ 0 + 1 = 1 /\ 1 - 1 = 0
    BY <1>1
  <2>2. f[1] = Written(f[0], flight[1]) /\ f[0] = slot_kv
    BY <1>0, <2>1 DEF Future
  <2> QED
    BY <1>3, <1>4, <2>1, <2>2
<1>6. ASSUME NEW k \in 1..(N - 1)
      PROVE  /\ g[k] = Written(g[k - 1], flight'[k])
             /\ StepFits(flight'[k])
             /\ Holds(g[k], flight'[k].blocks, flight'[k].tokens, Len(flight'[k].tokens))
  <2>1. k \in 0..(N - 1) /\ k - 1 \in 0..(N - 1) /\ k + 1 \in 1..N /\ (k + 1) - 1 = k /\ (k - 1) + 1 = k
    BY <1>1
  <2>2. /\ f[k + 1] = Written(f[k], flight[k + 1]) /\ StepFits(flight[k + 1])
        /\ Holds(f[k + 1], flight[k + 1].blocks, flight[k + 1].tokens, Len(flight[k + 1].tokens))
    BY <1>0, <2>1 DEF Future
  <2>3. g[k] = f[k + 1] /\ g[k - 1] = f[k]
    BY <1>4, <2>1
  <2>4. SameStep(flight'[k], flight[k + 1])
    BY <1>3
  <2>5. Written(g[k - 1], flight'[k]) = Written(g[k - 1], flight[k + 1]) /\ StepFits(flight'[k])
    BY <2>2, <2>4, SameStepWrites
  <2> QED
    BY <2>2, <2>3, <2>4, <2>5 DEF SameStep
<1>7. ASSUME NEW k \in 1..(N - 1) PROVE StepFollows(flight[k])'
  BY <1>0, <1>1, EndFollows
<1>8. g[N - 1] = f[N]
  <2>1. N - 1 \in 0..(N - 1) /\ (N - 1) + 1 = N
    BY <1>1
  <2> QED
    BY <1>4, <2>1
<1>9. ASSUME NEW x \in KVRid PROVE RequestHolds(g[N - 1], x)'
  <2>1. CASE x = r
    <3>1. PICK kv : kv = f[N]
      OBVIOUS
    <3>2. RequestHolds(kv, r)'
      BY <1>0, <1>1, <3>1, EndHolds
    <3> QED
      BY <1>8, <2>1, <3>1, <3>2
  <2>2. CASE x # r
    <3>1. RequestHolds(f[N], x)
      BY <1>0 DEF Future
    <3> QED
      BY <1>3, <1>8, <2>2, <3>1 DEF RequestHolds, Holds
  <2> QED
    BY <2>1, <2>2
<1>10. CacheHolds(g[N - 1], pool'.block_hash)
  BY <1>0, <1>3, <1>8 DEF Future
<1>11. Future(g)'
  BY <1>3, <1>5, <1>6, <1>7, <1>9, <1>10 DEF Future
<1> QED
  BY <1>11

-----------------------------------------------------------------------------
(* A step is sent. *)

\* kv: the slots when the steps before have written.  What r has up to from is
\* in its blocks, and neither a hashed block nor a live step of r goes further.
ReadyToSend(kv, r, computed, from) ==
    /\ \A i \in 1..from : cdiv(i, KVBlockSize) \in 1..Len(Owned(r, computed))
    /\ Holds(kv, Owned(r, computed), seqs[r].tokens, from)
    /\ ~spexis => /\ NumCached(r, computed) \in Nat
                  /\ NumCached(r, computed) * KVBlockSize <= from
    /\ \A k \in 1..Len(flight) : flight[k].r = r /\ flight[k].live =>
           /\ Len(flight[k].tokens) <= from
           /\ flight[k].tokens = SubSeq(seqs[r].tokens, 1, Len(flight[k].tokens))

NewStep(r, from, n, a) ==
    [r |-> r, blocks |-> a.mgr.blocks, from |-> from,
     tokens |-> SubSeq(seqs[r].tokens, 1, from + n), live |-> TRUE]

\* A step of r may be sent with the blocks of a.
MaySend(r, computed, from, n, a) ==
    /\ from \in Nat /\ n \in Nat /\ Allocated(r, n, computed, a)
    /\ Total(r, n, computed) = from + n /\ from + n <= Len(seqs[r].tokens)

LEMMA NewFits ==
    ASSUME KVInv, NEW r \in KVRid, NEW computed, NEW from, NEW n, NEW a,
           MaySend(r, computed, from, n, a)
    PROVE  /\ NewStep(r, from, n, a) \in StepType /\ StepFits(NewStep(r, from, n, a))
           /\ Len(NewStep(r, from, n, a).tokens) = from + n
           /\ a.mgr.blocks \in Seq(KVBlock \ {0}) /\ seqs[r].tokens \in KVHash
           /\ from + n \in 0..Len(seqs[r].tokens)
<1> DEFINE to == from + n
           old == seqs[r].tokens
           step == NewStep(r, from, n, a)
           blocks == a.mgr.blocks
<1>1. from \in Nat /\ n \in Nat /\ to \in Nat /\ to <= Len(old) /\ Total(r, n, computed) = to
  BY DEF MaySend
<1>2. Allocated(r, n, computed, a)
  BY DEF MaySend
<1>3. old \in KVHash /\ old \in Seq(KVTok) /\ Len(old) \in Nat /\ to \in 0..Len(old)
  BY <1>1 DEF KVInv, KVTypes, SeqType, KVHash
<1> HIDE DEF old, to
<1>4. SubSeq(old, 1, to) \in Seq(KVTok) /\ Len(SubSeq(old, 1, to)) = to
  <2>1. 0 \in 0..to
    BY <1>1
  <2> QED
    BY <1>3, <2>1, PrefixOfPrefix
<1>5. blocks \in Seq(KVBlock \ {0}) /\ Distinct(blocks)
  <2>1. PICK m : Pool(a.pool, With(Own, r, blocks), m)
    BY <1>2 DEF Allocated
  <2>2. With(Own, r, blocks)[r] = blocks
    BY DEF With, Own
  <2> QED
    BY <2>1, <2>2 DEF Pool, Holdings
<1>6. step = [r |-> r, blocks |-> blocks, from |-> from, tokens |-> SubSeq(old, 1, to), live |-> TRUE]
  BY DEF NewStep, old, to
<1>7. step \in StepType
  BY <1>1, <1>4, <1>5, <1>6 DEF StepType, KVHash
<1>8. ASSUME NEW i \in 1..to PROVE cdiv(i, KVBlockSize) \in 1..Len(blocks)
  <2>1. i \in Nat /\ i >= 1 /\ i <= to
    BY <1>1
  <2>2. cdiv(i, KVBlockSize) \in Nat /\ cdiv(i, KVBlockSize) >= 1
    BY <2>1, PlaceOf
  <2>3. cdiv(i, KVBlockSize) <= cdiv(to, KVBlockSize)
    BY <1>1, <2>1, CeilDiv, KVAssumption
  <2>4. cdiv(to, KVBlockSize) <= Len(blocks)
    BY <1>1, <1>2 DEF Allocated
  <2>5. cdiv(to, KVBlockSize) \in Nat
    <3>1. to <= to
      BY <1>1
    <3> QED
      BY <1>1, <3>1, CeilDiv, KVAssumption
  <2>6. Len(blocks) \in Nat
    BY <1>5
  <2> QED
    BY <2>2, <2>3, <2>4, <2>5, <2>6
<1>9. StepFits(step) /\ Len(step.tokens) = to
  BY <1>4, <1>5, <1>6, <1>8 DEF StepFits
<1> QED
  BY <1>3, <1>5, <1>7, <1>9 DEF old, to

\* The tokens of r when the step has written.
LEMMA NewHolds ==
    ASSUME KVInv, NEW r \in KVRid, NEW computed, NEW from, NEW n, NEW a,
           MaySend(r, computed, from, n, a), NEW kv, ReadyToSend(kv, r, computed, from)
    PROVE  LET w == Written(kv, NewStep(r, from, n, a))
           IN  /\ Holds(w, a.mgr.blocks, seqs[r].tokens, from + n)
               /\ Holds(w, a.mgr.blocks, NewStep(r, from, n, a).tokens, from + n)
<1> DEFINE step == NewStep(r, from, n, a)
           tokens == seqs[r].tokens
           blocks == a.mgr.blocks
           owned == Owned(r, computed)
<1>1. step \in StepType /\ StepFits(step) /\ tokens \in KVHash /\ from + n \in 0..Len(tokens)
  BY NewFits
<1>2. step.tokens = SubSeq(tokens, 1, from + n) /\ step.blocks = blocks /\ step.from = from
  BY DEF NewStep
<1>3. \A i \in 1..Len(owned) : blocks[i] = owned[i]
  BY DEF MaySend, Allocated, Extends
<1>4. Holds(kv, blocks, tokens, from)
  BY <1>3 DEF ReadyToSend, Holds
<1> HIDE DEF step
<1>5. Holds(Written(kv, step), step.blocks, tokens, from + n)
      /\ Holds(Written(kv, step), step.blocks, step.tokens, from + n)
  BY <1>1, <1>2, <1>4, StepHolds
<1> QED
  BY <1>2, <1>5 DEF step

\* The step writes to no block of another request, nor to one with a hash.
LEMMA NewApart ==
    ASSUME KVInv, NEW r \in KVRid, NEW computed, NEW from, NEW n, NEW a,
           MaySend(r, computed, from, n, a), NEW kv, ReadyToSend(kv, r, computed, from),
           NEW i \in Computes(NewStep(r, from, n, a))
    PROVE  /\ cdiv(i, KVBlockSize) \in 1..Len(a.mgr.blocks)
           /\ ~spexis => cdiv(i, KVBlockSize) > NumCached(r, computed)
           /\ \A x \in KVRid \ {r} : ~In(a.mgr.blocks[cdiv(i, KVBlockSize)], Own[x])
<1> DEFINE step == NewStep(r, from, n, a)
           c == cdiv(i, KVBlockSize)
           k == NumCached(r, computed)
<1>1. step \in StepType /\ StepFits(step) /\ Len(step.tokens) = from + n
      /\ a.mgr.blocks \in Seq(KVBlock \ {0})
  BY NewFits
<1>2. step.blocks = a.mgr.blocks /\ step.from = from /\ from \in Nat /\ n \in Nat
  BY DEF NewStep, MaySend
<1>3. i \in (from + 1)..(from + n)
  BY <1>1, <1>2 DEF Computes
<1>4. i \in Nat /\ i > from /\ i \in 1..Len(step.tokens)
  BY <1>1, <1>2, <1>3
<1>5. c \in 1..Len(a.mgr.blocks)
  BY <1>1, <1>2, <1>4 DEF StepFits
<1>6. c \in Nat /\ c >= 1 /\ i <= c * KVBlockSize
  <2> DEFINE s == (i - 1) % KVBlockSize
             d == (c - 1) * KVBlockSize
  <2>1. c \in Nat /\ c >= 1 /\ s \in Slot /\ i = d + s + 1
    BY <1>2, <1>4, PlaceOf
  <2>2. KVBlockSize \in Nat /\ s \in 0..(KVBlockSize - 1)
    BY <2>1, KVAssumption DEF Slot
  <2> HIDE DEF c, s
  <2>3. d \in Nat /\ c * KVBlockSize = d + KVBlockSize
    BY <2>1, <2>2
  <2> DEFINE e == c * KVBlockSize
  <2>4. e = d + KVBlockSize
    BY <2>3
  <2> HIDE DEF d, e
  <2>5. i <= e
    BY <2>1, <2>2, <2>3, <2>4
  <2> QED
    BY <2>1, <2>5 DEF e
<1> HIDE DEF c, k
<1>7. ASSUME ~spexis PROVE c > k /\ k \in Nat
  <2>1. k \in Nat /\ k * KVBlockSize <= from
    BY <1>7 DEF ReadyToSend, k
  <2>2. ASSUME c <= k PROVE FALSE
    <3>1. c * KVBlockSize <= k * KVBlockSize /\ c * KVBlockSize \in Nat /\ k * KVBlockSize \in Nat
      BY <1>6, <2>1, <2>2, TimesMonotone, KVAssumption
    <3> DEFINE e == c * KVBlockSize
               d == k * KVBlockSize
    <3>2. e \in Nat /\ d \in Nat /\ e <= d /\ d <= from /\ i <= e
      BY <1>6, <2>1, <3>1
    <3> HIDE DEF d, e
    <3> QED
      BY <1>2, <1>4, <3>2
  <2> QED
    BY <1>6, <2>1, <2>2
<1>8. ASSUME NEW x \in KVRid \ {r} PROVE ~In(a.mgr.blocks[c], Own[x])
  <2>1. spexis \/ c > NumCached(r, computed)
    BY <1>7 DEF k
  <2> QED
    BY <1>5, <2>1 DEF MaySend, Allocated, Extends, c
<1> QED
  BY <1>5, <1>7, <1>8 DEF c, k

\* So the other requests keep what they have.
LEMMA OthersHold ==
    ASSUME KVInv, NEW r \in KVRid, NEW computed, NEW from, NEW n, NEW a,
           MaySend(r, computed, from, n, a), NEW kv, ReadyToSend(kv, r, computed, from),
           NEW x \in KVRid \ {r}, RequestHolds(kv, x)
    PROVE  RequestHolds(Written(kv, NewStep(r, from, n, a)), x)
<1> DEFINE step == NewStep(r, from, n, a)
           w == Written(kv, step)
           blocks == mgr[x].blocks
<1>1. step \in StepType /\ StepFits(step) /\ step.blocks = a.mgr.blocks
  BY NewFits DEF NewStep
<1>2. blocks \in Seq(KVBlock) /\ Own[x] = blocks /\ seqs[x].num_computed_tokens \in Nat
  BY DEF KVInv, KVTypes, SeqType, Own
<1> SUFFICES ASSUME seqs[x].status = "RUNNING", NEW i \in 1..seqs[x].num_computed_tokens
             PROVE  w[blocks[cdiv(i, KVBlockSize)]][(i - 1) % KVBlockSize] =
                        SubSeq(seqs[x].tokens, 1, i)
  BY DEF RequestHolds, Holds
<1> DEFINE c == cdiv(i, KVBlockSize)
           s == (i - 1) % KVBlockSize
<1>3. c \in 1..Len(blocks) /\ kv[blocks[c]][s] = SubSeq(seqs[x].tokens, 1, i)
  BY DEF RequestHolds, Holds
<1>4. s \in Slot
  <2>1. i \in Nat /\ i >= 1
    BY <1>2
  <2> QED
    BY <2>1, PlaceOf
<1> HIDE DEF c, s, step
<1>5. blocks[c] \in KVBlock /\ In(blocks[c], Own[x])
  BY <1>2, <1>3 DEF In
<1>6. ASSUME NEW j \in Computes(step) PROVE step.blocks[cdiv(j, KVBlockSize)] # blocks[c]
  BY <1>1, <1>5, NewApart DEF step
<1>7. w[blocks[c]][s] = kv[blocks[c]][s]
  BY <1>1, <1>4, <1>5, <1>6, WrittenAt
<1> QED
  BY <1>3, <1>7 DEF c, s

\* The entry of a token of a full block is that of the block's hash.
LEMMA HashedSlot ==
    ASSUME NEW tokens \in KVHash, NEW hashes, TokenHashes(tokens, hashes), NEW to \in 0..Len(tokens),
           NEW i \in 1..Len(hashes), i <= to \div KVBlockSize,
           NEW kv, NEW blocks, Holds(kv, blocks, tokens, to), NEW s \in Slot
    PROVE  kv[blocks[i]][s] = SubSeq(hashes[i], 1, Len(hashes[i]) - KVBlockSize + s + 1)
<1> DEFINE p == (i - 1) * KVBlockSize + s + 1
           m == i * KVBlockSize
           d == (i - 1) * KVBlockSize
           h == hashes[i]
<1>1. KVBlockSize \in Nat \ {0} /\ to \in Nat /\ Len(tokens) \in Nat /\ tokens \in Seq(KVTok)
      /\ to <= Len(tokens) /\ Len(hashes) \in Nat /\ i \in Nat /\ i >= 1
      /\ s \in 0..(KVBlockSize - 1)
  BY KVAssumption DEF KVHash, TokenHashes, Slot
<1>2. m \in Nat /\ m <= to
  BY <1>1, Quotient
<1>3. d \in Nat /\ m = d + KVBlockSize
  BY <1>1
<1>4. p \in Nat /\ p >= 1 /\ p <= m /\ cdiv(p, KVBlockSize) = i /\ (p - 1) % KVBlockSize = s
  <2>1. p = (i - 1) * KVBlockSize + s + 1
    OBVIOUS
  <2> DEFINE e == i * KVBlockSize
  <2>2. e = m
    OBVIOUS
  <2> HIDE DEF p, m
  <2>3. p \in Nat /\ p >= 1 /\ p <= i * KVBlockSize /\ cdiv(p, KVBlockSize) = i /\ (p - 1) % KVBlockSize = s
    <3>1. i \in Nat /\ i >= 1
      BY <1>1
    <3> QED
      BY <2>1, <3>1, PlaceIs
  <2> QED
    BY <2>2, <2>3
<1>5. h = SubSeq(tokens, 1, m)
  BY DEF TokenHashes
<1>6. p = d + s + 1
  OBVIOUS
<1> HIDE DEF p, m, d, h
<1>7. m \in 0..Len(tokens) /\ p \in 0..m /\ p \in 1..to
  BY <1>1, <1>2, <1>4
<1>8. Len(h) = m /\ SubSeq(h, 1, p) = SubSeq(tokens, 1, p)
  BY <1>1, <1>5, <1>7, PrefixOfPrefix
<1>9. Len(h) - KVBlockSize + s + 1 = p
  BY <1>1, <1>3, <1>6, <1>8
<1>10. kv[blocks[cdiv(p, KVBlockSize)]][(p - 1) % KVBlockSize] = SubSeq(tokens, 1, p)
  BY <1>7 DEF Holds
<1> QED
  BY <1>4, <1>8, <1>9, <1>10 DEF h

\* The blocks with a hash when the step has written.
LEMMA CacheSent ==
    ASSUME KVInv, NEW r \in KVRid, NEW computed, NEW from, NEW n, NEW a,
           MaySend(r, computed, from, n, a), NEW kv, ReadyToSend(kv, r, computed, from),
           CacheHolds(kv, pool.block_hash)
    PROVE  CacheHolds(Written(kv, NewStep(r, from, n, a)), a.pool.block_hash)
<1> DEFINE step == NewStep(r, from, n, a)
           w == Written(kv, step)
           blocks == a.mgr.blocks
           tokens == seqs[r].tokens
           hash == a.pool.block_hash
<1>1. step \in StepType /\ StepFits(step) /\ step.blocks = blocks
      /\ tokens \in KVHash /\ from + n \in 0..Len(tokens)
  BY NewFits DEF NewStep
<1>2. Allocated(r, n, computed, a) /\ Total(r, n, computed) = from + n
  BY DEF MaySend
<1>3. Holds(w, blocks, tokens, from + n)
  BY NewHolds
<1>4. Extends(r, computed, a)
  BY <1>2 DEF Allocated
<1> HIDE DEF step
<1> SUFFICES ASSUME NEW b \in KVBlock, hash[b] # NoHash, NEW s \in Slot
             PROVE  w[b][s] = SubSeq(hash[b], 1, Len(hash[b]) - KVBlockSize + s + 1)
  BY DEF CacheHolds, step
<1>5. ~spexis
  BY <1>2 DEF Allocated
<1>6. CASE ~In(b, blocks)
  <2>1. hash[b] = pool.block_hash[b]
    BY <1>4, <1>6 DEF Extends
  <2>2. kv[b][s] = SubSeq(hash[b], 1, Len(hash[b]) - KVBlockSize + s + 1)
    BY <2>1 DEF CacheHolds
  <2>3. ASSUME NEW i \in Computes(step) PROVE step.blocks[cdiv(i, KVBlockSize)] # b
    <3>1. cdiv(i, KVBlockSize) \in 1..Len(blocks)
      BY NewApart DEF step
    <3> QED
      BY <1>1, <1>6, <3>1 DEF In
  <2>4. w[b][s] = kv[b][s]
    BY <1>1, <2>3, WrittenAt
  <2> QED
    BY <2>2, <2>4
<1>7. CASE In(b, blocks)
  <2>1. PICK i \in 1..Len(blocks) : blocks[i] = b
    BY <1>7 DEF In
  <2>2. /\ TokenHashes(tokens, a.mgr.hashes)
        /\ a.mgr.num_cached = (from + n) \div KVBlockSize
        /\ a.mgr.num_cached <= Len(a.mgr.hashes)
        /\ Hashed(a.pool, blocks, a.mgr.hashes, a.mgr.num_cached)
    BY <1>2, <1>5 DEF Allocated
  <2>3. hash[b] = IF i <= a.mgr.num_cached THEN a.mgr.hashes[i] ELSE NoHash
    BY <2>1, <2>2 DEF Hashed
  <2>4. i <= a.mgr.num_cached /\ hash[b] = a.mgr.hashes[i]
    BY <2>3
  <2>5. i \in 1..Len(a.mgr.hashes)
    <3>1. i \in Nat /\ i >= 1 /\ a.mgr.num_cached \in Int /\ Len(a.mgr.hashes) \in Nat
      <4>1. a.mgr.num_cached \in Int
        BY <1>2 DEF Allocated
      <4>2. Len(a.mgr.hashes) \in Nat
        BY <2>2 DEF TokenHashes
      <4>3. i \in Nat /\ i >= 1
        BY <2>1
      <4> QED
        BY <4>1, <4>2, <4>3
    <3> QED
      BY <2>2, <2>4, <3>1
  <2>6. w[blocks[i]][s] = SubSeq(a.mgr.hashes[i], 1, Len(a.mgr.hashes[i]) - KVBlockSize + s + 1)
    <3> DEFINE to == from + n
               hashes == a.mgr.hashes
    <3>1. to \in 0..Len(tokens) /\ i <= to \div KVBlockSize /\ i \in 1..Len(hashes)
      BY <1>1, <2>2, <2>4, <2>5
    <3>2. TokenHashes(tokens, hashes) /\ Holds(w, blocks, tokens, to) /\ tokens \in KVHash
      BY <1>1, <1>3, <2>2
    <3> HIDE DEF to, hashes, w, blocks, tokens
    <3>3. w[blocks[i]][s] = SubSeq(hashes[i], 1, Len(hashes[i]) - KVBlockSize + s + 1)
      BY <3>1, <3>2, HashedSlot
    <3> QED
      BY <3>3 DEF hashes
  <2> QED
    BY <2>1, <2>4, <2>6
<1> QED
  BY <1>6, <1>7

\* What is sent, and to whom.
LEMMA SentEffect ==
    ASSUME KVInv, NEW r \in KVRid, NEW computed, NEW from, NEW n, NEW a,
           MaySend(r, computed, from, n, a), Send(r, from, n, a)
    PROVE  /\ Len(flight') = Len(flight) + 1 /\ Len(flight) \in Nat
           /\ flight'[Len(flight) + 1] = NewStep(r, from, n, a)
           /\ \A k \in 1..Len(flight) : flight'[k] = flight[k]
           /\ slot_kv' = slot_kv /\ pool' = a.pool /\ mgr'[r].blocks = a.mgr.blocks
           /\ \A x \in KVRid : x # r => mgr'[x] = mgr[x] /\ seqs'[x] = seqs[x]
           /\ seqs'[r].num_computed_tokens = from + n
           /\ \/ seqs'[r].tokens = seqs[r].tokens
              \/ \E t \in KVTok : seqs'[r].tokens = Append(seqs[r].tokens, t)
<1> DEFINE to == from + n
           old == seqs[r].tokens
           new == NewStep(r, from, n, a)
<1>1. /\ KVTypes /\ seqs \in [KVRid -> SeqType] /\ flight \in Seq(StepType)
      /\ mgr \in [KVRid -> [blocks : Seq(KVBlock), hashes : Seq(KVHash), num_cached : Int]]
  BY DEF KVInv, KVTypes, StepType
<1>2. new \in StepType
  BY NewFits
<1>3. /\ pool' = a.pool /\ mgr' = [mgr EXCEPT ![r] = a.mgr] /\ slot_kv' = slot_kv
      /\ flight' = Append(flight, new)
      /\ \E tokens \in Guesses(old, to) :
             seqs' = [seqs EXCEPT ![r].tokens = tokens, ![r].num_computed_tokens = to,
                                  ![r].status = "RUNNING"]
  BY DEF Send, NewStep
<1>4. PICK tokens \in Guesses(old, to) :
          seqs' = [seqs EXCEPT ![r].tokens = tokens, ![r].num_computed_tokens = to,
                               ![r].status = "RUNNING"]
  BY <1>3
<1> HIDE DEF to, old, new
<1>5. tokens = old \/ \E t \in KVTok : tokens = Append(old, t)
  BY <1>4 DEF Guesses, KVTok
<1>6. /\ \A x \in KVRid : x # r => seqs'[x] = seqs[x]
      /\ seqs'[r].tokens = tokens /\ seqs'[r].num_computed_tokens = to
  BY <1>1, <1>4 DEF SeqType
<1>7. mgr'[r] = a.mgr /\ \A x \in KVRid : x # r => mgr'[x] = mgr[x]
  BY <1>1, <1>3
<1>8. /\ Len(flight') = Len(flight) + 1 /\ Len(flight) \in Nat
      /\ \A k \in 1..Len(flight) : flight'[k] = flight[k]
      /\ flight'[Len(flight) + 1] = new
  BY <1>1, <1>2, <1>3
<1> QED
  BY <1>3, <1>5, <1>6, <1>7, <1>8 DEF to, old, new

\* The tokens of r when the step has written, perhaps with a guess after them.
LEMMA SentHolds ==
    ASSUME KVInv, NEW r \in KVRid, NEW computed, NEW from, NEW n, NEW a,
           MaySend(r, computed, from, n, a), Send(r, from, n, a),
           NEW w, Holds(w, a.mgr.blocks, seqs[r].tokens, from + n)
    PROVE  RequestHolds(w, r)'
<1>1. PICK to, old, blocks : to = from + n /\ old = seqs[r].tokens /\ blocks = a.mgr.blocks
  OBVIOUS
<1>2. /\ StepFits(NewStep(r, from, n, a)) /\ Len(NewStep(r, from, n, a).tokens) = to
      /\ old \in KVHash /\ to \in 0..Len(old)
  BY <1>1, NewFits
<1>3. \A i \in 1..to : cdiv(i, KVBlockSize) \in 1..Len(blocks)
  BY <1>1, <1>2 DEF StepFits, NewStep
<1>4. /\ mgr'[r].blocks = blocks /\ seqs'[r].num_computed_tokens = to
      /\ \/ seqs'[r].tokens = old
         \/ \E t \in KVTok : seqs'[r].tokens = Append(old, t)
  BY <1>1, SentEffect
<1>5. Holds(w, blocks, seqs'[r].tokens, to)
  <2>1. Holds(w, blocks, old, to)
    BY <1>1
  <2>2. CASE seqs'[r].tokens = old
    BY <2>1, <2>2
  <2>3. CASE \E t \in KVTok : seqs'[r].tokens = Append(old, t)
    <3>1. PICK t \in KVTok : seqs'[r].tokens = Append(old, t)
      BY <2>3
    <3>2. Holds(w, blocks, Append(old, t), to)
      BY <1>2, <2>1, AppendHolds
    <3> QED
      BY <3>1, <3>2
  <2> QED
    BY <1>4, <2>2, <2>3
<1> QED
  BY <1>3, <1>4, <1>5 DEF RequestHolds, Holds

\* The live steps follow their requests.
LEMMA SentFollows ==
    ASSUME KVInv, NEW r \in KVRid, NEW computed, NEW from, NEW n, NEW a,
           MaySend(r, computed, from, n, a), Send(r, from, n, a),
           NEW kv, ReadyToSend(kv, r, computed, from),
           NEW k \in 1..(Len(flight) + 1), k <= Len(flight) => StepFollows(flight[k])
    PROVE  StepFollows(flight[k])'
<1>1. PICK to, old, new, N :
          to = from + n /\ old = seqs[r].tokens /\ new = NewStep(r, from, n, a) /\ N = Len(flight)
  OBVIOUS
<1>2. /\ old \in KVHash /\ to \in 0..Len(old) /\ Len(new.tokens) = to /\ from \in Nat /\ n \in Nat
      /\ new.tokens = SubSeq(old, 1, to) /\ new.r = r /\ Len(old) \in Nat
  <2>1. old \in KVHash /\ to \in 0..Len(old) /\ Len(new.tokens) = to
    BY <1>1, NewFits
  <2>2. from \in Nat /\ n \in Nat
    BY DEF MaySend
  <2>3. new.tokens = SubSeq(old, 1, to) /\ new.r = r
    BY <1>1 DEF NewStep
  <2>4. Len(old) \in Nat
    BY <2>1 DEF KVHash
  <2> QED
    BY <2>1, <2>2, <2>3, <2>4
<1>3. /\ N \in Nat /\ flight'[N + 1] = new /\ \A j \in 1..N : flight'[j] = flight[j]
      /\ \A x \in KVRid : x # r => seqs'[x] = seqs[x]
      /\ seqs'[r].num_computed_tokens = to
      /\ \/ seqs'[r].tokens = old
         \/ \E t \in KVTok : seqs'[r].tokens = Append(old, t)
  BY <1>1, SentEffect
<1>4. ASSUME NEW m \in 0..Len(old) PROVE SubSeq(seqs'[r].tokens, 1, m) = SubSeq(old, 1, m)
  BY <1>2, <1>3, PrefixStays
<1>5. CASE k = N + 1
  <2>1. flight'[k] = new /\ Len(new.tokens) <= seqs'[r].num_computed_tokens
    BY <1>1, <1>2, <1>3, <1>5
  <2>2. new.tokens = SubSeq(seqs'[r].tokens, 1, Len(new.tokens))
    BY <1>2, <1>4
  <2> QED
    BY <1>2, <2>1, <2>2 DEF StepFollows
<1>6. CASE k # N + 1
  <2>1. k \in 1..N
    BY <1>1, <1>3, <1>6
  <2>2. flight'[k] = flight[k] /\ StepFollows(flight[k])
    BY <1>1, <1>3, <2>1
  <2>3. flight[k] \in StepType
    <3>1. flight \in Seq(StepType)
      BY DEF KVInv, KVTypes, StepType
    <3> QED
      BY <1>1, <2>1, <3>1
  <2>4. PICK s : s = flight[k]
    OBVIOUS
  <2>5. s.r \in KVRid /\ Len(s.tokens) \in Nat
    BY <2>3, <2>4 DEF StepType, KVHash
  <2>6. CASE s.r # r
    BY <1>3, <2>2, <2>4, <2>5, <2>6 DEF StepFollows
  <2>7. CASE s.r = r
    <3>1. SUFFICES ASSUME s.live
                   PROVE  /\ Len(s.tokens) <= seqs'[r].num_computed_tokens
                          /\ s.tokens = SubSeq(seqs'[r].tokens, 1, Len(s.tokens))
      BY <2>2, <2>4, <2>7 DEF StepFollows
    <3>2. Len(s.tokens) <= from /\ s.tokens = SubSeq(old, 1, Len(s.tokens))
      BY <1>1, <2>1, <2>4, <2>7, <3>1 DEF ReadyToSend
    <3>3. Len(s.tokens) <= to /\ Len(s.tokens) \in 0..Len(old)
      BY <1>1, <1>2, <2>5, <3>2
    <3> QED
      BY <1>3, <1>4, <3>2, <3>3
  <2> QED
    BY <2>6, <2>7
<1> QED
  BY <1>5, <1>6

LEMMA SendsSlots ==
    ASSUME NEW f, Future(f), KVInv, NEW r \in KVRid, NEW computed, NEW from,
           Sends(r, computed, from), ReadyToSend(f[Len(flight)], r, computed, from)
    PROVE  \E g : Future(g)'
<1>1. PICK n, a : MaySend(r, computed, from, n, a) /\ Send(r, from, n, a)
  BY DEF Sends, MaySend
<1>2. PICK new, N, kv, w :
          new = NewStep(r, from, n, a) /\ N = Len(flight) /\ kv = f[N] /\ w = Written(kv, new)
  OBVIOUS
<1>3. ReadyToSend(kv, r, computed, from)
  BY <1>2
<1>4. PICK g : g = [k \in 0..(N + 1) |-> IF k <= N THEN f[k] ELSE w]
  OBVIOUS
<1>5. /\ Len(flight') = N + 1 /\ N \in Nat /\ flight'[N + 1] = new
      /\ \A k \in 1..N : flight'[k] = flight[k]
      /\ slot_kv' = slot_kv /\ pool' = a.pool
      /\ \A x \in KVRid : x # r => mgr'[x] = mgr[x] /\ seqs'[x] = seqs[x]
  BY <1>1, <1>2, SentEffect
<1>6. (\A k \in 0..N : g[k] = f[k]) /\ g[N + 1] = w
  BY <1>4, <1>5
<1>7. f[0] = slot_kv /\ (\A x \in KVRid : RequestHolds(kv, x)) /\ CacheHolds(kv, pool.block_hash)
  BY <1>2 DEF Future
<1>8. ASSUME NEW k \in 1..N
      PROVE  /\ f[k] = Written(f[k - 1], flight[k]) /\ StepFits(flight[k]) /\ StepFollows(flight[k])
             /\ Holds(f[k], flight[k].blocks, flight[k].tokens, Len(flight[k].tokens))
  BY <1>2 DEF Future
<1>9. ASSUME NEW k \in 1..(N + 1)
      PROVE  /\ g[k] = Written(g[k - 1], flight'[k]) /\ StepFits(flight'[k])
             /\ Holds(g[k], flight'[k].blocks, flight'[k].tokens, Len(flight'[k].tokens))
  <2>1. CASE k = N + 1
    <3>1. g[k - 1] = kv /\ g[k] = w /\ flight'[k] = new
      BY <1>2, <1>5, <1>6, <2>1
    <3>2. StepFits(new) /\ Len(new.tokens) = from + n
      BY <1>1, <1>2, NewFits
    <3>3. Holds(w, a.mgr.blocks, new.tokens, from + n)
      BY <1>1, <1>2, <1>3, NewHolds
    <3>4. new.blocks = a.mgr.blocks
      BY <1>2 DEF NewStep
    <3> QED
      BY <1>2, <3>1, <3>2, <3>3, <3>4
  <2>2. CASE k # N + 1
    <3>1. k \in 1..N /\ k \in 0..N /\ k - 1 \in 0..N
      BY <1>5, <2>2
    <3>2. g[k] = f[k] /\ g[k - 1] = f[k - 1] /\ flight'[k] = flight[k]
      BY <1>5, <1>6, <3>1
    <3> QED
      BY <1>8, <3>1, <3>2
  <2> QED
    BY <2>1, <2>2
<1>10. ASSUME NEW k \in 1..(N + 1) PROVE StepFollows(flight[k])'
  <2>1. k <= N => StepFollows(flight[k])
    BY <1>5, <1>8
  <2> QED
    BY <1>1, <1>2, <1>3, <2>1, SentFollows
<1>11. ASSUME NEW x \in KVRid PROVE RequestHolds(w, x)'
  <2>1. CASE x = r
    <3>1. Holds(w, a.mgr.blocks, seqs[r].tokens, from + n)
      BY <1>1, <1>2, <1>3, NewHolds
    <3> QED
      BY <1>1, <2>1, <3>1, SentHolds
  <2>2. CASE x # r
    <3>1. RequestHolds(w, x)
      BY <1>1, <1>2, <1>3, <1>7, <2>2, OthersHold
    <3> QED
      BY <1>5, <2>2, <3>1 DEF RequestHolds, Holds
  <2> QED
    BY <2>1, <2>2
<1>12. CacheHolds(w, pool'.block_hash)
  <2>1. CacheHolds(w, a.pool.block_hash)
    BY <1>1, <1>2, <1>3, <1>7, CacheSent
  <2> QED
    BY <1>5, <2>1
<1>13. g[0] = slot_kv' /\ g[Len(flight')] = w
  BY <1>5, <1>6, <1>7
<1>14. Future(g)'
  BY <1>5, <1>9, <1>10, <1>11, <1>12, <1>13 DEF Future
<1> QED
  BY <1>14

\* A step of a running request: its tokens are in its blocks.
LEMMA RunningSlots ==
    ASSUME NEW f, Future(f), KVInv, NEW r \in KVRid, ScheduleRunning(r)
    PROVE  \E g : Future(g)'
<1>1. PICK kv, from : kv = f[Len(flight)] /\ from = seqs[r].num_computed_tokens
  OBVIOUS
<1>2. from \in Nat /\ mgr[r].blocks \in Seq(KVBlock) /\ seqs[r].status = "RUNNING"
      /\ KVBlockSize \in Nat \ {0}
  BY <1>1, KVAssumption DEF KVInv, KVTypes, SeqType, ScheduleRunning
<1>3. Owned(r, <<>>) = mgr[r].blocks
  BY <1>2, ConcatEmptySeq DEF Owned
<1>4. /\ \A i \in 1..from : cdiv(i, KVBlockSize) \in 1..Len(Owned(r, <<>>))
      /\ Holds(kv, Owned(r, <<>>), seqs[r].tokens, from)
  <2>1. RequestHolds(kv, r)
    BY <1>1 DEF Future
  <2> QED
    BY <1>1, <1>2, <1>3, <2>1 DEF RequestHolds
<1>5. ASSUME ~spexis
      PROVE  NumCached(r, <<>>) \in Nat /\ NumCached(r, <<>>) * KVBlockSize <= from
  <2>1. mgr[r].num_cached = from \div KVBlockSize
    BY <1>1, <1>2, <1>5 DEF KVInv, HashesOK
  <2>2. from \div KVBlockSize \in Nat /\ (from \div KVBlockSize) * KVBlockSize <= from
    BY <1>2, Division
  <2>3. NumCached(r, <<>>) = from \div KVBlockSize
    BY <2>1, <2>2 DEF NumCached
  <2> QED
    BY <2>2, <2>3
<1>6. ASSUME NEW k \in 1..Len(flight), flight[k].r = r, flight[k].live
      PROVE  /\ Len(flight[k].tokens) <= from
             /\ flight[k].tokens = SubSeq(seqs[r].tokens, 1, Len(flight[k].tokens))
  <2>1. StepFollows(flight[k])
    BY DEF Future
  <2> QED
    BY <1>1, <1>2, <1>6, <2>1 DEF StepFollows
<1>7. ReadyToSend(kv, r, <<>>, from)
  BY <1>4, <1>5, <1>6 DEF ReadyToSend
<1>8. Sends(r, <<>>, from)
  BY <1>1, RunningSends
<1> QED
  BY <1>1, <1>7, <1>8, SendsSlots

\* A hit has the tokens of its hashes.
LEMMA HitHolds ==
    ASSUME NEW kv, CacheHolds(kv, pool.block_hash), NEW tokens \in KVHash, NEW hashes,
           TokenHashes(tokens, hashes), NEW computed \in Seq(KVBlock),
           Len(computed) <= Len(hashes),
           \A i \in 1..Len(computed) : pool.block_hash[computed[i]] = hashes[i],
           NEW i \in 1..(Len(computed) * KVBlockSize)
    PROVE  /\ cdiv(i, KVBlockSize) \in 1..Len(computed)
           /\ kv[computed[cdiv(i, KVBlockSize)]][(i - 1) % KVBlockSize] = SubSeq(tokens, 1, i)
<1> DEFINE L == Len(computed)
           LB == L * KVBlockSize
<1>0. PICK c, s : c = cdiv(i, KVBlockSize) /\ s = (i - 1) % KVBlockSize
  OBVIOUS
<1>1. /\ KVBlockSize \in Nat \ {0} /\ L \in Nat /\ Len(hashes) \in Nat /\ LB \in Nat
      /\ tokens \in Seq(KVTok) /\ Len(tokens) \in Nat
  BY KVAssumption DEF KVHash, TokenHashes
<1>2. i \in Nat /\ i >= 1 /\ i <= LB
  BY <1>1
<1>3. c \in Nat /\ c >= 1 /\ s \in Slot /\ i = (c - 1) * KVBlockSize + s + 1
  BY <1>0, <1>2, PlaceOf
<1>4. s \in 0..(KVBlockSize - 1) /\ c - 1 \in Nat
  BY <1>3 DEF Slot
<1> DEFINE D == (c - 1) * KVBlockSize
           M == c * KVBlockSize
<1>5. D \in Nat /\ M = D + KVBlockSize /\ i = D + s + 1
  BY <1>1, <1>3, <1>4
<1>6. c <= L
  <2>1. ASSUME L <= c - 1 PROVE FALSE
    <3>1. LB <= D
      BY <1>1, <1>4, <2>1, TimesMonotone
    <3> HIDE DEF LB, D
    <3> QED
      BY <1>1, <1>2, <1>4, <1>5, <3>1
  <2> HIDE DEF L
  <2> QED
    BY <1>1, <1>3, <2>1
<1>7. c \in 1..L /\ c \in 1..Len(hashes)
  BY <1>1, <1>3, <1>6
<1>8. M \in Nat /\ M <= Len(tokens)
  <2>1. M <= Len(hashes) * KVBlockSize
    <3>1. c <= Len(hashes) /\ KVBlockSize \in Nat
      BY <1>1, <1>7
    <3> QED
      BY <1>1, <1>3, <3>1, TimesMonotone
  <2>2. Len(hashes) * KVBlockSize <= Len(tokens) /\ Len(hashes) * KVBlockSize \in Nat
    BY <1>1 DEF TokenHashes
  <2>3. M \in Nat
    BY <1>1, <1>3
  <2> HIDE DEF M
  <2> DEFINE H == Len(hashes) * KVBlockSize
  <2>4. M <= H /\ H <= Len(tokens) /\ H \in Nat
    BY <2>1, <2>2
  <2> HIDE DEF H
  <2> QED
    BY <1>1, <2>3, <2>4
<1>9. PICK h : h = hashes[c]
  OBVIOUS
<1>10. h = SubSeq(tokens, 1, M)
  BY <1>7, <1>9 DEF TokenHashes
<1>11. h # NoHash
  BY <1>3, <1>8, <1>10, PrefixHash DEF BlockHash
<1> HIDE DEF L, LB, D, M
<1>12. M \in 0..Len(tokens) /\ i \in 0..M
  BY <1>1, <1>2, <1>4, <1>5, <1>8
<1>13. Len(h) = M /\ SubSeq(h, 1, i) = SubSeq(tokens, 1, i)
  BY <1>1, <1>10, <1>12, PrefixOfPrefix
<1>14. Len(h) - KVBlockSize + s + 1 = i
  BY <1>1, <1>4, <1>5, <1>13
<1>15. computed[c] \in KVBlock /\ pool.block_hash[computed[c]] = h
  BY <1>7, <1>9 DEF L
<1>16. kv[computed[c]][s] = SubSeq(h, 1, Len(h) - KVBlockSize + s + 1)
  BY <1>3, <1>11, <1>15 DEF CacheHolds
<1> QED
  BY <1>0, <1>7, <1>13, <1>14, <1>16 DEF L

\* The first step of a request: the hit has the tokens before.
LEMMA WaitingSlots ==
    ASSUME NEW f, Future(f), KVInv, NEW r \in KVRid, ScheduleWaiting(r)
    PROVE  \E g : Future(g)'
<1>1. PICK kv, computed, from, hashes :
          /\ kv = f[Len(flight)] /\ computed = get_computed_blocks(r)
          /\ from = Len(computed) * KVBlockSize /\ hashes = block_hashes(r)
  OBVIOUS
<1>2. seqs[r].status = "WAITING" /\ Found(r, hashes, computed)
  BY <1>1, ComputedFound DEF ScheduleWaiting
<1>3. mgr[r].blocks = <<>> /\ mgr[r].num_cached = -1 /\ InFlight(r) = {}
      /\ seqs[r].tokens \in KVHash
  BY <1>2 DEF KVInv, RequestOK, KVTypes, SeqType
<1>4. computed \in Seq(KVBlock) /\ Len(computed) \in Nat /\ KVBlockSize \in Nat /\ from \in Nat
  BY <1>1, <1>2, KVAssumption DEF Found, IsHit
<1>5. Owned(r, computed) = computed /\ NumCached(r, computed) = Len(computed)
  BY <1>3, <1>4, ConcatEmptySeq DEF Owned, NumCached
<1>6. ASSUME NEW i \in 1..from
      PROVE  /\ cdiv(i, KVBlockSize) \in 1..Len(computed)
             /\ kv[computed[cdiv(i, KVBlockSize)]][(i - 1) % KVBlockSize] = SubSeq(seqs[r].tokens, 1, i)
  <2>1. ~spexis
    <3>1. ASSUME computed = <<>> PROVE FALSE
      <4>1. from = 0
        BY <1>1, <1>4, <3>1
      <4> QED
        BY <4>1
    <3> QED
      BY <1>2, <3>1 DEF Found
  <2>2. /\ TokenHashes(seqs[r].tokens, hashes) /\ Len(computed) <= Len(hashes)
        /\ \A j \in 1..Len(computed) : pool.block_hash[computed[j]] = hashes[j]
    BY <1>2, <2>1 DEF Found
  <2>3. CacheHolds(kv, pool.block_hash)
    BY <1>1 DEF Future
  <2>4. i \in 1..(Len(computed) * KVBlockSize)
    BY <1>1
  <2>5. PICK tokens : tokens = seqs[r].tokens
    OBVIOUS
  <2>6. /\ cdiv(i, KVBlockSize) \in 1..Len(computed)
        /\ kv[computed[cdiv(i, KVBlockSize)]][(i - 1) % KVBlockSize] = SubSeq(tokens, 1, i)
    <3>1. tokens \in KVHash /\ TokenHashes(tokens, hashes)
      BY <1>3, <2>2, <2>5
    <3>2. Len(computed) <= Len(hashes)
      BY <2>2
    <3>3. \A j \in 1..Len(computed) : pool.block_hash[computed[j]] = hashes[j]
      BY <2>2
    <3>4. computed \in Seq(KVBlock)
      BY <1>4
    <3> QED
      BY <2>3, <2>4, <3>1, <3>2, <3>3, <3>4, HitHolds, Zenon
  <2> QED
    BY <2>5, <2>6
<1>7. ASSUME NEW k \in 1..Len(flight), flight[k].r = r PROVE FALSE
  <2>1. k \in DOMAIN flight
    BY DEF KVInv, KVTypes
  <2> QED
    BY <1>3, <1>7, <2>1 DEF InFlight
<1>8. ReadyToSend(kv, r, computed, from)
  <2>1. Len(computed) * KVBlockSize <= from
    BY <1>1, <1>4
  <2> QED
    BY <1>4, <1>5, <1>6, <1>7, <2>1 DEF ReadyToSend, Holds
<1>9. CASE Sends(r, computed, from)
  BY <1>1, <1>8, <1>9, SendsSlots
<1>10. CASE /\ mgr' = [mgr EXCEPT ![r].hashes = block_hashes(r)]
            /\ UNCHANGED <<spexis, pool, seqs, flight, slot_kv, evictions>>
  BY <1>10, NoRoomSlots
<1> QED
  BY <1>1, <1>9, <1>10, WaitingSends

-----------------------------------------------------------------------------
(* All steps. *)

LEMMA SlotInit == KVInit => SlotInv
<1> SUFFICES ASSUME KVInit PROVE SlotInv
  OBVIOUS
<1>1. KVInv
  BY KVInvInit
<1>2. flight = <<>> /\ Len(flight) = 0 /\ pool = NewPool
  BY DEF KVInit
<1>3. PICK f : f = [k \in {0} |-> slot_kv]
  OBVIOUS
<1>4. f[0] = slot_kv
  BY <1>3
<1>5. ASSUME NEW r \in KVRid PROVE RequestHolds(f[0], r)
  <2>1. seqs[r].status # "RUNNING"
    BY DEF KVInit
  <2> QED
    BY <2>1 DEF RequestHolds
<1>6. CacheHolds(f[0], pool.block_hash)
  <2>1. pool.block_hash = [b \in KVBlock |-> NoHash]
    BY <1>2 DEF NewPool, remove, AllFree
  <2> QED
    BY <2>1 DEF CacheHolds
<1>7. Future(f)
  BY <1>2, <1>4, <1>5, <1>6 DEF Future
<1> QED
  BY <1>1, <1>7 DEF SlotInv

LEMMA SlotStep == SlotInv /\ [KVNext]_kvVars => SlotInv'
<1> SUFFICES ASSUME SlotInv, [KVNext]_kvVars PROVE SlotInv'
  OBVIOUS
<1>1. KVInv /\ KVInv'
  BY KVInvStep DEF SlotInv
<1>2. PICK f : Future(f)
  BY DEF SlotInv
<1>3. SUFFICES \E g : Future(g)'
  BY <1>1 DEF SlotInv
<1>4. ASSUME NEW r \in KVRid, ScheduleWaiting(r) PROVE \E g : Future(g)'
  BY <1>1, <1>2, <1>4, WaitingSlots
<1>5. ASSUME NEW r \in KVRid, ScheduleRunning(r) PROVE \E g : Future(g)'
  BY <1>1, <1>2, <1>5, RunningSlots
<1>6. ASSUME NEW r \in KVRid, Requeue(r) PROVE \E g : Future(g)'
  BY <1>1, <1>2, <1>6, RequeueSlots
<1>7. ASSUME NEW r \in KVRid, Finish(r) PROVE \E g : Future(g)'
  BY <1>1, <1>2, <1>7, FinishSlots
<1>8. ASSUME NEW r \in KVRid, NEW p \in KVRid, Preempt(r, p) PROVE \E g : Future(g)'
  BY <1>1, <1>2, <1>8, PreemptSlots
<1>9. CASE Work
  BY <1>1, <1>2, <1>9, WorkSlots
<1>10. CASE reset_prefix_cache
  BY <1>1, <1>2, <1>10, ResetSlots
<1>11. CASE UNCHANGED kvVars
  <2>1. Future(f)'
    BY <1>1, <1>2, <1>11, QuietKeeps DEF kvVars
  <2> QED
    BY <2>1
<1> QED
  BY <1>4, <1>5, <1>6, <1>7, <1>8, <1>9, <1>10, <1>11 DEF KVNext

\* The contents of the slots hold what the steps in flight and the requests
\* rely on, in every reachable state.
THEOREM SlotsHold == KVSpec => []SlotInv
<1>1. KVInit => SlotInv
  BY SlotInit
<1>2. SlotInv /\ [KVNext]_kvVars => SlotInv'
  BY SlotStep
<1> QED
  BY <1>1, <1>2, PTL DEF KVSpec

-----------------------------------------------------------------------------
(* What a step reads. *)

\* The steps before the one that ends.
LEMMA EndBefore ==
    ASSUME KVInv, NEW i \in 1..Len(flight), EndStep(i), NEW j \in 1..(i - 1)
    PROVE  flight'[j].blocks = flight[j].blocks /\ flight'[j].tokens = flight[j].tokens
<1>1. PICK s, N, later : s = flight /\ N = Len(s) /\ later = RemoveAt(flight, i)
  OBVIOUS
<1>2. s \in Seq(StepType) /\ N \in Nat /\ i \in 1..N /\ j \in 1..N /\ i \in Nat
      /\ \A k \in 1..N : s[k] \in StepType
  <2>1. s \in Seq(StepType)
    BY <1>1 DEF KVInv, KVTypes, StepType
  <2> QED
    BY <1>1, <2>1
<1>3. j \in DOMAIN later /\ later[j] = s[j]
  <2>1. PICK a, b : a = SubSeq(s, 1, i - 1) /\ b = SubSeq(s, i + 1, Len(s))
    OBVIOUS
  <2>2. later = a \o b
    BY <1>1, <2>1 DEF RemoveAt
  <2>3. a \in Seq(StepType) /\ Len(a) = (IF 1 <= i - 1 THEN (i - 1) - 1 + 1 ELSE 0)
        /\ \A k \in 1..((i - 1) - 1 + 1) : a[k] = s[1 + k - 1]
    <3>1. \A k \in 1..(i - 1) : s[k] \in StepType
      BY <1>2
    <3> QED
      BY <1>2, <2>1, <3>1, SubSeqProperties
  <2>4. b \in Seq(StepType)
    <3>1. \A k \in (i + 1)..N : s[k] \in StepType
      BY <1>2
    <3> QED
      BY <1>1, <1>2, <2>1, <3>1, SubSeqProperties
  <2>5. j \in 1..Len(a) /\ a[j] = s[j]
    BY <1>2, <2>3
  <2>6. later \in Seq(StepType) /\ Len(later) = Len(a) + Len(b)
        /\ \A k \in 1..Len(a) : later[k] = a[k]
    <3>1. later \in Seq(StepType) /\ Len(later) = Len(a) + Len(b)
          /\ \A k \in 1..(Len(a) + Len(b)) : later[k] = IF k <= Len(a) THEN a[k] ELSE b[k - Len(a)]
      BY <2>2, <2>3, <2>4, ConcatProperties
    <3>2. Len(a) \in Nat /\ Len(b) \in Nat
      BY <2>3, <2>4
    <3> QED
      BY <3>1, <3>2
  <2> QED
    BY <2>3, <2>4, <2>5, <2>6
<1>4. \/ flight' = later
      \/ \E r : flight' = [k \in DOMAIN later |-> [later[k] EXCEPT !.live = @ /\ later[k].r # r]]
  <2> DEFINE rest == RemoveAt(flight, i)
             r == flight[i].r
  <2>1. flight' = rest \/ flight' = Stale(rest, r)
    BY Zenon DEF EndStep
  <2> QED
    BY <1>1, <2>1 DEF Stale
<1>5. s[j] \in StepType
  BY <1>2
<1> QED
  BY <1>1, <1>3, <1>4, <1>5 DEF StepType

\* The oldest step ends: another one that might is like it.
LEMMA EndAlike ==
    ASSUME KVInv, NEW i \in 1..Len(flight), EndStep(i), EndStep(1)
    PROVE  flight[i].blocks = flight[1].blocks /\ flight[i].tokens = flight[1].tokens
<1>1. i \in Nat /\ Len(flight) \in Nat /\ Len(flight) > 0
  BY DEF KVInv, KVTypes
<1>2. ASSUME NEW m \in 1..(i - 1)
      PROVE  flight[m + 1].blocks = flight[m].blocks /\ flight[m + 1].tokens = flight[m].tokens
  <2>1. m \in 1..(Len(flight) - 1)
    BY <1>1
  <2>2. SameStep(flight'[m], flight[m + 1])
    BY <1>1, <2>1, EndEffect
  <2> QED
    BY <2>2, EndBefore DEF SameStep
<1> DEFINE T == {m \in Nat : m < i => /\ flight[m + 1].blocks = flight[1].blocks
                                      /\ flight[m + 1].tokens = flight[1].tokens}
<1>3. 0 \in T
  OBVIOUS
<1>4. ASSUME NEW m \in Nat, m \in T PROVE m + 1 \in T
  <2>1. SUFFICES ASSUME m + 1 < i
                 PROVE  /\ flight[m + 1 + 1].blocks = flight[1].blocks
                        /\ flight[m + 1 + 1].tokens = flight[1].tokens
    OBVIOUS
  <2>2. m + 1 \in 1..(i - 1) /\ m < i
    BY <1>1, <2>1
  <2>3. flight[m + 1].blocks = flight[1].blocks /\ flight[m + 1].tokens = flight[1].tokens
    BY <1>4, <2>2
  <2> QED
    BY <1>2, <2>2, <2>3
<1> HIDE DEF T
<1>5. i - 1 \in T
  <2>1. Nat \subseteq T
    BY <1>3, <1>4, Cac!Induction
  <2>2. i - 1 \in Nat
    BY <1>1
  <2> QED
    BY <2>1, <2>2
<1> QED
  BY <1>1, <1>5 DEF T

LEMMA ReadsOwn ==
    ASSUME KVInv, NEW f, Future(f), NEW i \in 1..Len(flight), EndStep(i), EndStep(1),
           NEW k \in 1..Len(flight[i].tokens)
    PROVE  LET at == At(flight[i], k)
           IN  slot_kv'[at[1]][at[2]] = SubSeq(flight[i].tokens, 1, k)
<1>1. PICK step : step = flight[1]
  OBVIOUS
<1>2. flight[i].blocks = step.blocks /\ flight[i].tokens = step.tokens
  BY <1>1, EndAlike
<1>3. 1 \in 1..Len(flight) /\ 1 - 1 = 0
  BY DEF KVInv, KVTypes
<1>4. f[0] = slot_kv /\ f[1] = Written(f[0], step) /\ Holds(f[1], step.blocks, step.tokens, Len(step.tokens))
  BY <1>1, <1>3 DEF Future
<1>5. slot_kv' = f[1]
  <2>1. Len(flight) > 0
    BY DEF KVInv, KVTypes
  <2> QED
    BY <1>1, <1>4, <2>1, EndEffect
<1>6. f[1][step.blocks[cdiv(k, KVBlockSize)]][(k - 1) % KVBlockSize] = SubSeq(step.tokens, 1, k)
  BY <1>2, <1>4 DEF Holds
<1>7. At(flight[i], k) = <<step.blocks[cdiv(k, KVBlockSize)], (k - 1) % KVBlockSize>>
  BY <1>2 DEF At
<1> QED
  BY <1>2, <1>5, <1>6, <1>7

\* Only the end of a step takes one from those in flight.
LEMMA FewerEnds ==
    ASSUME KVInv, KVNext, Len(flight') < Len(flight)
    PROVE  EndStep(1)
<1>1. Len(flight) \in Nat
  BY DEF KVInv, KVTypes
<1>2. ASSUME NEW r \in KVRid, NEW computed, NEW from, Sends(r, computed, from) PROVE FALSE
  <2>1. PICK n, a : MaySend(r, computed, from, n, a) /\ Send(r, from, n, a)
    BY <1>2 DEF Sends, MaySend
  <2>2. Len(flight') = Len(flight) + 1
    BY <2>1, SentEffect
  <2> QED
    BY <1>1, <2>2
<1>3. ASSUME flight' = flight PROVE FALSE
  BY <1>1, <1>3
<1>4. ASSUME NEW r \in KVRid, ScheduleWaiting(r) PROVE FALSE
  <2>1. flight' = flight \/ \E computed, from : Sends(r, computed, from)
    BY <1>4, WaitingSends
  <2> QED
    BY <1>2, <1>3, <2>1
<1>5. ASSUME NEW r \in KVRid, ScheduleRunning(r) PROVE FALSE
  BY <1>2, <1>5, RunningSends
<1>6. ASSUME NEW r \in KVRid, Requeue(r) \/ Finish(r) PROVE FALSE
  BY <1>3, <1>6 DEF Requeue, Finish
<1>7. ASSUME NEW r \in KVRid, NEW p \in KVRid, Preempt(r, p) PROVE FALSE
  BY <1>3, <1>7 DEF Preempt
<1>8. CASE Work
  BY <1>8 DEF Work, NextInFlight
<1>9. CASE reset_prefix_cache
  BY <1>3, <1>9 DEF reset_prefix_cache
<1> QED
  BY <1>4, <1>5, <1>6, <1>7, <1>8, <1>9 DEF KVNext

\* A step attends over KV entries computed from its own tokens, whoever wrote
\* them: shared blocks, blocks given back by a request that was evicted or has
\* stopped while its steps in flight still write to them, and tokens that were
\* guessed and corrected included.
THEOREM OwnTokensRead == KVSpec => ReadsOwnTokens
<1> DEFINE Reads ==
        \A i \in DOMAIN flight : Len(flight') < Len(flight) /\ EndStep(i) =>
            \A k \in DOMAIN flight[i].tokens :
                LET at == At(flight[i], k)
                IN  slot_kv'[at[1]][at[2]] = SubSeq(flight[i].tokens, 1, k)
<1>1. SlotInv /\ [KVNext]_kvVars => [Reads]_kvVars
  <2> SUFFICES ASSUME SlotInv, KVNext,
                      NEW i \in DOMAIN flight, Len(flight') < Len(flight), EndStep(i),
                      NEW k \in DOMAIN flight[i].tokens
               PROVE  LET at == At(flight[i], k)
                      IN  slot_kv'[at[1]][at[2]] = SubSeq(flight[i].tokens, 1, k)
    OBVIOUS
  <2>1. KVInv
    BY DEF SlotInv
  <2>2. PICK f : Future(f)
    BY DEF SlotInv
  <2>3. flight \in Seq(StepType)
    BY <2>1 DEF KVInv, KVTypes, StepType
  <2>4. i \in 1..Len(flight) /\ flight[i] \in StepType
    BY <2>3
  <2>5. k \in 1..Len(flight[i].tokens)
    BY <2>4 DEF StepType, KVHash
  <2>6. EndStep(1)
    BY <2>1, FewerEnds
  <2> QED
    BY <2>1, <2>2, <2>4, <2>5, <2>6, ReadsOwn
<1>2. KVSpec => [][Reads]_kvVars
  <2> HIDE DEF Reads
  <2> QED
    BY <1>1, SlotsHold, PTL DEF KVSpec
<1> QED
  BY <1>2 DEF ReadsOwnTokens
=============================================================================
