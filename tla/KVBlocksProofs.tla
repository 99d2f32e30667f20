-------------------------- MODULE KVBlocksProofs --------------------------
(***************************************************************************)
(* Proofs about KVBlocks: the pool is exact, no assertion fails and the    *)
(* chains of the prefix cache are whole, for any number of requests and    *)
(* blocks, any block size, lengths, steps in flight and evictions, under   *)
(* both schedulers.                                                        *)
(*                                                                         *)
(* Pool says what a pool is like between two operations on a block, given  *)
(* the free list l and the blocks that each request owns.  There is one    *)
(* lemma for each such operation; the loops over blocks are handled by the *)
(* lemmas of Iteration.                                                    *)
(***************************************************************************)
EXTENDS KVBlocks, FiniteSetTheorems, SequenceTheorems, TLAPS

\* All tokens; the hash of a block is a list of them.
KVTok == KVToken \cup UNION {ToSet(s) : s \in KVPrompts}
KVHash == Seq(KVTok)

\* A block, or none.
Link == KVBlock \cup {NoBlock}

\* The hash of the block before.
Parent(h) == SubSeq(h, 1, Len(h) - KVBlockSize)

-----------------------------------------------------------------------------
(* A pool. *)

PoolType(p) ==
    /\ p \in [ref_cnt : [KVBlock -> Nat], block_hash : [KVBlock -> KVHash],
              prev : [KVBlock -> Link], next : [KVBlock -> Link],
              head : Link, tail : Link, num_free : Nat, cached : {p.cached}, ok : BOOLEAN]
    /\ p.ok

\* b is in the list l.
In(b, l) == \E i \in 1..Len(l) : l[i] = b

\* No block twice.
Distinct(l) == \A i, j \in 1..Len(l) : l[i] = l[j] => i = j

\* The links make up the list l.  A block that is not in it has no link back,
\* since append does not reset it when the list is empty.
Linked(p, l) ==
    /\ l \in Seq(KVBlock \ {0}) /\ Distinct(l) /\ p.num_free = Len(l)
    /\ p.head = IF Len(l) = 0 THEN NoBlock ELSE l[1]
    /\ p.tail = IF Len(l) = 0 THEN NoBlock ELSE l[Len(l)]
    /\ \A i \in 1..Len(l) : p.prev[l[i]] = IF i = 1 THEN NoBlock ELSE l[i - 1]
    /\ \A i \in 1..Len(l) : p.next[l[i]] = IF i = Len(l) THEN NoBlock ELSE l[i + 1]
    /\ \A b \in KVBlock : ~In(b, l) => p.prev[b] = NoBlock

\* own: the blocks of each request.
Holdings(own) ==
    /\ own \in [KVRid -> Seq(KVBlock \ {0})]
    /\ \A r \in KVRid : Distinct(own[r])

Owners(own, b) == {r \in KVRid : In(b, own[r])}

\* A block is counted as often as it is owned, and free if nobody owns it.
Counted(p, own, l) ==
    /\ \A b \in KVBlock : p.ref_cnt[b] = Cardinality(Owners(own, b))
    /\ \A b \in KVBlock \ {0} : In(b, l) <=> Owners(own, b) = {}

\* The prefix cache has an entry for each hash of a block, with all the blocks
\* that have this hash.
Entries(p) ==
    /\ p.cached = [h \in DOMAIN p.cached |-> p.cached[h]]
    /\ p.block_hash[0] = NoHash
    /\ \A b \in KVBlock : p.block_hash[b] # NoHash => p.block_hash[b] \in DOMAIN p.cached
    /\ \A h \in DOMAIN p.cached :
           /\ h # NoHash /\ p.cached[h] \in Seq(KVBlock) /\ p.cached[h] # <<>>
           /\ Distinct(p.cached[h])
           /\ \A b \in KVBlock : In(b, p.cached[h]) <=> p.block_hash[b] = h

\* The blocks that a request owns are a chain: the block before a hashed one has
\* the hash before.
Chain(p, s) ==
    \A i \in 1..Len(s) :
        Len(p.block_hash[s[i]]) > KVBlockSize =>
            i > 1 /\ p.block_hash[s[i - 1]] = Parent(p.block_hash[s[i]])

\* c is before x in the list.
Before(c, x, l) == \E i, j \in 1..Len(l) : i < j /\ l[i] = c /\ l[j] = x

\* Some block with the hash before outlives each hashed block: it is in use, or
\* both are free and it comes later in the list.
Outlived(p, c, l) ==
    \E x \in KVBlock : /\ p.block_hash[x] = Parent(p.block_hash[c])
                       /\ ~In(x, l) \/ Before(c, x, l)

\* A block without a hash has at most one owner.
Chains(p, own, l) ==
    /\ \A r \in KVRid : Chain(p, own[r])
    /\ \A c \in KVBlock : Len(p.block_hash[c]) > KVBlockSize => Outlived(p, c, l)
    /\ \A b \in KVBlock : \A r, q \in Owners(own, b) : r # q => p.block_hash[b] # NoHash

Pool(p, own, l) ==
    /\ PoolType(p) /\ Linked(p, l) /\ Holdings(own) /\ Counted(p, own, l)
    /\ Entries(p) /\ Chains(p, own, l)

-----------------------------------------------------------------------------
(* The invariant. *)

Own == [r \in KVRid |-> mgr[r].blocks]

SeqType ==
    [tokens : KVHash, num_prompt_tokens : Nat, num_computed_tokens : Nat,
     status : {"WAITING", "RUNNING", "DRAINING", "STOPPED", "FINISHED"}]

KVTypes ==
    /\ spexis \in BOOLEAN
    /\ mgr \in [KVRid -> [blocks : Seq(KVBlock), hashes : Seq(KVHash), num_cached : Int]]
    /\ seqs \in [KVRid -> SeqType]
    /\ flight \in Seq([r : KVRid, blocks : Seq(KVBlock), from : Nat, tokens : KVHash, live : BOOLEAN])

\* What does not depend on the prefix cache.
RequestOK(r) ==
    /\ Len(seqs[r].tokens) \in 1..KVMaxLen
    /\ seqs[r].num_computed_tokens <= Len(seqs[r].tokens)
    /\ Len(mgr[r].blocks) <= MaxBlocksPerReq
    /\ seqs[r].status \notin {"RUNNING", "STOPPED"} =>
           mgr[r].blocks = <<>> /\ mgr[r].num_cached = -1
    /\ seqs[r].status = "WAITING" => seqs[r].num_computed_tokens = 0 /\ InFlight(r) = {}

\* The hashes of a request are those of its tokens, and the blocks that are full
\* have theirs.
HashesOK(r) ==
    /\ Len(mgr[r].hashes) * KVBlockSize <= Len(seqs[r].tokens)
    /\ \A i \in 1..Len(mgr[r].hashes) :
           mgr[r].hashes[i] = SubSeq(seqs[r].tokens, 1, i * KVBlockSize)
    /\ seqs[r].status = "RUNNING" =>
           /\ mgr[r].num_cached = seqs[r].num_computed_tokens \div KVBlockSize
           /\ mgr[r].num_cached <= Len(mgr[r].hashes)
           /\ mgr[r].num_cached <= Len(mgr[r].blocks)
           /\ \A i \in 1..Len(mgr[r].blocks) :
                  pool.block_hash[mgr[r].blocks[i]] =
                      IF i <= mgr[r].num_cached THEN mgr[r].hashes[i] ELSE NoHash

KVInv ==
    /\ KVTypes
    /\ \E l \in Seq(KVBlock) : Pool(pool, Own, l)
    /\ \A r \in KVRid : RequestOK(r)
    /\ spexis => \A b \in KVBlock : pool.block_hash[b] = NoHash
    /\ ~spexis => \A r \in KVRid : HashesOK(r)

-----------------------------------------------------------------------------
(* The free list. *)

\* The list without its j-th element.
Cut(l, j) == [i \in 1..(Len(l) - 1) |-> IF i < j THEN l[i] ELSE l[i + 1]]

\* Only the links differ.
SameBlocks(q, p) ==
    q.ref_cnt = p.ref_cnt /\ q.block_hash = p.block_hash /\ q.cached = p.cached

\* What is left of a list without one element.
LEMMA CutList ==
    ASSUME NEW S, NEW l \in Seq(S), Distinct(l), NEW j \in 1..Len(l)
    PROVE  /\ Cut(l, j) \in Seq(S) /\ Len(Cut(l, j)) = Len(l) - 1 /\ Distinct(Cut(l, j))
           /\ \A i \in 1..(Len(l) - 1) : Cut(l, j)[i] = IF i < j THEN l[i] ELSE l[i + 1]
           /\ \A b : In(b, Cut(l, j)) <=> In(b, l) /\ b # l[j]
           /\ \A c, x : c # l[j] /\ x # l[j] /\ Before(c, x, l) => Before(c, x, Cut(l, j))
<1> DEFINE n == Len(l)
           m == Cut(l, j)
<1>1. n \in Nat /\ n > 0 /\ n - 1 \in Nat /\ \A i \in 1..n : l[i] \in S
  OBVIOUS
<1>2. /\ m = [i \in 1..(n - 1) |-> m[i]]
      /\ \A i \in 1..(n - 1) : m[i] = IF i < j THEN l[i] ELSE l[i + 1]
  BY DEF Cut
<1>3. \A i \in 1..(n - 1) : m[i] \in S
  BY <1>1, <1>2
<1> HIDE DEF m
<1>4. m \in Seq(S) /\ Len(m) = n - 1
  BY <1>1, <1>2, <1>3
<1>5. Distinct(m)
  BY <1>1, <1>2, <1>4 DEF Distinct
<1>6. ASSUME NEW b, In(b, m) PROVE In(b, l) /\ b # l[j]
  <2>1. PICK i \in 1..(n - 1) : m[i] = b
    BY <1>4, <1>6 DEF In
  <2>2. i \in 1..n /\ i + 1 \in 1..n
    BY <1>1
  <2> QED
    BY <1>2, <2>1, <2>2 DEF In, Distinct
<1>7. ASSUME NEW i \in 1..n, i # j
      PROVE  \E k \in 1..(n - 1) : m[k] = l[i] /\ k = IF i < j THEN i ELSE i - 1
  <2>1. CASE i < j
    BY <1>1, <1>2, <2>1
  <2>2. CASE i > j
    <3>1. i - 1 \in 1..(n - 1) /\ ~(i - 1 < j) /\ (i - 1) + 1 = i
      BY <1>1, <2>2
    <3> QED
      BY <1>2, <2>2, <3>1
  <2> QED
    BY <1>1, <1>7, <2>1, <2>2
<1>8. ASSUME NEW b, In(b, l), b # l[j] PROVE In(b, m)
  BY <1>4, <1>7, <1>8 DEF In
<1>9. ASSUME NEW c, NEW x, c # l[j], x # l[j], Before(c, x, l) PROVE Before(c, x, m)
  <2>1. PICK i, k \in 1..n : i < k /\ l[i] = c /\ l[k] = x
    BY <1>9 DEF Before
  <2>2. i # j /\ k # j
    BY <1>9, <2>1
  <2>3. PICK i2 \in 1..(n - 1) : m[i2] = l[i] /\ i2 = IF i < j THEN i ELSE i - 1
    BY <1>7, <2>2
  <2>4. PICK k2 \in 1..(n - 1) : m[k2] = l[k] /\ k2 = IF k < j THEN k ELSE k - 1
    BY <1>7, <2>2
  <2>5. i2 < k2
    BY <1>1, <2>1, <2>2, <2>3, <2>4
  <2> QED
    BY <1>4, <2>1, <2>3, <2>4, <2>5 DEF Before
<1> QED
  BY <1>2, <1>4, <1>5, <1>6, <1>8, <1>9 DEF m

\* remove takes a block out of the list, wherever it is.
LEMMA RemoveKeeps ==
    ASSUME NEW p, NEW l, PoolType(p), Linked(p, l), NEW j \in 1..Len(l)
    PROVE  /\ PoolType(remove(p, l[j])) /\ Linked(remove(p, l[j]), Cut(l, j))
           /\ SameBlocks(remove(p, l[j]), p)
<1> DEFINE n == Len(l)
           b == l[j]
           m == Cut(l, j)
           q == remove(p, b)
<1>1. /\ l \in Seq(KVBlock \ {0}) /\ Distinct(l) /\ n \in Nat /\ n > 0
      /\ \A i \in 1..n : l[i] \in KVBlock
      /\ b \in KVBlock /\ NoBlock \notin KVBlock
  BY KVAssumption DEF Linked, KVBlock, NoBlock
<1>2. /\ p.prev \in [KVBlock -> Link] /\ p.next \in [KVBlock -> Link]
      /\ p.head \in Link /\ p.tail \in Link /\ p.num_free = n
  BY DEF PoolType, Linked
<1>3. /\ m \in Seq(KVBlock \ {0}) /\ Len(m) = n - 1 /\ Distinct(m)
      /\ \A i \in 1..(n - 1) : m[i] = IF i < j THEN l[i] ELSE l[i + 1]
      /\ \A x : In(x, m) <=> In(x, l) /\ x # b
  BY <1>1, CutList
<1>4. /\ p.prev[b] = IF j = 1 THEN NoBlock ELSE l[j - 1]
      /\ p.next[b] = IF j = n THEN NoBlock ELSE l[j + 1]
  BY DEF Linked
<1>5. /\ q.next = [x \in KVBlock |-> CASE x = b -> NoBlock
                                       [] x # b /\ x = p.prev[b] -> p.next[b]
                                       [] OTHER -> p.next[x]]
      /\ q.prev = [x \in KVBlock |-> CASE x = b -> NoBlock
                                       [] x # b /\ x = p.next[b] -> p.prev[b]
                                       [] OTHER -> p.prev[x]]
      /\ q.head = (IF p.head = b THEN p.next[b] ELSE p.head)
      /\ q.tail = (IF p.tail = b THEN p.prev[b] ELSE p.tail)
      /\ q.num_free = p.num_free - 1
      /\ q.ref_cnt = p.ref_cnt /\ q.block_hash = p.block_hash /\ q.cached = p.cached
  BY DEF PoolType, remove
<1>6. /\ q.prev \in [KVBlock -> Link] /\ q.next \in [KVBlock -> Link]
      /\ q.head \in Link /\ q.tail \in Link /\ q.num_free \in Nat
  BY <1>1, <1>2, <1>5 DEF Link
<1>7. PoolType(q)
  <2>1. /\ DOMAIN q = DOMAIN p /\ q.ok = p.ok
        /\ q = [x \in DOMAIN p |-> q[x]]
    BY DEF PoolType, remove
  <2> HIDE DEF q
  <2> QED
    BY <1>5, <1>6, <2>1 DEF PoolType
<1> HIDE DEF q, m
<1>8. \A i \in 1..n : /\ l[i] # b <=> i # j
                      /\ (j > 1 => l[i] = l[j - 1] <=> i = j - 1)
                      /\ (j < n => l[i] = l[j + 1] <=> i = j + 1)
  BY <1>1 DEF Distinct
<1>9. /\ q.head = IF Len(m) = 0 THEN NoBlock ELSE m[1]
      /\ q.tail = IF Len(m) = 0 THEN NoBlock ELSE m[Len(m)]
      /\ q.num_free = Len(m)
  <2>1. p.head = l[1] /\ p.tail = l[n]
    BY <1>1 DEF Linked
  <2>2. (p.head = b <=> j = 1) /\ (p.tail = b <=> j = n)
    BY <1>1, <1>8, <2>1
  <2>3. q.head = IF Len(m) = 0 THEN NoBlock ELSE m[1]
    BY <1>1, <1>3, <1>4, <1>5, <2>1, <2>2
  <2>4. q.tail = IF Len(m) = 0 THEN NoBlock ELSE m[Len(m)]
    <3>1. CASE j = n
      <4>1. q.tail = IF n = 1 THEN NoBlock ELSE l[n - 1]
        BY <1>4, <1>5, <2>2, <3>1
      <4>2. n > 1 => n - 1 \in 1..(n - 1) /\ m[n - 1] = l[n - 1]
        BY <1>1, <1>3, <3>1
      <4> QED
        BY <1>1, <1>3, <4>1, <4>2
    <3>2. CASE j < n
      <4>1. q.tail = l[n]
        BY <1>5, <2>1, <2>2, <3>2
      <4>2. n - 1 \in 1..(n - 1) /\ ~(n - 1 < j) /\ (n - 1) + 1 = n /\ m[n - 1] = l[n]
        BY <1>1, <1>3, <3>2
      <4> QED
        BY <1>1, <1>3, <4>1, <4>2
    <3> QED
      BY <1>1, <3>1, <3>2
  <2> QED
    BY <1>2, <1>3, <1>5, <2>3, <2>4
<1>10. ASSUME NEW i \in 1..n, i # j
       PROVE  /\ q.prev[l[i]] = IF i = j + 1 THEN p.prev[b] ELSE p.prev[l[i]]
              /\ q.next[l[i]] = IF i = j - 1 THEN p.next[b] ELSE p.next[l[i]]
  BY <1>1, <1>4, <1>5, <1>8, <1>10
<1>11. ASSUME NEW i \in 1..Len(m)
       PROVE  /\ q.prev[m[i]] = IF i = 1 THEN NoBlock ELSE m[i - 1]
              /\ q.next[m[i]] = IF i = Len(m) THEN NoBlock ELSE m[i + 1]
  <2>0. /\ \A k \in 1..n : p.prev[l[k]] = IF k = 1 THEN NoBlock ELSE l[k - 1]
        /\ \A k \in 1..n : p.next[l[k]] = IF k = n THEN NoBlock ELSE l[k + 1]
    BY DEF Linked
  <2>1. CASE i < j
    <3>1. i \in 1..n /\ i # j /\ m[i] = l[i] /\ (i > 1 => m[i - 1] = l[i - 1])
      BY <1>1, <1>3, <2>1
    <3>2. i < Len(m) => m[i + 1] = IF i + 1 < j THEN l[i + 1] ELSE l[i + 2]
      BY <1>1, <1>3
    <3> QED
      BY <1>1, <1>3, <1>4, <1>10, <2>0, <2>1, <3>1, <3>2
  <2>2. CASE i >= j
    <3>1. i + 1 \in 1..n /\ i + 1 # j /\ m[i] = l[i + 1] /\ (i < Len(m) => m[i + 1] = l[i + 2])
      BY <1>1, <1>3, <2>2
    <3>2. i > 1 => m[i - 1] = IF i - 1 < j THEN l[i - 1] ELSE l[i]
      BY <1>1, <1>3
    <3>3. q.prev[l[i + 1]] = IF i = 1 THEN NoBlock ELSE m[i - 1]
      <4>1. CASE i = j
        <5>1. q.prev[l[i + 1]] = p.prev[b]
          BY <1>10, <3>1, <4>1
        <5> QED
          BY <1>1, <1>4, <3>2, <4>1, <5>1
      <4>2. CASE i > j
        <5>1. q.prev[l[i + 1]] = p.prev[l[i + 1]] /\ p.prev[l[i + 1]] = l[i]
          BY <1>1, <1>10, <2>0, <3>1, <4>2
        <5> QED
          BY <1>1, <3>2, <4>2, <5>1
      <4> QED
        BY <1>1, <1>3, <2>2, <4>1, <4>2
    <3>4. q.next[l[i + 1]] = IF i = Len(m) THEN NoBlock ELSE m[i + 1]
      <4>1. q.next[l[i + 1]] = p.next[l[i + 1]]
        BY <1>1, <1>10, <2>2, <3>1
      <4> QED
        BY <1>1, <1>3, <2>0, <3>1, <4>1
    <3> QED
      BY <3>1, <3>3, <3>4
  <2> QED
    BY <1>3, <2>1, <2>2
<1>12. ASSUME NEW x \in KVBlock, ~In(x, m) PROVE q.prev[x] = NoBlock
  <2>1. CASE x = b
    BY <1>5, <2>1
  <2>2. CASE x # b
    <3>1. ~In(x, l) /\ p.prev[x] = NoBlock
      BY <1>3, <1>12, <2>2 DEF Linked
    <3>2. x # p.next[b]
      BY <1>1, <1>4, <3>1 DEF In
    <3> QED
      BY <1>5, <2>2, <3>1, <3>2
  <2> QED
    BY <2>1, <2>2
<1>13. Linked(q, m)
  BY <1>3, <1>9, <1>11, <1>12 DEF Linked
<1> QED
  BY <1>5, <1>7, <1>13 DEF SameBlocks, q, m

\* append puts a block at the end of the list.
LEMMA AppendKeeps ==
    ASSUME NEW p, NEW l, PoolType(p), Linked(p, l), NEW b \in KVBlock \ {0}, ~In(b, l)
    PROVE  /\ PoolType(append(p, b)) /\ Linked(append(p, b), Append(l, b))
           /\ SameBlocks(append(p, b), p)
<1> DEFINE n == Len(l)
           m == Append(l, b)
           q == append(p, b)
<1>1. /\ l \in Seq(KVBlock \ {0}) /\ Distinct(l) /\ n \in Nat
      /\ \A i \in 1..n : l[i] \in KVBlock
      /\ b \in KVBlock /\ NoBlock \notin KVBlock
  BY KVAssumption DEF Linked, KVBlock, NoBlock
<1>2. /\ p.prev \in [KVBlock -> Link] /\ p.next \in [KVBlock -> Link]
      /\ p.head \in Link /\ p.tail \in Link /\ p.num_free = n /\ p.ok = TRUE
  BY DEF PoolType, Linked
<1>3. /\ m \in Seq(KVBlock \ {0}) /\ Len(m) = n + 1 /\ m[n + 1] = b
      /\ \A i \in 1..n : m[i] = l[i]
  BY <1>1
<1>4. /\ \A i \in 1..n : l[i] # b
      /\ p.tail # NoBlock <=> n > 0
      /\ n > 0 => p.tail = l[n] /\ p.head = l[1]
      /\ n = 0 => p.head = NoBlock
      /\ p.prev[b] = NoBlock
  BY <1>1 DEF Linked, In
<1>5. /\ q.next = [x \in KVBlock |-> IF x = b THEN NoBlock ELSE
                                     IF n > 0 /\ x = l[n] THEN b ELSE p.next[x]]
      /\ q.prev = [x \in KVBlock |-> IF x = b /\ n > 0 THEN l[n] ELSE p.prev[x]]
      /\ q.head = (IF n = 0 THEN b ELSE p.head)
      /\ q.tail = b
      /\ q.num_free = p.num_free + 1
      /\ q.ref_cnt = p.ref_cnt /\ q.block_hash = p.block_hash /\ q.cached = p.cached
      /\ q.ok = TRUE
  <2>0. DOMAIN p = {"ref_cnt", "block_hash", "prev", "next", "head", "tail", "num_free", "cached", "ok"}
    BY DEF PoolType
  <2>1. CASE n > 0
    <3>1. p.tail = l[n] /\ p.tail # NoBlock /\ l[n] \in KVBlock /\ l[n] # b
      BY <1>1, <1>4, <2>1
    <3>2. q = [p EXCEPT !.next = [p.next EXCEPT ![p.tail] = b, ![b] = NoBlock],
                        !.prev = [p.prev EXCEPT ![b] = p.tail], !.tail = b,
                        !.num_free = p.num_free + 1]
      BY <3>1 DEF append
    <3>3. /\ q.next = [p.next EXCEPT ![p.tail] = b, ![b] = NoBlock]
          /\ q.prev = [p.prev EXCEPT ![b] = p.tail]
          /\ q.head = p.head /\ q.tail = b /\ q.num_free = p.num_free + 1
          /\ q.ref_cnt = p.ref_cnt /\ q.block_hash = p.block_hash /\ q.cached = p.cached
          /\ q.ok = p.ok
      BY <2>0, <3>2
    <3> HIDE DEF q
    <3>4. q.next = [x \in KVBlock |-> IF x = b THEN NoBlock ELSE
                                      IF n > 0 /\ x = l[n] THEN b ELSE p.next[x]]
      BY <1>1, <1>2, <2>1, <3>1, <3>3
    <3>5. q.prev = [x \in KVBlock |-> IF x = b /\ n > 0 THEN l[n] ELSE p.prev[x]]
      BY <1>1, <1>2, <2>1, <3>1, <3>3
    <3> QED
      BY <1>2, <2>1, <3>3, <3>4, <3>5
  <2>2. CASE n = 0
    <3>1. p.tail = NoBlock /\ p.head = NoBlock
      BY <1>4, <2>2
    <3>2. q = [p EXCEPT !.ok = p.ok /\ p.head = NoBlock,
                        !.head = b, !.tail = b, !.next = [p.next EXCEPT ![b] = NoBlock],
                        !.num_free = p.num_free + 1]
      BY <3>1 DEF append
    <3>3. /\ q.next = [p.next EXCEPT ![b] = NoBlock]
          /\ q.prev = p.prev
          /\ q.head = b /\ q.tail = b /\ q.num_free = p.num_free + 1
          /\ q.ref_cnt = p.ref_cnt /\ q.block_hash = p.block_hash /\ q.cached = p.cached
          /\ q.ok = (p.ok /\ p.head = NoBlock)
      BY <2>0, <3>2
    <3> HIDE DEF q
    <3>4. q.next = [x \in KVBlock |-> IF x = b THEN NoBlock ELSE
                                      IF n > 0 /\ x = l[n] THEN b ELSE p.next[x]]
      BY <1>1, <1>2, <2>2, <3>1, <3>3
    <3>5. q.prev = [x \in KVBlock |-> IF x = b /\ n > 0 THEN l[n] ELSE p.prev[x]]
      BY <1>1, <1>2, <2>2, <3>1, <3>3
    <3> QED
      BY <1>2, <2>2, <3>1, <3>3, <3>4, <3>5
  <2>3. n > 0 \/ n = 0
    BY <1>1
  <2> HIDE DEF q, n
  <2> QED
    BY <2>1, <2>2, <2>3
<1>6. /\ q.prev \in [KVBlock -> Link] /\ q.next \in [KVBlock -> Link]
      /\ q.head \in Link /\ q.tail \in Link /\ q.num_free \in Nat
  BY <1>1, <1>2, <1>5 DEF Link
<1>7. PoolType(q)
  <2>1. /\ DOMAIN q = DOMAIN p
        /\ q = [x \in DOMAIN p |-> q[x]]
    BY DEF PoolType, append
  <2> HIDE DEF q
  <2> QED
    BY <1>5, <1>6, <2>1 DEF PoolType
<1> HIDE DEF q, m
<1>8. Distinct(m)
  BY <1>1, <1>3, <1>4 DEF Distinct
<1>9. ASSUME NEW i \in 1..(n + 1)
      PROVE  /\ q.prev[m[i]] = IF i = 1 THEN NoBlock ELSE m[i - 1]
             /\ q.next[m[i]] = IF i = n + 1 THEN NoBlock ELSE m[i + 1]
  <2>1. CASE i = n + 1
    BY <1>1, <1>3, <1>4, <1>5, <2>1
  <2>2. CASE i \in 1..n
    <3>1. l[i] # b /\ (l[i] = l[n] <=> i = n) /\ m[i] = l[i] /\ l[i] \in KVBlock
          /\ (i > 1 => m[i - 1] = l[i - 1]) /\ m[i + 1] = IF i = n THEN b ELSE l[i + 1]
      BY <1>1, <1>3, <1>4, <2>2 DEF Distinct
    <3>2. /\ p.prev[l[i]] = IF i = 1 THEN NoBlock ELSE l[i - 1]
          /\ p.next[l[i]] = IF i = n THEN NoBlock ELSE l[i + 1]
      BY <2>2 DEF Linked
    <3> QED
      BY <1>1, <1>5, <2>2, <3>1, <3>2
  <2> QED
    BY <1>1, <2>1, <2>2
<1>10. ASSUME NEW x \in KVBlock, ~In(x, m) PROVE q.prev[x] = NoBlock
  <2>1. x # b /\ ~In(x, l)
    BY <1>1, <1>3, <1>10 DEF In
  <2> QED
    BY <1>5, <2>1 DEF Linked
<1>11. /\ q.head = IF Len(m) = 0 THEN NoBlock ELSE m[1]
       /\ q.tail = IF Len(m) = 0 THEN NoBlock ELSE m[Len(m)]
       /\ q.num_free = Len(m)
  BY <1>1, <1>2, <1>3, <1>4, <1>5
<1>12. Linked(q, m)
  BY <1>3, <1>8, <1>9, <1>10, <1>11 DEF Linked
<1> QED
  BY <1>5, <1>7, <1>12 DEF SameBlocks, q, m

-----------------------------------------------------------------------------
(* Owners. *)

\* The reference counts change for one block, and nothing else does.
Recount(p, b, n) == [p EXCEPT !.ref_cnt[b] = n]

\* Only the count of b changes.
LEMMA RecountKeeps ==
    ASSUME NEW p, PoolType(p), NEW b \in KVBlock, NEW n \in Nat
    PROVE  LET q == Recount(p, b, n)
           IN  /\ PoolType(q)
               /\ q.ref_cnt = [p.ref_cnt EXCEPT ![b] = n]
               /\ q.block_hash = p.block_hash /\ q.cached = p.cached
               /\ \A l : Linked(q, l) <=> Linked(p, l)
<1> DEFINE q == Recount(p, b, n)
<1>1. DOMAIN p = {"ref_cnt", "block_hash", "prev", "next", "head", "tail", "num_free", "cached", "ok"}
  BY DEF PoolType
<1>2. /\ q.ref_cnt = [p.ref_cnt EXCEPT ![b] = n]
      /\ q.block_hash = p.block_hash /\ q.cached = p.cached
      /\ q.prev = p.prev /\ q.next = p.next /\ q.head = p.head /\ q.tail = p.tail
      /\ q.num_free = p.num_free /\ q.ok = p.ok
  BY <1>1 DEF Recount
<1>3. PoolType(q)
  <2>1. q = [x \in DOMAIN p |-> q[x]]
    BY DEF PoolType, Recount
  <2>2. q.ref_cnt \in [KVBlock -> Nat]
    BY <1>2 DEF PoolType
  <2> HIDE DEF q
  <2> QED
    BY <1>1, <1>2, <2>1, <2>2 DEF PoolType
<1> HIDE DEF q
<1>4. \A l : Linked(q, l) <=> Linked(p, l)
  BY <1>2 DEF Linked
<1> QED
  BY <1>2, <1>3, <1>4 DEF q

\* A list with one more element.
LEMMA AppendList ==
    ASSUME NEW S, NEW l \in Seq(S), Distinct(l), NEW b \in S, ~In(b, l)
    PROVE  /\ Append(l, b) \in Seq(S) /\ Len(Append(l, b)) = Len(l) + 1
           /\ Distinct(Append(l, b))
           /\ \A x : In(x, Append(l, b)) <=> In(x, l) \/ x = b
           /\ \A c, x : Before(c, x, l) => Before(c, x, Append(l, b))
           /\ \A c : In(c, l) => Before(c, b, Append(l, b))
<1> DEFINE n == Len(l)
           m == Append(l, b)
<1>1. /\ m \in Seq(S) /\ Len(m) = n + 1 /\ m[n + 1] = b /\ n \in Nat
      /\ \A i \in 1..n : m[i] = l[i]
  OBVIOUS
<1> HIDE DEF m
<1>2. Distinct(m)
  BY <1>1 DEF Distinct, In
<1>3. \A x : In(x, m) <=> In(x, l) \/ x = b
  <2>1. ASSUME NEW x, In(x, m) PROVE In(x, l) \/ x = b
    BY <1>1, <2>1 DEF In
  <2>2. ASSUME NEW x, In(x, l) PROVE In(x, m)
    BY <1>1, <2>2 DEF In
  <2>3. In(b, m)
    BY <1>1 DEF In
  <2> QED
    BY <2>1, <2>2, <2>3
<1>4. ASSUME NEW c, NEW x, Before(c, x, l) PROVE Before(c, x, m)
  BY <1>1, <1>4 DEF Before
<1>5. ASSUME NEW c, In(c, l) PROVE Before(c, b, m)
  BY <1>1, <1>5 DEF Before, In
<1> QED
  BY <1>1, <1>2, <1>3, <1>4, <1>5 DEF m

\* The number of owners is a number.
LEMMA OwnersFinite ==
    ASSUME NEW own, NEW b
    PROVE  /\ IsFiniteSet(Owners(own, b)) /\ Cardinality(Owners(own, b)) \in Nat
           /\ Cardinality(Owners(own, b)) = 0 <=> Owners(own, b) = {}
<1>1. IsFiniteSet(Owners(own, b))
  BY KVAssumption, FS_Subset DEF Owners
<1> QED
  BY <1>1, FS_CardinalityType, FS_EmptySet

\* r gets b.
LEMMA OneMoreOwner ==
    ASSUME NEW own, Holdings(own), NEW r \in KVRid, NEW b \in KVBlock \ {0}, ~In(b, own[r])
    PROVE  LET more == [own EXCEPT ![r] = Append(@, b)]
           IN  /\ Holdings(more)
               /\ \A x : x # b => Owners(more, x) = Owners(own, x)
               /\ Owners(more, b) = Owners(own, b) \cup {r}
               /\ Cardinality(Owners(more, b)) = Cardinality(Owners(own, b)) + 1
<1> DEFINE more == [own EXCEPT ![r] = Append(own[r], b)]
<1>1. /\ own \in [KVRid -> Seq(KVBlock \ {0})] /\ own[r] \in Seq(KVBlock \ {0}) /\ Distinct(own[r])
  BY DEF Holdings
<1>2. /\ more \in [KVRid -> Seq(KVBlock \ {0})]
      /\ more[r] = Append(own[r], b)
      /\ \A q \in KVRid : q # r => more[q] = own[q]
  BY <1>1
<1> HIDE DEF more
<1>3. /\ Distinct(more[r])
      /\ \A x : In(x, more[r]) <=> In(x, own[r]) \/ x = b
  BY <1>1, <1>2, AppendList
<1>4. Holdings(more)
  BY <1>2, <1>3 DEF Holdings
<1>5. ASSUME NEW x, x # b PROVE Owners(more, x) = Owners(own, x)
  BY <1>2, <1>3, <1>5 DEF Owners
<1>6. Owners(more, b) = Owners(own, b) \cup {r} /\ r \notin Owners(own, b)
  BY <1>2, <1>3 DEF Owners
<1>7. Cardinality(Owners(more, b)) = Cardinality(Owners(own, b)) + 1
  BY <1>6, OwnersFinite, FS_AddElement
<1> QED
  BY <1>4, <1>5, <1>6, <1>7 DEF more

\* r loses its last block.
LEMMA OneLessOwner ==
    ASSUME NEW own, Holdings(own), NEW r \in KVRid, Len(own[r]) > 0
    PROVE  LET less == [own EXCEPT ![r] = Front(@)]
               b == Last(own[r])
           IN  /\ b \in KVBlock \ {0} /\ Holdings(less)
               /\ \A x : x # b => Owners(less, x) = Owners(own, x)
               /\ Owners(less, b) = Owners(own, b) \ {r} /\ r \in Owners(own, b)
               /\ Cardinality(Owners(less, b)) = Cardinality(Owners(own, b)) - 1
<1> DEFINE s == own[r]
           less == [own EXCEPT ![r] = Front(s)]
           b == Last(s)
<1>1. /\ own \in [KVRid -> Seq(KVBlock \ {0})] /\ s \in Seq(KVBlock \ {0}) /\ Distinct(s)
      /\ Len(s) \in Nat
  BY DEF Holdings
<1>2. /\ b = s[Len(s)] /\ b \in KVBlock \ {0}
      /\ Front(s) \in Seq(KVBlock \ {0}) /\ Len(Front(s)) = Len(s) - 1
      /\ \A i \in 1..(Len(s) - 1) : Front(s)[i] = s[i]
  <2>1. Front(s) = SubSeq(s, 1, Len(s) - 1) /\ b = s[Len(s)]
    BY DEF Front, Last
  <2> HIDE DEF s
  <2>2. Len(s) > 0
    BY DEF s
  <2>3. Front(s) = [i \in 1..(Len(s) - 1) |-> s[i]]
    BY <1>1, <2>1, <2>2
  <2>4. Len(s) - 1 \in Nat /\ \A i \in 1..Len(s) : s[i] \in KVBlock \ {0}
    BY <1>1, <2>2
  <2>5. \A i \in 1..(Len(s) - 1) : s[i] \in KVBlock \ {0}
    BY <2>4
  <2>6. Front(s) \in Seq(KVBlock \ {0}) /\ Len(Front(s)) = Len(s) - 1
    BY <2>3, <2>4, <2>5
  <2>7. b \in KVBlock \ {0}
    BY <1>1, <2>1, <2>2, <2>4
  <2> QED
    BY <2>1, <2>3, <2>6, <2>7
<1>3. /\ less \in [KVRid -> Seq(KVBlock \ {0})]
      /\ less[r] = Front(s)
      /\ \A q \in KVRid : q # r => less[q] = own[q]
  BY <1>1, <1>2
<1> HIDE DEF less, b
<1>4. Distinct(Front(s))
  BY <1>1, <1>2 DEF Distinct
<1>5. \A x : In(x, Front(s)) <=> In(x, s) /\ x # b
  <2>1. ASSUME NEW x, In(x, Front(s)) PROVE In(x, s) /\ x # b
    BY <1>1, <1>2, <2>1 DEF In, Distinct
  <2>2. ASSUME NEW x, In(x, s), x # b PROVE In(x, Front(s))
    BY <1>1, <1>2, <2>2 DEF In
  <2> QED
    BY <2>1, <2>2
<1>6. Holdings(less)
  BY <1>1, <1>3, <1>4 DEF Holdings
<1>7. ASSUME NEW x, x # b PROVE Owners(less, x) = Owners(own, x)
  BY <1>3, <1>5, <1>7 DEF Owners
<1>8. Owners(less, b) = Owners(own, b) \ {r} /\ r \in Owners(own, b)
  <2>1. In(b, s)
    BY <1>1, <1>2 DEF In
  <2> QED
    BY <1>3, <1>5, <2>1 DEF Owners
<1>9. Cardinality(Owners(less, b)) = Cardinality(Owners(own, b)) - 1
  BY <1>8, OwnersFinite, FS_RemoveElement
<1> QED
  BY <1>2, <1>6, <1>7, <1>8, <1>9 DEF less, b

-----------------------------------------------------------------------------
(* One operation on one block. *)

\* The hash before is another one.
LEMMA ParentHash ==
    ASSUME NEW h \in KVHash, Len(h) > KVBlockSize
    PROVE  /\ Parent(h) \in KVHash /\ Len(Parent(h)) = Len(h) - KVBlockSize
           /\ Parent(h) # NoHash /\ Parent(h) # h /\ h # NoHash
<1>1. Len(h) \in Nat /\ KVBlockSize \in Nat /\ KVBlockSize > 0 /\ Len(h) - KVBlockSize \in 1..Len(h)
  BY KVAssumption DEF KVHash
<1>2. Parent(h) = [i \in 1..(Len(h) - KVBlockSize) |-> h[i]]
  BY <1>1 DEF Parent, KVHash
<1>3. \A i \in 1..(Len(h) - KVBlockSize) : h[i] \in KVTok
  BY <1>1 DEF KVHash
<1>4. Parent(h) \in KVHash /\ Len(Parent(h)) = Len(h) - KVBlockSize
  BY <1>1, <1>2, <1>3 DEF KVHash
<1> QED
  BY <1>1, <1>4 DEF NoHash

\* Whoever owns a block, it is not in the free list.
LEMMA OwnedNotFree ==
    ASSUME NEW p, NEW own, NEW l, Pool(p, own, l), NEW r \in KVRid, NEW i \in 1..Len(own[r])
    PROVE  /\ own[r][i] \in KVBlock \ {0} /\ ~In(own[r][i], l)
           /\ r \in Owners(own, own[r][i])
<1>1. own[r] \in Seq(KVBlock \ {0})
  BY DEF Pool, Holdings
<1>2. own[r][i] \in KVBlock \ {0} /\ r \in Owners(own, own[r][i])
  BY <1>1 DEF In, Owners
<1> QED
  BY <1>2 DEF Pool, Counted

\* b may come after the blocks of s.
Continues(p, s, b) ==
    Len(p.block_hash[b]) > KVBlockSize =>
        Len(s) > 0 /\ p.block_hash[s[Len(s)]] = Parent(p.block_hash[b])

\* The pool in which b has been touched for r.
Touched(p, q, own, r, b) ==
    /\ \E m : Pool(q, [own EXCEPT ![r] = Append(@, b)], m)
    /\ q.block_hash = p.block_hash /\ q.cached = p.cached
    /\ q.ref_cnt = [p.ref_cnt EXCEPT ![b] = p.ref_cnt[b] + 1]
    /\ q.num_free = IF p.ref_cnt[b] = 0 THEN p.num_free - 1 ELSE p.num_free

\* touch takes a hit block out of the free list and counts the request.
LEMMA TouchKeeps ==
    ASSUME NEW p, NEW own, NEW l, Pool(p, own, l), NEW r \in KVRid,
           NEW b \in KVBlock \ {0}, ~In(b, own[r]),
           p.block_hash[b] # NoHash, Continues(p, own[r], b)
    PROVE  Touched(p, TouchBlock(p, b), own, r, b)
<1> DEFINE more == [own EXCEPT ![r] = Append(@, b)]
           p1 == IF p.ref_cnt[b] = 0 THEN remove(p, b) ELSE p
           q == TouchBlock(p, b)
<1>1. /\ PoolType(p) /\ Linked(p, l) /\ Holdings(own) /\ Counted(p, own, l)
      /\ Entries(p) /\ Chains(p, own, l)
      /\ own \in [KVRid -> Seq(KVBlock \ {0})] /\ p.ref_cnt \in [KVBlock -> Nat]
      /\ p.block_hash \in [KVBlock -> KVHash] /\ p.num_free \in Nat
  BY DEF Pool, PoolType, Holdings
<1>2. /\ Holdings(more)
      /\ \A x : x # b => Owners(more, x) = Owners(own, x)
      /\ Owners(more, b) = Owners(own, b) \cup {r}
      /\ Cardinality(Owners(more, b)) = Cardinality(Owners(own, b)) + 1
  BY <1>1, OneMoreOwner
<1>3. /\ p.ref_cnt[b] = Cardinality(Owners(own, b))
      /\ p.ref_cnt[b] = 0 <=> In(b, l)
  BY <1>1, OwnersFinite DEF Counted
<1>4. PICK m : /\ PoolType(p1) /\ Linked(p1, m) /\ SameBlocks(p1, p)
               /\ \A x : In(x, m) <=> In(x, l) /\ x # b
               /\ \A c, x : c # b /\ x # b /\ Before(c, x, l) => Before(c, x, m)
               /\ p1.num_free = IF p.ref_cnt[b] = 0 THEN p.num_free - 1 ELSE p.num_free
  <2>1. CASE p.ref_cnt[b] = 0
    <3>1. PICK j \in 1..Len(l) : l[j] = b
      BY <1>3, <2>1 DEF In
    <3>2. l \in Seq(KVBlock \ {0}) /\ Distinct(l) /\ p.num_free = Len(l)
      BY <1>1 DEF Linked
    <3>3. p1 = remove(p, l[j])
      BY <2>1, <3>1
    <3> HIDE DEF p1
    <3>4. PoolType(p1) /\ Linked(p1, Cut(l, j)) /\ SameBlocks(p1, p)
      BY <1>1, <3>3, RemoveKeeps
    <3>5. p1.num_free = Len(l) - 1
      BY <3>2, <3>4, CutList DEF Linked
    <3>6. /\ \A x : In(x, Cut(l, j)) <=> In(x, l) /\ x # b
          /\ \A c, x : c # b /\ x # b /\ Before(c, x, l) => Before(c, x, Cut(l, j))
      BY <3>1, <3>2, CutList
    <3> QED
      BY <2>1, <3>2, <3>4, <3>5, <3>6
  <2>2. CASE p.ref_cnt[b] # 0
    <3>1. p1 = p /\ ~In(b, l)
      BY <1>3, <2>2
    <3>2. \A x : In(x, l) <=> In(x, l) /\ x # b
      BY <3>1
    <3> QED
      BY <1>1, <2>2, <3>1, <3>2 DEF SameBlocks
  <2> QED
    BY <2>1, <2>2
<1>5. q = Recount(p1, b, p1.ref_cnt[b] + 1)
  BY DEF TouchBlock, Recount
<1> HIDE DEF p1, q
<1>6. /\ p1.ref_cnt = p.ref_cnt /\ p1.block_hash = p.block_hash /\ p1.cached = p.cached
      /\ p1.ref_cnt[b] + 1 \in Nat
  BY <1>1, <1>4 DEF SameBlocks
<1>7. /\ PoolType(q) /\ Linked(q, m)
      /\ q.ref_cnt = [p.ref_cnt EXCEPT ![b] = p.ref_cnt[b] + 1]
      /\ q.block_hash = p.block_hash /\ q.cached = p.cached
  BY <1>4, <1>5, <1>6, RecountKeeps
<1>8. q.num_free = p1.num_free
  BY <1>4, <1>7 DEF Linked
<1> HIDE DEF more
<1>9. Counted(q, more, m)
  <2>1. \A x \in KVBlock : q.ref_cnt[x] = Cardinality(Owners(more, x))
    BY <1>1, <1>2, <1>3, <1>7 DEF Counted
  <2>2. \A x \in KVBlock \ {0} : In(x, m) <=> Owners(more, x) = {}
    BY <1>1, <1>2, <1>4 DEF Counted
  <2> QED
    BY <2>1, <2>2 DEF Counted
<1>10. Entries(q)
  BY <1>1, <1>7 DEF Entries
<1>11. Chains(q, more, m)
  <2>1. ASSUME NEW x \in KVRid PROVE Chain(q, more[x])
    <3>1. CASE x # r
      <4>1. more[x] = own[x]
        BY <1>1, <3>1 DEF more
      <4>2. Chain(p, own[x])
        BY <1>1 DEF Chains
      <4> QED
        BY <1>7, <4>1, <4>2 DEF Chain
    <3>2. CASE x = r
      <4>1. more[r] = Append(own[r], b) /\ own[r] \in Seq(KVBlock \ {0}) /\ Chain(p, own[r])
        BY <1>1 DEF more, Chains
      <4>2. /\ Len(more[r]) = Len(own[r]) + 1 /\ more[r][Len(own[r]) + 1] = b /\ Len(own[r]) \in Nat
            /\ \A i \in 1..Len(own[r]) : more[r][i] = own[r][i]
        BY <4>1
      <4>3. ASSUME NEW i \in 1..Len(more[r]), Len(q.block_hash[more[r][i]]) > KVBlockSize
            PROVE  i > 1 /\ q.block_hash[more[r][i - 1]] = Parent(q.block_hash[more[r][i]])
        <5>1. CASE i \in 1..Len(own[r])
          <6>1. i > 1 /\ p.block_hash[own[r][i - 1]] = Parent(p.block_hash[own[r][i]])
            BY <1>7, <4>1, <4>2, <4>3, <5>1 DEF Chain
          <6> QED
            BY <1>7, <4>2, <5>1, <6>1
        <5>2. CASE i = Len(own[r]) + 1
          <6>1. Len(own[r]) > 0 /\ p.block_hash[own[r][Len(own[r])]] = Parent(p.block_hash[b])
            BY <1>7, <4>2, <4>3, <5>2 DEF Continues
          <6> QED
            BY <1>7, <4>2, <5>2, <6>1
        <5> QED
          BY <4>2, <4>3, <5>1, <5>2
      <4> QED
        BY <3>2, <4>3 DEF Chain
    <3> QED
      BY <3>1, <3>2
  <2>2. ASSUME NEW c \in KVBlock, Len(q.block_hash[c]) > KVBlockSize PROVE Outlived(q, c, m)
    <3>1. CASE c = b
      <4>1. /\ Len(own[r]) > 0 /\ p.block_hash[own[r][Len(own[r])]] = Parent(p.block_hash[b])
        BY <1>7, <2>2, <3>1 DEF Continues
      <4>2. own[r][Len(own[r])] \in KVBlock /\ ~In(own[r][Len(own[r])], l)
        <5>1. Len(own[r]) \in 1..Len(own[r])
          BY <1>1, <4>1
        <5> QED
          BY <5>1, OwnedNotFree
      <4> QED
        BY <1>4, <1>7, <3>1, <4>1, <4>2 DEF Outlived
    <3>2. CASE c # b
      <4>1. PICK x \in KVBlock : /\ p.block_hash[x] = Parent(p.block_hash[c])
                                 /\ ~In(x, l) \/ Before(c, x, l)
        BY <1>1, <1>7, <2>2 DEF Chains, Outlived
      <4>2. ~In(x, m) \/ Before(c, x, m)
        BY <1>4, <3>2, <4>1
      <4> QED
        BY <1>7, <4>1, <4>2 DEF Outlived
    <3> QED
      BY <3>1, <3>2
  <2>3. ASSUME NEW x \in KVBlock, NEW r1 \in Owners(more, x), NEW r2 \in Owners(more, x), r1 # r2
        PROVE  q.block_hash[x] # NoHash
    <3>1. CASE x = b
      BY <1>7, <3>1
    <3>2. CASE x # b
      BY <1>1, <1>2, <1>7, <2>3, <3>2 DEF Chains
    <3> QED
      BY <3>1, <3>2
  <2> QED
    BY <2>1, <2>2, <2>3 DEF Chains
<1>12. Pool(q, more, m)
  BY <1>2, <1>7, <1>9, <1>10, <1>11 DEF Pool
<1> QED
  BY <1>4, <1>7, <1>8, <1>12 DEF Touched, q, more

\* Of an entry with several blocks one is removed.
LEMMA EntryWithout ==
    ASSUME NEW s \in Seq(KVBlock), Distinct(s), NEW b, In(b, s)
    PROVE  LET t == RemoveAt(s, CHOOSE i \in DOMAIN s : s[i] = b)
           IN  /\ t \in Seq(KVBlock) /\ Distinct(t)
               /\ \A x : In(x, t) <=> In(x, s) /\ x # b
               /\ s # <<b>> => t # <<>>
<1> DEFINE j == CHOOSE i \in DOMAIN s : s[i] = b
           t == RemoveAt(s, j)
           n == Len(s)
<1>1. n \in Nat /\ DOMAIN s = 1..n
  OBVIOUS
<1>2. j \in 1..n /\ s[j] = b
  BY <1>1 DEF In
<1>3. t = SubSeq(s, 1, j - 1) \o SubSeq(s, j + 1, n)
  BY DEF RemoveAt
<1> HIDE DEF j, t
<1>4. t = Cut(s, j)
  <2> DEFINE u == SubSeq(s, 1, j - 1)
             v == SubSeq(s, j + 1, n)
  <2>1. u \in Seq(KVBlock) /\ Len(u) = j - 1 /\ \A i \in 1..(j - 1) : u[i] = s[i]
    <3>1. 1 \in Int /\ j - 1 \in Int /\ \A i \in 1..(j - 1) : s[i] \in KVBlock
      BY <1>1, <1>2
    <3>2. /\ u \in Seq(KVBlock) /\ Len(u) = IF 1 <= j - 1 THEN (j - 1) - 1 + 1 ELSE 0
          /\ \A i \in 1..((j - 1) - 1 + 1) : u[i] = s[1 + i - 1]
      BY <3>1, SubSeqProperties
    <3> HIDE DEF u
    <3> QED
      BY <1>2, <3>2
  <2>2. v \in Seq(KVBlock) /\ Len(v) = n - j /\ \A i \in 1..(n - j) : v[i] = s[j + i]
    <3>1. j + 1 \in Int /\ n \in Int /\ \A i \in (j + 1)..n : s[i] \in KVBlock
      BY <1>1, <1>2
    <3>2. /\ v \in Seq(KVBlock) /\ Len(v) = IF j + 1 <= n THEN n - (j + 1) + 1 ELSE 0
          /\ \A i \in 1..(n - (j + 1) + 1) : v[i] = s[(j + 1) + i - 1]
      BY <3>1, SubSeqProperties
    <3> HIDE DEF v
    <3>3. \A i \in 1..(n - j) : (j + 1) + i - 1 = j + i /\ i \in 1..(n - (j + 1) + 1)
      BY <1>1, <1>2
    <3>4. Len(v) = n - j
      <4> HIDE DEF n
      <4>1. (IF j + 1 <= n THEN n - (j + 1) + 1 ELSE 0) = n - j
        BY <1>1, <1>2
      <4> QED
        BY <3>2, <4>1
    <3>5. \A i \in 1..(n - j) : v[i] = s[j + i]
      BY <3>2, <3>3
    <3> QED
      BY <3>2, <3>4, <3>5
  <2> HIDE DEF u, v
  <2>3. /\ t \in Seq(KVBlock) /\ Len(t) = (j - 1) + (n - j)
        /\ \A i \in 1..((j - 1) + (n - j)) : t[i] = IF i <= j - 1 THEN u[i] ELSE v[i - (j - 1)]
    <3>1. t = u \o v
      BY <1>3 DEF u, v
    <3>2. /\ t \in Seq(KVBlock) /\ Len(t) = Len(u) + Len(v)
          /\ \A i \in 1..(Len(u) + Len(v)) : t[i] = IF i <= Len(u) THEN u[i] ELSE v[i - Len(u)]
      BY <2>1, <2>2, <3>1, ConcatProperties
    <3> QED
      BY <2>1, <2>2, <3>2
  <2>4. (j - 1) + (n - j) = n - 1 /\ t = [i \in 1..(n - 1) |-> t[i]]
    BY <1>1, <1>2, <2>3
  <2>5. ASSUME NEW i \in 1..(n - 1) PROVE t[i] = IF i < j THEN s[i] ELSE s[i + 1]
    <3>1. CASE i < j
      <4>1. i \in 1..(j - 1) /\ i <= j - 1
        BY <1>1, <1>2, <3>1
      <4>2. t[i] = u[i]
        BY <2>3, <2>4, <4>1
      <4> QED
        BY <2>1, <3>1, <4>1, <4>2
    <3>2. CASE i >= j
      <4>1. i - (j - 1) \in 1..(n - j) /\ j + (i - (j - 1)) = i + 1 /\ ~(i <= j - 1)
        BY <1>1, <1>2, <3>2
      <4>2. v[i - (j - 1)] = s[i + 1]
        BY <2>2, <4>1
      <4>3. t[i] = v[i - (j - 1)]
        BY <2>3, <2>4, <4>1
      <4> QED
        BY <1>1, <1>2, <3>2, <4>2, <4>3
    <3> QED
      BY <1>1, <1>2, <3>1, <3>2
  <2> QED
    BY <2>4, <2>5 DEF Cut
<1>5. /\ Cut(s, j) \in Seq(KVBlock) /\ Len(Cut(s, j)) = n - 1 /\ Distinct(Cut(s, j))
      /\ \A x : In(x, Cut(s, j)) <=> In(x, s) /\ x # s[j]
  BY <1>2, CutList
<1>6. ASSUME s # <<b>> PROVE t # <<>>
  <2>1. n # 1
    <3>1. SUFFICES ASSUME n = 1 PROVE FALSE
      OBVIOUS
    <3>2. j = 1 /\ s = <<s[1]>>
      BY <1>1, <1>2, <3>1
    <3> QED
      BY <1>2, <1>6, <3>2
  <2>2. Len(t) > 0
    BY <1>1, <1>2, <1>4, <1>5, <2>1
  <2> QED
    BY <2>2
<1> QED
  BY <1>2, <1>4, <1>5, <1>6 DEF j, t

\* The pool in which b has lost its hash.
Evicted(p, q, b) ==
    /\ PoolType(q) /\ Entries(q)
    /\ q.block_hash = [p.block_hash EXCEPT ![b] = NoHash]
    /\ q.ref_cnt = p.ref_cnt
    /\ \A l : Linked(q, l) <=> Linked(p, l)

\* An evicted block loses its hash and its place in the entry.
LEMMA EvictKeeps ==
    ASSUME NEW p, PoolType(p), Entries(p), NEW b \in KVBlock
    PROVE  Evicted(p, _maybe_evict_cached_block(p, b), b)
<1> DEFINE h == p.block_hash[b]
           q == _maybe_evict_cached_block(p, b)
<1>1. p.block_hash \in [KVBlock -> KVHash] /\ NoHash \in KVHash
  BY DEF PoolType, NoHash, KVHash
<1>2. CASE h = NoHash
  <2>1. q = p
    BY <1>2 DEF _maybe_evict_cached_block
  <2>2. p.block_hash = [p.block_hash EXCEPT ![b] = NoHash]
    BY <1>1, <1>2
  <2> QED
    BY <2>1, <2>2 DEF Evicted
<1>3. CASE h # NoHash
  <2>1. h \in DOMAIN p.cached /\ p.cached = [x \in DOMAIN p.cached |-> p.cached[x]]
    BY <1>3 DEF Entries
  <2> DEFINE cached == Uncache(p.cached, h, b)
  <2>2. q = [p EXCEPT !.block_hash = [p.block_hash EXCEPT ![b] = NoHash], !.cached = cached]
    BY <1>3, <2>1 DEF _maybe_evict_cached_block
  <2>3. DOMAIN p = {"ref_cnt", "block_hash", "prev", "next", "head", "tail", "num_free", "cached", "ok"}
    BY DEF PoolType
  <2> HIDE DEF cached
  <2>4. /\ q.block_hash = [p.block_hash EXCEPT ![b] = NoHash] /\ q.cached = cached
        /\ q.ref_cnt = p.ref_cnt /\ q.prev = p.prev /\ q.next = p.next /\ q.head = p.head
        /\ q.tail = p.tail /\ q.num_free = p.num_free /\ q.ok = p.ok
        /\ DOMAIN q = DOMAIN p /\ q = [x \in DOMAIN p |-> q[x]]
    BY <2>2, <2>3
  <2> HIDE DEF q
  <2>5. /\ q.block_hash \in [KVBlock -> KVHash]
        /\ \A x \in KVBlock : q.block_hash[x] = IF x = b THEN NoHash ELSE p.block_hash[x]
    BY <1>1, <2>4
  <2>6. PoolType(q)
    BY <2>3, <2>4, <2>5 DEF PoolType
  <2>7. \A l : Linked(q, l) <=> Linked(p, l)
    BY <2>4 DEF Linked
  <2>8. /\ p.cached[h] \in Seq(KVBlock) /\ Distinct(p.cached[h]) /\ In(b, p.cached[h])
    BY <2>1 DEF Entries
  <2>9. CASE p.cached[h] = <<b>>
    <3>1. cached = [x \in DOMAIN p.cached \ {h} |-> p.cached[x]]
      BY <2>9 DEF cached, Uncache
    <3>2. \A x \in KVBlock : p.block_hash[x] = h => x = b
      <4>1. ASSUME NEW x, In(x, <<b>>) PROVE x = b
        BY <4>1 DEF In
      <4> QED
        BY <2>1, <2>9, <4>1 DEF Entries
    <3>3. ASSUME NEW x \in DOMAIN p.cached \ {h}
          PROVE  /\ x # NoHash /\ q.cached[x] \in Seq(KVBlock) /\ q.cached[x] # <<>>
                 /\ Distinct(q.cached[x])
                 /\ \A y \in KVBlock : In(y, q.cached[x]) <=> q.block_hash[y] = x
      <4>0. /\ x # NoHash /\ p.cached[x] \in Seq(KVBlock) /\ p.cached[x] # <<>>
            /\ Distinct(p.cached[x])
            /\ \A y \in KVBlock : In(y, p.cached[x]) <=> p.block_hash[y] = x
        BY DEF Entries
      <4>1. q.cached[x] = p.cached[x]
        BY <2>4, <3>1
      <4>2. \A y \in KVBlock : q.block_hash[y] = x <=> p.block_hash[y] = x
        BY <2>5, <4>0
      <4> QED
        BY <4>0, <4>1, <4>2
    <3>4. q.block_hash[0] = NoHash
          /\ \A x \in KVBlock : q.block_hash[x] # NoHash => q.block_hash[x] \in DOMAIN q.cached
      <4>1. 0 \in KVBlock
        BY KVAssumption DEF KVBlock
      <4>2. ASSUME NEW x \in KVBlock, q.block_hash[x] # NoHash PROVE q.block_hash[x] \in DOMAIN q.cached
        <5>1. x # b /\ q.block_hash[x] = p.block_hash[x] /\ p.block_hash[x] # h
          BY <2>5, <3>2, <4>2
        <5>2. p.block_hash[x] \in DOMAIN p.cached
          BY <4>2, <5>1 DEF Entries
        <5> QED
          BY <2>4, <3>1, <5>1, <5>2
      <4> QED
        BY <2>5, <4>1, <4>2 DEF Entries
    <3>5. DOMAIN q.cached = DOMAIN p.cached \ {h} /\ q.cached = [x \in DOMAIN q.cached |-> q.cached[x]]
      BY <2>4, <3>1
    <3>6. Entries(q)
      BY <3>3, <3>4, <3>5 DEF Entries
    <3> QED
      BY <2>4, <2>6, <2>7, <3>6 DEF Evicted, q
  <2>10. CASE p.cached[h] # <<b>>
    <3> DEFINE t == RemoveAt(p.cached[h], CHOOSE i \in DOMAIN p.cached[h] : p.cached[h][i] = b)
    <3>1. cached = [p.cached EXCEPT ![h] = t]
      BY <2>10 DEF cached, Uncache
    <3>2. /\ t \in Seq(KVBlock) /\ Distinct(t) /\ t # <<>>
          /\ \A x : In(x, t) <=> In(x, p.cached[h]) /\ x # b
      BY <2>8, <2>10, EntryWithout
    <3> HIDE DEF t
    <3>3. /\ DOMAIN cached = DOMAIN p.cached /\ cached = [x \in DOMAIN cached |-> cached[x]]
          /\ cached[h] = t /\ \A x \in DOMAIN p.cached : x # h => cached[x] = p.cached[x]
      BY <2>1, <3>1
    <3>4. ASSUME NEW x \in DOMAIN p.cached
          PROVE  /\ x # NoHash /\ cached[x] \in Seq(KVBlock) /\ cached[x] # <<>>
                 /\ Distinct(cached[x])
                 /\ \A y \in KVBlock : In(y, cached[x]) <=> q.block_hash[y] = x
      <4>0. /\ x # NoHash /\ p.cached[x] \in Seq(KVBlock) /\ p.cached[x] # <<>>
            /\ Distinct(p.cached[x])
            /\ \A y \in KVBlock : In(y, p.cached[x]) <=> p.block_hash[y] = x
        BY DEF Entries
      <4>1. CASE x = h
        BY <2>5, <3>2, <3>3, <4>0, <4>1
      <4>2. CASE x # h
        <5>1. cached[x] = p.cached[x]
          BY <3>3, <4>2
        <5>2. \A y \in KVBlock : q.block_hash[y] = x <=> p.block_hash[y] = x
          BY <2>5, <4>0, <4>2
        <5> QED
          BY <4>0, <5>1, <5>2
      <4> QED
        BY <4>1, <4>2
    <3>5. q.block_hash[0] = NoHash /\ \A x \in KVBlock : q.block_hash[x] # NoHash => q.block_hash[x] \in DOMAIN cached
      <4>1. 0 \in KVBlock
        BY KVAssumption DEF KVBlock
      <4> QED
        BY <2>5, <3>3, <4>1 DEF Entries
    <3>6. /\ q.cached = [x \in DOMAIN q.cached |-> q.cached[x]]
          /\ \A x \in DOMAIN q.cached :
                /\ x # NoHash /\ q.cached[x] \in Seq(KVBlock) /\ q.cached[x] # <<>>
                /\ Distinct(q.cached[x])
                /\ \A y \in KVBlock : In(y, q.cached[x]) <=> q.block_hash[y] = x
      BY <2>4, <3>3, <3>4
    <3>7. Entries(q)
      BY <2>4, <3>5, <3>6 DEF Entries
    <3> QED
      BY <2>4, <2>6, <2>7, <3>7 DEF Evicted, q
  <2> QED
    BY <2>9, <2>10
<1> QED
  BY <1>2, <1>3

\* The pool in which r has got the head of the free list.
Taken(p, q, own, r, l) ==
    /\ Pool(q, [own EXCEPT ![r] = Append(@, l[1])], Cut(l, 1))
    /\ q.block_hash = [p.block_hash EXCEPT ![l[1]] = NoHash]

\* get_new_blocks takes the head of the free list.
LEMMA TakeKeeps ==
    ASSUME NEW p, NEW own, NEW l, Pool(p, own, l), NEW r \in KVRid, Len(l) > 0, NEW k
    PROVE  Taken(p, TakeHead(p, k), own, r, l)
<1> DEFINE b == l[1]
           m == Cut(l, 1)
           p1 == remove(p, b)
           p2 == _maybe_evict_cached_block(p1, b)
           q == TakeHead(p, k)
           more == [own EXCEPT ![r] = Append(@, b)]
<1>1. /\ PoolType(p) /\ Linked(p, l) /\ Holdings(own) /\ Counted(p, own, l)
      /\ Entries(p) /\ Chains(p, own, l)
      /\ own \in [KVRid -> Seq(KVBlock \ {0})] /\ p.ref_cnt \in [KVBlock -> Nat]
      /\ p.block_hash \in [KVBlock -> KVHash] /\ p.num_free \in Nat
      /\ l \in Seq(KVBlock \ {0}) /\ Distinct(l)
  BY DEF Pool, PoolType, Holdings, Linked
<1>2. 1 \in 1..Len(l) /\ b \in KVBlock \ {0} /\ p.head = b /\ In(b, l)
  BY <1>1 DEF Linked, In
<1>3. PoolType(p1) /\ Linked(p1, m) /\ SameBlocks(p1, p)
  BY <1>1, <1>2, RemoveKeeps
<1>4. /\ \A x : In(x, m) <=> In(x, l) /\ x # b
      /\ \A c, x : c # b /\ x # b /\ Before(c, x, l) => Before(c, x, m)
  <2>1. \A j \in 1..Len(l) :
           /\ \A x : In(x, Cut(l, j)) <=> In(x, l) /\ x # l[j]
           /\ \A c, x : c # l[j] /\ x # l[j] /\ Before(c, x, l) => Before(c, x, Cut(l, j))
    BY <1>1, CutList
  <2> QED
    BY <1>2, <2>1
<1>5. /\ Owners(own, b) = {} /\ p.ref_cnt[b] = 0 /\ ~In(b, own[r])
  <2>1. Owners(own, b) = {}
    BY <1>1, <1>2 DEF Counted
  <2>2. p.ref_cnt[b] = Cardinality(Owners(own, b))
    BY <1>1, <1>2 DEF Counted
  <2>3. p.ref_cnt[b] = 0
    BY <2>1, <2>2, FS_EmptySet
  <2>4. r \notin Owners(own, b)
    BY <2>1
  <2> QED
    BY <2>1, <2>3, <2>4 DEF Owners
<1>6. /\ Holdings(more)
      /\ \A x : x # b => Owners(more, x) = Owners(own, x)
      /\ Owners(more, b) = {r}
      /\ Cardinality(Owners(more, b)) = 1
  <2>1. /\ Holdings(more)
        /\ \A x : x # b => Owners(more, x) = Owners(own, x)
        /\ Owners(more, b) = Owners(own, b) \cup {r}
        /\ Cardinality(Owners(more, b)) = Cardinality(Owners(own, b)) + 1
    BY <1>1, <1>2, <1>5, OneMoreOwner
  <2>2. Cardinality(Owners(own, b)) = 0
    BY <1>5, FS_EmptySet
  <2>3. Owners(more, b) = {r}
    BY <1>5, <2>1
  <2>4. Cardinality(Owners(more, b)) = 1
    BY <2>1, <2>2
  <2> QED
    BY <2>1, <2>3, <2>4
<1>7. Entries(p1)
  BY <1>1, <1>3 DEF Entries, SameBlocks
<1>8. Evicted(p1, p2, b)
  BY <1>2, <1>3, <1>7, EvictKeeps
<1>9. q = [p2 EXCEPT !.ok = p2.ok /\ p.ref_cnt[b] = 0, !.ref_cnt = [p2.ref_cnt EXCEPT ![b] = p2.ref_cnt[b] + 1]]
  BY <1>2 DEF TakeHead
<1> HIDE DEF p1, p2, q
<1>10. /\ PoolType(p2) /\ Entries(p2) /\ Linked(p2, m) /\ p2.ref_cnt = p.ref_cnt
       /\ p2.block_hash = [p.block_hash EXCEPT ![b] = NoHash]
  BY <1>3, <1>8 DEF Evicted, SameBlocks
<1>11. DOMAIN p2 = {"ref_cnt", "block_hash", "prev", "next", "head", "tail", "num_free", "cached", "ok"}
  BY <1>10 DEF PoolType
<1>12. /\ q.ok = (p2.ok /\ p.ref_cnt[b] = 0)
       /\ q.ref_cnt = [p.ref_cnt EXCEPT ![b] = p.ref_cnt[b] + 1]
       /\ q.block_hash = p2.block_hash /\ q.cached = p2.cached
       /\ q.prev = p2.prev /\ q.next = p2.next /\ q.head = p2.head /\ q.tail = p2.tail
       /\ q.num_free = p2.num_free
       /\ q = [x \in DOMAIN p2 |-> q[x]] /\ DOMAIN q = DOMAIN p2
  BY <1>9, <1>10, <1>11
<1>13. q.ok = TRUE
  BY <1>5, <1>10, <1>12 DEF PoolType
<1>14. q.ref_cnt \in [KVBlock -> Nat]
  BY <1>1, <1>2, <1>12
<1>15. PoolType(q)
  BY <1>10, <1>11, <1>12, <1>13, <1>14 DEF PoolType
<1>16. Linked(q, m) /\ Entries(q)
  <2>1. Linked(q, m)
    BY <1>10, <1>12 DEF Linked
  <2>2. Entries(q)
    BY <1>10, <1>12 DEF Entries
  <2> QED
    BY <2>1, <2>2
<1>17. \A x \in KVBlock : q.block_hash[x] = IF x = b THEN NoHash ELSE p.block_hash[x]
  BY <1>1, <1>10, <1>12
<1> HIDE DEF m, b, more
<1>18. Counted(q, more, m)
  <2>1. \A x \in KVBlock : q.ref_cnt[x] = Cardinality(Owners(more, x))
    <3>1. ASSUME NEW x \in KVBlock, x # b PROVE q.ref_cnt[x] = Cardinality(Owners(more, x))
      <4>1. q.ref_cnt[x] = p.ref_cnt[x] /\ p.ref_cnt[x] = Cardinality(Owners(own, x))
        BY <1>1, <1>12, <3>1 DEF Counted
      <4> QED
        BY <1>6, <3>1, <4>1
    <3>2. q.ref_cnt[b] = 1
      BY <1>1, <1>2, <1>5, <1>12
    <3> QED
      BY <1>6, <3>1, <3>2
  <2>2. \A x \in KVBlock \ {0} : In(x, m) <=> Owners(more, x) = {}
    BY <1>1, <1>2, <1>4, <1>6 DEF Counted
  <2> QED
    BY <2>1, <2>2 DEF Counted
<1>19. Len(NoHash) = 0 /\ ~(Len(NoHash) > KVBlockSize)
  BY KVAssumption DEF NoHash
<1>20. Chains(q, more, m)
  <2>1. ASSUME NEW x \in KVRid PROVE Chain(q, more[x])
    <3>1. own[x] \in Seq(KVBlock \ {0}) /\ Chain(p, own[x]) /\ Len(own[x]) \in Nat
      BY <1>1 DEF Chains
    <3>2. ASSUME NEW i \in 1..Len(own[x]) PROVE own[x][i] \in KVBlock /\ own[x][i] # b
      <4>1. own[x][i] \in KVBlock
        BY <3>1
      <4>2. own[x][i] # b
        BY <1>5 DEF Owners, In
      <4> QED
        BY <4>1, <4>2
    <3>3. \A i \in 1..Len(own[x]) : q.block_hash[own[x][i]] = p.block_hash[own[x][i]]
      BY <1>17, <3>2
    <3>4. /\ \A i \in 1..Len(own[x]) : more[x][i] = own[x][i]
          /\ Len(more[x]) = IF x = r THEN Len(own[x]) + 1 ELSE Len(own[x])
          /\ x = r => more[x][Len(own[x]) + 1] = b
      BY <1>1, <3>1 DEF more
    <3>5. ASSUME NEW i \in 1..Len(more[x]), Len(q.block_hash[more[x][i]]) > KVBlockSize
          PROVE  i > 1 /\ q.block_hash[more[x][i - 1]] = Parent(q.block_hash[more[x][i]])
      <4>1. i \in 1..Len(own[x])
        BY <1>2, <1>17, <1>19, <3>1, <3>4, <3>5
      <4>2. i > 1 /\ p.block_hash[own[x][i - 1]] = Parent(p.block_hash[own[x][i]])
        BY <3>1, <3>3, <3>4, <3>5, <4>1 DEF Chain
      <4>3. i - 1 \in 1..Len(own[x])
        BY <3>1, <4>1, <4>2
      <4> QED
        BY <3>3, <3>4, <4>1, <4>2, <4>3
    <3> QED
      BY <3>5 DEF Chain
  <2>2. ASSUME NEW c \in KVBlock, Len(q.block_hash[c]) > KVBlockSize PROVE Outlived(q, c, m)
    <3>1. c # b /\ q.block_hash[c] = p.block_hash[c]
      BY <1>2, <1>17, <1>19, <2>2
    <3>2. PICK x \in KVBlock : /\ p.block_hash[x] = Parent(p.block_hash[c])
                               /\ ~In(x, l) \/ Before(c, x, l)
      BY <1>1, <2>2, <3>1 DEF Chains, Outlived
    <3>3. x # b
      <4>1. ~Before(c, b, l)
        <5>1. SUFFICES ASSUME NEW i \in 1..Len(l), NEW j \in 1..Len(l), i < j, l[j] = b PROVE FALSE
          BY DEF Before
        <5>2. l[1] = l[j] /\ j # 1
          BY <1>2, <5>1 DEF b
        <5> QED
          BY <1>1, <1>2, <5>2 DEF Distinct
      <4> QED
        BY <1>2, <3>2, <4>1
    <3> QED
      BY <1>4, <1>17, <3>1, <3>2, <3>3 DEF Outlived
  <2>3. ASSUME NEW x \in KVBlock, NEW r1 \in Owners(more, x), NEW r2 \in Owners(more, x), r1 # r2
        PROVE  q.block_hash[x] # NoHash
    <3>1. x # b
      BY <1>6, <2>3
    <3> QED
      BY <1>1, <1>6, <1>17, <2>3, <3>1 DEF Chains
  <2> QED
    BY <2>1, <2>2, <2>3 DEF Chains
<1>21. Pool(q, more, m)
  BY <1>6, <1>15, <1>16, <1>18, <1>20 DEF Pool
<1> QED
  BY <1>10, <1>12, <1>21 DEF Taken, q, more, m, b

\* The pool in which r has lost its last block.
Freed(p, q, own, r) ==
    /\ \E m : Pool(q, [own EXCEPT ![r] = Front(@)], m)
    /\ q.block_hash = p.block_hash /\ q.cached = p.cached

\* A request gives back its last block, which becomes free if no other request
\* owns it.  Blocks that share its hash chain with it and are still in use have
\* another block before them that is in use.
LEMMA FreeKeeps ==
    ASSUME NEW p, NEW own, NEW l, Pool(p, own, l), NEW r \in KVRid, Len(own[r]) > 0
    PROVE  Freed(p, FreeBlock(p, Last(own[r])), own, r)
<1> DEFINE b == Last(own[r])
           less == [own EXCEPT ![r] = Front(@)]
           p1 == Recount(p, b, p.ref_cnt[b] - 1)
           q == FreeBlock(p, b)
<1>1. /\ PoolType(p) /\ Linked(p, l) /\ Holdings(own) /\ Counted(p, own, l)
      /\ Entries(p) /\ Chains(p, own, l)
      /\ own \in [KVRid -> Seq(KVBlock \ {0})] /\ p.ref_cnt \in [KVBlock -> Nat]
      /\ p.block_hash \in [KVBlock -> KVHash]
      /\ l \in Seq(KVBlock \ {0}) /\ Distinct(l)
  BY DEF Pool, PoolType, Holdings, Linked
<1>2. /\ b \in KVBlock \ {0} /\ Holdings(less)
      /\ \A x : x # b => Owners(less, x) = Owners(own, x)
      /\ Owners(less, b) = Owners(own, b) \ {r} /\ r \in Owners(own, b)
      /\ Cardinality(Owners(less, b)) = Cardinality(Owners(own, b)) - 1
  BY <1>1, OneLessOwner
<1>3. /\ p.ref_cnt[b] = Cardinality(Owners(own, b)) /\ ~In(b, l)
      /\ p.ref_cnt[b] - 1 = Cardinality(Owners(less, b))
      /\ p.ref_cnt[b] - 1 \in Nat
      /\ p.ref_cnt[b] - 1 = 0 <=> Owners(less, b) = {}
  <2>1. p.ref_cnt[b] = Cardinality(Owners(own, b)) /\ ~In(b, l)
    BY <1>1, <1>2 DEF Counted
  <2>2. Cardinality(Owners(less, b)) \in Nat /\ (Cardinality(Owners(less, b)) = 0 <=> Owners(less, b) = {})
    BY OwnersFinite
  <2> QED
    BY <1>2, <2>1, <2>2
<1> HIDE DEF less
<1>4. q = IF p1.ref_cnt[b] = 0 THEN append(p1, b) ELSE p1
  BY DEF FreeBlock, Recount
<1> HIDE DEF b
<1>5. /\ PoolType(p1) /\ Linked(p1, l)
      /\ p1.ref_cnt = [p.ref_cnt EXCEPT ![b] = p.ref_cnt[b] - 1]
      /\ p1.block_hash = p.block_hash /\ p1.cached = p.cached
  BY <1>1, <1>2, <1>3, RecountKeeps
<1> HIDE DEF p1, q
<1>6. p1.ref_cnt[b] = p.ref_cnt[b] - 1 /\ \A x \in KVBlock : x # b => p1.ref_cnt[x] = p.ref_cnt[x]
  BY <1>1, <1>2, <1>5
<1>7. \A x \in KVBlock : p1.ref_cnt[x] = Cardinality(Owners(less, x))
  <2>1. ASSUME NEW x \in KVBlock, x # b PROVE p1.ref_cnt[x] = Cardinality(Owners(less, x))
    <3>1. p1.ref_cnt[x] = p.ref_cnt[x] /\ p.ref_cnt[x] = Cardinality(Owners(own, x))
      BY <1>1, <1>6, <2>1 DEF Counted
    <3> QED
      BY <1>2, <2>1, <3>1
  <2>2. p1.ref_cnt[b] = Cardinality(Owners(less, b))
    BY <1>3, <1>6
  <2> QED
    BY <2>1, <2>2
<1>8. ASSUME NEW x \in KVRid
      PROVE  /\ Chain(p, less[x]) /\ Len(less[x]) \in Nat
             /\ \A i \in 1..Len(less[x]) : i \in 1..Len(own[x]) /\ less[x][i] = own[x][i]
  <2>1. own[x] \in Seq(KVBlock \ {0}) /\ Chain(p, own[x]) /\ Len(own[x]) \in Nat
    BY <1>1 DEF Chains
  <2>2. CASE x # r
    <3>1. less[x] = own[x]
      BY <1>1, <2>2 DEF less
    <3> QED
      BY <2>1, <3>1
  <2>3. CASE x = r
    <3>1. less[r] = SubSeq(own[r], 1, Len(own[r]) - 1)
      BY <1>1 DEF less, Front
    <3>2. /\ Len(less[r]) = Len(own[r]) - 1 /\ Len(less[r]) \in Nat
          /\ \A i \in 1..(Len(own[r]) - 1) : less[r][i] = own[r][i]
      <4> DEFINE s == own[r]
      <4> HIDE DEF s
      <4>1. s \in Seq(KVBlock \ {0}) /\ Len(s) > 0 /\ less[r] = SubSeq(s, 1, Len(s) - 1)
        BY <2>1, <2>3, <3>1 DEF s
      <4>2. Len(s) \in Nat /\ Len(s) - 1 \in Nat
        BY <4>1
      <4>3. less[r] = [i \in 1..(Len(s) - 1) |-> s[i]]
        BY <4>1, <4>2
      <4>4. Len(less[r]) = Len(s) - 1 /\ \A i \in 1..(Len(s) - 1) : less[r][i] = s[i]
        BY <4>2, <4>3
      <4> QED
        BY <4>2, <4>4 DEF s
    <3>3. ASSUME NEW i \in 1..Len(less[r])
          PROVE  /\ i \in 1..Len(own[r]) /\ less[r][i] = own[r][i]
                 /\ i > 1 => less[r][i - 1] = own[r][i - 1]
      BY <2>1, <2>3, <3>2
    <3>4. Chain(p, less[r])
      BY <2>1, <2>3, <3>2, <3>3 DEF Chain
    <3> QED
      BY <2>3, <3>2, <3>3, <3>4
  <2> QED
    BY <2>2, <2>3
<1>9. \A x \in KVBlock : \A r1, r2 \in Owners(less, x) : r1 # r2 => p.block_hash[x] # NoHash
  <2>1. \A x : Owners(less, x) \subseteq Owners(own, x)
    BY <1>2
  <2> QED
    BY <1>1, <2>1 DEF Chains
<1>10. CASE Owners(less, b) # {}
  <2>1. q = p1
    BY <1>3, <1>4, <1>6, <1>10
  <2>2. Counted(q, less, l)
    <3>1. \A x \in KVBlock \ {0} : In(x, l) <=> Owners(less, x) = {}
      BY <1>1, <1>2, <1>3, <1>10 DEF Counted
    <3> QED
      BY <1>7, <2>1, <3>1 DEF Counted
  <2>3. Entries(q)
    BY <1>1, <1>5, <2>1 DEF Entries
  <2>4. Chains(q, less, l)
    <3>1. ASSUME NEW x \in KVRid PROVE Chain(q, less[x])
      <4>1. Chain(p, less[x]) /\ q.block_hash = p.block_hash
        BY <1>5, <1>8, <2>1
      <4> QED
        BY <4>1 DEF Chain
    <3>2. \A c \in KVBlock : Len(q.block_hash[c]) > KVBlockSize => Outlived(q, c, l)
      BY <1>1, <1>5, <2>1 DEF Chains, Outlived
    <3> QED
      BY <1>5, <1>9, <2>1, <3>1, <3>2 DEF Chains
  <2>5. Pool(q, less, l)
    BY <1>2, <1>5, <2>1, <2>2, <2>3, <2>4 DEF Pool
  <2> QED
    BY <1>5, <2>1, <2>5 DEF Freed, q, b, less
<1>11. CASE Owners(less, b) = {}
  <2> DEFINE m == Append(l, b)
  <2>1. q = append(p1, b)
    BY <1>3, <1>4, <1>6, <1>11
  <2>2. PoolType(q) /\ Linked(q, m) /\ SameBlocks(q, p1)
    BY <1>2, <1>3, <1>5, <2>1, AppendKeeps
  <2>3. q.ref_cnt = p1.ref_cnt /\ q.block_hash = p.block_hash /\ q.cached = p.cached
    BY <1>5, <2>2 DEF SameBlocks
  <2>4. /\ \A x : In(x, m) <=> In(x, l) \/ x = b
        /\ \A c, x : Before(c, x, l) => Before(c, x, m)
        /\ \A c : In(c, l) => Before(c, b, m)
    BY <1>1, <1>2, <1>3, AppendList
  <2> HIDE DEF m
  <2>5. Counted(q, less, m)
    <3>1. \A x \in KVBlock \ {0} : In(x, m) <=> Owners(less, x) = {}
      BY <1>1, <1>2, <1>3, <1>11, <2>4 DEF Counted
    <3> QED
      BY <1>7, <2>3, <3>1 DEF Counted
  <2>6. Entries(q)
    BY <1>1, <2>3 DEF Entries
  <2>7. ASSUME NEW c \in KVBlock, Len(p.block_hash[c]) > KVBlockSize PROVE Outlived(p, c, m)
    <3>1. PICK x \in KVBlock : /\ p.block_hash[x] = Parent(p.block_hash[c])
                               /\ ~In(x, l) \/ Before(c, x, l)
      BY <1>1, <2>7 DEF Chains, Outlived
    <3>2. CASE x # b
      BY <2>4, <3>1, <3>2 DEF Outlived
    <3>3. CASE x = b /\ In(c, l)
      BY <2>4, <3>1, <3>3 DEF Outlived
    <3>4. CASE x = b /\ ~In(c, l)
      <4>1. c # 0 /\ c # b
        <5>1. p.block_hash[0] = <<>> /\ KVBlockSize \in Nat
          BY <1>1, KVAssumption DEF Entries, NoHash
        <5>2. p.block_hash[c] \in KVHash
          BY <1>1
        <5>3. Parent(p.block_hash[c]) # p.block_hash[c]
          BY <2>7, <5>2, ParentHash
        <5>4. c # b
          BY <3>1, <3>4, <5>3
        <5>5. c # 0
          BY <2>7, <5>1
        <5> QED
          BY <5>4, <5>5
      <4>2. PICK w \in KVRid : In(c, less[w])
        <5>1. Owners(own, c) # {}
          BY <1>1, <3>4, <4>1 DEF Counted
        <5> QED
          BY <1>2, <4>1, <5>1 DEF Owners
      <4>3. PICK i \in 1..Len(less[w]) : less[w][i] = c
        BY <4>2 DEF In
      <4> DEFINE y == less[w][i - 1]
      <4>4. i > 1 /\ p.block_hash[y] = Parent(p.block_hash[c])
        BY <1>8, <2>7, <4>3 DEF Chain
      <4>5. i - 1 \in 1..Len(less[w]) /\ i - 1 \in 1..Len(own[w]) /\ y = own[w][i - 1]
        BY <1>8, <4>4
      <4>6. y \in KVBlock /\ ~In(y, l)
        BY <4>5, OwnedNotFree
      <4>7. y # b
        <5>1. w \in Owners(less, y)
          BY <4>5 DEF Owners, In
        <5> QED
          BY <1>11, <5>1
      <4>8. ~In(y, m)
        BY <2>4, <4>6, <4>7
      <4> QED
        BY <4>4, <4>6, <4>8 DEF Outlived
    <3> QED
      BY <3>2, <3>3, <3>4
  <2>8. Chains(q, less, m)
    <3>1. ASSUME NEW x \in KVRid PROVE Chain(q, less[x])
      <4>1. Chain(p, less[x])
        BY <1>8
      <4> QED
        BY <2>3, <4>1 DEF Chain
    <3>2. \A c \in KVBlock : Len(q.block_hash[c]) > KVBlockSize => Outlived(q, c, m)
      BY <2>3, <2>7 DEF Outlived
    <3> QED
      BY <1>9, <2>3, <3>1, <3>2 DEF Chains
  <2>9. Pool(q, less, m)
    BY <1>2, <2>2, <2>5, <2>6, <2>8 DEF Pool
  <2> QED
    BY <2>3, <2>9 DEF Freed, q, b, less
<1> QED
  BY <1>10, <1>11

\* The pool in which b has got the hash h.
Cached(p, q, own, l, b, h) ==
    /\ Pool(q, own, l)
    /\ q.block_hash = [p.block_hash EXCEPT ![b] = h]

\* A full block that r alone owns and that has no hash gets one.
LEMMA CacheKeeps ==
    ASSUME NEW p, NEW own, NEW l, Pool(p, own, l), NEW r \in KVRid, NEW i \in 1..Len(own[r]),
           NEW h \in KVHash, h # NoHash, p.block_hash[own[r][i]] = NoHash,
           Len(h) > KVBlockSize => i > 1 /\ p.block_hash[own[r][i - 1]] = Parent(h)
    PROVE  Cached(p, CacheBlock(p, [block |-> own[r][i], hash |-> h]), own, l, own[r][i], h)
<1> DEFINE b == own[r][i]
           q == CacheBlock(p, [block |-> b, hash |-> h])
           entry == IF h \in DOMAIN p.cached THEN p.cached[h] ELSE <<>>
           cached == [x \in DOMAIN p.cached \cup {h} |-> IF x = h THEN Append(entry, b) ELSE p.cached[x]]
<1>1. /\ PoolType(p) /\ Linked(p, l) /\ Holdings(own) /\ Counted(p, own, l)
      /\ Entries(p) /\ Chains(p, own, l)
      /\ own \in [KVRid -> Seq(KVBlock \ {0})] /\ p.ref_cnt \in [KVBlock -> Nat]
      /\ p.block_hash \in [KVBlock -> KVHash]
  BY DEF Pool, PoolType, Holdings
<1>2. b \in KVBlock \ {0} /\ ~In(b, l) /\ r \in Owners(own, b)
  BY OwnedNotFree
<1>3. q = [p EXCEPT !.ok = p.ok /\ p.block_hash[b] = NoHash,
                    !.block_hash = [p.block_hash EXCEPT ![b] = h], !.cached = cached]
  BY DEF CacheBlock
<1>4. DOMAIN p = {"ref_cnt", "block_hash", "prev", "next", "head", "tail", "num_free", "cached", "ok"}
  BY <1>1 DEF PoolType
<1> HIDE DEF q, cached
<1>5. /\ q.ok = (p.ok /\ p.block_hash[b] = NoHash)
      /\ q.block_hash = [p.block_hash EXCEPT ![b] = h] /\ q.cached = cached
      /\ q.ref_cnt = p.ref_cnt
      /\ q.prev = p.prev /\ q.next = p.next /\ q.head = p.head /\ q.tail = p.tail
      /\ q.num_free = p.num_free
      /\ q = [x \in DOMAIN p |-> q[x]] /\ DOMAIN q = DOMAIN p
  BY <1>3, <1>4
<1>6. /\ q.block_hash \in [KVBlock -> KVHash]
      /\ \A x \in KVBlock : q.block_hash[x] = IF x = b THEN h ELSE p.block_hash[x]
  BY <1>1, <1>2, <1>5
<1>7. PoolType(q)
  <2>1. q.ok = TRUE
    BY <1>1, <1>5 DEF PoolType
  <2> QED
    BY <1>1, <1>4, <1>5, <1>6, <2>1 DEF PoolType
<1>8. Linked(q, l) /\ Counted(q, own, l)
  <2>1. Linked(q, l)
    BY <1>1, <1>5 DEF Linked
  <2>2. Counted(q, own, l)
    BY <1>1, <1>5 DEF Counted
  <2> QED
    BY <2>1, <2>2
<1>9. \A x \in KVBlock : Len(p.block_hash[x]) > KVBlockSize =>
          p.block_hash[x] # NoHash /\ Parent(p.block_hash[x]) # NoHash
  BY <1>1, ParentHash
<1> HIDE DEF b
<1>10. Entries(q)
  <2>1. /\ entry \in Seq(KVBlock) /\ Distinct(entry)
        /\ \A x \in KVBlock : In(x, entry) <=> p.block_hash[x] = h
    <3>1. CASE h \in DOMAIN p.cached
      BY <1>1, <3>1 DEF Entries
    <3>2. CASE h \notin DOMAIN p.cached
      <4>1. entry = <<>> /\ Len(entry) = 0
        BY <3>2
      <4>2. \A x \in KVBlock : p.block_hash[x] # h
        BY <1>1, <3>2 DEF Entries
      <4>3. Distinct(<<>>) /\ <<>> \in Seq(KVBlock) /\ \A x : ~In(x, <<>>)
        BY DEF In, Distinct
      <4> HIDE DEF entry
      <4> QED
        BY <4>1, <4>2, <4>3
    <3> QED
      BY <3>1, <3>2
  <2> HIDE DEF entry
  <2>2. ~In(b, entry)
    BY <1>2, <2>1 DEF b
  <2>3. /\ Append(entry, b) \in Seq(KVBlock) /\ Append(entry, b) # <<>> /\ Distinct(Append(entry, b))
        /\ \A x : In(x, Append(entry, b)) <=> In(x, entry) \/ x = b
    <3>1. /\ Append(entry, b) \in Seq(KVBlock) /\ Len(Append(entry, b)) = Len(entry) + 1
          /\ Distinct(Append(entry, b))
          /\ \A x : In(x, Append(entry, b)) <=> In(x, entry) \/ x = b
      BY <1>2, <2>1, <2>2, AppendList
    <3>2. Append(entry, b) # <<>>
      BY <2>1, <3>1
    <3> QED
      BY <3>1, <3>2
  <2>4. /\ DOMAIN cached = DOMAIN p.cached \cup {h} /\ cached = [x \in DOMAIN cached |-> cached[x]]
        /\ cached[h] = Append(entry, b)
        /\ \A x \in DOMAIN p.cached : x # h => cached[x] = p.cached[x]
    BY DEF cached
  <2>5. ASSUME NEW x \in DOMAIN cached
        PROVE  /\ x # NoHash /\ cached[x] \in Seq(KVBlock) /\ cached[x] # <<>>
               /\ Distinct(cached[x])
               /\ \A y \in KVBlock : In(y, cached[x]) <=> q.block_hash[y] = x
    <3>1. CASE x = h
      <4>1. \A y \in KVBlock : In(y, cached[x]) <=> q.block_hash[y] = x
        BY <1>2, <1>6, <2>1, <2>3, <2>4, <3>1
      <4> QED
        BY <2>3, <2>4, <3>1, <4>1
    <3>2. CASE x # h
      <4>1. x \in DOMAIN p.cached /\ cached[x] = p.cached[x]
        BY <2>4, <3>2
      <4>2. /\ x # NoHash /\ p.cached[x] \in Seq(KVBlock) /\ p.cached[x] # <<>>
            /\ Distinct(p.cached[x])
            /\ \A y \in KVBlock : In(y, p.cached[x]) <=> p.block_hash[y] = x
        BY <1>1, <4>1 DEF Entries
      <4>3. \A y \in KVBlock : q.block_hash[y] = x <=> p.block_hash[y] = x
        BY <1>6, <3>2, <4>2 DEF b
      <4> QED
        BY <4>1, <4>2, <4>3
    <3> QED
      BY <3>1, <3>2
  <2>6. q.block_hash[0] = NoHash
    <3>1. 0 \in KVBlock
      BY KVAssumption DEF KVBlock
    <3> QED
      BY <1>1, <1>2, <1>6, <3>1 DEF Entries
  <2>7. \A x \in KVBlock : q.block_hash[x] # NoHash => q.block_hash[x] \in DOMAIN cached
    BY <1>1, <1>6, <2>4 DEF Entries
  <2> QED
    BY <1>5, <2>4, <2>5, <2>6, <2>7 DEF Entries
<1>11. Chains(q, own, l)
  <2>1. ASSUME NEW x \in KVRid PROVE Chain(q, own[x])
    <3>1. own[x] \in Seq(KVBlock \ {0}) /\ Chain(p, own[x]) /\ Distinct(own[x])
      BY <1>1 DEF Chains, Holdings
    <3>2. ASSUME NEW k \in 1..Len(own[x]), Len(q.block_hash[own[x][k]]) > KVBlockSize
          PROVE  k > 1 /\ q.block_hash[own[x][k - 1]] = Parent(q.block_hash[own[x][k]])
      <4>0. own[x][k] \in KVBlock /\ x \in Owners(own, own[x][k])
        BY OwnedNotFree
      <4>1. CASE own[x][k] = b
        <5>1. x = r
          BY <1>1, <1>2, <4>0, <4>1 DEF Chains, b
        <5>2. k = i
          BY <3>1, <4>1, <5>1 DEF Distinct, b
        <5>3. i > 1 /\ p.block_hash[own[r][i - 1]] = Parent(h)
          BY <1>6, <3>2, <4>0, <4>1
        <5>4. i - 1 \in 1..Len(own[r]) /\ own[r][i - 1] # own[r][i]
          BY <3>1, <5>1, <5>3 DEF Distinct
        <5>5. own[r][i - 1] \in KVBlock
          BY <5>4, OwnedNotFree
        <5> QED
          BY <1>6, <4>0, <4>1, <5>1, <5>2, <5>3, <5>4, <5>5 DEF b
      <4>2. CASE own[x][k] # b
        <5>1. q.block_hash[own[x][k]] = p.block_hash[own[x][k]]
          BY <1>6, <4>0, <4>2
        <5>2. k > 1 /\ p.block_hash[own[x][k - 1]] = Parent(p.block_hash[own[x][k]])
          BY <3>1, <3>2, <5>1 DEF Chain
        <5>3. k - 1 \in 1..Len(own[x])
          BY <3>1, <5>2
        <5>4. own[x][k - 1] \in KVBlock
          BY <5>3, OwnedNotFree
        <5>5. own[x][k - 1] # b
          BY <1>9, <3>2, <4>0, <5>1, <5>2 DEF b
        <5> QED
          BY <1>6, <5>1, <5>2, <5>4, <5>5
      <4> QED
        BY <4>1, <4>2
    <3> QED
      BY <3>2 DEF Chain
  <2>2. ASSUME NEW c \in KVBlock, Len(q.block_hash[c]) > KVBlockSize PROVE Outlived(q, c, l)
    <3>1. CASE c = b
      <4>1. i > 1 /\ p.block_hash[own[r][i - 1]] = Parent(h)
        BY <1>2, <1>6, <2>2, <3>1
      <4>2. i - 1 \in 1..Len(own[r]) /\ own[r][i - 1] # b
        <5>1. own[r] \in Seq(KVBlock \ {0}) /\ Distinct(own[r])
          BY <1>1 DEF Holdings
        <5> QED
          BY <4>1, <5>1 DEF Distinct, b
      <4>3. own[r][i - 1] \in KVBlock /\ ~In(own[r][i - 1], l)
        BY <4>2, OwnedNotFree
      <4> QED
        BY <1>2, <1>6, <3>1, <4>1, <4>2, <4>3 DEF Outlived
    <3>2. CASE c # b
      <4>1. q.block_hash[c] = p.block_hash[c]
        BY <1>6, <3>2
      <4>2. PICK x \in KVBlock : /\ p.block_hash[x] = Parent(p.block_hash[c])
                                 /\ ~In(x, l) \/ Before(c, x, l)
        BY <1>1, <2>2, <4>1 DEF Chains, Outlived
      <4>3. x # b
        BY <1>9, <2>2, <4>1, <4>2 DEF b
      <4> QED
        BY <1>6, <4>1, <4>2, <4>3 DEF Outlived
    <3> QED
      BY <3>1, <3>2
  <2>3. ASSUME NEW x \in KVBlock, NEW r1 \in Owners(own, x), NEW r2 \in Owners(own, x), r1 # r2
        PROVE  q.block_hash[x] # NoHash
    BY <1>1, <1>6, <2>3 DEF Chains
  <2> QED
    BY <2>1, <2>2, <2>3 DEF Chains
<1>12. Pool(q, own, l)
  BY <1>1, <1>7, <1>8, <1>10, <1>11 DEF Pool
<1> QED
  BY <1>5, <1>12 DEF Cached, q, b

-----------------------------------------------------------------------------
(* The loops. *)

\* The blocks of r are s.
With(own, r, s) == [own EXCEPT ![r] = s]

\* s, followed by the first k elements of t.
Plus(s, t, k) == [i \in 1..(Len(s) + k) |-> IF i <= Len(s) THEN s[i] ELSE t[i - Len(s)]]

\* s without its first k elements.
Rest(s, k) == [i \in 1..(Len(s) - k) |-> s[i + k]]

\* s up to its k-th element.
Upto(s, k) == [i \in 1..k |-> s[i]]

\* A function that lists elements of S is a sequence.
LEMMA ListOf ==
    ASSUME NEW S, NEW n \in Nat, NEW f, f = [i \in 1..n |-> f[i]], \A i \in 1..n : f[i] \in S
    PROVE  f \in Seq(S) /\ Len(f) = n
<1>1. f \in [1..n -> S]
  OBVIOUS
<1> QED
  BY <1>1

\* What Plus is, element by element.
LEMMA PlusIs ==
    ASSUME NEW S, NEW s \in Seq(S), NEW t \in Seq(S), NEW k \in 0..Len(t)
    PROVE  /\ Plus(s, t, k) \in Seq(S) /\ Len(Plus(s, t, k)) = Len(s) + k
           /\ Plus(s, t, 0) = s
           /\ Plus(s, t, k) = s \o SubSeq(t, 1, k)
           /\ k < Len(t) => Append(Plus(s, t, k), t[k + 1]) = Plus(s, t, k + 1)
<1> DEFINE n == Len(s)
           f == Plus(s, t, k)
<1>1. /\ n \in Nat /\ k \in Nat /\ n + k \in Nat /\ Len(t) \in Nat
      /\ s = [i \in 1..n |-> s[i]]
      /\ \A i \in 1..n : s[i] \in S
      /\ \A i \in 1..k : t[i] \in S
  OBVIOUS
<1>2. /\ f = [i \in 1..(n + k) |-> f[i]]
      /\ \A i \in 1..(n + k) : f[i] = IF i <= n THEN s[i] ELSE t[i - n]
  BY DEF Plus
<1>3. ASSUME NEW i \in 1..(n + k), ~(i <= n) PROVE i - n \in 1..k
  BY <1>1, <1>3
<1>4. ASSUME NEW i \in 1..(n + k) PROVE f[i] \in S
  <2>1. CASE i <= n
    <3>1. i \in 1..n /\ f[i] = s[i]
      BY <1>1, <1>2, <2>1
    <3> QED
      BY <1>1, <3>1
  <2>2. CASE ~(i <= n)
    <3>1. f[i] = t[i - n]
      BY <1>2, <2>2
    <3> QED
      BY <1>1, <1>3, <2>2, <3>1
  <2> QED
    BY <2>1, <2>2
<1>5. f \in Seq(S) /\ Len(f) = n + k
  <2> HIDE DEF f, n
  <2> QED
    BY <1>1, <1>2, <1>4, ListOf
<1>6. Plus(s, t, 0) = s
  <2>1. n + 0 = n /\ \A i \in 1..n : i <= n
    BY <1>1
  <2>2. Plus(s, t, 0) = [i \in 1..n |-> s[i]]
    BY <2>1 DEF Plus
  <2> QED
    BY <1>1, <2>2
<1>7. f = s \o SubSeq(t, 1, k)
  <2> DEFINE u == SubSeq(t, 1, k)
             g == s \o u
  <2>1. /\ u \in Seq(S) /\ Len(u) = k /\ \A i \in 1..k : u[i] = t[i]
    <3>1. 1 \in Int /\ k \in Int
      BY <1>1
    <3>2. /\ u \in Seq(S) /\ Len(u) = (IF 1 <= k THEN k - 1 + 1 ELSE 0)
          /\ \A i \in 1..(k - 1 + 1) : u[i] = t[1 + i - 1]
      BY <1>1, <3>1, SubSeqProperties
    <3> HIDE DEF u
    <3>3. (IF 1 <= k THEN k - 1 + 1 ELSE 0) = k /\ k - 1 + 1 = k /\ \A i \in 1..k : 1 + i - 1 = i
      BY <1>1
    <3> QED
      BY <3>2, <3>3
  <2> HIDE DEF u
  <2>2. /\ g \in Seq(S) /\ Len(g) = n + k
        /\ \A i \in 1..(n + k) : g[i] = IF i <= n THEN s[i] ELSE u[i - n]
    BY <2>1, ConcatProperties
  <2>3. \A i \in 1..(n + k) : g[i] = f[i]
    BY <1>2, <1>3, <2>1, <2>2
  <2> HIDE DEF f, g
  <2>4. g = [i \in 1..(n + k) |-> g[i]]
    BY <2>2
  <2>5. f = g
    BY <1>2, <2>3, <2>4
  <2> QED
    BY <2>5 DEF f, g, u
<1>8. ASSUME k < Len(t) PROVE Append(f, t[k + 1]) = Plus(s, t, k + 1)
  <2> DEFINE g == Append(f, t[k + 1])
             h == Plus(s, t, k + 1)
  <2>1. /\ h = [i \in 1..(n + k + 1) |-> h[i]]
        /\ \A i \in 1..(n + k + 1) : h[i] = IF i <= n THEN s[i] ELSE t[i - n]
    <3>1. n + (k + 1) = n + k + 1
      BY <1>1
    <3> QED
      BY <3>1 DEF Plus
  <2>2. t[k + 1] \in S
    BY <1>1, <1>8
  <2> HIDE DEF f, h
  <2>3. /\ g = [i \in 1..(n + k + 1) |-> g[i]] /\ g[n + k + 1] = t[k + 1]
        /\ \A i \in 1..(n + k) : g[i] = f[i]
    BY <1>1, <1>5, <2>2
  <2> HIDE DEF g
  <2>4. ASSUME NEW i \in 1..(n + k + 1) PROVE g[i] = h[i]
    <3>1. CASE i = n + k + 1
      <4>1. ~(i <= n) /\ i - n = k + 1
        BY <1>1, <3>1
      <4> QED
        BY <2>1, <2>3, <3>1, <4>1
    <3>2. CASE i \in 1..(n + k)
      BY <1>2, <2>1, <2>3, <3>2
    <3> QED
      BY <1>1, <3>1, <3>2
  <2>5. g = h
    BY <2>1, <2>3, <2>4
  <2> QED
    BY <2>5 DEF g, h
<1> QED
  BY <1>5, <1>6, <1>7, <1>8

\* The blocks of r are replaced twice.
LEMMA WithTwice ==
    ASSUME NEW own, Holdings(own), NEW r \in KVRid, NEW s
    PROVE  /\ With(own, r, s)[r] = s
           /\ \A x \in KVRid : x # r => With(own, r, s)[x] = own[x]
           /\ With(own, r, own[r]) = own
           /\ \A t : With(With(own, r, s), r, t) = With(own, r, t)
<1>1. DOMAIN own = KVRid /\ own = [x \in KVRid |-> own[x]]
  BY DEF Holdings
<1>2. /\ With(own, r, s)[r] = s
      /\ \A x \in KVRid : x # r => With(own, r, s)[x] = own[x]
  BY <1>1 DEF With
<1>3. With(own, r, own[r]) = own
  BY <1>1 DEF With
<1>4. ASSUME NEW t PROVE With(With(own, r, s), r, t) = With(own, r, t)
  BY <1>1 DEF With
<1> QED
  BY <1>2, <1>3, <1>4

\* get_all_free_blocks, after k rounds.
FollowGood(c, s, k) == s = Upto(c, IF k + 1 <= Len(c) THEN k + 1 ELSE Len(c))

Fol == INSTANCE Iteration WITH Step <- Follow, Good <- FollowGood

\* A list without repetitions of blocks is no longer than there are blocks.
LEMMA ListFits ==
    ASSUME NEW l \in Seq(KVBlock \ {0}), Distinct(l)
    PROVE  /\ Len(l) < NumGpuBlocks
           /\ (\A b \in KVBlock \ {0} : In(b, l)) <=> Len(l) = NumGpuBlocks - 1
<1> DEFINE S == {b \in KVBlock \ {0} : In(b, l)}
           n == Len(l)
<1>1. n \in Nat /\ IsFiniteSet(1..n) /\ Cardinality(1..n) = n
  <2>1. n \in Nat /\ n \in Int /\ 1 \in Int
    OBVIOUS
  <2> HIDE DEF n
  <2>2. IsFiniteSet(1..n) /\ Cardinality(1..n) = IF 1 > n THEN 0 ELSE n - 1 + 1
    BY <2>1, FS_Interval
  <2>3. (IF 1 > n THEN 0 ELSE n - 1 + 1) = n
    BY <2>1
  <2> QED
    BY <2>1, <2>2, <2>3
<1>2. IsFiniteSet(KVBlock \ {0}) /\ Cardinality(KVBlock \ {0}) = NumGpuBlocks - 1
  <2>1. KVBlock \ {0} = 1..(NumGpuBlocks - 1)
    BY KVAssumption DEF KVBlock
  <2>2. 1 \in Int /\ NumGpuBlocks - 1 \in Int /\ NumGpuBlocks - 1 >= 0
    BY KVAssumption
  <2>3. IsFiniteSet(1..(NumGpuBlocks - 1))
        /\ Cardinality(1..(NumGpuBlocks - 1)) = IF 1 > NumGpuBlocks - 1 THEN 0 ELSE (NumGpuBlocks - 1) - 1 + 1
    BY <2>2, FS_Interval
  <2>4. (IF 1 > NumGpuBlocks - 1 THEN 0 ELSE (NumGpuBlocks - 1) - 1 + 1) = NumGpuBlocks - 1
    BY <2>2
  <2> QED
    BY <2>1, <2>3, <2>4
<1> HIDE DEF n
<1>3. l \in Bijection(1..n, S)
  <2>1. /\ l \in [1..n -> S]
        /\ \A i, j \in 1..n : l[i] = l[j] => i = j
        /\ \A b \in S : \E i \in 1..n : l[i] = b
    BY DEF Distinct, In, n
  <2> HIDE DEF S
  <2> QED
    BY <2>1 DEF Bijection, Injection, Surjection, IsInjective
<1>4. IsFiniteSet(S) /\ Cardinality(S) = n
  BY <1>1, <1>3, FS_Bijection DEF ExistsBijection
<1>5. Cardinality(S) <= Cardinality(KVBlock \ {0})
      /\ (Cardinality(S) = Cardinality(KVBlock \ {0}) => S = KVBlock \ {0})
  BY <1>2, FS_Subset
<1>6. n <= NumGpuBlocks - 1 /\ (n = NumGpuBlocks - 1 <=> S = KVBlock \ {0})
  BY <1>2, <1>4, <1>5
<1>7. n < NumGpuBlocks
  BY <1>1, <1>6, KVAssumption
<1> QED
  BY <1>6, <1>7 DEF n

\* The links, followed from the head, give the list.
LEMMA FollowList ==
    ASSUME NEW p, NEW l, PoolType(p), Linked(p, l)
    PROVE  get_all_free_blocks(p) = l
<1> DEFINE n == Len(l)
           start == IF p.head = NoBlock THEN <<>> ELSE <<p.head>>
           rounds == [k \in 1..NumGpuBlocks |-> p.next]
           size(k) == IF k + 1 <= n THEN k + 1 ELSE n
<1>1. /\ l \in Seq(KVBlock \ {0}) /\ Distinct(l) /\ n \in Nat /\ l = [i \in 1..n |-> l[i]]
      /\ \A i \in 1..n : l[i] \in KVBlock /\ l[i] # NoBlock
      /\ NoBlock \notin KVBlock
  BY KVAssumption DEF Linked, KVBlock, NoBlock
<1>2. n < NumGpuBlocks /\ NumGpuBlocks \in Nat
  BY <1>1, ListFits, KVAssumption
<1>3. Len(rounds) = NumGpuBlocks /\ DOMAIN rounds = 1..NumGpuBlocks
      /\ \A k \in 1..NumGpuBlocks : rounds[k] = p.next
  BY <1>2
<1>4. FollowGood(l, start, 0)
  <2>1. CASE n = 0
    <3>1. start = <<>> /\ l = <<>> /\ size(0) = 0
      BY <1>1, <2>1 DEF Linked
    <3>2. Upto(l, 0) = <<>>
      BY DEF Upto
    <3> QED
      BY <2>1, <3>1, <3>2 DEF FollowGood
  <2>2. CASE n > 0
    <3>1. start = <<l[1]>> /\ size(0) = 1
      BY <1>1, <2>2 DEF Linked
    <3>2. Upto(l, 1) = <<l[1]>>
      BY DEF Upto
    <3> QED
      BY <2>2, <3>1, <3>2 DEF FollowGood
  <2> QED
    BY <1>1, <2>1, <2>2
<1> HIDE DEF start, rounds
<1>5. ASSUME NEW k \in 1..NumGpuBlocks, NEW s, FollowGood(l, s, k - 1)
      PROVE  FollowGood(l, Follow(s, rounds[k]), k)
  <2> DEFINE j == size(k - 1)
  <2>1. s = Upto(l, j) /\ j \in 0..n /\ k \in Nat /\ k - 1 \in Nat
    BY <1>1, <1>2, <1>5 DEF FollowGood
  <2>2. s = [i \in 1..j |-> l[i]]
    BY <2>1 DEF Upto
  <2> HIDE DEF j
  <2>3. s \in Seq(KVBlock) /\ Len(s) = j
    BY <1>1, <2>1, <2>2
  <2>4. CASE n = 0
    <3>1. s = <<>> /\ j = 0 /\ size(k) = 0
      BY <2>1, <2>3, <2>4
    <3>2. Follow(s, rounds[k]) = s
      BY <3>1 DEF Follow
    <3> QED
      BY <2>1, <2>4, <3>1, <3>2 DEF FollowGood
  <2>5. CASE n > 0
    <3>1. j > 0 /\ j \in 1..n /\ s # <<>> /\ Last(s) = l[j]
      <4>1. j > 0
        BY <1>1, <1>2, <2>1, <2>5 DEF j
      <4>2. j \in 1..n /\ s # <<>>
        BY <1>1, <2>1, <2>3, <4>1
      <4> QED
        BY <2>2, <2>3, <4>1, <4>2 DEF Last
    <3>2. p.next[l[j]] = IF j = n THEN NoBlock ELSE l[j + 1]
      BY <3>1 DEF Linked
    <3>3. CASE j = n
      <4>1. Follow(s, rounds[k]) = s
        BY <1>3, <3>1, <3>2, <3>3 DEF Follow
      <4>2. size(k) = n
        BY <1>1, <2>1, <3>3 DEF j
      <4> QED
        BY <2>1, <3>3, <4>1, <4>2 DEF FollowGood
    <3>4. CASE j < n
      <4>1. j = k /\ k + 1 <= n /\ size(k) = k + 1
        BY <1>1, <2>1, <3>4 DEF j
      <4>2. l[j + 1] \in KVBlock /\ l[j + 1] # NoBlock
        BY <1>1, <3>1, <3>4
      <4>3. Follow(s, rounds[k]) = Append(s, l[j + 1])
        BY <1>3, <3>1, <3>2, <3>4, <4>2 DEF Follow
      <4>4. Append(s, l[j + 1]) = [i \in 1..(j + 1) |-> l[i]]
        <5> DEFINE t == Append(s, l[j + 1])
        <5>1. /\ t = [i \in 1..(j + 1) |-> t[i]] /\ t[j + 1] = l[j + 1]
              /\ \A i \in 1..j : t[i] = s[i]
          BY <2>3, <3>1, <4>2
        <5> HIDE DEF t
        <5>2. ASSUME NEW i \in 1..(j + 1) PROVE t[i] = l[i]
          <6>1. i \in 1..j => s[i] = l[i]
            BY <2>2
          <6>2. i \in 1..j \/ i = j + 1
            BY <3>1
          <6> QED
            BY <5>1, <6>1, <6>2
        <5>3. t = [i \in 1..(j + 1) |-> l[i]]
          BY <5>1, <5>2
        <5> QED
          BY <5>3 DEF t
      <4> QED
        BY <4>1, <4>3, <4>4 DEF FollowGood, Upto
    <3> QED
      BY <3>1, <3>3, <3>4
  <2> QED
    BY <1>1, <2>4, <2>5
<1>6. FollowGood(l, Fol!End(start, rounds), Len(rounds))
  BY <1>2, <1>3, <1>4, <1>5, Fol!LoopKeeps
<1>7. Fol!End(start, rounds) = l
  <2>1. ~(NumGpuBlocks + 1 <= n)
    BY <1>1, <1>2
  <2> QED
    BY <1>1, <1>3, <1>6, <2>1 DEF FollowGood, Upto
<1>8. get_all_free_blocks(p) = Fol!End(start, rounds)
  BY DEF get_all_free_blocks, start, rounds, Fol!End, FoldLeft, Fol!FoldLeft, MapThenFoldSet, Fol!MapThenFoldSet, Max, Fol!Max
<1> QED
  BY <1>7, <1>8

\* get_new_blocks, after k rounds.
TakeInv(p, own, r, l, s, k) ==
    /\ Pool(s, With(own, r, Plus(own[r], l, k)), Rest(l, k))
    /\ \A x \in KVBlock : s.block_hash[x] = IF In(x, Upto(l, k)) THEN NoHash ELSE p.block_hash[x]

TakeGood(c, s, k) == TakeInv(c.p, c.own, c.r, c.l, s, k)

New == INSTANCE Iteration WITH Step <- TakeHead, Good <- TakeGood

\* The rest of a list without its head.
LEMMA RestCut ==
    ASSUME NEW S, NEW l \in Seq(S), NEW k \in 0..(Len(l) - 1)
    PROVE  /\ Len(Rest(l, k)) = Len(l) - k /\ Rest(l, k)[1] = l[k + 1]
           /\ Cut(Rest(l, k), 1) = Rest(l, k + 1)
           /\ Rest(l, 0) = l
           /\ \A x : In(x, Upto(l, k + 1)) <=> In(x, Upto(l, k)) \/ x = l[k + 1]
           /\ \A x : ~In(x, Upto(l, 0))
<1> DEFINE n == Len(l)
           m == Rest(l, k)
<1>1. n \in Nat /\ k \in Nat /\ k < n /\ n - k \in Nat /\ n - k > 0 /\ l = [i \in 1..n |-> l[i]]
  OBVIOUS
<1>2. \A i \in 1..(n - k) : i + k \in 1..n /\ l[i + k] \in S
  BY <1>1
<1>3. m = [i \in 1..(n - k) |-> m[i]] /\ \A i \in 1..(n - k) : m[i] = l[i + k]
  BY DEF Rest
<1> HIDE DEF m
<1>4. Len(m) = n - k /\ m[1] = l[k + 1]
  <2>1. m \in Seq(S) /\ Len(m) = n - k
    BY <1>1, <1>2, <1>3, ListOf
  <2>2. 1 \in 1..(n - k) /\ 1 + k = k + 1
    BY <1>1
  <2> QED
    BY <1>3, <2>1, <2>2
<1>5. Cut(m, 1) = Rest(l, k + 1)
  <2>1. Cut(m, 1) = [i \in 1..((n - k) - 1) |-> m[i + 1]]
    <3>1. \A i \in 1..((n - k) - 1) : ~(i < 1)
      BY <1>1
    <3> QED
      BY <1>4, <3>1 DEF Cut
  <2>2. (n - k) - 1 = n - (k + 1) /\ \A i \in 1..((n - k) - 1) : i + 1 \in 1..(n - k) /\ (i + 1) + k = i + (k + 1)
    BY <1>1
  <2>3. \A i \in 1..((n - k) - 1) : m[i + 1] = l[i + (k + 1)]
    BY <1>3, <2>2
  <2> QED
    BY <2>1, <2>2, <2>3 DEF Rest
<1>6. Rest(l, 0) = l
  <2>1. n - 0 = n /\ \A i \in 1..n : i + 0 = i
    BY <1>1
  <2>2. Rest(l, 0) = [i \in 1..n |-> l[i]]
    BY <2>1 DEF Rest
  <2> QED
    BY <1>1, <2>2
<1>7. \A j \in 0..n : Len(Upto(l, j)) = j /\ \A i \in 1..j : Upto(l, j)[i] = l[i]
  <2>1. ASSUME NEW j \in 0..n PROVE Len(Upto(l, j)) = j /\ \A i \in 1..j : Upto(l, j)[i] = l[i]
    BY <1>1 DEF Upto
  <2> QED
    BY <2>1
<1>8. ASSUME NEW x PROVE In(x, Upto(l, k + 1)) <=> In(x, Upto(l, k)) \/ x = l[k + 1]
  <2>1. k + 1 \in 0..n /\ k \in 0..n /\ 1..(k + 1) = (1..k) \cup {k + 1}
    BY <1>1
  <2>2. In(x, Upto(l, k + 1)) <=> \E i \in 1..(k + 1) : l[i] = x
    BY <1>7, <2>1 DEF In
  <2>3. In(x, Upto(l, k)) <=> \E i \in 1..k : l[i] = x
    BY <1>7, <2>1 DEF In
  <2> QED
    BY <2>1, <2>2, <2>3
<1>9. ASSUME NEW x PROVE ~In(x, Upto(l, 0))
  BY <1>1, <1>7 DEF In
<1> QED
  BY <1>4, <1>5, <1>6, <1>8, <1>9 DEF m

\* The pool in which r has got the first n blocks of the free list.
GotNew(p, q, own, r, l, n) ==
    /\ Pool(q, With(own, r, own[r] \o SubSeq(l, 1, n)), Rest(l, n))
    /\ \A x \in KVBlock : q.block_hash[x] = IF In(x, Upto(l, n)) THEN NoHash ELSE p.block_hash[x]

\* get_new_blocks gives r the first blocks of the free list.
LEMMA NewBlocksKeep ==
    ASSUME NEW p, NEW own, NEW l, Pool(p, own, l), NEW r \in KVRid, NEW n \in 0..Len(l)
    PROVE  GotNew(p, get_new_blocks(p, n), own, r, l, n)
<1> DEFINE c == [p |-> p, own |-> own, r |-> r, l |-> l]
           rounds == [k \in 1..n |-> k]
           mine == own[r]
<1>1. /\ Holdings(own) /\ mine \in Seq(KVBlock \ {0}) /\ l \in Seq(KVBlock \ {0})
      /\ p.block_hash \in [KVBlock -> KVHash] /\ Len(l) \in Nat /\ n \in Nat
  BY DEF Pool, Holdings, Linked, PoolType
<1>2. Len(rounds) = n /\ DOMAIN rounds = 1..n
  BY <1>1
<1>3. \A s, k : TakeGood(c, s, k) <=> TakeInv(p, own, r, l, s, k)
  BY DEF TakeGood
<1> HIDE DEF c, rounds
<1>4. TakeInv(p, own, r, l, p, 0)
  <2>1. Plus(mine, l, 0) = mine /\ 0 \in 0..Len(l)
    BY <1>1, PlusIs
  <2>2. Rest(l, 0) = l
    <3>1. Len(l) - 0 = Len(l) /\ (\A i \in 1..Len(l) : i + 0 = i) /\ l = [i \in 1..Len(l) |-> l[i]]
      BY <1>1
    <3>2. Rest(l, 0) = [i \in 1..Len(l) |-> l[i]]
      BY <3>1 DEF Rest
    <3> QED
      BY <3>1, <3>2
  <2>3. \A x : ~In(x, Upto(l, 0))
    <3>1. Upto(l, 0) = <<>>
      BY DEF Upto
    <3> QED
      BY <3>1 DEF In
  <2>4. With(own, r, mine) = own
    BY <1>1, WithTwice
  <2> QED
    BY <2>1, <2>2, <2>3, <2>4 DEF TakeInv
<1>5. ASSUME NEW k \in 1..n, NEW s, TakeInv(p, own, r, l, s, k - 1)
      PROVE  TakeInv(p, own, r, l, TakeHead(s, rounds[k]), k)
  <2> DEFINE j == k - 1
             now == With(own, r, Plus(mine, l, j))
             m == Rest(l, j)
             q == TakeHead(s, rounds[k])
  <2>1. j \in 0..(Len(l) - 1) /\ j \in 0..Len(l) /\ j + 1 = k /\ j < Len(l)
    BY <1>1
  <2>2. /\ Pool(s, now, m)
        /\ \A x \in KVBlock : s.block_hash[x] = IF In(x, Upto(l, j)) THEN NoHash ELSE p.block_hash[x]
    BY <1>5 DEF TakeInv
  <2>3. /\ Len(m) = Len(l) - j /\ m[1] = l[k] /\ Cut(m, 1) = Rest(l, k)
        /\ \A x : In(x, Upto(l, k)) <=> In(x, Upto(l, j)) \/ x = l[k]
    <3> HIDE DEF j
    <3>1. /\ Len(m) = Len(l) - j /\ m[1] = l[j + 1] /\ Cut(m, 1) = Rest(l, j + 1)
          /\ \A x : In(x, Upto(l, j + 1)) <=> In(x, Upto(l, j)) \/ x = l[j + 1]
      BY <1>1, <2>1, RestCut
    <3> QED
      BY <2>1, <3>1
  <2>4. Append(Plus(mine, l, j), l[k]) = Plus(mine, l, k)
    <3> HIDE DEF j
    <3>1. Append(Plus(mine, l, j), l[j + 1]) = Plus(mine, l, j + 1)
      BY <1>1, <2>1, PlusIs
    <3> QED
      BY <2>1, <3>1
  <2>5. [now EXCEPT ![r] = Append(@, l[k])] = With(own, r, Plus(mine, l, k))
    <3>1. now[r] = Plus(mine, l, j)
      BY <1>1, WithTwice
    <3>2. With(now, r, Plus(mine, l, k)) = With(own, r, Plus(mine, l, k))
      BY <1>1, WithTwice
    <3> HIDE DEF now
    <3> QED
      BY <2>4, <3>1, <3>2 DEF With
  <2> HIDE DEF now, m
  <2>6. Len(m) > 0
    BY <1>1, <2>1, <2>3
  <2>7. Taken(s, q, now, r, m)
    BY <2>2, <2>6, TakeKeeps
  <2> HIDE DEF q
  <2>8. /\ Pool(q, With(own, r, Plus(mine, l, k)), Rest(l, k))
        /\ q.block_hash = [s.block_hash EXCEPT ![l[k]] = NoHash]
    BY <2>3, <2>5, <2>7 DEF Taken
  <2>9. s.block_hash \in [KVBlock -> KVHash] /\ l[k] \in KVBlock
    <3>1. k \in 1..Len(l)
      BY <1>1
    <3> QED
      BY <1>1, <2>2, <3>1 DEF Pool, PoolType
  <2>10. \A x \in KVBlock : q.block_hash[x] = IF In(x, Upto(l, k)) THEN NoHash ELSE p.block_hash[x]
    BY <2>2, <2>3, <2>8, <2>9
  <2> QED
    BY <2>8, <2>10 DEF TakeInv, q
<1>6. TakeInv(p, own, r, l, New!End(p, rounds), n)
  <2>1. TakeGood(c, p, 0)
    BY <1>3, <1>4
  <2>2. \A k \in 1..Len(rounds) : \A s : TakeGood(c, s, k - 1) => TakeGood(c, TakeHead(s, rounds[k]), k)
    BY <1>2, <1>3, <1>5
  <2>3. TakeGood(c, New!End(p, rounds), Len(rounds))
    BY <1>1, <1>2, <2>1, <2>2, New!LoopKeeps
  <2> QED
    BY <1>2, <1>3, <2>3
<1>7. get_new_blocks(p, n) = New!End(p, rounds)
  BY DEF get_new_blocks, rounds, New!End, FoldLeft, New!FoldLeft, MapThenFoldSet, New!MapThenFoldSet, Max, New!Max
<1>8. Plus(mine, l, n) = mine \o SubSeq(l, 1, n)
  BY <1>1, PlusIs
<1> QED
  BY <1>6, <1>7, <1>8 DEF TakeInv, GotNew

-----------------------------------------------------------------------------
\* touch, after k rounds.
TouchInv(p, own, r, blocks, s, k) ==
    /\ \E m : Pool(s, With(own, r, Upto(blocks, k)), m)
    /\ s.block_hash = p.block_hash /\ s.cached = p.cached
    /\ \A j \in (k + 1)..Len(blocks) : s.ref_cnt[blocks[j]] = p.ref_cnt[blocks[j]]
    /\ s.num_free = p.num_free - Cardinality({j \in 1..k : p.ref_cnt[blocks[j]] = 0})

TouchGood(c, s, k) == TouchInv(c.p, c.own, c.r, c.blocks, s, k)

Tou == INSTANCE Iteration WITH Step <- TouchBlock, Good <- TouchGood

\* blocks: a hit, that is a chain of blocks with hashes.
IsHit(p, blocks) ==
    /\ blocks \in Seq(KVBlock \ {0}) /\ Distinct(blocks)
    /\ \A j \in 1..Len(blocks) : p.block_hash[blocks[j]] # NoHash
    /\ Chain(p, blocks)

\* The pool in which r has got the blocks of a hit.
GotHit(p, q, own, r, blocks) ==
    /\ \E m : Pool(q, With(own, r, blocks), m)
    /\ q.block_hash = p.block_hash /\ q.cached = p.cached
    /\ q.num_free = p.num_free - Cardinality({j \in 1..Len(blocks) : p.ref_cnt[blocks[j]] = 0})

\* The first elements of a list.
LEMMA UptoIs ==
    ASSUME NEW S, NEW l \in Seq(S), NEW k \in 0..Len(l)
    PROVE  /\ Upto(l, k) \in Seq(S) /\ Len(Upto(l, k)) = k
           /\ \A i \in 1..k : Upto(l, k)[i] = l[i]
           /\ Upto(l, 0) = <<>> /\ Upto(l, Len(l)) = l
           /\ k > 0 => Front(Upto(l, k)) = Upto(l, k - 1) /\ Last(Upto(l, k)) = l[k]
<1> DEFINE u == Upto(l, k)
<1>1. k \in Nat /\ Len(l) \in Nat /\ \A i \in 1..k : l[i] \in S
  OBVIOUS
<1>2. u = [i \in 1..k |-> u[i]] /\ \A i \in 1..k : u[i] = l[i]
  BY DEF Upto
<1> HIDE DEF u
<1>3. u \in Seq(S) /\ Len(u) = k
  BY <1>1, <1>2, ListOf
<1>4. Upto(l, 0) = <<>> /\ Upto(l, Len(l)) = l
  <2>1. l = [i \in 1..Len(l) |-> l[i]]
    OBVIOUS
  <2>2. Upto(l, 0) = <<>>
    BY DEF Upto
  <2> QED
    BY <2>1, <2>2 DEF Upto
<1>6. ASSUME k > 0 PROVE Front(u) = Upto(l, k - 1) /\ Last(u) = l[k]
  <2>1. Front(u) = SubSeq(u, 1, k - 1) /\ Last(u) = u[k]
    BY <1>3 DEF Front, Last
  <2>2. SubSeq(u, 1, k - 1) = [i \in 1..(k - 1) |-> u[i]]
    BY <1>1, <1>3, <1>6
  <2>3. \A i \in 1..(k - 1) : u[i] = l[i]
    BY <1>1, <1>2
  <2>4. SubSeq(u, 1, k - 1) = Upto(l, k - 1)
    BY <2>2, <2>3 DEF Upto
  <2>5. k \in 1..k
    BY <1>1, <1>6
  <2> QED
    BY <1>2, <2>1, <2>4, <2>5
<1> QED
  BY <1>2, <1>3, <1>4, <1>6 DEF u

\* One element more.
LEMMA UptoMore ==
    ASSUME NEW S, NEW l \in Seq(S), NEW k \in 0..(Len(l) - 1)
    PROVE  Append(Upto(l, k), l[k + 1]) = Upto(l, k + 1)
<1> DEFINE u == Upto(l, k)
           t == Append(u, l[k + 1])
<1>1. k \in Nat /\ Len(l) \in Nat /\ k \in 0..Len(l) /\ l[k + 1] \in S
  OBVIOUS
<1>2. u \in Seq(S) /\ Len(u) = k /\ \A i \in 1..k : u[i] = l[i]
  BY <1>1, UptoIs
<1> HIDE DEF u
<1>3. t = [i \in 1..(k + 1) |-> t[i]] /\ t[k + 1] = l[k + 1] /\ \A i \in 1..k : t[i] = u[i]
  BY <1>1, <1>2
<1> HIDE DEF t
<1>4. ASSUME NEW i \in 1..(k + 1) PROVE t[i] = l[i]
  <2>1. i \in 1..k \/ i = k + 1
    BY <1>1
  <2> QED
    BY <1>2, <1>3, <2>1
<1>5. t = Upto(l, k + 1)
  BY <1>3, <1>4 DEF Upto
<1> QED
  BY <1>5 DEF t, u

\* touch gives r the blocks of a hit.
LEMMA HitKeeps ==
    ASSUME NEW p, NEW own, NEW l, Pool(p, own, l), NEW r \in KVRid, own[r] = <<>>,
           NEW blocks, IsHit(p, blocks)
    PROVE  GotHit(p, touch(p, blocks), own, r, blocks)
<1> DEFINE c == [p |-> p, own |-> own, r |-> r, blocks |-> blocks]
           n == Len(blocks)
           used(k) == {j \in 1..k : p.ref_cnt[blocks[j]] = 0}
<1>1. /\ Holdings(own) /\ blocks \in Seq(KVBlock \ {0}) /\ n \in Nat /\ DOMAIN blocks = 1..n
      /\ Distinct(blocks) /\ p.ref_cnt \in [KVBlock -> Nat] /\ p.num_free \in Nat
      /\ \A j \in 1..n : blocks[j] \in KVBlock \ {0}
  BY DEF Pool, Holdings, PoolType, IsHit
<1>2. \A s, k : TouchGood(c, s, k) <=> TouchInv(p, own, r, blocks, s, k)
  BY DEF TouchGood
<1>3. ASSUME NEW k \in 0..n PROVE IsFiniteSet(used(k)) /\ Cardinality(used(k)) \in Nat
  <2>1. IsFiniteSet(1..k)
    <3>1. 1 \in Int /\ k \in Int
      BY <1>1
    <3> QED
      BY <3>1, FS_Interval
  <2>2. used(k) \in SUBSET (1..k)
    OBVIOUS
  <2> HIDE DEF used
  <2> QED
    BY <2>1, <2>2, FS_Subset, FS_CardinalityType
<1> HIDE DEF c
<1>4. TouchInv(p, own, r, blocks, p, 0)
  <2>1. Upto(blocks, 0) = <<>> /\ 0 \in 0..n
    BY <1>1, UptoIs
  <2>2. With(own, r, own[r]) = own
    BY <1>1, WithTwice
  <2>3. used(0) = {} /\ Cardinality({}) = 0
    BY FS_EmptySet
  <2>4. p.num_free = p.num_free - Cardinality(used(0))
    BY <1>1, <2>3
  <2> QED
    BY <2>1, <2>2, <2>4 DEF TouchInv
<1>5. ASSUME NEW k \in 1..n, NEW s, TouchInv(p, own, r, blocks, s, k - 1)
      PROVE  TouchInv(p, own, r, blocks, TouchBlock(s, blocks[k]), k)
  <2> DEFINE j == k - 1
             now == With(own, r, Upto(blocks, j))
             b == blocks[k]
             q == TouchBlock(s, b)
  <2>1. j \in 0..n /\ j + 1 = k /\ j < n /\ k \in 0..n /\ j \in Nat
    BY <1>1
  <2>2. /\ \E m : Pool(s, now, m)
        /\ s.block_hash = p.block_hash /\ s.cached = p.cached
        /\ \A i \in (j + 1)..n : s.ref_cnt[blocks[i]] = p.ref_cnt[blocks[i]]
        /\ s.num_free = p.num_free - Cardinality(used(j))
    BY <1>5 DEF TouchInv
  <2>3. PICK m : Pool(s, now, m)
    BY <2>2
  <2> HIDE DEF j
  <2>4. /\ Upto(blocks, j) \in Seq(KVBlock \ {0}) /\ Len(Upto(blocks, j)) = j
        /\ \A i \in 1..j : Upto(blocks, j)[i] = blocks[i]
        /\ Append(Upto(blocks, j), blocks[k]) = Upto(blocks, k)
    <3>1. Append(Upto(blocks, j), blocks[j + 1]) = Upto(blocks, j + 1)
      <4>1. j \in 0..(Len(blocks) - 1) /\ blocks \in Seq(KVBlock \ {0})
        BY <1>1, <2>1
      <4> QED
        BY <4>1, UptoMore
    <3>2. /\ Upto(blocks, j) \in Seq(KVBlock \ {0}) /\ Len(Upto(blocks, j)) = j
          /\ \A i \in 1..j : Upto(blocks, j)[i] = blocks[i]
      BY <1>1, <2>1, UptoIs
    <3> QED
      BY <2>1, <3>1, <3>2
  <2>5. now[r] = Upto(blocks, j)
    BY <1>1, WithTwice
  <2>6. [now EXCEPT ![r] = Append(@, b)] = With(own, r, Upto(blocks, k))
    <3>1. With(now, r, Upto(blocks, k)) = With(own, r, Upto(blocks, k))
      BY <1>1, WithTwice
    <3> HIDE DEF now
    <3> QED
      BY <2>4, <2>5, <3>1 DEF With
  <2> HIDE DEF now
  <2>7. b \in KVBlock \ {0} /\ s.block_hash[b] # NoHash
    BY <1>1, <2>2 DEF IsHit
  <2>8. ~In(b, now[r])
    <3>1. SUFFICES ASSUME NEW i \in 1..j, blocks[i] = blocks[k] PROVE FALSE
      BY <2>4, <2>5 DEF In
    <3>2. i \in 1..n /\ i # k
      BY <1>1, <2>1
    <3> QED
      BY <1>1, <3>1, <3>2 DEF Distinct
  <2>9. Continues(s, now[r], b)
    <3>1. SUFFICES ASSUME Len(p.block_hash[b]) > KVBlockSize
                   PROVE  j > 0 /\ p.block_hash[Upto(blocks, j)[j]] = Parent(p.block_hash[b])
      BY <2>2, <2>4, <2>5 DEF Continues
    <3>2. k > 1 /\ p.block_hash[blocks[k - 1]] = Parent(p.block_hash[blocks[k]])
      BY <3>1 DEF IsHit, Chain
    <3>3. j > 0 /\ j \in 1..j /\ k - 1 = j
      BY <1>1, <2>1, <3>2
    <3> QED
      BY <2>4, <3>2, <3>3
  <2>10. Touched(s, q, now, r, b)
    BY <2>3, <2>7, <2>8, <2>9, TouchKeeps
  <2> HIDE DEF q
  <2>11. /\ \E x : Pool(q, With(own, r, Upto(blocks, k)), x)
         /\ q.block_hash = p.block_hash /\ q.cached = p.cached
         /\ q.ref_cnt = [s.ref_cnt EXCEPT ![b] = s.ref_cnt[b] + 1]
         /\ q.num_free = IF s.ref_cnt[b] = 0 THEN s.num_free - 1 ELSE s.num_free
    BY <2>2, <2>6, <2>10 DEF Touched
  <2>12. ASSUME NEW i \in (k + 1)..n PROVE q.ref_cnt[blocks[i]] = p.ref_cnt[blocks[i]]
    <3>1. i \in 1..n /\ i # k /\ i \in (j + 1)..n
      BY <1>1, <2>1
    <3>2. blocks[i] # b /\ blocks[i] \in KVBlock
      BY <1>1, <3>1 DEF Distinct
    <3>3. s.ref_cnt \in [KVBlock -> Nat]
      BY <2>3 DEF Pool, PoolType
    <3> QED
      BY <2>2, <2>11, <3>1, <3>2, <3>3
  <2>13. q.num_free = p.num_free - Cardinality(used(k))
    <3>1. s.ref_cnt[b] = p.ref_cnt[b]
      <4>1. k \in (j + 1)..n
        BY <1>1, <2>1
      <4> QED
        BY <2>2, <4>1
    <3>2. 1..k = (1..j) \cup {k} /\ k \notin 1..j
      BY <1>1, <2>1
    <3>3. IsFiniteSet(used(j)) /\ Cardinality(used(j)) \in Nat
      BY <1>3, <2>1
    <3>4. CASE p.ref_cnt[b] = 0
      <4>1. used(k) = used(j) \cup {k} /\ k \notin used(j)
        BY <3>2, <3>4
      <4> HIDE DEF used
      <4>2. Cardinality(used(k)) = Cardinality(used(j)) + 1
        BY <3>3, <4>1, FS_AddElement
      <4>3. q.num_free = s.num_free - 1
        BY <2>11, <3>1, <3>4
      <4>4. s.num_free = p.num_free - Cardinality(used(j))
        BY <2>2
      <4>5. p.num_free \in Nat
        BY <1>1
      <4> QED
        BY <3>3, <4>2, <4>3, <4>4, <4>5
    <3>5. CASE p.ref_cnt[b] # 0
      <4>1. used(k) = used(j)
        BY <3>2, <3>5
      <4> HIDE DEF used
      <4> QED
        BY <2>2, <2>11, <3>1, <3>5, <4>1
    <3> QED
      BY <3>4, <3>5
  <2> QED
    BY <2>11, <2>12, <2>13 DEF TouchInv, q
<1>6. TouchInv(p, own, r, blocks, Tou!End(p, blocks), n)
  <2>1. TouchGood(c, p, 0)
    BY <1>2, <1>4
  <2>2. \A k \in 1..n : \A s : TouchGood(c, s, k - 1) => TouchGood(c, TouchBlock(s, blocks[k]), k)
    BY <1>2, <1>5
  <2>3. TouchGood(c, Tou!End(p, blocks), n)
    BY <1>1, <2>1, <2>2, Tou!LoopKeeps
  <2> QED
    BY <1>2, <2>3
<1>7. touch(p, blocks) = Tou!End(p, blocks)
  BY DEF touch, Tou!End, FoldLeft, Tou!FoldLeft, MapThenFoldSet, Tou!MapThenFoldSet, Max, Tou!Max
<1>8. Upto(blocks, n) = blocks
  <2>1. 0 \in 0..n
    BY <1>1
  <2> QED
    BY <1>1, <2>1, UptoIs
<1> QED
  BY <1>6, <1>7, <1>8 DEF TouchInv, GotHit

\* No block is touched for a request that hits none.
LEMMA TouchNone ==
    ASSUME NEW p
    PROVE  touch(p, <<>>) = p
<1>1. Len(<<>>) = 0 /\ DOMAIN <<>> = 1..0 /\ 0 \in Nat
  OBVIOUS
<1> DEFINE e == <<>>
<1>2. PICK f : f[0] = p /\ f[Len(e)] = Tou!End(p, e)
  BY <1>1, Tou!LoopTrace
<1>3. Tou!End(p, e) = p
  BY <1>1, <1>2
<1>4. touch(p, e) = Tou!End(p, e)
  BY DEF touch, Tou!End, FoldLeft, Tou!FoldLeft, MapThenFoldSet, Tou!MapThenFoldSet, Max, Tou!Max
<1> QED
  BY <1>3, <1>4

-----------------------------------------------------------------------------
\* free_blocks, after k rounds.
FreeInv(p, own, r, s, k) ==
    /\ \E m : Pool(s, With(own, r, Upto(own[r], Len(own[r]) - k)), m)
    /\ s.block_hash = p.block_hash /\ s.cached = p.cached

FreeGood(c, s, k) == FreeInv(c.p, c.own, c.r, s, k)

Fre == INSTANCE Iteration WITH Step <- FreeBlock, Good <- FreeGood

\* The pool in which r owns nothing any more.
GaveBack(p, q, own, r) ==
    /\ \E m : Pool(q, With(own, r, <<>>), m)
    /\ q.block_hash = p.block_hash /\ q.cached = p.cached

\* free gives back all blocks of r, the last one first.
LEMMA GiveBack ==
    ASSUME NEW p, NEW own, NEW l, Pool(p, own, l), NEW r \in KVRid
    PROVE  GaveBack(p, free_blocks(p, FreeOrder(own[r])), own, r)
<1> DEFINE c == [p |-> p, own |-> own, r |-> r]
           mine == own[r]
           n == Len(mine)
           order == FreeOrder(mine)
<1>1. Holdings(own) /\ mine \in Seq(KVBlock \ {0}) /\ n \in Nat
  BY DEF Pool, Holdings
<1>2. order = [i \in 1..n |-> mine[(n - i) + 1]]
  BY DEF FreeOrder, Reverse
<1>3. Len(order) = n /\ DOMAIN order = 1..n /\ \A k \in 1..n : order[k] = mine[(n - k) + 1]
  BY <1>1, <1>2
<1>4. \A s, k : FreeGood(c, s, k) <=> FreeInv(p, own, r, s, k)
  BY DEF FreeGood
<1> HIDE DEF c, order
<1>5. FreeInv(p, own, r, p, 0)
  <2>1. n - 0 = n /\ n \in 0..n
    BY <1>1
  <2>2. Upto(mine, n) = mine
    BY <1>1, <2>1, UptoIs
  <2>3. With(own, r, mine) = own
    BY <1>1, WithTwice
  <2> QED
    BY <2>1, <2>2, <2>3 DEF FreeInv
<1>6. ASSUME NEW k \in 1..n, NEW s, FreeInv(p, own, r, s, k - 1)
      PROVE  FreeInv(p, own, r, FreeBlock(s, order[k]), k)
  <2> DEFINE j == n - (k - 1)
             now == With(own, r, Upto(mine, j))
             b == order[k]
             q == FreeBlock(s, b)
  <2>1. j \in 0..n /\ j > 0 /\ j - 1 = n - k /\ (n - k) + 1 = j
    BY <1>1
  <2>2. PICK m : Pool(s, now, m)
    BY <1>6 DEF FreeInv
  <2>3. s.block_hash = p.block_hash /\ s.cached = p.cached
    BY <1>6 DEF FreeInv
  <2>4. b = mine[j]
    BY <1>3, <2>1
  <2> HIDE DEF j
  <2>5. Front(Upto(mine, j)) = Upto(mine, j - 1) /\ Last(Upto(mine, j)) = b /\ Len(Upto(mine, j)) = j
    <3> HIDE DEF b
    <3> QED
      BY <1>1, <2>1, <2>4, UptoIs
  <2>6. now[r] = Upto(mine, j)
    BY <1>1, WithTwice
  <2>7. [now EXCEPT ![r] = Front(@)] = With(own, r, Upto(mine, n - k))
    <3>1. With(now, r, Upto(mine, j - 1)) = With(own, r, Upto(mine, j - 1))
      BY <1>1, WithTwice
    <3> HIDE DEF now
    <3> QED
      BY <2>1, <2>5, <2>6, <3>1 DEF With
  <2> HIDE DEF now, b
  <2>8. Freed(s, q, now, r)
    <3>1. Len(now[r]) > 0 /\ Last(now[r]) = b
      BY <2>1, <2>5, <2>6
    <3>2. Freed(s, FreeBlock(s, Last(now[r])), now, r)
      BY <2>2, <3>1, FreeKeeps
    <3> QED
      BY <3>1, <3>2
  <2> HIDE DEF q
  <2>9. /\ \E x : Pool(q, With(own, r, Upto(mine, n - k)), x)
        /\ q.block_hash = p.block_hash /\ q.cached = p.cached
    BY <2>3, <2>7, <2>8 DEF Freed
  <2> QED
    BY <2>9 DEF FreeInv, q, b
<1>7. FreeInv(p, own, r, Fre!End(p, order), n)
  <2>1. FreeGood(c, p, 0)
    BY <1>4, <1>5
  <2>2. \A k \in 1..n : \A s : FreeGood(c, s, k - 1) => FreeGood(c, FreeBlock(s, order[k]), k)
    BY <1>4, <1>6
  <2>3. FreeGood(c, Fre!End(p, order), n)
    BY <1>1, <1>3, <2>1, <2>2, Fre!LoopKeeps
  <2> QED
    BY <1>4, <2>3
<1>8. free_blocks(p, order) = Fre!End(p, order)
  BY DEF free_blocks, Fre!End, FoldLeft, Fre!FoldLeft, MapThenFoldSet, Fre!MapThenFoldSet, Max, Fre!Max
<1>9. Upto(mine, n - n) = <<>>
  <2>1. n - n = 0 /\ 0 \in 0..n
    BY <1>1
  <2> QED
    BY <1>1, <2>1, UptoIs
<1> QED
  BY <1>7, <1>8, <1>9 DEF FreeInv, GaveBack, order

-----------------------------------------------------------------------------
\* cache_full_blocks, when the first n blocks of r have their hashes.
HashedUpto(p, own, r, l, hashes, s, n) ==
    /\ Pool(s, own, l)
    /\ \A i \in 1..Len(own[r]) : s.block_hash[own[r][i]] = IF i <= n THEN hashes[i] ELSE NoHash
    /\ \A x \in KVBlock : ~In(x, own[r]) \/ p.block_hash[x] # NoHash =>
                              s.block_hash[x] = p.block_hash[x]

CacheGood(c, s, k) == HashedUpto(c.p, c.own, c.r, c.l, c.hashes, s, c.num_cached + k)

Cac == INSTANCE Iteration WITH Step <- CacheBlock, Good <- CacheGood

\* hashes: the hashes of a chain of at least n blocks.
HashChain(hashes, n) ==
    \A i \in 1..n : /\ hashes[i] \in KVHash /\ hashes[i] # NoHash
                    /\ Len(hashes[i]) > KVBlockSize => i > 1 /\ hashes[i - 1] = Parent(hashes[i])

\* An assertion that holds changes nothing.
LEMMA AssertionHolds ==
    ASSUME NEW p, PoolType(p), NEW c, c = TRUE
    PROVE  [p EXCEPT !.ok = @ /\ c] = p
<1> DEFINE q == [p EXCEPT !.ok = p.ok /\ c]
<1>1. DOMAIN p = {"ref_cnt", "block_hash", "prev", "next", "head", "tail", "num_free", "cached", "ok"}
      /\ p = [x \in DOMAIN p |-> p[x]] /\ p.ok = TRUE
  BY DEF PoolType
<1>2. q = [x \in DOMAIN p |-> IF x = "ok" THEN (p.ok /\ c) ELSE p[x]]
  BY <1>1
<1>3. (p.ok /\ c) = p.ok
  BY <1>1
<1>4. \A x \in DOMAIN p : (IF x = "ok" THEN (p.ok /\ c) ELSE p[x]) = p[x]
  BY <1>3
<1>5. q = p
  BY <1>1, <1>2, <1>4
<1> QED
  BY <1>5

\* cache_full_blocks gives the blocks that have become full their hashes.
LEMMA FullBlocksKeep ==
    ASSUME NEW p, NEW own, NEW l, Pool(p, own, l), NEW r \in KVRid, NEW hashes,
           NEW num_cached \in Nat, NEW num_full \in Nat,
           num_cached <= num_full, num_full <= Len(own[r]), HashChain(hashes, num_full),
           \A i \in 1..Len(own[r]) :
               p.block_hash[own[r][i]] = IF i <= num_cached THEN hashes[i] ELSE NoHash
    PROVE  HashedUpto(p, own, r, l, hashes,
                      cache_full_blocks(p, own[r], hashes, num_cached, num_full), num_full)
<1> DEFINE mine == own[r]
           c == [p |-> p, own |-> own, r |-> r, l |-> l, hashes |-> hashes, num_cached |-> num_cached]
           n == num_full - num_cached
           todo == [k \in 1..n |-> [block |-> mine[num_cached + k], hash |-> hashes[num_cached + k]]]
           q == cache_full_blocks(p, mine, hashes, num_cached, num_full)
<1>1. Holdings(own) /\ PoolType(p) /\ mine \in Seq(KVBlock \ {0}) /\ Distinct(mine) /\ Len(mine) \in Nat /\ n \in Nat
  BY DEF Pool, Holdings
<1>2. HashedUpto(p, own, r, l, hashes, p, num_cached)
  BY DEF HashedUpto
<1>3. CASE num_cached = num_full
  <2>1. q = p
    BY <1>3 DEF cache_full_blocks
  <2> QED
    BY <1>2, <1>3, <2>1
<1>4. CASE num_cached # num_full
  <2> DEFINE p0 == [p EXCEPT !.ok = @ /\ (num_cached > 0 => p.block_hash[mine[num_cached]] # NoHash)]
  <2>1. p0 = p
    <3>1. num_cached > 0 => p.block_hash[mine[num_cached]] # NoHash
      BY <1>1 DEF HashChain
    <3>2. (num_cached > 0 => p.block_hash[mine[num_cached]] # NoHash) = TRUE
      BY <3>1
    <3> QED
      BY <1>1, <3>2, AssertionHolds
  <2>2. q = FoldLeft(CacheBlock, p, todo)
    <3>1. q = FoldLeft(CacheBlock, p0, todo)
      BY <1>4 DEF cache_full_blocks
    <3> HIDE DEF q, p0, todo
    <3> QED
      BY <2>1, <3>1
  <2>3. Len(todo) = n /\ DOMAIN todo = 1..n
        /\ \A k \in 1..n : todo[k] = [block |-> mine[num_cached + k], hash |-> hashes[num_cached + k]]
    BY <1>1
  <2>4. \A s, k : CacheGood(c, s, k) <=> HashedUpto(p, own, r, l, hashes, s, num_cached + k)
    BY DEF CacheGood
  <2> HIDE DEF c, todo, q
  <2>5. ASSUME NEW k \in 1..n, NEW s, HashedUpto(p, own, r, l, hashes, s, num_cached + (k - 1))
        PROVE  HashedUpto(p, own, r, l, hashes, CacheBlock(s, todo[k]), num_cached + k)
    <3> DEFINE j == num_cached + k
               b == mine[j]
               t == CacheBlock(s, todo[k])
    <3>1. j \in 1..Len(mine) /\ j \in 1..num_full /\ num_cached + (k - 1) = j - 1 /\ j > num_cached
      BY <1>1
    <3>2. /\ Pool(s, own, l)
          /\ \A i \in 1..Len(mine) : s.block_hash[mine[i]] = IF i <= j - 1 THEN hashes[i] ELSE NoHash
          /\ \A x \in KVBlock : ~In(x, mine) \/ p.block_hash[x] # NoHash =>
                                    s.block_hash[x] = p.block_hash[x]
      BY <2>5, <3>1 DEF HashedUpto
    <3>3. t = CacheBlock(s, [block |-> b, hash |-> hashes[j]])
      BY <2>3
    <3> HIDE DEF j, t
    <3>4. s.block_hash[b] = NoHash
      BY <3>1, <3>2
    <3>5. hashes[j] \in KVHash /\ hashes[j] # NoHash
      BY <3>1 DEF HashChain
    <3>6. ASSUME Len(hashes[j]) > KVBlockSize
          PROVE  j > 1 /\ s.block_hash[mine[j - 1]] = Parent(hashes[j])
      <4>1. j > 1 /\ hashes[j - 1] = Parent(hashes[j])
        BY <3>1, <3>6 DEF HashChain
      <4>2. j - 1 \in 1..Len(mine) /\ j - 1 <= j - 1
        BY <1>1, <3>1, <4>1
      <4> QED
        BY <3>2, <4>1, <4>2
    <3>7. Cached(s, t, own, l, b, hashes[j])
      BY <3>1, <3>2, <3>3, <3>4, <3>5, <3>6, CacheKeeps
    <3>8. Pool(t, own, l) /\ t.block_hash = [s.block_hash EXCEPT ![b] = hashes[j]]
      BY <3>7 DEF Cached
    <3>9. s.block_hash \in [KVBlock -> KVHash] /\ b \in KVBlock /\ \A i \in 1..Len(mine) : mine[i] \in KVBlock
      <4>1. \A i \in 1..Len(mine) : mine[i] \in KVBlock
        BY <1>1
      <4>2. b \in KVBlock
        BY <3>1, <4>1
      <4>3. Pool(s, own, l)
        BY <3>2
      <4>4. s.block_hash \in [KVBlock -> KVHash]
        BY <4>3 DEF Pool, PoolType
      <4> QED
        BY <4>1, <4>2, <4>4
    <3>10. ASSUME NEW i \in 1..Len(mine) PROVE t.block_hash[mine[i]] = IF i <= j THEN hashes[i] ELSE NoHash
      <4>1. CASE i = j
        BY <3>1, <3>8, <3>9, <4>1
      <4>2. CASE i # j
        <5>1. mine[i] # b
          BY <1>1, <3>1, <4>2 DEF Distinct
        <5>2. t.block_hash[mine[i]] = s.block_hash[mine[i]]
          BY <3>8, <3>9, <5>1
        <5>3. i <= j - 1 <=> i <= j
          BY <1>1, <3>1, <4>2
        <5> QED
          BY <3>2, <5>2, <5>3
      <4> QED
        BY <4>1, <4>2
    <3>11. ASSUME NEW x \in KVBlock, ~In(x, mine) \/ p.block_hash[x] # NoHash
           PROVE  t.block_hash[x] = p.block_hash[x]
      <4>1. p.block_hash[b] = NoHash /\ In(b, mine)
        <5>1. ~(j <= num_cached)
          BY <3>1
        <5> QED
          BY <3>1, <5>1 DEF In
      <4>2. x # b
        BY <3>11, <4>1
      <4> QED
        BY <3>2, <3>8, <3>9, <3>11, <4>2
    <3> QED
      BY <3>8, <3>10, <3>11 DEF HashedUpto, j, t
  <2>6. HashedUpto(p, own, r, l, hashes, Cac!End(p, todo), num_full)
    <3>1. CacheGood(c, p, 0)
      <4>1. num_cached + 0 = num_cached
        OBVIOUS
      <4> QED
        BY <1>2, <2>4, <4>1
    <3>2. \A k \in 1..n : \A s : CacheGood(c, s, k - 1) => CacheGood(c, CacheBlock(s, todo[k]), k)
      BY <2>4, <2>5
    <3>3. CacheGood(c, Cac!End(p, todo), n)
      BY <1>1, <2>3, <3>1, <3>2, Cac!LoopKeeps
    <3>4. num_cached + n = num_full
      BY <1>1
    <3> QED
      BY <2>4, <3>3, <3>4
  <2>7. FoldLeft(CacheBlock, p, todo) = Cac!End(p, todo)
    BY DEF Cac!End, FoldLeft, Cac!FoldLeft, MapThenFoldSet, Cac!MapThenFoldSet, Max, Cac!Max
  <2> QED
    BY <2>2, <2>6, <2>7 DEF q
<1> QED
  BY <1>3, <1>4

-----------------------------------------------------------------------------
(* Numbers of blocks. *)

\* Multiples.
LEMMA TimesMonotone ==
    ASSUME NEW a \in Nat, NEW b \in Nat, NEW n \in Nat, a <= b
    PROVE  a * n <= b * n /\ a * n \in Nat
<1>1. PICK d \in Nat : b = a + d
  <2>1. b - a \in Nat /\ b = a + (b - a)
    OBVIOUS
  <2> QED
    BY <2>1
<1>2. b * n = a * n + d * n /\ d * n \in Nat /\ a * n \in Nat
  BY <1>1
<1> QED
  BY <1>2

\* Division.
LEMMA Division ==
    ASSUME NEW a \in Nat, NEW n \in Nat \ {0}
    PROVE  /\ a \div n \in Nat
           /\ (a \div n) * n <= a /\ a < (a \div n) * n + n
OBVIOUS

\* The quotient is the largest number whose multiple is not larger.
LEMMA Quotient ==
    ASSUME NEW a \in Nat, NEW n \in Nat \ {0}, NEW k \in Nat
    PROVE  k * n <= a <=> k <= a \div n
<1> DEFINE q == a \div n
<1>1. q \in Nat /\ q * n <= a /\ a < q * n + n
  BY Division
<1> HIDE DEF q
<1>2. ASSUME k <= q PROVE k * n <= a
  <2>1. k * n <= q * n /\ k * n \in Nat /\ q * n \in Nat
    BY <1>1, <1>2, TimesMonotone
  <2> QED
    BY <1>1, <2>1
<1>3. ASSUME k > q PROVE k * n > a
  <2>1. q + 1 \in Nat /\ q + 1 <= k
    BY <1>1, <1>3
  <2>2. (q + 1) * n <= k * n /\ k * n \in Int /\ q * n \in Int
    BY <1>1, <2>1, TimesMonotone
  <2>3. (q + 1) * n = q * n + n
    BY <1>1
  <2> QED
    BY <1>1, <2>2, <2>3
<1>4. k * n \in Nat
  OBVIOUS
<1>5. k <= q \/ k > q
  BY <1>1
<1> QED
  BY <1>2, <1>3, <1>4, <1>5 DEF q

\* The number of blocks for a tokens: the full ones and perhaps one more.
LEMMA CeilDiv ==
    ASSUME NEW a \in Nat, NEW b \in Nat, a <= b, NEW n \in Nat \ {0}
    PROVE  /\ cdiv(a, n) \in Nat /\ a \div n \in Nat
           /\ a \div n <= cdiv(a, n) /\ cdiv(a, n) <= cdiv(b, n)
           /\ a \div n <= b \div n
<1>1. a + n - 1 \in Nat /\ b + n - 1 \in Nat /\ a <= a + n - 1 /\ a + n - 1 <= b + n - 1
  OBVIOUS
<1>2. ASSUME NEW x \in Nat, NEW y \in Nat, x <= y PROVE x \div n <= y \div n
  <2>1. x \div n \in Nat /\ (x \div n) * n <= x
    BY Division
  <2>2. (x \div n) * n <= y /\ (x \div n) * n \in Nat
    <3>1. (x \div n) * n \in Nat
      BY <2>1
    <3> QED
      BY <1>2, <2>1, <3>1
  <2> QED
    BY <2>1, <2>2, Quotient
<1>3. a \div n \in Nat /\ cdiv(a, n) \in Nat
  BY <1>1, Division DEF cdiv
<1> QED
  BY <1>1, <1>2, <1>3 DEF cdiv

-----------------------------------------------------------------------------
(* The hashes of the tokens of a request. *)

\* hashes: those of the first blocks of tokens.
TokenHashes(tokens, hashes) ==
    /\ hashes \in Seq(KVHash) /\ Len(hashes) * KVBlockSize <= Len(tokens)
    /\ \A i \in 1..Len(hashes) : hashes[i] = SubSeq(tokens, 1, i * KVBlockSize)

\* The hash of the i-th block.
BlockHash(tokens, i, h) ==
    /\ h \in KVHash /\ Len(h) = i * KVBlockSize /\ h # NoHash
    /\ Len(h) > KVBlockSize =>
           i > 1 /\ SubSeq(tokens, 1, (i - 1) * KVBlockSize) = Parent(h)

\* The first tokens, up to the end of a block.
LEMMA PrefixHash ==
    ASSUME NEW tokens \in KVHash, NEW i \in Nat, i >= 1, i * KVBlockSize <= Len(tokens)
    PROVE  BlockHash(tokens, i, SubSeq(tokens, 1, i * KVBlockSize))
<1> DEFINE n == i * KVBlockSize
           h == SubSeq(tokens, 1, n)
<1>1. KVBlockSize \in Nat /\ KVBlockSize > 0
  BY KVAssumption
<1>2. n \in Nat /\ n >= KVBlockSize /\ n <= Len(tokens) /\ (i - 1) * KVBlockSize = n - KVBlockSize
  <2>1. 1 * KVBlockSize <= n /\ n \in Nat
    <3>1. 1 * KVBlockSize <= i * KVBlockSize
      BY <1>1, TimesMonotone
    <3> QED
      BY <1>1, <3>1
  <2>2. (i - 1) * KVBlockSize = i * KVBlockSize - KVBlockSize
    BY <1>1
  <2> QED
    BY <1>1, <2>1, <2>2
<1>3. i = 1 => n = KVBlockSize
  BY <1>1
<1> HIDE DEF n
<1>4. h \in KVHash /\ Len(h) = n /\ \A k \in 1..n : h[k] = tokens[k]
  <2>1. \A k \in 1..n : tokens[k] \in KVTok
    BY <1>2 DEF KVHash
  <2>2. h \in Seq(KVTok) /\ Len(h) = (IF 1 <= n THEN n - 1 + 1 ELSE 0)
        /\ \A k \in 1..(n - 1 + 1) : h[k] = tokens[1 + k - 1]
    BY <1>2, <2>1, SubSeqProperties
  <2> QED
    BY <1>1, <1>2, <2>2 DEF KVHash
<1> HIDE DEF h
<1>5. h # NoHash
  BY <1>1, <1>2, <1>4 DEF NoHash
<1>6. ASSUME Len(h) > KVBlockSize
      PROVE  i > 1 /\ SubSeq(tokens, 1, n - KVBlockSize) = Parent(h)
  <2> DEFINE d == n - KVBlockSize
  <2>1. i > 1
    BY <1>3, <1>4, <1>6
  <2>2. d \in Nat /\ d <= n
    BY <1>1, <1>2
  <2> HIDE DEF d
  <2>3. SubSeq(tokens, 1, d) \in Seq(KVTok) /\ Len(SubSeq(tokens, 1, d)) = (IF 1 <= d THEN d - 1 + 1 ELSE 0)
        /\ \A k \in 1..(d - 1 + 1) : SubSeq(tokens, 1, d)[k] = tokens[1 + k - 1]
    <3>1. \A k \in 1..d : tokens[k] \in KVTok
      BY <1>2, <2>2 DEF KVHash
    <3> QED
      BY <2>2, <3>1, SubSeqProperties
  <2>4. SubSeq(h, 1, d) \in Seq(KVTok) /\ Len(SubSeq(h, 1, d)) = (IF 1 <= d THEN d - 1 + 1 ELSE 0)
        /\ \A k \in 1..(d - 1 + 1) : SubSeq(h, 1, d)[k] = h[1 + k - 1]
    <3>1. \A k \in 1..d : h[k] \in KVTok
      BY <1>4, <2>2 DEF KVHash
    <3> QED
      BY <2>2, <3>1, SubSeqProperties
  <2>5. \A k \in 1..d : SubSeq(tokens, 1, d)[k] = SubSeq(h, 1, d)[k]
    BY <1>4, <2>2, <2>3, <2>4
  <2>6. Len(SubSeq(tokens, 1, d)) = d /\ Len(SubSeq(h, 1, d)) = d
    BY <2>2, <2>3, <2>4
  <2>7. SubSeq(tokens, 1, d) = SubSeq(h, 1, d)
    BY <2>2, <2>3, <2>4, <2>5, <2>6
  <2>8. Parent(h) = SubSeq(h, 1, d)
    BY <1>4 DEF Parent, d
  <2> QED
    BY <2>1, <2>7, <2>8 DEF d
<1> QED
  BY <1>2, <1>4, <1>5, <1>6 DEF BlockHash, h, n

\* The hashes of tokens are a chain, and different.
LEMMA TokenChain ==
    ASSUME NEW tokens \in KVHash, NEW hashes, TokenHashes(tokens, hashes)
    PROVE  HashChain(hashes, Len(hashes)) /\ Distinct(hashes)
<1>1. KVBlockSize \in Nat \ {0} /\ Len(hashes) \in Nat /\ Len(tokens) \in Nat
  BY KVAssumption DEF TokenHashes, KVHash
<1>2. ASSUME NEW i \in 1..Len(hashes) PROVE BlockHash(tokens, i, hashes[i])
  <2>1. i * KVBlockSize <= Len(hashes) * KVBlockSize /\ i * KVBlockSize \in Nat
    BY <1>1, TimesMonotone
  <2>2. i * KVBlockSize <= Len(tokens)
    <3>1. Len(hashes) * KVBlockSize <= Len(tokens) /\ Len(hashes) * KVBlockSize \in Nat
      BY <1>1 DEF TokenHashes
    <3> QED
      BY <1>1, <2>1, <3>1
  <2>3. i \in Nat /\ i >= 1
    BY <1>1
  <2>4. BlockHash(tokens, i, SubSeq(tokens, 1, i * KVBlockSize))
    BY <2>2, <2>3, PrefixHash
  <2> QED
    BY <2>4 DEF TokenHashes
<1>3. HashChain(hashes, Len(hashes))
  <2> SUFFICES ASSUME NEW i \in 1..Len(hashes)
               PROVE  /\ hashes[i] \in KVHash /\ hashes[i] # NoHash
                      /\ Len(hashes[i]) > KVBlockSize => i > 1 /\ hashes[i - 1] = Parent(hashes[i])
    BY DEF HashChain
  <2>1. BlockHash(tokens, i, hashes[i])
    BY <1>2
  <2>2. i > 1 => hashes[i - 1] = SubSeq(tokens, 1, (i - 1) * KVBlockSize)
    <3>1. i > 1 => i - 1 \in 1..Len(hashes)
      BY <1>1
    <3> QED
      BY <3>1 DEF TokenHashes
  <2> QED
    BY <2>1, <2>2 DEF BlockHash
<1>4. Distinct(hashes)
  <2> SUFFICES ASSUME NEW i \in 1..Len(hashes), NEW j \in 1..Len(hashes), hashes[i] = hashes[j]
               PROVE  i = j
    BY DEF Distinct
  <2>1. i * KVBlockSize = j * KVBlockSize
    BY <1>2 DEF BlockHash
  <2> QED
    <3>1. ASSUME NEW a \in Nat, NEW b \in Nat, a < b PROVE a * KVBlockSize < b * KVBlockSize
      <4>1. a + 1 \in Nat /\ a + 1 <= b
        BY <3>1
      <4>2. (a + 1) * KVBlockSize <= b * KVBlockSize
        BY <1>1, <4>1, TimesMonotone
      <4>3. (a + 1) * KVBlockSize = a * KVBlockSize + KVBlockSize /\ a * KVBlockSize \in Nat /\ b * KVBlockSize \in Nat
        BY <1>1
      <4> QED
        BY <1>1, <4>2, <4>3
    <3>2. i \in Nat /\ j \in Nat /\ i * KVBlockSize \in Nat
      BY <1>1
    <3>3. ~(i < j) /\ ~(j < i)
      BY <2>1, <3>1, <3>2
    <3> QED
      BY <3>2, <3>3
<1> QED
  BY <1>3, <1>4

\* hash_request_tokens computes the hashes of all full blocks.
LEMMA HashTokens ==
    ASSUME NEW tokens \in KVHash
    PROVE  TokenHashes(tokens, hash_request_tokens(tokens))
<1> DEFINE n == Len(tokens) \div KVBlockSize
           hashes == hash_request_tokens(tokens)
<1>1. KVBlockSize \in Nat \ {0} /\ Len(tokens) \in Nat
  BY KVAssumption DEF KVHash
<1>2. n \in Nat /\ n * KVBlockSize <= Len(tokens)
  BY <1>1, Division
<1>3. hashes = [k \in 1..n |-> SubSeq(tokens, 1, k * KVBlockSize)]
  BY DEF hash_request_tokens
<1> HIDE DEF n, hashes
<1>4. ASSUME NEW k \in 1..n PROVE SubSeq(tokens, 1, k * KVBlockSize) \in KVHash
  <2>1. k * KVBlockSize <= n * KVBlockSize /\ k * KVBlockSize \in Nat /\ k \in Nat /\ k >= 1 /\ n * KVBlockSize \in Nat
    BY <1>1, <1>2, TimesMonotone
  <2>2. k * KVBlockSize <= Len(tokens)
    BY <1>1, <1>2, <2>1
  <2> QED
    BY <2>1, <2>2, PrefixHash DEF BlockHash
<1>5. hashes = [k \in 1..n |-> hashes[k]] /\ \A k \in 1..n : hashes[k] \in KVHash
  BY <1>3, <1>4
<1>6. hashes \in Seq(KVHash) /\ Len(hashes) = n
  BY <1>2, <1>5, ListOf
<1> QED
  BY <1>2, <1>3, <1>6 DEF TokenHashes, hashes

\* The hashes of more blocks.
LEMMA MoreHashes ==
    ASSUME NEW tokens \in KVHash, NEW known, TokenHashes(tokens, known),
           NEW n \in Nat, n * KVBlockSize <= Len(tokens), n > Len(known)
    PROVE  LET more == known \o [k \in 1..(n - Len(known)) |->
                                    SubSeq(tokens, 1, (Len(known) + k) * KVBlockSize)]
           IN  TokenHashes(tokens, more) /\ Len(more) = n
<1> DEFINE m == Len(known)
           d == n - m
           new == [k \in 1..d |-> SubSeq(tokens, 1, (m + k) * KVBlockSize)]
           more == known \o new
<1>1. KVBlockSize \in Nat \ {0} /\ Len(tokens) \in Nat /\ m \in Nat /\ d \in Nat /\ m + d = n
      /\ known \in Seq(KVHash)
  BY KVAssumption DEF KVHash, TokenHashes
<1> HIDE DEF m, d
<1>2. ASSUME NEW k \in 1..d PROVE SubSeq(tokens, 1, (m + k) * KVBlockSize) \in KVHash
  <2> DEFINE i == m + k
  <2>1. i \in Nat /\ i >= 1 /\ i <= n
    BY <1>1
  <2> HIDE DEF i
  <2>2. i * KVBlockSize <= n * KVBlockSize /\ i * KVBlockSize \in Nat /\ n * KVBlockSize \in Nat
    BY <1>1, <2>1, TimesMonotone
  <2>3. i * KVBlockSize <= Len(tokens)
    BY <1>1, <2>2
  <2> QED
    BY <2>1, <2>3, PrefixHash DEF BlockHash, i
<1>3. new \in Seq(KVHash) /\ Len(new) = d
  <2>1. new = [k \in 1..d |-> new[k]] /\ \A k \in 1..d : new[k] \in KVHash
    BY <1>2
  <2> HIDE DEF new
  <2> QED
    BY <1>1, <2>1, ListOf
<1>4. \A k \in 1..d : new[k] = SubSeq(tokens, 1, (m + k) * KVBlockSize)
  OBVIOUS
<1> HIDE DEF new
<1>5. /\ more \in Seq(KVHash) /\ Len(more) = m + d
      /\ \A i \in 1..(m + d) : more[i] = IF i <= m THEN known[i] ELSE new[i - m]
  BY <1>1, <1>3, ConcatProperties DEF m
<1> HIDE DEF more
<1>6. ASSUME NEW i \in 1..n PROVE more[i] = SubSeq(tokens, 1, i * KVBlockSize)
  <2>1. CASE i <= m
    <3>1. i \in 1..Len(known) /\ more[i] = known[i]
      BY <1>1, <1>5, <2>1 DEF m
    <3> QED
      BY <3>1 DEF TokenHashes
  <2>2. CASE i > m
    <3> DEFINE k == i - m
    <3>1. k \in 1..d /\ m + k = i /\ more[i] = new[k]
      BY <1>1, <1>5, <2>2
    <3> HIDE DEF k
    <3> QED
      BY <1>4, <3>1
  <2> QED
    BY <1>1, <2>1, <2>2
<1> QED
  BY <1>1, <1>5, <1>6 DEF TokenHashes, more, new, m, d

-----------------------------------------------------------------------------
(* Hits. *)

\* hit: cached blocks for the first of the hashes.
HitOf(p, hashes, hit) ==
    /\ IsHit(p, hit) /\ Len(hit) <= Len(hashes)
    /\ \A i \in 1..Len(hit) : p.block_hash[hit[i]] = hashes[i]

\* A set of numbers from 0 to n that has 0 has a largest number.
LEMMA HasMax ==
    ASSUME NEW n \in Nat, NEW s, s \subseteq 0..n, 0 \in s
    PROVE  Max(s) \in s
<1>2. PICK x \in s : \A y \in s : x >= y
  <2> DEFINE T == {m \in Nat : \A t : t \subseteq 0..m /\ 0 \in t => \E x \in t : \A y \in t : x >= y}
  <2>1. 0 \in T
    <3>1. ASSUME NEW t, t \subseteq 0..0, 0 \in t PROVE \E x \in t : \A y \in t : x >= y
      <4>1. \A y \in t : y = 0
        BY <3>1
      <4>2. \A y \in t : 0 >= y
        BY <4>1
      <4> QED
        BY <3>1, <4>2
    <3> QED
      BY <3>1
  <2>2. ASSUME NEW m \in Nat, m \in T PROVE m + 1 \in T
    <3>1. ASSUME NEW t, t \subseteq 0..(m + 1), 0 \in t PROVE \E x \in t : \A y \in t : x >= y
      <4>1. CASE m + 1 \in t
        <5>1. \A y \in t : m + 1 >= y
          BY <3>1
        <5> QED
          BY <4>1, <5>1
      <4>2. CASE m + 1 \notin t
        <5>1. t \subseteq 0..m
          BY <3>1, <4>2
        <5> QED
          BY <2>2, <3>1, <5>1
      <4> QED
        BY <4>1, <4>2
    <3> QED
      BY <3>1
  <2> HIDE DEF T
  <2>3. Nat \subseteq T
    BY <2>1, <2>2, Cac!Induction
  <2>4. n \in T
    BY <2>3
  <2> QED
    BY <2>4 DEF T
<1>3. x \in Int /\ \A y \in s : y \in Int /\ y <= x
  BY <1>2
<1>4. Cac!Max(s) = x
  BY <1>3, Cac!MaxOf
<1> QED
  BY <1>4 DEF Max, Cac!Max

\* The hashes that have an entry, and the block that is found.
LEMMA CachedBlock ==
    ASSUME NEW p, Entries(p), PoolType(p), NEW h, get_cached_block(p, h) # NoBlock
    PROVE  get_cached_block(p, h) \in KVBlock /\ p.block_hash[get_cached_block(p, h)] = h
<1> DEFINE b == p.cached[h][1]
<1>1. h \in DOMAIN p.cached /\ get_cached_block(p, h) = b
  BY DEF get_cached_block
<1>2. p.cached[h] \in Seq(KVBlock) /\ p.cached[h] # <<>>
  BY <1>1 DEF Entries
<1>3. 1 \in 1..Len(p.cached[h]) /\ b \in KVBlock
  BY <1>2
<1>4. In(b, p.cached[h])
  BY <1>3 DEF In
<1>5. p.block_hash[b] = h
  BY <1>1, <1>3, <1>4 DEF Entries
<1> QED
  BY <1>1, <1>3, <1>5

\* find_longest_cache_hit finds a chain of blocks.
LEMMA LongestHit ==
    ASSUME NEW p, PoolType(p), Entries(p), NEW hashes \in Seq(KVHash),
           HashChain(hashes, Len(hashes)), Distinct(hashes)
    PROVE  HitOf(p, hashes, find_longest_cache_hit(p, hashes))
<1> DEFINE hits == {k \in 0..Len(hashes) : \A i \in 1..k : get_cached_block(p, hashes[i]) # NoBlock}
           n == Max(hits)
           f == [i \in 1..n |-> get_cached_block(p, hashes[i])]
<1>1. find_longest_cache_hit(p, hashes) = f
  BY DEF find_longest_cache_hit
<1>2. n \in hits
  <2>1. hits \subseteq 0..Len(hashes) /\ 0 \in hits /\ Len(hashes) \in Nat
    OBVIOUS
  <2> HIDE DEF hits
  <2> QED
    BY <2>1, HasMax
<1>3. n \in Nat /\ n <= Len(hashes) /\ \A i \in 1..n : get_cached_block(p, hashes[i]) # NoBlock
  BY <1>2
<1> HIDE DEF n
<1>4. ASSUME NEW i \in 1..n PROVE f[i] \in KVBlock \ {0} /\ p.block_hash[f[i]] = hashes[i] /\ hashes[i] # NoHash
  <2>1. f[i] \in KVBlock /\ p.block_hash[f[i]] = hashes[i]
    BY <1>3, CachedBlock
  <2>2. hashes[i] # NoHash
    <3>1. i \in 1..Len(hashes)
      BY <1>3
    <3> QED
      BY <3>1 DEF HashChain
  <2>3. p.block_hash[0] = NoHash
    BY DEF Entries
  <2> HIDE DEF f
  <2> QED
    BY <2>1, <2>2, <2>3
<1>5. f \in Seq(KVBlock \ {0}) /\ Len(f) = n
  <2>1. f = [i \in 1..n |-> f[i]] /\ \A i \in 1..n : f[i] \in KVBlock \ {0}
    BY <1>4
  <2> HIDE DEF f
  <2> QED
    BY <1>3, <2>1, ListOf
<1> HIDE DEF f
<1>6. Distinct(f)
  <2> SUFFICES ASSUME NEW i \in 1..n, NEW j \in 1..n, f[i] = f[j] PROVE i = j
    BY <1>5 DEF Distinct
  <2>1. hashes[i] = hashes[j]
    BY <1>4
  <2>2. i \in 1..Len(hashes) /\ j \in 1..Len(hashes)
    BY <1>3
  <2> QED
    BY <2>1, <2>2 DEF Distinct
<1>7. Chain(p, f)
  <2> SUFFICES ASSUME NEW i \in 1..n, Len(p.block_hash[f[i]]) > KVBlockSize
               PROVE  i > 1 /\ p.block_hash[f[i - 1]] = Parent(p.block_hash[f[i]])
    BY <1>5 DEF Chain
  <2>1. i \in 1..Len(hashes) /\ p.block_hash[f[i]] = hashes[i]
    BY <1>3, <1>4
  <2>2. i > 1 /\ hashes[i - 1] = Parent(hashes[i])
    BY <2>1 DEF HashChain
  <2>3. i - 1 \in 1..n
    BY <1>3, <2>2
  <2>4. p.block_hash[f[i - 1]] = hashes[i - 1]
    BY <1>4, <2>3
  <2> QED
    BY <2>1, <2>2, <2>4
<1> QED
  BY <1>1, <1>3, <1>4, <1>5, <1>6, <1>7 DEF HitOf, IsHit

\* In an empty prefix cache nothing is found.
LEMMA NoHit ==
    ASSUME NEW p, PoolType(p), Entries(p), \A b \in KVBlock : p.block_hash[b] = NoHash,
           NEW hashes, Len(hashes) \in Nat
    PROVE  find_longest_cache_hit(p, hashes) = <<>>
<1> DEFINE hits == {k \in 0..Len(hashes) : \A i \in 1..k : get_cached_block(p, hashes[i]) # NoBlock}
           n == Max(hits)
           f == [i \in 1..n |-> get_cached_block(p, hashes[i])]
<1>1. find_longest_cache_hit(p, hashes) = f
  BY DEF find_longest_cache_hit
<1>2. n \in hits
  <2>1. hits \subseteq 0..Len(hashes) /\ 0 \in hits
    OBVIOUS
  <2> HIDE DEF hits
  <2> QED
    BY <2>1, HasMax
<1>3. n \in Nat /\ \A i \in 1..n : get_cached_block(p, hashes[i]) # NoBlock
  BY <1>2
<1> HIDE DEF n
<1>4. ASSUME NEW h PROVE get_cached_block(p, h) = NoBlock
  <2>1. h \notin DOMAIN p.cached
    <3> SUFFICES ASSUME h \in DOMAIN p.cached PROVE FALSE
      OBVIOUS
    <3>1. h # NoHash /\ p.cached[h] \in Seq(KVBlock) /\ p.cached[h] # <<>>
          /\ \A b \in KVBlock : In(b, p.cached[h]) <=> p.block_hash[b] = h
      BY DEF Entries
    <3>2. 1 \in 1..Len(p.cached[h]) /\ p.cached[h][1] \in KVBlock
      BY <3>1
    <3>3. In(p.cached[h][1], p.cached[h])
      BY <3>2 DEF In
    <3> QED
      BY <3>1, <3>2, <3>3
  <2> QED
    BY <2>1 DEF get_cached_block
<1>5. n = 0
  <2> SUFFICES ASSUME n # 0 PROVE FALSE
    OBVIOUS
  <2>1. 1 \in 1..n
    BY <1>3
  <2> QED
    BY <1>3, <1>4, <2>1
<1>6. f = <<>>
  BY <1>5
<1> QED
  BY <1>1, <1>6

-----------------------------------------------------------------------------
(* allocate_slots. *)

\* The pool after touch: r owns the blocks of the hit after its own.
GotComputed(p, q, own, r, computed) ==
    /\ \E m : Pool(q, With(own, r, own[r] \o computed), m)
    /\ q.block_hash = p.block_hash
    /\ q.num_free = p.num_free - Cardinality({j \in DOMAIN computed : p.ref_cnt[computed[j]] = 0})

\* Either r has no block, or there is no hit.
LEMMA ComputedKeeps ==
    ASSUME NEW p, NEW own, NEW l, Pool(p, own, l), NEW r \in KVRid, NEW computed,
           IsHit(p, computed), computed = <<>> \/ own[r] = <<>>
    PROVE  GotComputed(p, touch(p, computed), own, r, computed)
<1>1. own[r] \in Seq(KVBlock \ {0}) /\ computed \in Seq(KVBlock \ {0})
      /\ DOMAIN computed = 1..Len(computed)
  BY DEF Pool, Holdings, IsHit
<1>2. CASE computed = <<>>
  <2>1. touch(p, computed) = p
    BY <1>2, TouchNone
  <2>2. own[r] \o computed = own[r]
    BY <1>1, <1>2, ConcatEmptySeq
  <2>3. With(own, r, own[r]) = own
    BY WithTwice DEF Pool
  <2>4. {j \in DOMAIN computed : p.ref_cnt[computed[j]] = 0} = {}
    BY <1>2
  <2>5. Cardinality({j \in DOMAIN computed : p.ref_cnt[computed[j]] = 0}) = 0
    BY <2>4, FS_EmptySet
  <2>6. p.num_free \in Nat
    BY DEF Pool, PoolType
  <2> QED
    BY <2>1, <2>2, <2>3, <2>5, <2>6 DEF GotComputed
<1>3. CASE own[r] = <<>>
  <2>1. GotHit(p, touch(p, computed), own, r, computed)
    BY <1>3, HitKeeps
  <2>2. own[r] \o computed = computed
    BY <1>1, <1>3, ConcatEmptySeq
  <2> QED
    BY <1>1, <2>1, <2>2 DEF GotHit, GotComputed
<1> QED
  BY <1>2, <1>3

\* The smallest of three numbers.
LEMMA MinOfThree ==
    ASSUME NEW a \in Int, NEW b \in Int, NEW c \in Int
    PROVE  /\ Min({a, b, c}) \in {a, b, c}
           /\ Min({a, b, c}) <= a /\ Min({a, b, c}) <= b /\ Min({a, b, c}) <= c
<1> DEFINE s == {a, b, c}
           m == CHOOSE x \in s : \A y \in s : x =< y
<1>1. \E x \in s : \A y \in s : x =< y
  <2>1. CASE a <= b /\ a <= c
    BY <2>1
  <2>2. CASE b <= a /\ b <= c
    BY <2>2
  <2>3. CASE c <= a /\ c <= b
    BY <2>3
  <2> QED
    BY <2>1, <2>2, <2>3
<1>2. m \in s /\ \A y \in s : m =< y
  BY <1>1
<1>3. Min(s) = m
  BY DEF Min
<1> HIDE DEF m
<1> QED
  BY <1>2, <1>3

\* The number of blocks that are added: enough for total tokens.
\* room: the free blocks; have: the blocks that the request has already.
Enough(num_new, num_get, room, have, total) ==
    /\ num_get \in Nat /\ num_get <= room
    /\ have + num_get <= MaxBlocksPerReq
    /\ cdiv(total, KVBlockSize) <= have + num_get
    /\ num_new > 0 => num_get > 0

\* There is enough if there is room.
LEMMA GetsEnough ==
    ASSUME NEW total \in Nat, total <= KVMaxLen, NEW have \in Nat, have <= MaxBlocksPerReq,
           NEW room \in Nat, NEW num_new, num_new = cdiv(total, KVBlockSize) - have,
           num_new <= room,
           NEW num_get,
           num_get = IF num_new <= 0 THEN 0
                     ELSE Min({num_new + PreallocateBlocks, room, MaxBlocksPerReq - have})
    PROVE  Enough(num_new, num_get, room, have, total)
<1> DEFINE need == cdiv(total, KVBlockSize)
           most == MaxBlocksPerReq
<1>1. KVBlockSize \in Nat \ {0} /\ KVMaxLen \in Nat /\ PreallocateBlocks \in Nat
  BY KVAssumption
<1>2. need \in Nat /\ need <= most /\ most \in Nat
  <2>1. need \in Nat /\ need <= cdiv(KVMaxLen, KVBlockSize)
    BY <1>1, CeilDiv
  <2>2. cdiv(KVMaxLen, KVBlockSize) \in Nat
    BY <1>1, CeilDiv
  <2> QED
    BY <2>1, <2>2 DEF MaxBlocksPerReq
<1> HIDE DEF need, most
<1>3. num_new = need - have /\ have <= most
  BY DEF need, most
<1>4. CASE num_new <= 0
  BY <1>2, <1>3, <1>4 DEF Enough, need, most
<1>5. CASE num_new > 0
  <2> DEFINE a == num_new + PreallocateBlocks
             c == most - have
  <2>1. a \in Int /\ room \in Int /\ c \in Int /\ num_new <= a /\ num_new <= c /\ num_new \in Int
    BY <1>1, <1>2, <1>3
  <2> HIDE DEF a, c
  <2>2. num_get = Min({a, room, c})
    <3>1. ~(num_new <= 0)
      BY <1>5, <2>1
    <3>2. num_get = Min({num_new + PreallocateBlocks, room, MaxBlocksPerReq - have})
      BY <3>1
    <3> QED
      BY <3>2 DEF a, c, most
  <2>3. num_get \in {a, room, c} /\ num_get <= a /\ num_get <= room /\ num_get <= c
    <3> DEFINE s == Min({a, room, c})
    <3>1. s \in {a, room, c} /\ s <= a /\ s <= room /\ s <= c
      BY <2>1, MinOfThree
    <3> HIDE DEF s
    <3>2. num_get = s
      BY <2>2 DEF s
    <3> QED
      BY <3>1, <3>2
  <2>4. num_get \in Int /\ num_new <= num_get
    BY <2>1, <2>3
  <2>5. have + num_get <= most
    BY <1>2, <2>3, <2>4 DEF c
  <2> QED
    BY <1>2, <1>3, <1>5, <2>1, <2>3, <2>4, <2>5 DEF Enough, need, most
<1> QED
  BY <1>2, <1>3, <1>4, <1>5

Total(r, n, computed) == seqs[r].num_computed_tokens + Len(computed) * KVBlockSize + n

Owned(r, computed) == mgr[r].blocks \o computed

NumCached(r, computed) == IF mgr[r].num_cached = -1 THEN Len(computed) ELSE mgr[r].num_cached

\* The blocks of a request: the first k have their hashes, the others none.
Hashed(p, blocks, hashes, k) ==
    \A i \in 1..Len(blocks) : p.block_hash[blocks[i]] = IF i <= k THEN hashes[i] ELSE NoHash

\* What allocate_slots relies on.
CanAllocate(r, n, computed, known, l) ==
    /\ KVTypes /\ Pool(pool, Own, l) /\ IsHit(pool, computed)
    /\ computed = <<>> \/ mgr[r].blocks = <<>>
    /\ known \in Seq(KVHash) /\ n \in Nat
    /\ Total(r, n, computed) <= Len(seqs[r].tokens) /\ Len(seqs[r].tokens) <= KVMaxLen
    /\ Len(Owned(r, computed)) <= MaxBlocksPerReq
    /\ HasRoom(r, n, computed)
    /\ spexis => \A b \in KVBlock : pool.block_hash[b] = NoHash
    /\ ~spexis => LET k == NumCached(r, computed)
                  IN  /\ TokenHashes(seqs[r].tokens, known)
                      /\ k \in Nat /\ k <= Len(known) /\ k <= Len(Owned(r, computed))
                      /\ k <= Total(r, n, computed) \div KVBlockSize
                      /\ Hashed(pool, Owned(r, computed), known, k)

\* The pool in which r has been given num_get new blocks.
GotBlocks(r, computed, q, blocks, num_get) ==
    /\ \E m : Pool(q, With(Own, r, blocks), m)
    /\ blocks \in Seq(KVBlock \ {0}) /\ Len(blocks) = Len(Owned(r, computed)) + num_get
    /\ \A i \in 1..Len(Owned(r, computed)) : blocks[i] = Owned(r, computed)[i]
    /\ \A i \in 1..Len(blocks) :
           q.block_hash[blocks[i]] = IF i <= Len(Owned(r, computed))
                                     THEN pool.block_hash[Owned(r, computed)[i]] ELSE NoHash
    /\ \A x \in KVRid \ {r} : \A i \in 1..Len(Own[x]) :
           q.block_hash[Own[x][i]] = pool.block_hash[Own[x][i]]
    /\ \A b \in KVBlock : q.block_hash[b] \in {pool.block_hash[b], NoHash}

\* The blocks of a hit, and then the new ones.
LEMMA NewBlocks ==
    ASSUME NEW r \in KVRid, NEW computed, NEW l, NEW num_get \in Nat,
           KVTypes, Pool(pool, Own, l), IsHit(pool, computed),
           computed = <<>> \/ mgr[r].blocks = <<>>,
           num_get <= touch(pool, computed).num_free
    PROVE  LET touched == touch(pool, computed)
           IN  GotBlocks(r, computed, get_new_blocks(touched, num_get),
                         Owned(r, computed) \o SubSeq(get_all_free_blocks(touched), 1, num_get),
                         num_get)
<1> DEFINE touched == touch(pool, computed)
           owned == Owned(r, computed)
           own1 == With(Own, r, owned)
           got == get_new_blocks(touched, num_get)
           blocks == owned \o SubSeq(get_all_free_blocks(touched), 1, num_get)
<1>1. Own[r] = mgr[r].blocks /\ Holdings(Own)
  BY DEF Own, Pool
<1>2. GotComputed(pool, touched, Own, r, computed)
  BY <1>1, ComputedKeeps
<1>3. Own[r] \o computed = owned
  BY <1>1 DEF Owned
<1> HIDE DEF touched, owned, got
<1>4. PICK m : Pool(touched, own1, m)
  BY <1>2, <1>3 DEF GotComputed
<1>5. touched.block_hash = pool.block_hash
  BY <1>2 DEF GotComputed
<1>6. get_all_free_blocks(touched) = m /\ Len(m) = touched.num_free /\ m \in Seq(KVBlock \ {0})
  BY <1>4, FollowList DEF Pool, Linked
<1>7. own1[r] = owned /\ (\A x \in KVRid : x # r => own1[x] = Own[x])
      /\ With(own1, r, blocks) = With(Own, r, blocks)
  BY <1>1, WithTwice
<1>8. blocks = owned \o SubSeq(m, 1, num_get)
  BY <1>6
<1> HIDE DEF own1, blocks
<1>9. num_get \in 0..Len(m)
  BY <1>6 DEF touched
<1>10. GotNew(touched, got, own1, r, m, num_get)
  BY <1>4, <1>9, NewBlocksKeep DEF got
<1>11. Pool(got, With(Own, r, blocks), Rest(m, num_get))
  BY <1>7, <1>8, <1>10 DEF GotNew
<1>12. \A x \in KVBlock : got.block_hash[x] = IF In(x, Upto(m, num_get)) THEN NoHash ELSE pool.block_hash[x]
  BY <1>5, <1>10 DEF GotNew
<1>13. owned \in Seq(KVBlock \ {0})
  BY <1>4, <1>7 DEF Pool, Holdings
<1>14. /\ blocks \in Seq(KVBlock \ {0}) /\ Len(blocks) = Len(owned) + num_get
       /\ \A i \in 1..(Len(owned) + num_get) : blocks[i] = IF i <= Len(owned) THEN owned[i] ELSE m[i - Len(owned)]
  <2>1. \A i \in 1..num_get : m[i] \in KVBlock \ {0}
    BY <1>6, <1>9
  <2> DEFINE t == SubSeq(m, 1, num_get)
  <2>2. t \in Seq(KVBlock \ {0}) /\ Len(t) = (IF 1 <= num_get THEN num_get - 1 + 1 ELSE 0)
        /\ \A i \in 1..(num_get - 1 + 1) : t[i] = m[1 + i - 1]
    BY <2>1, SubSeqProperties
  <2> HIDE DEF t
  <2>3. Len(t) = num_get /\ \A i \in 1..num_get : t[i] = m[i]
    BY <2>2
  <2>4. /\ owned \o t \in Seq(KVBlock \ {0}) /\ Len(owned \o t) = Len(owned) + Len(t)
        /\ \A i \in 1..(Len(owned) + Len(t)) : (owned \o t)[i] = IF i <= Len(owned) THEN owned[i] ELSE t[i - Len(owned)]
    BY <1>13, <2>2, ConcatProperties
  <2>5. blocks = owned \o t
    BY <1>8 DEF t
  <2>6. ASSUME NEW i \in 1..(Len(owned) + num_get)
        PROVE  blocks[i] = IF i <= Len(owned) THEN owned[i] ELSE m[i - Len(owned)]
    <3>1. ~(i <= Len(owned)) => i - Len(owned) \in 1..num_get
      BY <1>13
    <3> QED
      BY <2>3, <2>4, <2>5, <3>1
  <2> QED
    BY <2>3, <2>4, <2>5, <2>6
<1>15. ASSUME NEW x \in KVRid, NEW i \in 1..Len(own1[x])
       PROVE  got.block_hash[own1[x][i]] = pool.block_hash[own1[x][i]]
  <2>1. own1[x][i] \in KVBlock \ {0} /\ ~In(own1[x][i], m)
    BY <1>4, OwnedNotFree
  <2>2. ~In(own1[x][i], Upto(m, num_get))
    <3>1. Len(Upto(m, num_get)) = num_get /\ \A j \in 1..num_get : Upto(m, num_get)[j] = m[j]
      BY <1>6, <1>9, UptoIs
    <3>2. 1..num_get \subseteq 1..Len(m)
      BY <1>6, <1>9
    <3> QED
      BY <2>1, <3>1, <3>2 DEF In
  <2> QED
    BY <1>12, <2>1, <2>2
<1>16. ASSUME NEW i \in 1..Len(blocks)
       PROVE  got.block_hash[blocks[i]] = IF i <= Len(owned) THEN pool.block_hash[owned[i]] ELSE NoHash
  <2>1. CASE i <= Len(owned)
    <3>1. i \in 1..Len(own1[r]) /\ blocks[i] = own1[r][i]
      <4>1. i \in 1..Len(owned) /\ i \in 1..(Len(owned) + num_get)
        BY <1>13, <1>14, <2>1
      <4>2. blocks[i] = owned[i]
        BY <1>14, <2>1, <4>1
      <4>3. own1[r] = owned
        BY <1>7
      <4> QED
        BY <4>1, <4>2, <4>3
    <3> QED
      BY <1>7, <1>15, <2>1, <3>1
  <2>2. CASE ~(i <= Len(owned))
    <3> DEFINE j == i - Len(owned)
    <3>1. j \in 1..num_get /\ blocks[i] = m[j]
      BY <1>13, <1>14, <2>2
    <3> HIDE DEF j
    <3>2. Len(Upto(m, num_get)) = num_get /\ Upto(m, num_get)[j] = m[j]
      BY <1>6, <1>9, <3>1, UptoIs
    <3>3. In(m[j], Upto(m, num_get))
      BY <3>1, <3>2 DEF In
    <3>4. m[j] \in KVBlock
      BY <1>6, <1>9, <3>1
    <3> QED
      BY <1>12, <2>2, <3>1, <3>3, <3>4
  <2> QED
    BY <2>1, <2>2
<1>17. ASSUME NEW x \in KVRid \ {r}, NEW i \in 1..Len(Own[x])
       PROVE  got.block_hash[Own[x][i]] = pool.block_hash[Own[x][i]]
  BY <1>7, <1>15
<1>18. ASSUME NEW b \in KVBlock PROVE got.block_hash[b] \in {pool.block_hash[b], NoHash}
  BY <1>12
<1>19. ASSUME NEW i \in 1..Len(owned) PROVE blocks[i] = owned[i]
  <2>1. i \in 1..(Len(owned) + num_get) /\ i <= Len(owned)
    BY <1>13
  <2> QED
    BY <1>14, <2>1
<1>20. GotBlocks(r, computed, got, blocks, num_get)
  BY <1>11, <1>14, <1>16, <1>17, <1>18, <1>19 DEF GotBlocks, owned
<1> QED
  BY <1>20 DEF got, blocks, touched, owned

\* r has the blocks it had, those of the hit and new ones.  Those without a hash
\* are its own, and no other block gets a hash.
Extends(r, computed, a) ==
    /\ Len(Owned(r, computed)) <= Len(a.mgr.blocks)
    /\ \A i \in 1..Len(Owned(r, computed)) : a.mgr.blocks[i] = Owned(r, computed)[i]
    /\ \A i \in 1..Len(a.mgr.blocks) : \A x \in KVRid \ {r} :
           spexis \/ i > NumCached(r, computed) => ~In(a.mgr.blocks[i], Own[x])
    /\ \A b \in KVBlock : ~In(b, a.mgr.blocks) =>
           a.pool.block_hash[b] \in {pool.block_hash[b], NoHash}

\* What allocate_slots achieves.
Allocated(r, n, computed, a) ==
    /\ \E m : Pool(a.pool, With(Own, r, a.mgr.blocks), m)
    /\ a.mgr \in [blocks : Seq(KVBlock), hashes : Seq(KVHash), num_cached : Int]
    /\ Len(a.mgr.blocks) <= MaxBlocksPerReq
    /\ cdiv(Total(r, n, computed), KVBlockSize) <= Len(a.mgr.blocks)
    /\ Extends(r, computed, a)
    /\ spexis => \A b \in KVBlock : a.pool.block_hash[b] = NoHash
    /\ ~spexis => /\ TokenHashes(seqs[r].tokens, a.mgr.hashes)
                  /\ a.mgr.num_cached = Total(r, n, computed) \div KVBlockSize
                  /\ a.mgr.num_cached <= Len(a.mgr.hashes)
                  /\ a.mgr.num_cached <= Len(a.mgr.blocks)
                  /\ Hashed(a.pool, a.mgr.blocks, a.mgr.hashes, a.mgr.num_cached)
                  /\ \A x \in KVRid \ {r} : \A i \in 1..Len(Own[x]) :
                         a.pool.block_hash[Own[x][i]] = pool.block_hash[Own[x][i]]

\* The full blocks are entered into the prefix cache: p is the pool before.
Entered(r, p, q, blocks, hashes, num_full) ==
    /\ \E m : Pool(q, With(Own, r, blocks), m)
    /\ Hashed(q, blocks, hashes, num_full)
    /\ \A x \in KVRid \ {r} : \A i \in 1..Len(Own[x]) :
           q.block_hash[Own[x][i]] = p.block_hash[Own[x][i]]
    /\ \A b \in KVBlock : ~In(b, blocks) => q.block_hash[b] = p.block_hash[b]

\* The blocks of the other requests keep their hashes: a block that has none
\* belongs to one request only.
LEMMA EntersFull ==
    ASSUME NEW r \in KVRid, NEW p, NEW m, NEW blocks, Holdings(Own),
           Pool(p, With(Own, r, blocks), m), NEW hashes,
           NEW num_cached \in Nat, NEW num_full \in Nat,
           num_cached <= num_full, num_full <= Len(blocks), HashChain(hashes, num_full),
           Hashed(p, blocks, hashes, num_cached)
    PROVE  Entered(r, p, cache_full_blocks(p, blocks, hashes, num_cached, num_full),
                   blocks, hashes, num_full)
<1> DEFINE own == With(Own, r, blocks)
           q == cache_full_blocks(p, blocks, hashes, num_cached, num_full)
<1>1. own[r] = blocks /\ \A x \in KVRid : x # r => own[x] = Own[x]
  BY WithTwice
<1> HIDE DEF own
<1>2. Pool(p, own, m)
  BY DEF own
<1>3. \A i \in 1..Len(own[r]) : p.block_hash[own[r][i]] = IF i <= num_cached THEN hashes[i] ELSE NoHash
  BY <1>1 DEF Hashed
<1>4. num_full <= Len(own[r])
  BY <1>1
<1>5. HashedUpto(p, own, r, m, hashes, cache_full_blocks(p, own[r], hashes, num_cached, num_full), num_full)
  BY <1>2, <1>3, <1>4, FullBlocksKeep
<1>6. HashedUpto(p, own, r, m, hashes, q, num_full)
  BY <1>1, <1>5
<1> HIDE DEF q
<1>7. Hashed(q, blocks, hashes, num_full)
  BY <1>1, <1>6 DEF HashedUpto, Hashed
<1>8. ASSUME NEW x \in KVRid \ {r}, NEW i \in 1..Len(Own[x])
      PROVE  q.block_hash[Own[x][i]] = p.block_hash[Own[x][i]]
  <2> DEFINE b == Own[x][i]
  <2>1. i \in 1..Len(own[x]) /\ own[x][i] = b
    BY <1>1
  <2>2. b \in KVBlock /\ x \in Owners(own, b)
    BY <1>2, <2>1, OwnedNotFree
  <2> HIDE DEF b
  <2>3. CASE In(b, own[r])
    <3>1. r \in Owners(own, b)
      BY <2>3 DEF Owners
    <3>2. p.block_hash[b] # NoHash
      BY <1>2, <2>2, <3>1 DEF Pool, Chains
    <3> QED
      BY <1>6, <2>2, <3>2 DEF HashedUpto, b
  <2>4. CASE ~In(b, own[r])
    BY <1>6, <2>2, <2>4 DEF HashedUpto, b
  <2> QED
    BY <2>3, <2>4
<1>9. Pool(q, own, m)
  BY <1>6 DEF HashedUpto
<1>10. \A b \in KVBlock : ~In(b, blocks) => q.block_hash[b] = p.block_hash[b]
  BY <1>1, <1>6 DEF HashedUpto
<1> QED
  BY <1>7, <1>8, <1>9, <1>10 DEF Entered, own, q

\* A block without a hash has no other owner.
LEMMA SoleOwner ==
    ASSUME NEW r \in KVRid, NEW p, NEW m, NEW blocks, Holdings(Own),
           Pool(p, With(Own, r, blocks), m), NEW i \in 1..Len(blocks),
           p.block_hash[blocks[i]] = NoHash, NEW x \in KVRid, x # r
    PROVE  ~In(blocks[i], Own[x])
<1> DEFINE own == With(Own, r, blocks)
           b == blocks[i]
<1>1. own[r] = blocks /\ own[x] = Own[x]
  BY WithTwice
<1> HIDE DEF own
<1>2. b \in KVBlock
  <2>1. i \in 1..Len(own[r])
    BY <1>1
  <2>2. own[r][i] \in KVBlock \ {0}
    BY <2>1, OwnedNotFree DEF own
  <2> QED
    BY <1>1, <2>2
<1>3. r \in Owners(own, b)
  BY <1>1 DEF Owners, In
<1>4. ASSUME In(b, Own[x]) PROVE x \in Owners(own, b)
  BY <1>1, <1>4 DEF Owners
<1>5. \A u, v \in Owners(own, b) : u # v => p.block_hash[b] # NoHash
  BY <1>2 DEF Pool, Chains, own
<1> QED
  BY <1>3, <1>4, <1>5

\* allocate_slots, where there is room.
LEMMA AllocateKeeps ==
    ASSUME NEW r \in KVRid, NEW n, NEW computed, NEW known, NEW l,
           CanAllocate(r, n, computed, known, l)
    PROVE  Allocated(r, n, computed, allocate_slots(r, n, computed, known))
<1> DEFINE touched == touch(pool, computed)
           owned == Owned(r, computed)
           have == Len(owned)
           total == Total(r, n, computed)
           num_new == NumNewBlocks(r, n, computed)
           num_get == IF num_new <= 0 THEN 0
                      ELSE Min({num_new + PreallocateBlocks, touched.num_free,
                                MaxBlocksPerReq - have})
           got == get_new_blocks(touched, num_get)
           blocks == owned \o SubSeq(get_all_free_blocks(touched), 1, num_get)
           num_cached == NumCached(r, computed)
           num_full == total \div KVBlockSize
           hashes == IF ~Commits \/ num_full <= Len(known) THEN known
                     ELSE known \o [k \in 1..(num_full - Len(known)) |->
                                       SubSeq(seqs[r].tokens, 1, (Len(known) + k) * KVBlockSize)]
           put == IF Commits THEN cache_full_blocks(got, blocks, hashes, num_cached, num_full) ELSE got
           fine == (num_new > 0 => num_get > 0) /\ (Commits => Len(known) >= num_cached)
           a == allocate_slots(r, n, computed, known)
<1>1. a = [pool |-> [put EXCEPT !.ok = @ /\ (num_new > 0 => num_get > 0)
                                         /\ (Commits => Len(known) >= num_cached)],
           mgr |-> [blocks |-> blocks, hashes |-> hashes, num_cached |-> num_full]]
  BY DEF allocate_slots, Owned, Total, NumCached
<1>2. a.pool = [put EXCEPT !.ok = @ /\ (num_new > 0 => num_get > 0)
                                    /\ (Commits => Len(known) >= num_cached)]
      /\ a.mgr = [blocks |-> blocks, hashes |-> hashes, num_cached |-> num_full]
  BY <1>1
<1> HIDE DEF a, put, got, blocks, hashes, num_get, num_cached, num_full, num_new, total, have, owned, touched
<1>3. a.mgr.blocks = blocks /\ a.mgr.hashes = hashes /\ a.mgr.num_cached = num_full
  BY <1>2
<1>4. KVBlockSize \in Nat \ {0} /\ KVMaxLen \in Nat
  BY KVAssumption
<1>5. /\ KVTypes /\ Pool(pool, Own, l) /\ IsHit(pool, computed)
      /\ computed = <<>> \/ mgr[r].blocks = <<>>
      /\ known \in Seq(KVHash) /\ n \in Nat
      /\ total <= Len(seqs[r].tokens) /\ Len(seqs[r].tokens) <= KVMaxLen
      /\ have <= MaxBlocksPerReq /\ HasRoom(r, n, computed)
  BY DEF CanAllocate, total, have, owned
<1>6. /\ mgr[r].blocks \in Seq(KVBlock) /\ computed \in Seq(KVBlock) /\ seqs[r].tokens \in KVHash
      /\ seqs[r].num_computed_tokens \in Nat
  BY <1>5 DEF KVTypes, SeqType, IsHit
<1>7. total \in Nat /\ have = Len(mgr[r].blocks) + Len(computed) /\ have \in Nat /\ Len(seqs[r].tokens) \in Nat
  <2>1. Len(computed) * KVBlockSize \in Nat
    BY <1>4, <1>6
  <2>2. Len(owned) = Len(mgr[r].blocks) + Len(computed)
    BY <1>6, ConcatProperties DEF owned, Owned
  <2>3. Len(mgr[r].blocks) \in Nat /\ Len(computed) \in Nat /\ Len(seqs[r].tokens) \in Nat
    BY <1>6 DEF KVHash
  <2>4. total \in Nat
    BY <1>5, <1>6, <2>1 DEF total, Total
  <2> QED
    BY <2>2, <2>3, <2>4 DEF have
<1>8. num_new = cdiv(total, KVBlockSize) - have
  <2>1. num_new = cdiv(total, KVBlockSize) - Len(mgr[r].blocks) - Len(computed)
    BY DEF num_new, NumNewBlocks, total, Total
  <2>2. cdiv(total, KVBlockSize) \in Nat
    <3>1. total <= total
      BY <1>7
    <3> QED
      BY <1>4, <1>7, <3>1, CeilDiv
  <2>3. Len(mgr[r].blocks) \in Nat /\ Len(computed) \in Nat
    BY <1>6
  <2> QED
    BY <1>7, <2>1, <2>2, <2>3
<1>9. touched.num_free \in Nat /\ num_new <= touched.num_free
  <2>1. GotComputed(pool, touched, Own, r, computed)
    BY <1>5, ComputedKeeps DEF touched, Own
  <2>2. PICK m : Pool(touched, With(Own, r, Own[r] \o computed), m)
    BY <2>1 DEF GotComputed
  <2> QED
    BY <1>5, <2>1, <2>2 DEF GotComputed, Pool, PoolType, HasRoom, num_new
<1>10. Enough(num_new, num_get, touched.num_free, have, total)
  <2>1. total <= KVMaxLen
    BY <1>4, <1>5, <1>7
  <2> QED
    BY <1>5, <1>7, <1>8, <1>9, <2>1, GetsEnough DEF num_get
<1>11. num_get \in Nat /\ num_get <= touched.num_free /\ have + num_get <= MaxBlocksPerReq
       /\ cdiv(total, KVBlockSize) <= have + num_get /\ (num_new > 0 => num_get > 0)
  BY <1>10 DEF Enough
<1>12. GotBlocks(r, computed, got, blocks, num_get)
  BY <1>5, <1>11, NewBlocks DEF got, blocks, touched, owned
<1>13. blocks \in Seq(KVBlock \ {0}) /\ Len(blocks) = have + num_get /\ Len(blocks) <= MaxBlocksPerReq
  BY <1>11, <1>12 DEF GotBlocks, owned, have
<1>14. PICK m : Pool(got, With(Own, r, blocks), m)
  BY <1>12 DEF GotBlocks
<1>15. num_full \in Nat /\ num_full * KVBlockSize <= total /\ num_full <= Len(blocks)
  <2>1. num_full \in Nat /\ num_full <= cdiv(total, KVBlockSize) /\ cdiv(total, KVBlockSize) \in Nat
    <3>1. total <= total
      BY <1>7
    <3> QED
      BY <1>4, <1>7, <3>1, CeilDiv DEF num_full
  <2>2. num_full * KVBlockSize <= total
    BY <1>4, <1>7, Division DEF num_full
  <2> QED
    BY <1>7, <1>11, <1>13, <2>1, <2>2
<1>151. cdiv(total, KVBlockSize) <= Len(blocks) /\ have <= Len(blocks)
        /\ \A i \in 1..have : blocks[i] = owned[i]
  BY <1>7, <1>11, <1>12, <1>13 DEF GotBlocks, owned, have
<1>152. ASSUME NEW i \in 1..Len(blocks), got.block_hash[blocks[i]] = NoHash, NEW x \in KVRid, x # r
        PROVE  ~In(blocks[i], Own[x])
  <2>1. Holdings(Own)
    BY <1>5 DEF Pool
  <2> QED
    BY <1>14, <1>152, <2>1, SoleOwner
<1>16. CASE spexis
  <2>1. ~Commits /\ hashes = known /\ put = got
    BY <1>16 DEF Commits, hashes, put
  <2>2. fine = TRUE
    BY <1>11, <2>1
  <2>3. a.pool = got
    <3>1. a.pool = [got EXCEPT !.ok = @ /\ fine]
      BY <1>2, <2>1
    <3>2. PoolType(got)
      BY <1>14 DEF Pool
    <3> HIDE DEF fine
    <3> QED
      BY <2>2, <3>1, <3>2, AssertionHolds
  <2>4. \A b \in KVBlock : got.block_hash[b] = NoHash
    BY <1>12, <1>16 DEF GotBlocks, CanAllocate
  <2>5. a.mgr \in [blocks : Seq(KVBlock), hashes : Seq(KVHash), num_cached : Int]
    BY <1>2, <1>5, <1>13, <1>15, <2>1
  <2>6. Extends(r, computed, a)
    <3>1. ASSUME NEW i \in 1..Len(blocks), NEW x \in KVRid \ {r} PROVE ~In(blocks[i], Own[x])
      <4>1. blocks[i] \in KVBlock
        BY <1>13
      <4> QED
        BY <1>152, <2>4, <3>1, <4>1
    <3> QED
      BY <1>3, <1>151, <2>3, <2>4, <3>1 DEF Extends, a, have, owned
  <2>7. cdiv(Total(r, n, computed), KVBlockSize) <= Len(a.mgr.blocks)
    BY <1>3, <1>151 DEF total
  <2> QED
    BY <1>3, <1>13, <1>14, <1>16, <2>3, <2>4, <2>5, <2>6, <2>7 DEF Allocated, a
<1>17. CASE ~spexis
  <2>1. Commits
    BY <1>17 DEF Commits
  <2>2. /\ TokenHashes(seqs[r].tokens, known)
        /\ num_cached \in Nat /\ num_cached <= Len(known) /\ num_cached <= have /\ num_cached <= num_full
        /\ Hashed(pool, owned, known, num_cached)
    BY <1>17 DEF CanAllocate, num_cached, have, owned, num_full, total
  <2>3. TokenHashes(seqs[r].tokens, hashes) /\ num_full <= Len(hashes) /\ Len(known) <= Len(hashes)
    <3>1. CASE num_full <= Len(known)
      <4>1. hashes = known
        BY <3>1 DEF hashes
      <4> QED
        BY <1>5, <2>2, <3>1, <4>1
    <3>2. CASE ~(num_full <= Len(known))
      <4>1. num_full * KVBlockSize <= Len(seqs[r].tokens)
        <5>1. num_full * KVBlockSize \in Nat
          BY <1>4, <1>15
        <5> QED
          BY <1>5, <1>7, <1>15, <5>1
      <4>2. num_full > Len(known)
        BY <1>5, <1>15, <3>2
      <4>3. hashes = known \o [k \in 1..(num_full - Len(known)) |->
                                  SubSeq(seqs[r].tokens, 1, (Len(known) + k) * KVBlockSize)]
        BY <2>1, <3>2 DEF hashes
      <4>4. TokenHashes(seqs[r].tokens, hashes) /\ Len(hashes) = num_full
        BY <1>6, <1>15, <2>2, <4>1, <4>2, <4>3, MoreHashes
      <4> QED
        BY <1>5, <1>15, <4>2, <4>4
    <3> QED
      BY <3>1, <3>2
  <2>4. hashes \in Seq(KVHash)
    BY <2>3 DEF TokenHashes
  <2>5. HashChain(hashes, num_full)
    <3>1. HashChain(hashes, Len(hashes))
      BY <1>6, <2>3, TokenChain
    <3>2. 1..num_full \subseteq 1..Len(hashes)
      BY <1>15, <2>3, <2>4
    <3> QED
      BY <3>1, <3>2 DEF HashChain
  <2>6. Hashed(got, blocks, hashes, num_cached)
    <3> SUFFICES ASSUME NEW i \in 1..Len(blocks)
                 PROVE  got.block_hash[blocks[i]] = IF i <= num_cached THEN hashes[i] ELSE NoHash
      BY DEF Hashed
    <3>1. got.block_hash[blocks[i]] = IF i <= have THEN pool.block_hash[owned[i]] ELSE NoHash
      BY <1>12 DEF GotBlocks, have, owned
    <3>2. i \in Nat /\ i >= 1
      BY <1>13
    <3>3. CASE i <= have
      <4>1. pool.block_hash[owned[i]] = IF i <= num_cached THEN known[i] ELSE NoHash
        <5>1. i \in 1..Len(owned)
          BY <1>7, <3>2, <3>3 DEF have
        <5> QED
          BY <2>2, <5>1 DEF Hashed
      <4>2. ASSUME i <= num_cached PROVE known[i] = hashes[i]
        <5>1. i \in 1..Len(known) /\ i \in 1..Len(hashes)
          BY <1>5, <2>2, <2>3, <2>4, <3>2, <4>2
        <5> QED
          BY <2>2, <2>3, <5>1 DEF TokenHashes
      <4> QED
        BY <3>1, <3>3, <4>1, <4>2
    <3>4. CASE ~(i <= have)
      BY <1>7, <2>2, <3>1, <3>2, <3>4
    <3> QED
      BY <3>3, <3>4
  <2>7. Holdings(Own)
    BY <1>5 DEF Pool
  <2>8. Entered(r, got, put, blocks, hashes, num_full)
    <3>1. put = cache_full_blocks(got, blocks, hashes, num_cached, num_full)
      BY <2>1 DEF put
    <3> QED
      BY <1>14, <1>15, <2>2, <2>5, <2>6, <2>7, <3>1, EntersFull
  <2>9. a.pool = put
    <3>1. fine = TRUE
      BY <1>5, <1>11, <2>2
    <3>2. PoolType(put)
      BY <2>8 DEF Entered, Pool
    <3>3. a.pool = [put EXCEPT !.ok = @ /\ fine]
      BY <1>2
    <3> HIDE DEF fine
    <3> QED
      BY <3>1, <3>2, <3>3, AssertionHolds
  <2>10. a.mgr \in [blocks : Seq(KVBlock), hashes : Seq(KVHash), num_cached : Int]
    BY <1>2, <1>13, <1>15, <2>4
  <2>11. \A x \in KVRid \ {r} : \A i \in 1..Len(Own[x]) :
             put.block_hash[Own[x][i]] = pool.block_hash[Own[x][i]]
    BY <1>12, <2>8 DEF Entered, GotBlocks
  <2>12. (\E k : Pool(put, With(Own, r, blocks), k)) /\ Hashed(put, blocks, hashes, num_full)
    BY <2>8 DEF Entered
  <2>13. Extends(r, computed, a)
    <3>1. ASSUME NEW i \in 1..Len(blocks), NEW x \in KVRid \ {r}, i > num_cached
          PROVE  ~In(blocks[i], Own[x])
      <4>1. got.block_hash[blocks[i]] = NoHash
        BY <2>2, <2>6, <3>1 DEF Hashed
      <4> QED
        BY <1>152, <3>1, <4>1
    <3>2. ASSUME NEW b \in KVBlock, ~In(b, blocks) PROVE put.block_hash[b] \in {pool.block_hash[b], NoHash}
      <4>1. put.block_hash[b] = got.block_hash[b]
        BY <2>8, <3>2 DEF Entered
      <4>2. got.block_hash[b] \in {pool.block_hash[b], NoHash}
        BY <1>12 DEF GotBlocks
      <4> QED
        BY <4>1, <4>2
    <3> QED
      BY <1>3, <1>17, <1>151, <2>9, <3>1, <3>2 DEF Extends, a, have, owned, num_cached
  <2>14. cdiv(Total(r, n, computed), KVBlockSize) <= Len(a.mgr.blocks)
    BY <1>3, <1>151 DEF total
  <2> QED
    BY <1>3, <1>13, <1>15, <1>17, <2>3, <2>9, <2>10, <2>11, <2>12, <2>13, <2>14 DEF Allocated, a, num_full, total
<1> QED
  BY <1>16, <1>17, <1>5 DEF KVTypes

-----------------------------------------------------------------------------
(* The invariant holds initially. *)

\* Nobody owns a block.
LEMMA NoOwner ==
    ASSUME NEW own, own = [r \in KVRid |-> <<>>]
    PROVE  /\ Holdings(own) /\ \A b : Owners(own, b) = {} /\ Cardinality(Owners(own, b)) = 0
<1>1. \A r \in KVRid : own[r] = <<>>
  OBVIOUS
<1>2. Holdings(own)
  <2>1. <<>> \in Seq(KVBlock \ {0}) /\ Distinct(<<>>)
    BY DEF Distinct
  <2> QED
    BY <1>1, <2>1 DEF Holdings
<1>3. ASSUME NEW b PROVE Owners(own, b) = {} /\ Cardinality(Owners(own, b)) = 0
  <2>1. ~In(b, <<>>)
    BY DEF In
  <2>2. Owners(own, b) = {}
    BY <1>1, <2>1 DEF Owners
  <2> QED
    BY <2>2, FS_EmptySet
<1> QED
  BY <1>2, <1>3

\* The pool of a new manager: every block but the null block is free.
LEMMA StartPool ==
    ASSUME NEW own, own = [r \in KVRid |-> <<>>]
    PROVE  /\ \E l : Pool(NewPool, own, l)
           /\ \A b \in KVBlock : NewPool.block_hash[b] = NoHash
<1> DEFINE N == NumGpuBlocks
           p == NewPool
           l == [i \in 1..(N - 1) |-> i]
           next == [x \in KVBlock |->
                       CASE x = 0 -> NoBlock
                         [] x # 0 /\ x = AllFree.prev[0] -> AllFree.next[0]
                         [] OTHER -> AllFree.next[x]]
           prev == [x \in KVBlock |->
                       CASE x = 0 -> NoBlock
                         [] x # 0 /\ x = AllFree.next[0] -> AllFree.prev[0]
                         [] OTHER -> AllFree.prev[x]]
<1>1. N \in Nat /\ N > 0 /\ KVBlock = 0..(N - 1) /\ NoBlock = -1 /\ 0 \in KVBlock
  BY KVAssumption DEF KVBlock, NoBlock
<1>2. /\ AllFree.ref_cnt = [b \in KVBlock |-> 0] /\ AllFree.block_hash = [b \in KVBlock |-> NoHash]
      /\ AllFree.prev = [b \in KVBlock |-> IF b = 0 THEN NoBlock ELSE b - 1]
      /\ AllFree.next = [b \in KVBlock |-> IF b = N - 1 THEN NoBlock ELSE b + 1]
      /\ AllFree.head = 0 /\ AllFree.tail = N - 1 /\ AllFree.num_free = N
      /\ AllFree.cached = <<>> /\ AllFree.ok = TRUE
      /\ DOMAIN AllFree = {"ref_cnt", "block_hash", "prev", "next", "head", "tail", "num_free", "cached", "ok"}
  BY DEF AllFree
<1>3. /\ DOMAIN p = DOMAIN AllFree
      /\ p.ref_cnt = AllFree.ref_cnt /\ p.block_hash = AllFree.block_hash
      /\ p.prev = prev /\ p.next = next
      /\ p.head = AllFree.next[0] /\ p.tail = IF AllFree.tail = 0 THEN AllFree.prev[0] ELSE AllFree.tail
      /\ p.num_free = AllFree.num_free - 1
      /\ p.cached = AllFree.cached /\ p.ok = AllFree.ok
  BY <1>2 DEF NewPool, remove
<1>4. AllFree.prev[0] = NoBlock /\ AllFree.next[0] = IF N = 1 THEN NoBlock ELSE 1
  BY <1>1, <1>2
<1>5. ASSUME NEW x \in KVBlock
      PROVE  /\ prev[x] = IF x = 0 \/ x = 1 THEN NoBlock ELSE x - 1
             /\ next[x] = IF x = 0 \/ x = N - 1 THEN NoBlock ELSE x + 1
  <2>1. CASE x = 0
    BY <2>1
  <2>2. CASE x # 0
    <3>1. next[x] = AllFree.next[x]
      BY <1>1, <1>4, <2>2
    <3>2. CASE x = 1
      <4>1. x = AllFree.next[0]
        BY <1>1, <1>4, <3>2
      <4>2. prev[x] = AllFree.prev[0]
        BY <2>2, <4>1
      <4> QED
        BY <1>2, <1>4, <2>2, <3>1, <3>2, <4>2
    <3>3. CASE x # 1
      <4>1. x # AllFree.next[0]
        BY <1>1, <1>4, <3>3
      <4>2. prev[x] = AllFree.prev[x]
        BY <2>2, <4>1
      <4> QED
        BY <1>2, <2>2, <3>1, <3>3, <4>2
    <3> QED
      BY <3>2, <3>3
  <2> QED
    BY <2>1, <2>2
<1>6. p.prev = prev /\ p.next = next /\ DOMAIN prev = KVBlock /\ DOMAIN next = KVBlock
      /\ prev = [x \in KVBlock |-> prev[x]] /\ next = [x \in KVBlock |-> next[x]]
  BY <1>3
<1> HIDE DEF prev, next
<1>7. /\ p.ref_cnt = [b \in KVBlock |-> 0] /\ p.block_hash = [b \in KVBlock |-> NoHash]
      /\ p.head = (IF N = 1 THEN NoBlock ELSE 1) /\ p.tail = (IF N = 1 THEN NoBlock ELSE N - 1)
      /\ p.num_free = N - 1 /\ p.cached = <<>> /\ p.ok = TRUE
  <2>1. p.tail = IF N = 1 THEN NoBlock ELSE N - 1
    BY <1>1, <1>2, <1>3, <1>4
  <2> QED
    BY <1>1, <1>2, <1>3, <1>4, <2>1
<1>8. p = [x \in DOMAIN p |-> p[x]]
      /\ DOMAIN p = {"ref_cnt", "block_hash", "prev", "next", "head", "tail", "num_free", "cached", "ok"}
  <2>1. p = [x \in DOMAIN p |-> p[x]]
    BY DEF NewPool, remove
  <2> HIDE DEF p
  <2> QED
    BY <1>2, <1>3, <2>1
<1> HIDE DEF p
<1>9. PoolType(p)
  <2>1. p.ref_cnt \in [KVBlock -> Nat] /\ p.block_hash \in [KVBlock -> KVHash]
    BY <1>7 DEF KVHash, NoHash
  <2>2. p.prev \in [KVBlock -> Link] /\ p.next \in [KVBlock -> Link]
    <3>1. \A x \in KVBlock : prev[x] \in Link /\ next[x] \in Link
      BY <1>1, <1>5 DEF Link
    <3> QED
      BY <1>6, <3>1
  <2>3. p.head \in Link /\ p.tail \in Link /\ p.num_free \in Nat /\ p.ok \in BOOLEAN /\ p.ok
    BY <1>1, <1>7 DEF Link
  <2> QED
    BY <1>8, <2>1, <2>2, <2>3 DEF PoolType
<1>10. l \in Seq(KVBlock \ {0}) /\ Len(l) = N - 1 /\ \A i \in 1..(N - 1) : l[i] = i
  <2>1. l = [i \in 1..(N - 1) |-> l[i]] /\ \A i \in 1..(N - 1) : l[i] = i /\ l[i] \in KVBlock \ {0}
    BY <1>1
  <2>2. N - 1 \in Nat
    BY <1>1
  <2> HIDE DEF l
  <2> QED
    BY <2>1, <2>2, ListOf
<1> HIDE DEF l
<1>11. \A b \in KVBlock : In(b, l) <=> b # 0
  <2> SUFFICES ASSUME NEW b \in KVBlock PROVE In(b, l) <=> b # 0
    OBVIOUS
  <2>1. b # 0 => b \in 1..(N - 1) /\ l[b] = b
    BY <1>1, <1>10
  <2> QED
    BY <1>1, <1>10, <2>1 DEF In
<1>12. Linked(p, l)
  <2>1. Distinct(l)
    BY <1>10 DEF Distinct
  <2>2. p.num_free = Len(l)
    BY <1>7, <1>10
  <2>3. p.head = IF Len(l) = 0 THEN NoBlock ELSE l[1]
    BY <1>1, <1>7, <1>10
  <2>4. p.tail = IF Len(l) = 0 THEN NoBlock ELSE l[Len(l)]
    BY <1>1, <1>7, <1>10
  <2>5. ASSUME NEW i \in 1..Len(l) PROVE p.prev[l[i]] = IF i = 1 THEN NoBlock ELSE l[i - 1]
    <3>1. i \in KVBlock /\ l[i] = i /\ i # 0
      BY <1>1, <1>10
    <3>2. i # 1 => i - 1 \in 1..(N - 1)
      BY <1>1, <1>10
    <3> QED
      BY <1>5, <1>6, <1>10, <3>1, <3>2
  <2>6. ASSUME NEW i \in 1..Len(l) PROVE p.next[l[i]] = IF i = Len(l) THEN NoBlock ELSE l[i + 1]
    <3>1. i \in KVBlock /\ l[i] = i /\ i # 0
      BY <1>1, <1>10
    <3>2. i # Len(l) => i + 1 \in 1..(N - 1)
      BY <1>1, <1>10
    <3> QED
      BY <1>5, <1>6, <1>10, <3>1, <3>2
  <2>7. \A b \in KVBlock : ~In(b, l) => p.prev[b] = NoBlock
    BY <1>5, <1>6, <1>11
  <2> QED
    BY <1>10, <2>1, <2>2, <2>3, <2>4, <2>5, <2>6, <2>7 DEF Linked
<1>13. Holdings(own) /\ \A b : Owners(own, b) = {} /\ Cardinality(Owners(own, b)) = 0
  BY NoOwner
<1>14. Counted(p, own, l)
  BY <1>7, <1>11, <1>13 DEF Counted
<1>15. \A b \in KVBlock : p.block_hash[b] = NoHash
  BY <1>7
<1>16. Entries(p)
  <2>1. p.cached = <<>> /\ DOMAIN p.cached = {}
    BY <1>7
  <2>2. p.cached = [h \in DOMAIN p.cached |-> p.cached[h]]
    BY <2>1
  <2> QED
    BY <1>1, <1>15, <2>1, <2>2 DEF Entries
<1>17. Chains(p, own, l)
  <2>1. \A b \in KVBlock : ~(Len(p.block_hash[b]) > KVBlockSize)
    <3>1. Len(NoHash) = 0 /\ KVBlockSize \in Nat
      BY KVAssumption DEF NoHash
    <3> QED
      BY <1>15, <3>1
  <2>2. \A r \in KVRid : Chain(p, own[r])
    BY DEF Chain
  <2> QED
    BY <1>13, <2>1, <2>2 DEF Chains
<1> QED
  BY <1>9, <1>12, <1>13, <1>14, <1>15, <1>16, <1>17 DEF Pool, p

\* A free list is a list of blocks.
LEMMA FreeListType ==
    ASSUME NEW p, NEW own, NEW l, Pool(p, own, l)
    PROVE  l \in Seq(KVBlock)
<1>1. l \in Seq(KVBlock \ {0})
  BY DEF Pool, Linked
<1> QED
  BY <1>1

\* The largest number of blocks.
LEMMA MostBlocks == MaxBlocksPerReq \in Nat
<1>1. KVMaxLen \in Nat /\ KVBlockSize \in Nat \ {0} /\ KVMaxLen <= KVMaxLen
  BY KVAssumption
<1>2. cdiv(KVMaxLen, KVBlockSize) \in Nat
  BY <1>1, CeilDiv
<1> QED
  BY <1>2 DEF MaxBlocksPerReq

\* The initial states.
LEMMA KVInvInit == KVInit => KVInv
<1> SUFFICES ASSUME KVInit PROVE KVInv
  OBVIOUS
<1>1. PICK prompt \in [KVRid -> KVPrompts] :
          seqs = [r \in KVRid |-> [tokens |-> prompt[r], num_prompt_tokens |-> Len(prompt[r]),
                                   num_computed_tokens |-> 0, status |-> "WAITING"]]
  BY DEF KVInit
<1>2. ASSUME NEW r \in KVRid
      PROVE  prompt[r] \in KVHash /\ Len(prompt[r]) \in 1..KVMaxLen /\ Len(prompt[r]) \in Nat
  <2>1. prompt[r] \in KVPrompts
    BY <1>1
  <2>2. prompt[r] \in Seq(ToSet(prompt[r])) /\ Len(prompt[r]) \in 1..KVMaxLen
    BY <2>1, KVAssumption
  <2>3. \A t \in ToSet(prompt[r]) : t \in KVTok
    BY <2>1 DEF KVTok
  <2>4. prompt[r] \in Seq(KVTok)
    <3>1. \A i \in 1..Len(prompt[r]) : prompt[r][i] \in ToSet(prompt[r])
      BY <2>2
    <3>2. \A i \in 1..Len(prompt[r]) : prompt[r][i] \in KVTok
      BY <2>3, <3>1
    <3> QED
      BY <2>2, <3>2
  <2> QED
    BY <2>2, <2>4 DEF KVHash
<1>3. mgr = [r \in KVRid |-> [blocks |-> <<>>, hashes |-> <<>>, num_cached |-> -1]] /\ flight = <<>>
      /\ spexis \in BOOLEAN /\ pool = NewPool
  BY DEF KVInit
<1>4. KVTypes
  <2>1. \A r \in KVRid : seqs[r] \in SeqType
    BY <1>1, <1>2 DEF SeqType
  <2> QED
    BY <1>1, <1>3, <2>1 DEF KVTypes
<1>5. Own = [r \in KVRid |-> <<>>]
  BY <1>3 DEF Own
<1>6. (\E l : Pool(pool, Own, l)) /\ \A b \in KVBlock : pool.block_hash[b] = NoHash
  BY <1>3, <1>5, StartPool
<1>7. \E l \in Seq(KVBlock) : Pool(pool, Own, l)
  BY <1>6, FreeListType
<1>8. ASSUME NEW r \in KVRid PROVE RequestOK(r) /\ HashesOK(r)
  <2>1. /\ seqs[r].tokens = prompt[r] /\ seqs[r].num_computed_tokens = 0 /\ seqs[r].status = "WAITING"
        /\ mgr[r].blocks = <<>> /\ mgr[r].hashes = <<>> /\ mgr[r].num_cached = -1
    BY <1>1, <1>3
  <2>2. InFlight(r) = {}
    BY <1>3 DEF InFlight
  <2>3. MaxBlocksPerReq \in Nat
    BY MostBlocks
  <2>4. RequestOK(r)
    BY <1>2, <2>1, <2>2, <2>3 DEF RequestOK
  <2>5. Len(mgr[r].hashes) = 0 /\ 0 * KVBlockSize = 0
    BY <2>1, KVAssumption
  <2>6. HashesOK(r)
    BY <1>2, <2>1, <2>5 DEF HashesOK
  <2> QED
    BY <2>4, <2>6
<1> QED
  BY <1>4, <1>6, <1>7, <1>8 DEF KVInv

-----------------------------------------------------------------------------
(* Every step keeps it. *)

\* A request gives back its blocks: hashes are its hashes afterwards.
Released(p, hashes) ==
    /\ pool' = free_blocks(pool, FreeOrder(mgr[p].blocks))
    /\ mgr' = [mgr EXCEPT ![p] = [blocks |-> <<>>, hashes |-> hashes, num_cached |-> -1]]

\* The pool and the other requests stay as they are.
ReleasedWell(p, hashes) ==
    /\ mgr' \in [KVRid -> [blocks : Seq(KVBlock), hashes : Seq(KVHash), num_cached : Int]]
    /\ mgr'[p].blocks = <<>> /\ mgr'[p].hashes = hashes /\ mgr'[p].num_cached = -1
    /\ \A x \in KVRid : x # p => mgr'[x] = mgr[x]
    /\ pool'.block_hash = pool.block_hash
    /\ \E l \in Seq(KVBlock) : Pool(pool', Own', l)

\* free.
LEMMA ReleaseKeeps ==
    ASSUME KVInv, NEW p \in KVRid, NEW hashes \in Seq(KVHash), Released(p, hashes)
    PROVE  ReleasedWell(p, hashes)
<1>1. PICK l \in Seq(KVBlock) : Pool(pool, Own, l)
  BY DEF KVInv
<1>2. mgr \in [KVRid -> [blocks : Seq(KVBlock), hashes : Seq(KVHash), num_cached : Int]]
  BY DEF KVInv, KVTypes
<1>3. Own[p] = mgr[p].blocks
  BY DEF Own
<1>4. GaveBack(pool, free_blocks(pool, FreeOrder(Own[p])), Own, p)
  BY <1>1, GiveBack
<1>5. GaveBack(pool, pool', Own, p)
  BY <1>3, <1>4 DEF Released
<1>6. /\ mgr' \in [KVRid -> [blocks : Seq(KVBlock), hashes : Seq(KVHash), num_cached : Int]]
      /\ mgr'[p].blocks = <<>> /\ mgr'[p].hashes = hashes /\ mgr'[p].num_cached = -1
      /\ \A x \in KVRid : x # p => mgr'[x] = mgr[x]
  BY <1>2 DEF Released
<1>7. Own' = With(Own, p, <<>>)
  <2>1. Own' = [x \in KVRid |-> mgr'[x].blocks] /\ Own = [x \in KVRid |-> mgr[x].blocks]
    BY DEF Own
  <2> QED
    BY <1>6, <2>1 DEF With
<1>8. PICK m : Pool(pool', Own', m)
  BY <1>5, <1>7 DEF GaveBack
<1>9. m \in Seq(KVBlock)
  BY <1>8, FreeListType
<1> QED
  BY <1>5, <1>6, <1>8, <1>9 DEF ReleasedWell, GaveBack

\* Eviction.
LEMMA PreemptKeeps ==
    ASSUME KVInv, NEW r \in KVRid, NEW p \in KVRid, Preempt(r, p)
    PROVE  KVInv'
<1>1. KVTypes /\ mgr[p] \in [blocks : Seq(KVBlock), hashes : Seq(KVHash), num_cached : Int]
  BY DEF KVInv, KVTypes
<1>2. Released(p, mgr[p].hashes)
  <2> DEFINE m == [mgr[p] EXCEPT !.blocks = <<>>, !.num_cached = -1]
  <2>1. mgr' = [mgr EXCEPT ![p] = m]
    BY <1>1 DEF Preempt, free, KVTypes
  <2>2. m = [blocks |-> <<>>, hashes |-> mgr[p].hashes, num_cached |-> -1]
    <3>1. m \in [blocks : {<<>>}, hashes : {mgr[p].hashes}, num_cached : {-1}]
      BY <1>1
    <3> HIDE DEF m
    <3> QED
      BY <3>1
  <2> QED
    BY <2>1, <2>2 DEF Preempt, free, Released
<1>3. ReleasedWell(p, mgr[p].hashes)
  BY <1>1, <1>2, ReleaseKeeps
<1>4. /\ spexis' = spexis /\ flight' = flight
      /\ seqs' = [seqs EXCEPT ![p].num_computed_tokens = IF InFlight(p) = {} THEN 0 ELSE @,
                              ![p].status = IF InFlight(p) = {} THEN "WAITING" ELSE "DRAINING"]
  BY DEF Preempt
<1>5. /\ seqs' \in [KVRid -> SeqType]
      /\ seqs'[p].tokens = seqs[p].tokens
      /\ seqs'[p].num_computed_tokens = (IF InFlight(p) = {} THEN 0 ELSE seqs[p].num_computed_tokens)
      /\ seqs'[p].status = (IF InFlight(p) = {} THEN "WAITING" ELSE "DRAINING")
      /\ \A x \in KVRid : x # p => seqs'[x] = seqs[x]
  BY <1>1, <1>4 DEF KVTypes, SeqType
<1>6. \A x : InFlight(x)' = InFlight(x)
  BY <1>4 DEF InFlight
<1>7. KVTypes'
  BY <1>1, <1>3, <1>4, <1>5 DEF KVTypes, ReleasedWell
<1>8. ASSUME NEW x \in KVRid PROVE RequestOK(x)'
  <2>1. RequestOK(x)
    BY DEF KVInv
  <2>2. CASE x # p
    BY <1>3, <1>5, <1>6, <2>1, <2>2 DEF RequestOK, ReleasedWell
  <2>3. CASE x = p
    <3>1. seqs[x].num_computed_tokens <= Len(seqs[x].tokens) /\ Len(seqs[x].tokens) \in 1..KVMaxLen
      BY <2>1 DEF RequestOK
    <3>2. Len(mgr'[x].blocks) <= MaxBlocksPerReq
      BY <1>3, <2>3, MostBlocks DEF ReleasedWell
    <3>3. seqs'[x].num_computed_tokens <= Len(seqs'[x].tokens)
      BY <1>5, <2>3, <3>1
    <3> QED
      BY <1>3, <1>5, <1>6, <2>3, <3>1, <3>2, <3>3 DEF RequestOK, ReleasedWell
  <2> QED
    BY <2>2, <2>3
<1>9. ASSUME ~spexis, NEW x \in KVRid PROVE HashesOK(x)'
  <2>1. HashesOK(x)
    BY <1>9 DEF KVInv
  <2>2. CASE x # p
    BY <1>3, <1>5, <2>1, <2>2 DEF HashesOK, ReleasedWell
  <2>3. CASE x = p
    <3>1. seqs'[x].status # "RUNNING"
      BY <1>5, <2>3
    <3> QED
      BY <1>3, <1>5, <2>1, <2>3, <3>1 DEF HashesOK, ReleasedWell
  <2> QED
    BY <2>2, <2>3
<1>10. spexis => \A b \in KVBlock : pool'.block_hash[b] = NoHash
  BY <1>3 DEF KVInv, ReleasedWell
<1>11. \E l \in Seq(KVBlock) : Pool(pool', Own', l)
  BY <1>3 DEF ReleasedWell
<1> QED
  BY <1>4, <1>7, <1>8, <1>9, <1>10, <1>11 DEF KVInv

\* The end of a request.
LEMMA FinishKeeps ==
    ASSUME KVInv, NEW p \in KVRid, Finish(p)
    PROVE  KVInv'
<1>1. KVTypes /\ <<>> \in Seq(KVHash)
  BY DEF KVInv
<1>2. Released(p, <<>>)
  BY DEF Finish, Released
<1>3. ReleasedWell(p, <<>>)
  BY <1>1, <1>2, ReleaseKeeps
<1>4. /\ spexis' = spexis /\ flight' = flight
      /\ seqs' = [seqs EXCEPT ![p].status = "FINISHED"]
  BY DEF Finish
<1>5. /\ seqs' \in [KVRid -> SeqType]
      /\ seqs'[p].tokens = seqs[p].tokens
      /\ seqs'[p].num_computed_tokens = seqs[p].num_computed_tokens
      /\ seqs'[p].status = "FINISHED"
      /\ \A x \in KVRid : x # p => seqs'[x] = seqs[x]
  BY <1>1, <1>4 DEF KVTypes, SeqType
<1>6. \A x : InFlight(x)' = InFlight(x)
  BY <1>4 DEF InFlight
<1>7. KVTypes'
  BY <1>1, <1>3, <1>4, <1>5 DEF KVTypes, ReleasedWell
<1>8. ASSUME NEW x \in KVRid PROVE RequestOK(x)'
  <2>1. RequestOK(x)
    BY DEF KVInv
  <2>2. CASE x # p
    BY <1>3, <1>5, <1>6, <2>1, <2>2 DEF RequestOK, ReleasedWell
  <2>3. CASE x = p
    <3>1. Len(mgr'[x].blocks) <= MaxBlocksPerReq
      BY <1>3, <2>3, MostBlocks DEF ReleasedWell
    <3> QED
      BY <1>3, <1>4, <1>5, <1>6, <2>1, <2>3, <3>1 DEF RequestOK, ReleasedWell
  <2> QED
    BY <2>2, <2>3
<1>9. ASSUME ~spexis, NEW x \in KVRid PROVE HashesOK(x)'
  <2>1. HashesOK(x) /\ RequestOK(x)
    BY <1>9 DEF KVInv
  <2>2. CASE x # p
    BY <1>3, <1>5, <2>1, <2>2 DEF HashesOK, ReleasedWell
  <2>3. CASE x = p
    <3>1. seqs'[x].status # "RUNNING" /\ Len(mgr'[x].hashes) = 0 /\ 0 * KVBlockSize = 0
      BY <1>3, <1>5, <2>3, KVAssumption DEF ReleasedWell
    <3>2. Len(seqs'[x].tokens) \in Nat /\ Len(seqs'[x].tokens) >= 1
      BY <1>5, <2>1, <2>3 DEF RequestOK
    <3> QED
      BY <3>1, <3>2 DEF HashesOK
  <2> QED
    BY <2>2, <2>3
<1>10. spexis => \A b \in KVBlock : pool'.block_hash[b] = NoHash
  BY <1>3 DEF KVInv, ReleasedWell
<1>11. \E l \in Seq(KVBlock) : Pool(pool', Own', l)
  BY <1>3 DEF ReleasedWell
<1> QED
  BY <1>4, <1>7, <1>8, <1>9, <1>10, <1>11 DEF KVInv

\* The managers do not change.
LEMMA SameOwners ==
    ASSUME mgr' = mgr
    PROVE  Own' = Own
BY DEF Own

\* An evicted request waits again.
LEMMA RequeueKeeps ==
    ASSUME KVInv, NEW p \in KVRid, Requeue(p)
    PROVE  KVInv'
<1>1. KVTypes
  BY DEF KVInv
<1>2. /\ spexis' = spexis /\ flight' = flight /\ pool' = pool /\ mgr' = mgr /\ Own' = Own
      /\ InFlight(p) = {} /\ seqs[p].status = "DRAINING"
      /\ seqs' = [seqs EXCEPT ![p].num_computed_tokens = 0, ![p].status = "WAITING"]
  BY SameOwners DEF Requeue
<1>3. /\ seqs' \in [KVRid -> SeqType]
      /\ seqs'[p].tokens = seqs[p].tokens
      /\ seqs'[p].num_computed_tokens = 0
      /\ seqs'[p].status = "WAITING"
      /\ \A x \in KVRid : x # p => seqs'[x] = seqs[x]
  BY <1>1, <1>2 DEF KVTypes, SeqType
<1>4. \A x : InFlight(x)' = InFlight(x)
  BY <1>2 DEF InFlight
<1>5. KVTypes'
  BY <1>1, <1>2, <1>3 DEF KVTypes
<1>6. ASSUME NEW x \in KVRid PROVE RequestOK(x)'
  <2>1. RequestOK(x)
    BY DEF KVInv
  <2>2. CASE x # p
    BY <1>2, <1>3, <1>4, <2>1, <2>2 DEF RequestOK
  <2>3. CASE x = p
    BY <1>2, <1>3, <1>4, <2>1, <2>3 DEF RequestOK
  <2> QED
    BY <2>2, <2>3
<1>7. ASSUME ~spexis, NEW x \in KVRid PROVE HashesOK(x)'
  <2>1. HashesOK(x)
    BY <1>7 DEF KVInv
  <2>2. CASE x # p
    BY <1>2, <1>3, <2>1, <2>2 DEF HashesOK
  <2>3. CASE x = p
    BY <1>2, <1>3, <2>1, <2>3 DEF HashesOK
  <2> QED
    BY <2>2, <2>3
<1>8. \E l \in Seq(KVBlock) : Pool(pool', Own', l)
  BY <1>2 DEF KVInv
<1>9. spexis => \A b \in KVBlock : pool'.block_hash[b] = NoHash
  BY <1>2 DEF KVInv
<1> QED
  BY <1>2, <1>5, <1>6, <1>7, <1>8, <1>9 DEF KVInv

\* The prefix cache is emptied.
LEMMA ResetKeeps ==
    ASSUME KVInv, reset_prefix_cache
    PROVE  KVInv'
<1> DEFINE q == [pool EXCEPT !.cached = <<>>, !.block_hash = [b \in KVBlock |-> NoHash]]
<1>1. PICK l \in Seq(KVBlock) : Pool(pool, Own, l)
  BY DEF KVInv
<1>2. PoolType(pool) /\ Linked(pool, l) /\ Holdings(Own) /\ Counted(pool, Own, l)
      /\ l \in Seq(KVBlock \ {0}) /\ Distinct(l)
  BY <1>1 DEF Pool, Linked
<1>3. NumGpuBlocks - pool.num_free = 1 /\ pool' = q
      /\ spexis' = spexis /\ mgr' = mgr /\ seqs' = seqs /\ flight' = flight /\ Own' = Own
  BY SameOwners DEF reset_prefix_cache
<1>4. DOMAIN pool = {"ref_cnt", "block_hash", "prev", "next", "head", "tail", "num_free", "cached", "ok"}
  BY <1>2 DEF PoolType
<1>5. /\ q.ref_cnt = pool.ref_cnt /\ q.block_hash = [b \in KVBlock |-> NoHash] /\ q.cached = <<>>
      /\ q.prev = pool.prev /\ q.next = pool.next /\ q.head = pool.head /\ q.tail = pool.tail
      /\ q.num_free = pool.num_free /\ q.ok = pool.ok
  BY <1>4
<1>6. PoolType(q)
  <2>1. q = [x \in DOMAIN pool |-> q[x]]
    BY <1>2 DEF PoolType
  <2>2. q.block_hash \in [KVBlock -> KVHash]
    BY <1>5 DEF KVHash, NoHash
  <2> HIDE DEF q
  <2> QED
    BY <1>2, <1>4, <1>5, <2>1, <2>2 DEF PoolType
<1> HIDE DEF q
<1>7. Linked(q, l) /\ Counted(q, Own, l)
  BY <1>2, <1>5 DEF Linked, Counted
<1>8. \A b \in KVBlock : q.block_hash[b] = NoHash
  BY <1>5
<1>9. Entries(q)
  <2>1. DOMAIN q.cached = {} /\ q.cached = [h \in DOMAIN q.cached |-> q.cached[h]]
    BY <1>5
  <2>2. 0 \in KVBlock
    BY KVAssumption DEF KVBlock
  <2> QED
    BY <1>8, <2>1, <2>2 DEF Entries
<1>10. \A r \in KVRid : Own[r] = <<>>
  <2>1. Len(l) = NumGpuBlocks - 1
    <3>1. pool.num_free = Len(l) /\ Len(l) \in Nat
      BY <1>2 DEF Linked
    <3> QED
      BY <1>3, <3>1, KVAssumption
  <2>2. \A b \in KVBlock \ {0} : In(b, l)
    BY <1>2, <2>1, ListFits
  <2> SUFFICES ASSUME NEW r \in KVRid, Own[r] # <<>> PROVE FALSE
    OBVIOUS
  <2>3. Own[r] \in Seq(KVBlock \ {0})
    BY <1>2 DEF Holdings
  <2>4. 1 \in 1..Len(Own[r]) /\ Own[r][1] \in KVBlock \ {0}
    BY <2>3
  <2>5. ~In(Own[r][1], l)
    BY <1>1, <2>4, OwnedNotFree
  <2> QED
    BY <2>2, <2>4, <2>5
<1>11. Chains(q, Own, l)
  <2>1. \A b \in KVBlock : ~(Len(q.block_hash[b]) > KVBlockSize)
    <3>1. Len(NoHash) = 0 /\ KVBlockSize \in Nat
      BY KVAssumption DEF NoHash
    <3> QED
      BY <1>8, <3>1
  <2>2. \A r \in KVRid : Chain(q, Own[r])
    BY <1>10 DEF Chain
  <2>3. \A b : Owners(Own, b) = {}
    BY <1>10 DEF Owners, In
  <2> QED
    BY <2>1, <2>2, <2>3 DEF Chains
<1>12. Pool(pool', Own', l)
  BY <1>2, <1>3, <1>6, <1>7, <1>9, <1>11 DEF Pool
<1>13. KVTypes'
  BY <1>3 DEF KVInv, KVTypes
<1>14. ASSUME NEW x \in KVRid PROVE RequestOK(x)'
  <2>1. InFlight(x)' = InFlight(x)
    BY <1>3 DEF InFlight
  <2> QED
    BY <1>3, <2>1 DEF KVInv, RequestOK
<1>15. ASSUME ~spexis, NEW x \in KVRid PROVE HashesOK(x)'
  <2>1. HashesOK(x)
    BY <1>15 DEF KVInv
  <2>2. mgr[x].blocks = <<>>
    BY <1>10 DEF Own
  <2> QED
    BY <1>3, <2>1, <2>2 DEF HashesOK
<1> QED
  BY <1>3, <1>8, <1>12, <1>13, <1>14, <1>15 DEF KVInv

\* A step in which nothing changes.
LEMMA KVStutter ==
    ASSUME KVInv, UNCHANGED kvVars
    PROVE  KVInv'
<1>1. /\ spexis' = spexis /\ pool' = pool /\ mgr' = mgr /\ seqs' = seqs /\ flight' = flight
      /\ Own' = Own
  BY SameOwners DEF kvVars
<1>2. KVTypes'
  BY <1>1 DEF KVInv, KVTypes
<1>3. ASSUME NEW x \in KVRid PROVE RequestOK(x)'
  <2>1. InFlight(x)' = InFlight(x)
    BY <1>1 DEF InFlight
  <2> QED
    BY <1>1, <2>1 DEF KVInv, RequestOK
<1>4. ASSUME ~spexis, NEW x \in KVRid PROVE HashesOK(x)'
  <2>1. HashesOK(x)
    BY <1>4 DEF KVInv
  <2> QED
    BY <1>1, <2>1 DEF HashesOK
<1>5. \E l \in Seq(KVBlock) : Pool(pool', Own', l)
  BY <1>1 DEF KVInv
<1>6. spexis => \A b \in KVBlock : pool'.block_hash[b] = NoHash
  BY <1>1 DEF KVInv
<1> QED
  BY <1>1, <1>2, <1>3, <1>4, <1>5, <1>6 DEF KVInv

\* A list without its first element.
LEMMA WithoutFirst ==
    ASSUME NEW S, NEW s \in Seq(S), Len(s) > 0
    PROVE  LET t == RemoveAt(s, 1)
           IN  /\ t \in Seq(S) /\ Len(t) = Len(s) - 1
               /\ \A k \in 1..(Len(s) - 1) : t[k] = s[k + 1]
<1> DEFINE a == SubSeq(s, 1, 1 - 1)
           b == SubSeq(s, 1 + 1, Len(s))
           n == Len(s)
<1>1. n \in Nat /\ n > 0 /\ \A i \in 1..n : s[i] \in S
  OBVIOUS
<1>2. a = <<>>
  <2>1. 1 \in Int /\ 1 - 1 \in Int /\ 1 - 1 < 1
    OBVIOUS
  <2> QED
    BY <2>1, SubSeqEmpty
<1> HIDE DEF n
<1>3. SubSeq(s, 2, n) \in Seq(S) /\ Len(SubSeq(s, 2, n)) = (IF 2 <= n THEN n - 2 + 1 ELSE 0)
      /\ \A i \in 1..(n - 2 + 1) : SubSeq(s, 2, n)[i] = s[2 + i - 1]
  <2>1. \A i \in 2..n : s[i] \in S
    BY <1>1
  <2> QED
    BY <1>1, <2>1, SubSeqProperties
<1>4. b = SubSeq(s, 2, n)
  BY DEF n
<1>5. RemoveAt(s, 1) = a \o b
  BY DEF RemoveAt
<1> HIDE DEF a, b
<1>6. a \o b = b
  BY <1>2, <1>3, <1>4, ConcatEmptySeq
<1>7. Len(b) = n - 1 /\ \A k \in 1..(n - 1) : b[k] = s[k + 1]
  <2>1. Len(b) = n - 1
    BY <1>1, <1>3, <1>4
  <2>2. ASSUME NEW k \in 1..(n - 1) PROVE b[k] = s[k + 1]
    <3>1. k \in 1..(n - 2 + 1) /\ 2 + k - 1 = k + 1
      BY <1>1
    <3> QED
      BY <1>3, <1>4, <3>1
  <2> QED
    BY <2>1, <2>2
<1> QED
  BY <1>3, <1>4, <1>5, <1>6, <1>7 DEF n

StepType == [r : KVRid, blocks : Seq(KVBlock), from : Nat, tokens : KVHash, live : BOOLEAN]

\* One more token leaves the hashes of the full blocks as they are.
LEMMA PrefixStays ==
    ASSUME NEW tokens \in KVHash, NEW t \in KVTok, NEW k \in 0..Len(tokens)
    PROVE  SubSeq(Append(tokens, t), 1, k) = SubSeq(tokens, 1, k)
<1> DEFINE s == Append(tokens, t)
           a == SubSeq(s, 1, k)
           b == SubSeq(tokens, 1, k)
<1>1. k \in Nat /\ \A i \in 1..k : tokens[i] \in KVTok /\ s[i] = tokens[i]
  BY DEF KVHash
<1> HIDE DEF s
<1>2. a \in Seq(KVTok) /\ Len(a) = (IF 1 <= k THEN k - 1 + 1 ELSE 0)
      /\ \A i \in 1..(k - 1 + 1) : a[i] = s[1 + i - 1]
  BY <1>1, SubSeqProperties
<1>3. b \in Seq(KVTok) /\ Len(b) = (IF 1 <= k THEN k - 1 + 1 ELSE 0)
      /\ \A i \in 1..(k - 1 + 1) : b[i] = tokens[1 + i - 1]
  BY <1>1, SubSeqProperties
<1> HIDE DEF a, b
<1>4. Len(a) = k /\ Len(b) = k /\ \A i \in 1..k : a[i] = b[i]
  BY <1>1, <1>2, <1>3
<1>5. a = b
  BY <1>1, <1>2, <1>3, <1>4
<1> QED
  BY <1>5 DEF a, b, s

\* What the end of a step of r does to its tokens.
EndsWell(r) ==
    /\ seqs' \in [KVRid -> SeqType]
    /\ \A x \in KVRid : x # r => seqs'[x] = seqs[x]
    /\ seqs'[r].status \in {seqs[r].status, "STOPPED"}
    /\ Len(seqs'[r].tokens) \in 1..KVMaxLen
    /\ seqs'[r].num_computed_tokens <= Len(seqs'[r].tokens)
    /\ ~spexis => /\ seqs'[r].num_computed_tokens = seqs[r].num_computed_tokens
                  /\ \/ seqs'[r].tokens = seqs[r].tokens
                     \/ \E t \in KVTok : seqs'[r].tokens = Append(seqs[r].tokens, t)

\* The steps that are left.
OneLess ==
    /\ flight' \in Seq(StepType) /\ Len(flight') = Len(flight) - 1
    /\ \A k \in 1..(Len(flight) - 1) : flight'[k].r = flight[k + 1].r

\* Nothing else changes when a token of r is verified.
LEMMA VerifiedRequest ==
    ASSUME seqs \in [KVRid -> SeqType], NEW r \in KVRid, NEW tokens \in KVHash,
           NEW computed \in Nat, NEW status \in {seqs[r].status, "STOPPED"},
           Verified(r, tokens, computed, status)
    PROVE  /\ seqs' \in [KVRid -> SeqType] /\ \A x \in KVRid : x # r => seqs'[x] = seqs[x]
           /\ seqs'[r].status = status /\ seqs'[r].tokens = tokens
           /\ seqs'[r].num_computed_tokens = computed
<1>1. status \in {"WAITING", "RUNNING", "DRAINING", "STOPPED", "FINISHED"}
  BY DEF SeqType
<1>2. seqs' = [seqs EXCEPT ![r].tokens = tokens, ![r].num_computed_tokens = computed,
                           ![r].status = status]
  BY DEF Verified
<1> QED
  BY <1>1, <1>2 DEF SeqType

\* What was sampled is discarded, or is a token that is verified.
LEMMA EndCases ==
    ASSUME NEW step, step = flight[1], NEW r, r = step.r, NEW n, n = Len(step.tokens),
           NEW q, q = seqs[r], NEW later, later = RemoveAt(flight, 1), EndStep(1)
    PROVE  \/ UNCHANGED seqs /\ flight' = later
           \/ \E status \in {q.status, "STOPPED"}, t \in KVToken :
                 \/ /\ ~spexis /\ n = Len(q.tokens) /\ n < KVMaxLen
                    /\ Verified(r, Append(q.tokens, t), q.num_computed_tokens, status)
                    /\ flight' = later
                 \/ /\ Verified(r, q.tokens, q.num_computed_tokens, status)
                    /\ flight' \in {later, Stale(later, r)}
                 \/ /\ spexis /\ step.live /\ n \in q.num_prompt_tokens..(Len(q.tokens) - 1)
                    /\ Verified(r, Append(step.tokens, t), n, status)
                    /\ flight' = Stale(later, r)
<1>1. CASE UNCHANGED seqs /\ flight' = later
  BY <1>1
<1>2. ASSUME NEW status \in {q.status, "STOPPED"}, NEW t \in KVToken,
             \/ /\ ~spexis /\ n = Len(q.tokens) /\ n < KVMaxLen
                /\ Verified(r, Append(q.tokens, t), q.num_computed_tokens, status)
                /\ flight' = later
             \/ /\ spexis /\ step.live /\ n \in q.num_prompt_tokens..(Len(q.tokens) - 1)
                /\ IF t = q.tokens[n + 1]
                   THEN Verified(r, q.tokens, q.num_computed_tokens, status)
                   ELSE Verified(r, Append(step.tokens, t), n, status)
                /\ flight' = IF t = q.tokens[n + 1] /\ status = q.status THEN later
                             ELSE Stale(later, r)
      PROVE  \/ /\ ~spexis /\ n = Len(q.tokens) /\ n < KVMaxLen
                /\ Verified(r, Append(q.tokens, t), q.num_computed_tokens, status)
                /\ flight' = later
             \/ /\ Verified(r, q.tokens, q.num_computed_tokens, status)
                /\ flight' \in {later, Stale(later, r)}
             \/ /\ spexis /\ step.live /\ n \in q.num_prompt_tokens..(Len(q.tokens) - 1)
                /\ Verified(r, Append(step.tokens, t), n, status)
                /\ flight' = Stale(later, r)
  BY <1>2, Zenon
<1>3. \/ UNCHANGED seqs /\ flight' = later
      \/ \E status \in {q.status, "STOPPED"}, t \in KVToken :
             \/ /\ ~spexis /\ n = Len(q.tokens) /\ n < KVMaxLen
                /\ Verified(r, Append(q.tokens, t), q.num_computed_tokens, status)
                /\ flight' = later
             \/ /\ spexis /\ step.live /\ n \in q.num_prompt_tokens..(Len(q.tokens) - 1)
                /\ IF t = q.tokens[n + 1]
                   THEN Verified(r, q.tokens, q.num_computed_tokens, status)
                   ELSE Verified(r, Append(step.tokens, t), n, status)
                /\ flight' = IF t = q.tokens[n + 1] /\ status = q.status THEN later
                             ELSE Stale(later, r)
  BY Zenon DEF EndStep
<1> QED
  BY <1>1, <1>2, <1>3, Zenon

\* The workers end the first step.
LEMMA EndKeeps ==
    ASSUME KVInv, Len(flight) > 0, EndStep(1)
    PROVE  flight[1] \in StepType /\ EndsWell(flight[1].r) /\ OneLess
<1> DEFINE step == flight[1]
           r == step.r
           n == Len(step.tokens)
           q == seqs[r]
           later == RemoveAt(flight, 1)
<1>1. KVTypes /\ flight \in Seq(StepType) /\ seqs \in [KVRid -> SeqType]
  BY DEF KVInv, KVTypes, StepType
<1>2. step \in StepType /\ r \in KVRid /\ step.tokens \in KVHash /\ n \in Nat /\ Len(flight) \in Nat
  <2>1. 1 \in 1..Len(flight) /\ step \in StepType
    BY <1>1
  <2> QED
    BY <1>1, <2>1 DEF StepType, KVHash
<1>3. /\ later \in Seq(StepType) /\ Len(later) = Len(flight) - 1
      /\ \A k \in 1..(Len(flight) - 1) : later[k] = flight[k + 1]
  BY <1>1, WithoutFirst
<1>4. q \in SeqType /\ q.tokens \in KVHash /\ Len(q.tokens) \in 1..KVMaxLen
      /\ q.num_computed_tokens \in Nat /\ q.num_computed_tokens <= Len(q.tokens)
  BY <1>1, <1>2 DEF KVInv, RequestOK, SeqType
<1>5. KVMaxLen \in Nat /\ KVToken \subseteq KVTok
  BY KVAssumption DEF KVTok
<1> HIDE DEF later
<1>6. \/ UNCHANGED seqs /\ flight' = later
      \/ \E status \in {q.status, "STOPPED"}, t \in KVToken :
            \/ /\ ~spexis /\ n = Len(q.tokens) /\ n < KVMaxLen
               /\ Verified(r, Append(q.tokens, t), q.num_computed_tokens, status)
               /\ flight' = later
            \/ /\ Verified(r, q.tokens, q.num_computed_tokens, status)
               /\ flight' \in {later, Stale(later, r)}
            \/ /\ spexis /\ step.live /\ n \in q.num_prompt_tokens..(Len(q.tokens) - 1)
               /\ Verified(r, Append(step.tokens, t), n, status)
               /\ flight' = Stale(later, r)
  BY EndCases DEF later
<1>7. ASSUME flight' \in {later, Stale(later, r)} PROVE OneLess
  <2>1. DOMAIN later = 1..(Len(flight) - 1) /\ Len(flight) - 1 \in Nat
    BY <1>2, <1>3
  <2>2. CASE flight' = later
    BY <1>3, <2>2 DEF OneLess
  <2>3. CASE flight' = Stale(later, r)
    <3>1. ASSUME NEW k \in 1..(Len(flight) - 1)
          PROVE  flight'[k] \in StepType /\ flight'[k].r = flight[k + 1].r
      <4>1. later[k] \in StepType /\ later[k] = flight[k + 1]
        BY <1>3, <2>1
      <4>2. flight'[k] = [later[k] EXCEPT !.live = @ /\ later[k].r # r]
        BY <2>1, <2>3 DEF Stale
      <4> QED
        BY <4>1, <4>2 DEF StepType
    <3>2. flight' = [k \in 1..(Len(flight) - 1) |-> flight'[k]]
      BY <2>1, <2>3 DEF Stale
    <3>3. flight' \in Seq(StepType) /\ Len(flight') = Len(flight) - 1
      BY <2>1, <3>1, <3>2, ListOf
    <3> QED
      BY <3>1, <3>3 DEF OneLess
  <2> QED
    BY <1>7, <2>2, <2>3
<1>8. ASSUME NEW tokens \in KVHash, NEW computed \in Nat, NEW status \in {q.status, "STOPPED"},
             Verified(r, tokens, computed, status)
      PROVE  /\ seqs' \in [KVRid -> SeqType] /\ \A x \in KVRid : x # r => seqs'[x] = seqs[x]
             /\ seqs'[r].status = status /\ seqs'[r].tokens = tokens
             /\ seqs'[r].num_computed_tokens = computed
  BY <1>1, <1>2, <1>8, VerifiedRequest
<1>9. ASSUME NEW status \in {q.status, "STOPPED"}, NEW t \in KVToken,
              ~spexis, n = Len(q.tokens), n < KVMaxLen,
              Verified(r, Append(q.tokens, t), q.num_computed_tokens, status)
       PROVE  EndsWell(r)
  <2>1. Append(q.tokens, t) \in KVHash /\ Len(Append(q.tokens, t)) = Len(q.tokens) + 1 /\ t \in KVTok
    BY <1>4, <1>5 DEF KVHash
  <2>2. /\ seqs' \in [KVRid -> SeqType] /\ \A x \in KVRid : x # r => seqs'[x] = seqs[x]
        /\ seqs'[r].status = status /\ seqs'[r].tokens = Append(q.tokens, t)
        /\ seqs'[r].num_computed_tokens = q.num_computed_tokens
    <3>1. q.num_computed_tokens \in Nat
      BY <1>4
    <3> QED
      BY <1>8, <1>9, <2>1, <3>1
  <2>3. Len(seqs'[r].tokens) \in 1..KVMaxLen /\ seqs'[r].num_computed_tokens <= Len(seqs'[r].tokens)
    BY <1>2, <1>4, <1>5, <1>9, <2>1, <2>2
  <2>4. seqs'[r].tokens = Append(seqs[r].tokens, t) /\ t \in KVTok
    BY <2>1, <2>2
  <2>5. seqs'[r].num_computed_tokens = seqs[r].num_computed_tokens
        /\ seqs'[r].status \in {seqs[r].status, "STOPPED"}
    BY <2>2
  <2> HIDE DEF r
  <2> QED
    BY <2>2, <2>3, <2>4, <2>5 DEF EndsWell
<1>10. ASSUME NEW status \in {q.status, "STOPPED"},
              Verified(r, q.tokens, q.num_computed_tokens, status)
       PROVE  EndsWell(r)
  <2>1. /\ seqs' \in [KVRid -> SeqType] /\ \A x \in KVRid : x # r => seqs'[x] = seqs[x]
        /\ seqs'[r].status = status /\ seqs'[r].tokens = q.tokens
        /\ seqs'[r].num_computed_tokens = q.num_computed_tokens
    BY <1>4, <1>8, <1>10
  <2> QED
    BY <1>4, <2>1 DEF EndsWell
<1>11. ASSUME NEW status \in {q.status, "STOPPED"}, NEW t \in KVToken,
              spexis, n \in q.num_prompt_tokens..(Len(q.tokens) - 1),
              Verified(r, Append(step.tokens, t), n, status)
       PROVE  EndsWell(r)
  <2>1. Append(step.tokens, t) \in KVHash /\ Len(Append(step.tokens, t)) = n + 1
    BY <1>2, <1>5 DEF KVHash
  <2>2. /\ seqs' \in [KVRid -> SeqType] /\ \A x \in KVRid : x # r => seqs'[x] = seqs[x]
        /\ seqs'[r].status = status /\ seqs'[r].tokens = Append(step.tokens, t)
        /\ seqs'[r].num_computed_tokens = n
    BY <1>2, <1>8, <1>11, <2>1
  <2>3. n + 1 <= Len(q.tokens)
    BY <1>2, <1>4, <1>11 DEF SeqType
  <2>4. Len(seqs'[r].tokens) \in 1..KVMaxLen /\ seqs'[r].num_computed_tokens <= Len(seqs'[r].tokens)
    BY <1>2, <1>4, <1>5, <2>1, <2>2, <2>3
  <2> QED
    BY <1>11, <2>2, <2>4 DEF EndsWell
<1>12. CASE UNCHANGED seqs /\ flight' = later
  <2>1. EndsWell(r)
    BY <1>1, <1>4, <1>12 DEF EndsWell
  <2> QED
    BY <1>2, <1>7, <1>12, <2>1
<1>13. ASSUME NEW status \in {q.status, "STOPPED"}, NEW t \in KVToken,
              \/ /\ ~spexis /\ n = Len(q.tokens) /\ n < KVMaxLen
                 /\ Verified(r, Append(q.tokens, t), q.num_computed_tokens, status)
                 /\ flight' = later
              \/ /\ Verified(r, q.tokens, q.num_computed_tokens, status)
                 /\ flight' \in {later, Stale(later, r)}
              \/ /\ spexis /\ step.live /\ n \in q.num_prompt_tokens..(Len(q.tokens) - 1)
                 /\ Verified(r, Append(step.tokens, t), n, status)
                 /\ flight' = Stale(later, r)
       PROVE  EndsWell(r) /\ OneLess
  BY <1>7, <1>9, <1>10, <1>11, <1>13, Zenon
<1> QED
  BY <1>2, <1>6, <1>12, <1>13, Zenon

\* A step ends.
LEMMA WorkKeeps ==
    ASSUME KVInv, Work
    PROVE  KVInv'
<1> DEFINE r == flight[1].r
<1>1. EndStep(1) /\ Len(flight) > 0
  <2>1. flight # <<>> /\ EndStep(1)
    BY DEF Work, NextInFlight
  <2>2. flight \in Seq(StepType)
    BY DEF KVInv, KVTypes, StepType
  <2> QED
    BY <2>1, <2>2
<1>2. flight[1] \in StepType /\ EndsWell(r) /\ OneLess
  BY <1>1, EndKeeps
<1>3. spexis' = spexis /\ pool' = pool /\ mgr' = mgr /\ Own' = Own
  <2>1. UNCHANGED <<spexis, pool, mgr, evictions>>
    BY <1>1, Zenon DEF EndStep
  <2> QED
    BY <2>1, SameOwners
<1>4. r \in KVRid /\ flight \in Seq(StepType) /\ Len(flight) \in Nat
  BY <1>2 DEF StepType, KVInv, KVTypes
<1>5. InFlight(r) # {}
  <2>1. 1 \in DOMAIN flight
    BY <1>1, <1>4
  <2> QED
    BY <2>1 DEF InFlight
<1> HIDE DEF r
<1>6. ASSUME NEW x, InFlight(x) = {} PROVE InFlight(x)' = {}
  <2> SUFFICES ASSUME NEW k \in DOMAIN flight', flight'[k].r = x PROVE FALSE
    BY DEF InFlight
  <2>1. k \in 1..(Len(flight) - 1)
    BY <1>2, <1>4 DEF OneLess
  <2>2. k + 1 \in DOMAIN flight /\ flight[k + 1].r = x
    BY <1>2, <1>4, <2>1 DEF OneLess
  <2> QED
    BY <1>6, <2>2 DEF InFlight
<1>7. KVTypes'
  BY <1>2, <1>3 DEF KVInv, KVTypes, EndsWell, OneLess, StepType
<1>8. ASSUME NEW x \in KVRid PROVE RequestOK(x)'
  <2>1. RequestOK(x)
    BY DEF KVInv
  <2>2. CASE x # r
    BY <1>2, <1>3, <1>6, <2>1, <2>2 DEF RequestOK, EndsWell
  <2>3. CASE x = r
    BY <1>2, <1>3, <1>5, <2>1, <2>3 DEF RequestOK, EndsWell
  <2> QED
    BY <2>2, <2>3
<1>9. ASSUME ~spexis, NEW x \in KVRid PROVE HashesOK(x)'
  <2>1. HashesOK(x) /\ seqs[x].tokens \in KVHash /\ mgr[x].hashes \in Seq(KVHash) /\ KVBlockSize \in Nat
    BY <1>9, KVAssumption DEF KVInv, KVTypes, SeqType
  <2>2. CASE x # r \/ seqs'[x].tokens = seqs[x].tokens
    BY <1>2, <1>3, <1>9, <2>1, <2>2 DEF HashesOK, EndsWell
  <2>3. CASE x = r /\ seqs'[x].tokens # seqs[x].tokens
    <3>1. PICK t \in KVTok : seqs'[x].tokens = Append(seqs[x].tokens, t)
      BY <1>2, <1>9, <2>3 DEF EndsWell
    <3> DEFINE hs == mgr[x].hashes
               tokens == seqs[x].tokens
    <3>2. Len(hs) \in Nat /\ Len(tokens) \in Nat /\ Len(hs) * KVBlockSize \in Nat
          /\ Len(hs) * KVBlockSize <= Len(tokens) /\ Len(seqs'[x].tokens) = Len(tokens) + 1
      BY <2>1, <3>1 DEF HashesOK, KVHash
    <3>3. Len(mgr'[x].hashes) * KVBlockSize <= Len(seqs'[x].tokens)
      BY <1>3, <3>2
    <3>4. ASSUME NEW i \in 1..Len(hs)
          PROVE  mgr'[x].hashes[i] = SubSeq(seqs'[x].tokens, 1, i * KVBlockSize)
      <4>1. i \in Nat /\ i * KVBlockSize <= Len(hs) * KVBlockSize /\ i * KVBlockSize \in Nat
        BY <2>1, <3>2, TimesMonotone
      <4>2. i * KVBlockSize \in 0..Len(tokens)
        BY <3>2, <4>1
      <4>3. SubSeq(Append(tokens, t), 1, i * KVBlockSize) = SubSeq(tokens, 1, i * KVBlockSize)
        BY <2>1, <4>2, PrefixStays
      <4>4. hs[i] = SubSeq(tokens, 1, i * KVBlockSize)
        BY <2>1 DEF HashesOK
      <4> QED
        BY <1>3, <3>1, <4>3, <4>4
    <3>5. (seqs'[x].status = "RUNNING" => seqs[x].status = "RUNNING")
          /\ seqs'[x].num_computed_tokens = seqs[x].num_computed_tokens
      BY <1>2, <1>9, <2>3 DEF EndsWell
    <3> QED
      BY <1>3, <2>1, <3>3, <3>4, <3>5 DEF HashesOK
  <2> QED
    BY <2>2, <2>3
<1>10. \E l \in Seq(KVBlock) : Pool(pool', Own', l)
  BY <1>3 DEF KVInv
<1>11. spexis => \A b \in KVBlock : pool'.block_hash[b] = NoHash
  BY <1>3 DEF KVInv
<1> QED
  BY <1>3, <1>7, <1>8, <1>9, <1>10, <1>11 DEF KVInv

\* A step is sent with the blocks of a.
LEMMA SendKeeps ==
    ASSUME KVInv, NEW r \in KVRid, NEW computed, NEW from \in Nat, NEW n \in Nat, NEW a,
           Allocated(r, n, computed, a), Total(r, n, computed) = from + n,
           from + n <= Len(seqs[r].tokens), Send(r, from, n, a)
    PROVE  KVInv'
<1> DEFINE to == from + n
           old == seqs[r].tokens
           new == [r |-> r, blocks |-> a.mgr.blocks, from |-> from,
                   tokens |-> SubSeq(old, 1, to), live |-> TRUE]
<1>1. /\ KVTypes /\ seqs \in [KVRid -> SeqType] /\ flight \in Seq(StepType)
      /\ mgr \in [KVRid -> [blocks : Seq(KVBlock), hashes : Seq(KVHash), num_cached : Int]]
  BY DEF KVInv, KVTypes, StepType
<1>2. old \in KVHash /\ Len(old) \in 1..KVMaxLen /\ to \in Nat /\ KVMaxLen \in Nat /\ to <= Len(old)
  BY <1>1, KVAssumption DEF KVInv, RequestOK, SeqType
<1>3. /\ spexis' = spexis /\ pool' = a.pool /\ mgr' = [mgr EXCEPT ![r] = a.mgr]
      /\ flight' = Append(flight, new)
      /\ \E tokens \in Guesses(old, to) :
             seqs' = [seqs EXCEPT ![r].tokens = tokens, ![r].num_computed_tokens = to,
                                  ![r].status = "RUNNING"]
  BY DEF Send
<1>4. PICK tokens \in Guesses(old, to) :
          seqs' = [seqs EXCEPT ![r].tokens = tokens, ![r].num_computed_tokens = to,
                               ![r].status = "RUNNING"]
  BY <1>3
<1> HIDE DEF to, old, new
<1>5. tokens \in KVHash /\ Len(tokens) \in 1..KVMaxLen /\ Len(old) <= Len(tokens)
      /\ (~spexis => tokens = old)
  <2>1. CASE spexis /\ to = Len(old) /\ to < KVMaxLen
    <3>1. PICK t \in KVToken : tokens = Append(old, t)
      BY <1>4, <2>1 DEF Guesses
    <3>2. t \in KVTok
      BY <3>1 DEF KVTok
    <3>3. tokens \in KVHash /\ Len(tokens) = Len(old) + 1
      BY <1>2, <3>1, <3>2 DEF KVHash
    <3> QED
      BY <1>2, <2>1, <3>3
  <2>2. CASE ~(spexis /\ to = Len(old) /\ to < KVMaxLen)
    <3>1. tokens = old
      BY <1>4, <2>2 DEF Guesses
    <3> QED
      BY <1>2, <3>1
  <2> QED
    BY <2>1, <2>2
<1>6. /\ seqs' \in [KVRid -> SeqType] /\ \A x \in KVRid : x # r => seqs'[x] = seqs[x]
      /\ seqs'[r].tokens = tokens /\ seqs'[r].num_computed_tokens = to /\ seqs'[r].status = "RUNNING"
  BY <1>1, <1>2, <1>4, <1>5 DEF SeqType
<1>7. a.mgr \in [blocks : Seq(KVBlock), hashes : Seq(KVHash), num_cached : Int]
  BY DEF Allocated
<1>8. /\ mgr' \in [KVRid -> [blocks : Seq(KVBlock), hashes : Seq(KVHash), num_cached : Int]]
      /\ mgr'[r] = a.mgr /\ \A x \in KVRid : x # r => mgr'[x] = mgr[x]
  BY <1>1, <1>3, <1>7
<1>9. new \in StepType
  <2>1. SubSeq(old, 1, to) \in KVHash
    <3>1. \A i \in 1..to : old[i] \in KVTok
      BY <1>2 DEF KVHash
    <3>2. SubSeq(old, 1, to) \in Seq(KVTok)
      BY <1>2, <3>1, SubSeqProperties
    <3> QED
      BY <3>2 DEF KVHash
  <2> QED
    BY <1>7, <2>1 DEF new, StepType
<1>10. /\ flight' \in Seq(StepType) /\ Len(flight') = Len(flight) + 1 /\ Len(flight) \in Nat
       /\ \A k \in 1..Len(flight) : flight'[k] = flight[k]
       /\ flight'[Len(flight) + 1].r = r
  BY <1>1, <1>3, <1>9 DEF new
<1>11. ASSUME NEW x \in KVRid, x # r, InFlight(x) = {} PROVE InFlight(x)' = {}
  <2> SUFFICES ASSUME NEW k \in DOMAIN flight', flight'[k].r = x PROVE FALSE
    BY DEF InFlight
  <2>1. k \in 1..(Len(flight) + 1)
    BY <1>10
  <2>2. k \in 1..Len(flight)
    BY <1>10, <1>11, <2>1
  <2>3. k \in DOMAIN flight /\ flight[k].r = x
    BY <1>1, <1>10, <2>2
  <2> QED
    BY <1>11, <2>3 DEF InFlight
<1>12. Own' = With(Own, r, a.mgr.blocks)
  <2>1. Own' = [x \in KVRid |-> mgr'[x].blocks] /\ Own = [x \in KVRid |-> mgr[x].blocks]
    BY DEF Own
  <2> QED
    BY <1>8, <2>1 DEF With
<1>13. \E l \in Seq(KVBlock) : Pool(pool', Own', l)
  <2>1. PICK m : Pool(a.pool, With(Own, r, a.mgr.blocks), m)
    BY DEF Allocated
  <2>2. m \in Seq(KVBlock)
    BY <2>1, FreeListType
  <2> QED
    BY <1>3, <1>12, <2>1, <2>2
<1>14. KVTypes'
  BY <1>1, <1>3, <1>6, <1>8, <1>10 DEF KVTypes, StepType
<1>15. ASSUME NEW x \in KVRid PROVE RequestOK(x)'
  <2>1. RequestOK(x)
    BY DEF KVInv
  <2>2. CASE x # r
    BY <1>6, <1>8, <1>11, <2>1, <2>2 DEF RequestOK
  <2>3. CASE x = r
    <3>1. to <= Len(tokens)
      BY <1>2, <1>5
    <3>2. Len(a.mgr.blocks) <= MaxBlocksPerReq
      BY DEF Allocated
    <3> QED
      BY <1>5, <1>6, <1>8, <2>3, <3>1, <3>2 DEF RequestOK
  <2> QED
    BY <2>2, <2>3
<1>16. spexis => \A b \in KVBlock : pool'.block_hash[b] = NoHash
  BY <1>3 DEF Allocated
<1>17. ASSUME ~spexis, NEW x \in KVRid PROVE HashesOK(x)'
  <2>1. HashesOK(x)
    BY <1>17 DEF KVInv
  <2>2. CASE x # r
    <3>1. \A i \in 1..Len(mgr[x].blocks) : pool'.block_hash[mgr[x].blocks[i]] = pool.block_hash[mgr[x].blocks[i]]
      BY <1>3, <1>17, <2>2 DEF Allocated, Own
    <3>2. mgr'[x] = mgr[x] /\ seqs'[x] = seqs[x]
      BY <1>6, <1>8, <2>2
    <3>3. seqs[x].status = "RUNNING" =>
              \A i \in 1..Len(mgr[x].blocks) :
                  pool'.block_hash[mgr[x].blocks[i]] =
                      IF i <= mgr[x].num_cached THEN mgr[x].hashes[i] ELSE NoHash
      BY <2>1, <3>1 DEF HashesOK
    <3> QED
      BY <2>1, <3>2, <3>3 DEF HashesOK
  <2>3. CASE x = r
    <3>1. /\ TokenHashes(old, a.mgr.hashes) /\ a.mgr.num_cached = to \div KVBlockSize
          /\ a.mgr.num_cached <= Len(a.mgr.hashes) /\ a.mgr.num_cached <= Len(a.mgr.blocks)
          /\ Hashed(a.pool, a.mgr.blocks, a.mgr.hashes, a.mgr.num_cached)
      BY <1>17 DEF Allocated, old, to
    <3>2. tokens = old
      BY <1>5, <1>17
    <3> QED
      BY <1>3, <1>6, <1>8, <2>3, <3>1, <3>2 DEF HashesOK, TokenHashes, Hashed
  <2> QED
    BY <2>2, <2>3
<1> QED
  BY <1>3, <1>13, <1>14, <1>15, <1>16, <1>17 DEF KVInv

\* A step of r is sent that computes the tokens after from.
Sends(r, computed, from) ==
    /\ from \in Nat
    /\ \E n \in Nat : \E a :
           /\ Allocated(r, n, computed, a) /\ Total(r, n, computed) = from + n
           /\ from + n <= Len(seqs[r].tokens) /\ Send(r, from, n, a)

\* A step of a running request.
LEMMA RunningSends ==
    ASSUME KVInv, NEW r \in KVRid, ScheduleRunning(r)
    PROVE  Sends(r, <<>>, seqs[r].num_computed_tokens)
<1> DEFINE from == seqs[r].num_computed_tokens
           known == mgr[r].hashes
           blocks == mgr[r].blocks
<1>1. /\ KVTypes /\ from \in Nat /\ seqs[r].tokens \in KVHash /\ known \in Seq(KVHash)
      /\ blocks \in Seq(KVBlock) /\ mgr[r].num_cached \in Int
  BY DEF KVInv, KVTypes, SeqType
<1>2. RequestOK(r) /\ seqs[r].status = "RUNNING"
  BY DEF KVInv, ScheduleRunning
<1>3. PICK n \in 1..(Len(seqs[r].tokens) - from) :
          HasRoom(r, n, <<>>) /\ Send(r, from, n, allocate_slots(r, n, <<>>, known))
  BY DEF ScheduleRunning
<1>4. PICK l \in Seq(KVBlock) : Pool(pool, Own, l)
  BY DEF KVInv
<1>5. Len(seqs[r].tokens) \in Nat /\ n \in Nat /\ n >= 1 /\ from + n <= Len(seqs[r].tokens)
      /\ Len(seqs[r].tokens) <= KVMaxLen /\ KVBlockSize \in Nat \ {0}
  BY <1>1, <1>2, <1>3, KVAssumption DEF KVHash, RequestOK
<1>6. Total(r, n, <<>>) = from + n
  <2>1. Len(<<>>) * KVBlockSize = 0
    BY <1>5
  <2> QED
    BY <1>1, <1>5, <2>1 DEF Total
<1>7. Owned(r, <<>>) = blocks
  BY <1>1, ConcatEmptySeq DEF Owned
<1>8. IsHit(pool, <<>>)
  BY DEF IsHit, Distinct, Chain
<1>9. ASSUME ~spexis
      PROVE  LET k == NumCached(r, <<>>)
             IN  /\ TokenHashes(seqs[r].tokens, known)
                 /\ k \in Nat /\ k <= Len(known) /\ k <= Len(Owned(r, <<>>))
                 /\ k <= Total(r, n, <<>>) \div KVBlockSize
                 /\ Hashed(pool, Owned(r, <<>>), known, k)
  <2>1. HashesOK(r)
    BY <1>9 DEF KVInv
  <2>2. TokenHashes(seqs[r].tokens, known)
    BY <1>1, <2>1 DEF HashesOK, TokenHashes
  <2>3. /\ mgr[r].num_cached = from \div KVBlockSize
        /\ mgr[r].num_cached <= Len(known) /\ mgr[r].num_cached <= Len(blocks)
        /\ Hashed(pool, blocks, known, mgr[r].num_cached)
    BY <1>2, <2>1 DEF HashesOK, Hashed
  <2>4. from \div KVBlockSize \in Nat /\ from \div KVBlockSize <= (from + n) \div KVBlockSize
    <3>1. from + n \in Nat /\ from <= from + n
      BY <1>1, <1>5
    <3> QED
      BY <1>1, <1>5, <3>1, CeilDiv
  <2>5. NumCached(r, <<>>) = mgr[r].num_cached
    BY <2>3, <2>4 DEF NumCached
  <2> QED
    BY <1>6, <1>7, <2>2, <2>3, <2>4, <2>5
<1>10. CanAllocate(r, n, <<>>, known, l)
  <2>1. Len(blocks) <= MaxBlocksPerReq
    BY <1>2 DEF RequestOK
  <2>2. spexis => \A b \in KVBlock : pool.block_hash[b] = NoHash
    BY DEF KVInv
  <2> QED
    BY <1>1, <1>3, <1>4, <1>5, <1>6, <1>7, <1>8, <1>9, <2>1, <2>2 DEF CanAllocate
<1>11. Allocated(r, n, <<>>, allocate_slots(r, n, <<>>, known))
  BY <1>10, AllocateKeeps
<1> HIDE DEF known
<1> QED
  BY <1>1, <1>3, <1>5, <1>6, <1>11 DEF Sends

LEMMA SendsKeeps ==
    ASSUME KVInv, NEW r \in KVRid, NEW computed, NEW from, Sends(r, computed, from)
    PROVE  KVInv'
BY SendKeeps DEF Sends

LEMMA RunningKeeps ==
    ASSUME KVInv, NEW r \in KVRid, ScheduleRunning(r)
    PROVE  KVInv'
BY RunningSends, SendsKeeps

\* hashes: those of the request r that waits, with the blocks found for them.
Found(r, hashes, computed) ==
    /\ hashes \in Seq(KVHash) /\ IsHit(pool, computed)
    /\ Len(computed) * KVBlockSize <= Len(seqs[r].tokens) /\ Len(computed) \in Nat
    /\ spexis => computed = <<>>
    /\ ~spexis => /\ TokenHashes(seqs[r].tokens, hashes) /\ Len(computed) <= Len(hashes)
                  /\ \A i \in 1..Len(computed) : pool.block_hash[computed[i]] = hashes[i]

\* get_computed_blocks finds a hit that is not longer than the tokens.
LEMMA ComputedFound ==
    ASSUME KVInv, NEW r \in KVRid
    PROVE  Found(r, block_hashes(r), get_computed_blocks(r))
<1> DEFINE hashes == block_hashes(r)
           tokens == seqs[r].tokens
           part == IF Len(hashes) * KVBlockSize = Len(tokens) THEN Front(hashes) ELSE hashes
           computed == get_computed_blocks(r)
<1>1. computed = find_longest_cache_hit(pool, part)
  BY DEF get_computed_blocks
<1>2. /\ tokens \in KVHash /\ Len(tokens) \in Nat /\ Len(tokens) >= 1 /\ mgr[r].hashes \in Seq(KVHash)
      /\ KVBlockSize \in Nat \ {0} /\ spexis \in BOOLEAN
  BY KVAssumption DEF KVInv, KVTypes, SeqType, RequestOK, KVHash
<1>3. PICK l \in Seq(KVBlock) : Pool(pool, Own, l)
  BY DEF KVInv
<1>4. PoolType(pool) /\ Entries(pool)
  BY <1>3 DEF Pool
<1>5. TokenHashes(tokens, hash_request_tokens(tokens))
  BY <1>2, HashTokens
<1>6. hashes = IF mgr[r].hashes = <<>> THEN hash_request_tokens(tokens) ELSE mgr[r].hashes
  BY DEF block_hashes
<1>7. hashes \in Seq(KVHash)
  BY <1>2, <1>5, <1>6 DEF TokenHashes
<1> HIDE DEF hashes, computed
<1>8. /\ part \in Seq(KVHash) /\ Len(part) <= Len(hashes) /\ Len(part) \in Nat /\ Len(hashes) \in Nat
      /\ \A i \in 1..Len(part) : part[i] = hashes[i]
  <2>1. CASE Len(hashes) * KVBlockSize = Len(tokens)
    <3>1. Len(hashes) > 0
      <4>1. Len(hashes) \in Nat
        BY <1>7
      <4>2. Len(hashes) = 0 => Len(hashes) * KVBlockSize = 0
        BY <1>2
      <4> QED
        BY <1>2, <2>1, <4>1, <4>2
    <3>2. part = Front(hashes)
      BY <2>1
    <3> HIDE DEF part
    <3>3. Front(hashes) \in Seq(KVHash) /\ Len(Front(hashes)) = Len(hashes) - 1
          /\ \A i \in 1..(Len(hashes) - 1) : Front(hashes)[i] = hashes[i]
      <4> DEFINE k == Len(hashes) - 1
      <4>1. k \in Int /\ 1 \in Int /\ \A i \in 1..k : hashes[i] \in KVHash
        BY <1>7, <3>1
      <4>2. Front(hashes) = SubSeq(hashes, 1, k)
        BY DEF Front
      <4>3. k \in Nat
        BY <1>7, <3>1
      <4> HIDE DEF k
      <4>4. SubSeq(hashes, 1, k) \in Seq(KVHash) /\ Len(SubSeq(hashes, 1, k)) = (IF 1 <= k THEN k - 1 + 1 ELSE 0)
            /\ \A i \in 1..(k - 1 + 1) : SubSeq(hashes, 1, k)[i] = hashes[1 + i - 1]
        BY <4>1, SubSeqProperties
      <4>5. Len(SubSeq(hashes, 1, k)) = k /\ \A i \in 1..k : SubSeq(hashes, 1, k)[i] = hashes[i]
        BY <4>3, <4>4
      <4> QED
        BY <4>2, <4>4, <4>5 DEF k
    <3> QED
      BY <1>7, <3>2, <3>3
  <2>2. CASE Len(hashes) * KVBlockSize # Len(tokens)
    BY <1>7, <2>2
  <2> QED
    BY <2>1, <2>2
<1> HIDE DEF part
<1>9. CASE spexis
  <2>1. computed = <<>>
    BY <1>1, <1>4, <1>8, <1>9, NoHit DEF KVInv
  <2>2. IsHit(pool, <<>>) /\ Len(<<>>) \in Nat /\ Len(<<>>) * KVBlockSize = 0
    BY <1>2 DEF IsHit, Distinct, Chain
  <2> QED
    BY <1>2, <1>7, <1>9, <2>1, <2>2 DEF Found, hashes, computed
<1>10. CASE ~spexis
  <2>1. TokenHashes(tokens, hashes)
    <3>1. TokenHashes(tokens, mgr[r].hashes)
      BY <1>2, <1>10 DEF KVInv, HashesOK, TokenHashes
    <3> QED
      BY <1>5, <1>6, <3>1
  <2>2. HashChain(hashes, Len(hashes)) /\ Distinct(hashes)
    BY <1>2, <2>1, TokenChain
  <2>3. HashChain(part, Len(part)) /\ Distinct(part)
    <3>1. 1..Len(part) \subseteq 1..Len(hashes)
      BY <1>8
    <3>2. ASSUME NEW i \in 1..Len(part)
          PROVE  /\ part[i] \in KVHash /\ part[i] # NoHash
                 /\ Len(part[i]) > KVBlockSize => i > 1 /\ part[i - 1] = Parent(part[i])
      <4>1. i \in 1..Len(hashes) /\ part[i] = hashes[i]
        BY <1>8, <3>1
      <4>2. i > 1 => i - 1 \in 1..Len(part)
        BY <1>8
      <4>3. i > 1 => part[i - 1] = hashes[i - 1]
        BY <1>8, <4>2
      <4> QED
        BY <2>2, <4>1, <4>3 DEF HashChain
    <3> QED
      BY <1>8, <2>2, <3>1, <3>2 DEF HashChain, Distinct
  <2>4. HitOf(pool, part, computed)
    BY <1>1, <1>4, <1>8, <2>3, LongestHit
  <2>5. IsHit(pool, computed) /\ Len(computed) <= Len(part)
        /\ \A i \in 1..Len(computed) : pool.block_hash[computed[i]] = part[i]
    BY <2>4 DEF HitOf
  <2>6. Len(computed) \in Nat
    BY <2>5 DEF IsHit
  <2>7. Len(computed) <= Len(hashes)
    BY <1>8, <2>5, <2>6
  <2>8. ASSUME NEW i \in 1..Len(computed) PROVE pool.block_hash[computed[i]] = hashes[i]
    <3>1. i \in 1..Len(part)
      BY <1>8, <2>5, <2>6
    <3> QED
      BY <1>8, <2>5, <3>1
  <2>9. Len(computed) * KVBlockSize <= Len(tokens)
    <3>1. Len(computed) * KVBlockSize <= Len(hashes) * KVBlockSize /\ Len(computed) * KVBlockSize \in Nat
      BY <1>2, <1>8, <2>6, <2>7, TimesMonotone
    <3>2. Len(hashes) * KVBlockSize <= Len(tokens) /\ Len(hashes) * KVBlockSize \in Nat
      BY <1>2, <1>8, <2>1 DEF TokenHashes
    <3> QED
      BY <1>2, <3>1, <3>2
  <2> QED
    BY <1>7, <1>10, <2>1, <2>5, <2>6, <2>7, <2>8, <2>9 DEF Found, hashes, computed
<1> QED
  BY <1>2, <1>9, <1>10

\* The attempt to schedule a waiting request for which there is no room.
LEMMA NoRoomKeeps ==
    ASSUME KVInv, NEW r \in KVRid, seqs[r].status = "WAITING",
           NEW hashes, Found(r, hashes, get_computed_blocks(r)),
           mgr' = [mgr EXCEPT ![r].hashes = hashes],
           UNCHANGED <<spexis, pool, seqs, flight, slot_kv, evictions>>
    PROVE  KVInv'
<1>1. KVTypes /\ hashes \in Seq(KVHash)
  BY DEF KVInv, Found
<1>2. /\ mgr' \in [KVRid -> [blocks : Seq(KVBlock), hashes : Seq(KVHash), num_cached : Int]]
      /\ mgr'[r].blocks = mgr[r].blocks /\ mgr'[r].hashes = hashes
      /\ mgr'[r].num_cached = mgr[r].num_cached
      /\ \A x \in KVRid : x # r => mgr'[x] = mgr[x]
  BY <1>1 DEF KVTypes
<1>3. Own' = Own
  <2>1. Own' = [x \in KVRid |-> mgr'[x].blocks] /\ Own = [x \in KVRid |-> mgr[x].blocks]
    BY DEF Own
  <2> QED
    BY <1>2, <2>1
<1>4. KVTypes'
  BY <1>1, <1>2 DEF KVTypes
<1>5. ASSUME NEW x \in KVRid PROVE RequestOK(x)'
  <2>1. RequestOK(x)
    BY DEF KVInv
  <2>2. InFlight(x)' = InFlight(x)
    BY DEF InFlight
  <2>3. mgr'[x].blocks = mgr[x].blocks /\ mgr'[x].num_cached = mgr[x].num_cached
    BY <1>2
  <2> QED
    BY <2>1, <2>2, <2>3 DEF RequestOK
<1>6. ASSUME ~spexis, NEW x \in KVRid PROVE HashesOK(x)'
  <2>1. HashesOK(x)
    BY <1>6 DEF KVInv
  <2>2. CASE x # r
    BY <1>2, <2>1, <2>2 DEF HashesOK
  <2>3. CASE x = r
    BY <1>2, <1>6, <2>3 DEF HashesOK, Found, TokenHashes
  <2> QED
    BY <2>2, <2>3
<1>7. \E l \in Seq(KVBlock) : Pool(pool', Own', l)
  BY <1>3 DEF KVInv
<1>8. spexis => \A b \in KVBlock : pool'.block_hash[b] = NoHash
  BY DEF KVInv
<1> QED
  BY <1>4, <1>5, <1>6, <1>7, <1>8 DEF KVInv

\* The attempt to schedule a waiting request.
LEMMA WaitingSends ==
    ASSUME KVInv, NEW r \in KVRid, ScheduleWaiting(r)
    PROVE  LET computed == get_computed_blocks(r)
           IN  \/ Sends(r, computed, Len(computed) * KVBlockSize)
               \/ /\ mgr' = [mgr EXCEPT ![r].hashes = block_hashes(r)]
                  /\ UNCHANGED <<spexis, pool, seqs, flight, slot_kv, evictions>>
<1> DEFINE computed == get_computed_blocks(r)
           from == Len(computed) * KVBlockSize
           known == block_hashes(r)
           tokens == seqs[r].tokens
<1>1. Found(r, known, computed)
  BY ComputedFound
<1>2. /\ seqs[r].status = "WAITING"
      /\ \E n \in 1..(Len(tokens) - from) :
             IF HasRoom(r, n, computed)
             THEN Send(r, from, n, allocate_slots(r, n, computed, known))
             ELSE /\ mgr' = [mgr EXCEPT ![r].hashes = known]
                  /\ UNCHANGED <<spexis, pool, seqs, flight, slot_kv, evictions>>
  BY DEF ScheduleWaiting
<1>3. PICK n \in 1..(Len(tokens) - from) :
          IF HasRoom(r, n, computed)
          THEN Send(r, from, n, allocate_slots(r, n, computed, known))
          ELSE /\ mgr' = [mgr EXCEPT ![r].hashes = known]
               /\ UNCHANGED <<spexis, pool, seqs, flight, slot_kv, evictions>>
  BY <1>2
<1>4. CASE ~HasRoom(r, n, computed)
  BY <1>3, <1>4
<1>5. CASE HasRoom(r, n, computed)
  <2>1. Send(r, from, n, allocate_slots(r, n, computed, known))
    BY <1>3, <1>5
  <2> HIDE DEF computed, known
  <2>2. PICK l \in Seq(KVBlock) : Pool(pool, Own, l)
    BY DEF KVInv
  <2>3. /\ IsHit(pool, computed) /\ known \in Seq(KVHash) /\ Len(computed) \in Nat
        /\ from <= Len(tokens)
    BY <1>1 DEF Found
  <2>4. RequestOK(r) /\ KVTypes /\ spexis \in BOOLEAN
    BY DEF KVInv, KVTypes
  <2>5. seqs[r].num_computed_tokens = 0 /\ mgr[r].blocks = <<>> /\ mgr[r].num_cached = -1
        /\ Len(tokens) <= KVMaxLen /\ Len(tokens) \in Nat
    BY <1>2, <2>4 DEF RequestOK
  <2>6. KVBlockSize \in Nat \ {0} /\ KVMaxLen \in Nat /\ from \in Nat
    BY <2>3, KVAssumption
  <2> HIDE DEF tokens
  <2>7. Total(r, n, computed) = from + n /\ n \in Nat /\ from + n \in Nat /\ from + n <= Len(tokens) /\ n >= 1
    <3>1. Total(r, n, computed) = 0 + from + n
      BY <2>5 DEF Total
    <3> HIDE DEF from
    <3> QED
      BY <1>3, <2>5, <2>6, <3>1
  <2>8. Owned(r, computed) = computed
    BY <2>3, <2>5, ConcatEmptySeq DEF Owned, IsHit
  <2>9. NumCached(r, computed) = Len(computed)
    BY <2>5 DEF NumCached
  <2>10. Len(computed) <= (from + n) \div KVBlockSize
    <3>1. Len(computed) * KVBlockSize <= from + n
      <4> HIDE DEF from
      <4>1. from <= from + n
        BY <2>6, <2>7
      <4> QED
        BY <4>1 DEF from
    <3> QED
      BY <2>3, <2>6, <2>7, <3>1, Quotient
  <2>11. Len(computed) <= MaxBlocksPerReq
    <3>1. from + n <= KVMaxLen
      BY <2>5, <2>6, <2>7
    <3>2. (from + n) \div KVBlockSize \in Nat
          /\ (from + n) \div KVBlockSize <= cdiv(from + n, KVBlockSize)
          /\ cdiv(from + n, KVBlockSize) <= MaxBlocksPerReq /\ cdiv(from + n, KVBlockSize) \in Nat
      <4> HIDE DEF from
      <4> QED
        BY <2>6, <2>7, <3>1, CeilDiv DEF MaxBlocksPerReq
    <3> QED
      BY <2>3, <2>10, <3>2, MostBlocks
  <2>12. ASSUME ~spexis
         PROVE  LET k == NumCached(r, computed)
                IN  /\ TokenHashes(seqs[r].tokens, known)
                    /\ k \in Nat /\ k <= Len(known) /\ k <= Len(Owned(r, computed))
                    /\ k <= Total(r, n, computed) \div KVBlockSize
                    /\ Hashed(pool, Owned(r, computed), known, k)
    <3>1. /\ TokenHashes(seqs[r].tokens, known) /\ Len(computed) <= Len(known)
          /\ \A i \in 1..Len(computed) : pool.block_hash[computed[i]] = known[i]
      BY <1>1, <2>12 DEF Found
    <3>2. Hashed(pool, computed, known, Len(computed))
      BY <2>3, <3>1 DEF Hashed
    <3> QED
      BY <2>3, <2>7, <2>8, <2>9, <2>10, <3>1, <3>2
  <2>13. CanAllocate(r, n, computed, known, l)
    <3>1. spexis => \A b \in KVBlock : pool.block_hash[b] = NoHash
      BY DEF KVInv
    <3> QED
      BY <1>5, <2>2, <2>3, <2>4, <2>5, <2>7, <2>8, <2>11, <2>12, <3>1 DEF CanAllocate, tokens
  <2>14. Allocated(r, n, computed, allocate_slots(r, n, computed, known))
    BY <2>13, AllocateKeeps
  <2> HIDE DEF from
  <2> QED
    <3>1. Sends(r, computed, from)
      BY <2>1, <2>6, <2>7, <2>14 DEF tokens, Sends
    <3> QED
      BY <3>1 DEF computed, from
<1> QED
  BY <1>4, <1>5

LEMMA WaitingKeeps ==
    ASSUME KVInv, NEW r \in KVRid, ScheduleWaiting(r)
    PROVE  KVInv'
<1> DEFINE computed == get_computed_blocks(r)
           known == block_hashes(r)
<1>1. Found(r, known, computed) /\ seqs[r].status = "WAITING"
  BY ComputedFound DEF ScheduleWaiting
<1>2. CASE Sends(r, computed, Len(computed) * KVBlockSize)
  BY <1>2, SendsKeeps
<1>3. CASE /\ mgr' = [mgr EXCEPT ![r].hashes = known]
           /\ UNCHANGED <<spexis, pool, seqs, flight, slot_kv, evictions>>
  BY <1>1, <1>3, NoRoomKeeps
<1> QED
  BY <1>2, <1>3, WaitingSends

\* Every step keeps the invariant.
LEMMA KVInvStep == KVInv /\ [KVNext]_kvVars => KVInv'
<1> SUFFICES ASSUME KVInv, [KVNext]_kvVars PROVE KVInv'
  OBVIOUS
<1>1. ASSUME NEW r \in KVRid, ScheduleWaiting(r) PROVE KVInv'
  BY <1>1, WaitingKeeps
<1>2. ASSUME NEW r \in KVRid, ScheduleRunning(r) PROVE KVInv'
  BY <1>2, RunningKeeps
<1>3. ASSUME NEW r \in KVRid, Requeue(r) PROVE KVInv'
  BY <1>3, RequeueKeeps
<1>4. ASSUME NEW r \in KVRid, Finish(r) PROVE KVInv'
  BY <1>4, FinishKeeps
<1>5. ASSUME NEW r \in KVRid, NEW p \in KVRid, Preempt(r, p) PROVE KVInv'
  BY <1>5, PreemptKeeps
<1>6. CASE Work
  BY <1>6, WorkKeeps
<1>7. CASE reset_prefix_cache
  BY <1>7, ResetKeeps
<1>8. CASE UNCHANGED kvVars
  BY <1>8, KVStutter
<1> QED
  BY <1>1, <1>2, <1>3, <1>4, <1>5, <1>6, <1>7, <1>8 DEF KVNext

\* The invariant holds in every reachable state.
THEOREM KVInvHolds == KVSpec => []KVInv
<1>1. KVInit => KVInv
  BY KVInvInit
<1>2. KVInv /\ [KVNext]_kvVars => KVInv'
  BY KVInvStep
<1> QED
  BY <1>1, <1>2, PTL DEF KVSpec

-----------------------------------------------------------------------------
(* What follows from it. *)

\* The free list and the reference counts.
LEMMA PoolIsExact == KVInv => PoolExact
<1> SUFFICES ASSUME KVInv PROVE PoolExact
  OBVIOUS
<1> DEFINE list == get_all_free_blocks(pool)
           owners(b) == {r \in KVRid : b \in ToSet(mgr[r].blocks)}
<1>1. PICK l \in Seq(KVBlock) : Pool(pool, Own, l)
  BY DEF KVInv
<1>2. PoolType(pool) /\ Linked(pool, l) /\ Holdings(Own) /\ Counted(pool, Own, l)
  BY <1>1 DEF Pool
<1>3. list = l
  BY <1>2, FollowList
<1>4. DOMAIN l = 1..Len(l) /\ Len(l) \in Nat
  BY <1>1
<1>5. ASSUME NEW b PROVE owners(b) = Owners(Own, b)
  <2>1. ASSUME NEW r \in KVRid PROVE b \in ToSet(mgr[r].blocks) <=> In(b, Own[r])
    <3>1. Own[r] = mgr[r].blocks /\ DOMAIN mgr[r].blocks = 1..Len(mgr[r].blocks)
      BY DEF Own, KVInv, KVTypes
    <3> QED
      BY <3>1 DEF ToSet, In
  <2> QED
    BY <2>1 DEF Owners
<1> HIDE DEF list, owners
<1>6. IsInjective(list) /\ Len(list) = pool.num_free
  BY <1>2, <1>3, <1>4 DEF IsInjective, Linked, Distinct
<1>7. ToSet(list) = {b \in KVBlock \ {0} : owners(b) = {}}
  <2>1. ToSet(l) = {b \in KVBlock \ {0} : In(b, l)}
    <3>1. \A i \in DOMAIN l : l[i] \in KVBlock \ {0}
      <4>1. l \in Seq(KVBlock \ {0})
        BY <1>2 DEF Linked
      <4> QED
        BY <4>1
    <3> QED
      BY <1>4, <3>1 DEF ToSet, In
  <2>2. \A b \in KVBlock \ {0} : In(b, l) <=> owners(b) = {}
    BY <1>2, <1>5 DEF Counted
  <2> QED
    BY <1>3, <2>1, <2>2
<1>8. \A i \in DOMAIN list : pool.prev[list[i]] = IF i = 1 THEN NoBlock ELSE list[i - 1]
  BY <1>2, <1>3, <1>4 DEF Linked
<1>9. pool.tail = IF list = <<>> THEN NoBlock ELSE Last(list)
  <2>1. l = <<>> <=> Len(l) = 0
    BY <1>1
  <2>2. Last(l) = l[Len(l)]
    BY DEF Last
  <2> QED
    BY <1>2, <1>3, <2>1, <2>2 DEF Linked
<1>10. \A b \in KVBlock : pool.ref_cnt[b] = Cardinality(owners(b))
  BY <1>2, <1>5 DEF Counted
<1> QED
  BY <1>6, <1>7, <1>8, <1>9, <1>10 DEF PoolExact, list, owners

\* The chains of the prefix cache.
LEMMA ChainsAreWhole == KVInv => ChainsUnbroken
<1> SUFFICES ASSUME KVInv, NEW h \in DOMAIN pool.cached, Len(h) > KVBlockSize
             PROVE  SubSeq(h, 1, Len(h) - KVBlockSize) \in DOMAIN pool.cached
  BY DEF ChainsUnbroken
<1>1. PICK l \in Seq(KVBlock) : Pool(pool, Own, l)
  BY DEF KVInv
<1>2. PoolType(pool) /\ Entries(pool) /\ Chains(pool, Own, l)
  BY <1>1 DEF Pool
<1>3. h # NoHash /\ pool.cached[h] \in Seq(KVBlock) /\ pool.cached[h] # <<>>
      /\ \A b \in KVBlock : In(b, pool.cached[h]) <=> pool.block_hash[b] = h
  BY <1>2 DEF Entries
<1>4. PICK c \in KVBlock : pool.block_hash[c] = h
  <2>1. 1 \in 1..Len(pool.cached[h]) /\ pool.cached[h][1] \in KVBlock
    BY <1>3
  <2>2. In(pool.cached[h][1], pool.cached[h])
    BY <2>1 DEF In
  <2> QED
    BY <1>3, <2>1, <2>2
<1>5. h \in KVHash
  BY <1>2, <1>4 DEF PoolType
<1>6. PICK x \in KVBlock : pool.block_hash[x] = Parent(h)
  BY <1>2, <1>4 DEF Chains, Outlived
<1>7. Parent(h) # NoHash
  BY <1>5, ParentHash
<1>8. Parent(h) \in DOMAIN pool.cached
  BY <1>2, <1>6, <1>7 DEF Entries
<1> QED
  BY <1>8 DEF Parent

\* The free list, read in either direction, is exactly the blocks that no
\* request owns, and a reference count is the number of owners: for any number
\* of requests, blocks and steps in flight, with and without sharing.
THEOREM PoolKept == KVSpec => []PoolExact
<1>1. KVInv => PoolExact
  BY PoolIsExact
<1> QED
  BY <1>1, KVInvHolds, PTL

\* No assertion of the pool or of the manager fails: a block that is handed out
\* is not in use, one that is cached has no hash yet, the block before it has
\* one, and allocate_slots gets a block whenever it needs one.
THEOREM AssertionsKept == KVSpec => []AssertionsHold
<1>1. KVInv => AssertionsHold
  BY DEF KVInv, Pool, PoolType, AssertionsHold
<1> QED
  BY <1>1, KVInvHolds, PTL

\* Eviction never breaks a chain of the prefix cache.
THEOREM ChainsKept == KVSpec => []ChainsUnbroken
<1>1. KVInv => ChainsUnbroken
  BY ChainsAreWhole
<1> QED
  BY <1>1, KVInvHolds, PTL

\* The types, and the limit on the blocks of a request.
THEOREM KVTypesKept == KVSpec => []KVTypeOK
<1>1. KVInv => KVTypeOK
  <2> SUFFICES ASSUME KVInv PROVE KVTypeOK
    OBVIOUS
  <2>1. PICK l : Pool(pool, Own, l)
    BY DEF KVInv
  <2>2. PoolType(pool)
    BY <2>1 DEF Pool
  <2>3. /\ pool.ref_cnt \in [KVBlock -> Nat] /\ pool.prev \in [KVBlock -> Link]
        /\ pool.next \in [KVBlock -> Link] /\ pool.head \in Link /\ pool.tail \in Link
    BY <2>2 DEF PoolType
  <2>4. \A r \in KVRid : Len(mgr[r].blocks) <= MaxBlocksPerReq
    BY DEF KVInv, RequestOK
  <2> QED
    BY <2>3, <2>4 DEF KVTypeOK, KVInv, KVTypes, Link
<1> QED
  BY <1>1, KVInvHolds, PTL
=============================================================================
