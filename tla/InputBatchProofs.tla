-------------------------- MODULE InputBatchProofs --------------------------
(***************************************************************************)
(* Proofs about InputBatch, for any number of requests, rows and outputs   *)
(* under way.  A batch in the middle of an update has holes: requests are  *)
(* removed from it, some of the holes are filled, and condense moves the   *)
(* last requests into the others.  The loops are handled by the lemmas of  *)
(* Iteration; the invariant of each says where the holes are.              *)
(*                                                                         *)
(* That the two batches agree does not follow from both being dense.  It   *)
(* rests on the update being a function of the batch and the scheduler     *)
(* output alone: the orders in which the two processes iterate over their  *)
(* sets must not matter.                                                   *)
(***************************************************************************)
EXTENDS InputBatch, FiniteSetTheorems, TLAPS

\* A request, or none.
Entry == BatchRid \cup {NoReq}

\* b has a list of L entries with holes at the indices of E.  Outside them the
\* list, the indices and the rows of the tensors agree.
Batch(b, L, E) ==
    /\ b \in [req_ids : Seq(Entry), index : [BatchRid -> 0..MaxReqs], row : [Index -> Entry]]
    /\ L \in 0..MaxReqs /\ E \subseteq 1..L /\ Len(b.req_ids) = L
    /\ \A r \in BatchRid : b.index[r] # 0 =>
           /\ b.index[r] \in (1..L) \ E
           /\ b.req_ids[b.index[r]] = r
    /\ \A i \in (1..L) \ E :
           /\ b.req_ids[i] \in BatchRid
           /\ b.index[b.req_ids[i]] = i
           /\ b.row[i] = b.req_ids[i]

\* The requests in a batch.
InBatch(b) == {r \in BatchRid : b.index[r] # 0}

\* What the batch of the engine core has of the batch of the worker.
Core(b) == [req_ids |-> b.req_ids, index |-> b.index]

-----------------------------------------------------------------------------
(* Counting and sorting. *)

\* A batch has as many requests as its list has entries that are not holes.
LEMMA NumReqs ==
    ASSUME NEW b, NEW L, NEW E, Batch(b, L, E)
    PROVE  /\ IsFiniteSet(E) /\ Cardinality(E) \in Nat
           /\ num_reqs(b) = L - Cardinality(E)
           /\ num_reqs(b) = Cardinality(InBatch(b))
<1> DEFINE used == (1..L) \ E
           at == [r \in InBatch(b) |-> b.index[r]]
<1>1. L \in Nat /\ E \in SUBSET (1..L)
  BY BatchAssumption DEF Batch
<1>2. IsFiniteSet(1..L) /\ Cardinality(1..L) = L
  BY <1>1, FS_Interval
<1>3. IsFiniteSet(E) /\ Cardinality(E) \in Nat
  BY <1>1, <1>2, FS_Subset, FS_CardinalityType
<1>4. IsFiniteSet(used) /\ Cardinality(used) = L - Cardinality(E)
  <2>1. (1..L) \cap E = E
    BY <1>1
  <2> QED
    BY <1>2, <2>1, FS_Difference
<1>5. at \in Bijection(InBatch(b), used)
  <2>1. at \in [InBatch(b) -> used]
    BY DEF Batch, InBatch
  <2>2. \A r, q \in InBatch(b) : at[r] = at[q] => r = q
    BY DEF Batch, InBatch
  <2>3. \A i \in used : \E r \in InBatch(b) : at[r] = i
    <3> TAKE i \in used
    <3>1. b.req_ids[i] \in BatchRid /\ b.index[b.req_ids[i]] = i /\ i # 0
      BY DEF Batch
    <3> QED
      BY <3>1 DEF InBatch
  <2> HIDE DEF at, used
  <2>4. DOMAIN at = InBatch(b)
    BY <2>1
  <2> QED
    BY <2>1, <2>2, <2>3, <2>4 DEF Bijection, Injection, IsInjective, Surjection
<1>6. IsFiniteSet(InBatch(b)) /\ Cardinality(InBatch(b)) = Cardinality(used)
  <2>1. IsFiniteSet(InBatch(b))
    BY BatchAssumption, FS_Subset DEF InBatch
  <2> HIDE DEF used, at
  <2> QED
    BY <1>5, <2>1, FS_Bijection DEF ExistsBijection
<1>7. num_reqs(b) = Cardinality(InBatch(b))
  BY DEF num_reqs, InBatch
<1> QED
  BY <1>3, <1>4, <1>6, <1>7

\* Ascending lists a finite set of numbers, each once, the smaller ones first.
LEMMA AscendingLists ==
    ASSUME NEW S, S \subseteq Nat, IsFiniteSet(S)
    PROVE  /\ Cardinality(S) \in Nat
           /\ Ascending(S) \in Seq(S) /\ Len(Ascending(S)) = Cardinality(S)
           /\ \A k, m \in 1..Cardinality(S) : k < m => Ascending(S)[k] < Ascending(S)[m]
           /\ \A i \in S : \E k \in 1..Cardinality(S) : Ascending(S)[k] = i
<1> DEFINE below(i) == {j \in S : j <= i}
           rank == [i \in S |-> Cardinality(below(i))]
           n == Cardinality(S)
           nth(k) == CHOOSE i \in S : Cardinality(below(i)) = k
           w == [k \in 1..n |-> nth(k)]
<1>2. n \in Nat /\ \A i \in S : IsFiniteSet(below(i)) /\ Cardinality(below(i)) \in Nat
  <2>1. \A i \in S : below(i) \in SUBSET S
    OBVIOUS
  <2>2. \A i \in S : IsFiniteSet(below(i))
    BY <2>1, FS_Subset
  <2> QED
    BY <2>2, FS_CardinalityType
<1>3. \A i \in S : rank[i] \in 1..n
  <2> TAKE i \in S
  <2>1. below(i) \in SUBSET S /\ i \in below(i)
    BY <1>2
  <2>2. Cardinality(below(i)) <= n
    BY <1>2, <2>1, FS_Subset
  <2>3. Cardinality(below(i)) # 0
    BY <1>2, <2>1, FS_EmptySet
  <2> HIDE DEF below
  <2> QED
    BY <1>2, <2>2, <2>3
<1>4. \A i, j \in S : i < j => rank[i] < rank[j]
  <2> SUFFICES ASSUME NEW i \in S, NEW j \in S, i < j
               PROVE  rank[i] < rank[j]
    OBVIOUS
  <2>0. i \in Nat /\ j \in Nat /\ \A x \in S : x \in Nat
    OBVIOUS
  <2>1. below(i) \in SUBSET below(j) /\ j \in below(j) /\ j \notin below(i)
    <3>1. \A x \in below(i) : x \in below(j)
      BY <2>0
    <3>2. j \in below(j) /\ j \notin below(i)
      BY <2>0
    <3> QED
      BY <3>1, <3>2
  <2>2. Cardinality(below(i)) <= Cardinality(below(j))
    BY <1>2, <2>1, FS_Subset
  <2>3. Cardinality(below(i)) # Cardinality(below(j))
    BY <1>2, <2>1, FS_Subset
  <2> HIDE DEF below
  <2> QED
    BY <1>2, <2>2, <2>3
<1>5. rank \in Injection(S, 1..n)
  <2>1. rank \in [S -> 1..n]
    BY <1>3
  <2>2. \A i, j \in S : rank[i] = rank[j] => i = j
    <3> SUFFICES ASSUME NEW i \in S, NEW j \in S, rank[i] = rank[j] PROVE i = j
      OBVIOUS
    <3>1. i \in Int /\ j \in Int
      OBVIOUS
    <3>2. rank[i] \in Nat /\ rank[j] \in Nat
      BY <1>2
    <3> HIDE DEF rank
    <3> QED
      BY <1>4, <3>1, <3>2
  <2> HIDE DEF rank
  <2>3. DOMAIN rank = S
    BY <2>1
  <2> QED
    BY <2>1, <2>2, <2>3 DEF Injection, IsInjective
<1>6. rank \in Surjection(S, 1..n)
  <2>1. IsFiniteSet(1..n) /\ Cardinality(1..n) = n
    BY <1>2, FS_Interval
  <2> HIDE DEF rank
  <2> QED
    BY <1>5, <2>1, FS_Injection
<1>7. \A k \in 1..n : \E i \in S : rank[i] = k
  <2> HIDE DEF rank
  <2> QED
    BY <1>6 DEF Surjection
<1>8. \A k \in 1..n : nth(k) \in S /\ rank[nth(k)] = k
  <2> TAKE k \in 1..n
  <2>1. \E i \in S : Cardinality(below(i)) = k
    BY <1>7
  <2>2. nth(k) \in S /\ Cardinality(below(nth(k))) = k
    <3> HIDE DEF below
    <3> QED
      BY <2>1
  <2> HIDE DEF below, nth
  <2> QED
    BY <2>2
<1>9. \A i \in S : nth(rank[i]) = i
  <2> TAKE i \in S
  <2>1. rank[i] \in 1..n
    BY <1>3
  <2> HIDE DEF rank, nth
  <2>2. nth(rank[i]) \in S /\ rank[nth(rank[i])] = rank[i]
    BY <1>8, <2>1
  <2> QED
    BY <1>5, <2>2 DEF Injection, IsInjective
<1>10. Ascending(S) = w
  BY DEF Ascending
<1>11. \A k \in 1..n : w[k] = nth(k) /\ w[k] \in S
  <2> HIDE DEF nth, n
  <2> QED
    BY <1>8
<1>12. w \in Seq(S) /\ Len(w) = n
  <2> HIDE DEF nth, n
  <2> QED
    BY <1>2, <1>11
<1>13. \A k, m \in 1..n : k < m => w[k] < w[m]
  <2> SUFFICES ASSUME NEW k \in 1..n, NEW m \in 1..n, k < m PROVE w[k] < w[m]
    OBVIOUS
  <2>1. /\ w[k] \in S /\ w[m] \in S /\ rank[w[k]] = k /\ rank[w[m]] = m
        /\ w[k] \in Nat /\ w[m] \in Nat
    <3> HIDE DEF nth, n, w, rank
    <3> QED
      BY <1>8, <1>11
  <2>2. ~(w[k] = w[m]) /\ ~(w[m] < w[k])
    <3> HIDE DEF nth, n, w, rank
    <3> QED
      BY <1>2, <1>4, <2>1
  <2> HIDE DEF nth, n, w, rank
  <2> QED
    BY <2>1, <2>2
<1>14. \A i \in S : \E k \in 1..n : w[k] = i
  <2> TAKE i \in S
  <2>1. rank[i] \in 1..n
    BY <1>3
  <2>2. w[rank[i]] = i
    <3> HIDE DEF nth, n, w, rank
    <3> QED
      BY <1>9, <1>11, <2>1
  <2> HIDE DEF nth, n, w, rank
  <2> QED
    BY <2>1, <2>2
<1> HIDE DEF nth, n, w, rank
<1> QED
  BY <1>2, <1>10, <1>12, <1>13, <1>14 DEF n

-----------------------------------------------------------------------------
(* Removing requests. *)

\* b without the requests of S.
Gone(b, S) ==
    [req_ids |-> [i \in 1..Len(b.req_ids) |->
                     IF \E r \in S : b.index[r] = i THEN NoReq ELSE b.req_ids[i]],
     index |-> [r \in BatchRid |-> IF r \in S THEN 0 ELSE b.index[r]],
     row |-> b.row]

\* The first k requests of c.order are gone.
RemoveGood(c, s, k) == s = Gone(c.b, {c.order[j] : j \in 1..k})
CpuRemoveGood(c, s, k) == s = Core(Gone(c.b, {c.order[j] : j \in 1..k}))

Rem == INSTANCE Iteration WITH Step <- remove_request, Good <- RemoveGood
CpuRem == INSTANCE Iteration WITH Step <- cpu_remove_request, Good <- CpuRemoveGood

\* A record is given by its fields.
LEMMA ByFields ==
    ASSUME NEW b, NEW x, NEW y, NEW z
    PROVE  /\ b \in [req_ids : {x}, index : {y}, row : {z}]
                 => b = [req_ids |-> x, index |-> y, row |-> z]
           /\ b \in [req_ids : {x}, index : {y}] => b = [req_ids |-> x, index |-> y]
OBVIOUS

\* Gone takes a further request out, and nothing out if there is none.
LEMMA GoneMore ==
    ASSUME NEW b, NEW L, Batch(b, L, {}), NEW S, S \subseteq InBatch(b)
    PROVE  /\ S = {} => Gone(b, S) = b
           /\ \A r \in InBatch(b) \ S :
                 /\ remove_request(Gone(b, S), r) = Gone(b, S \cup {r})
                 /\ cpu_remove_request(Core(Gone(b, S)), r) = Core(Gone(b, S \cup {r}))
<1>1. /\ b = [req_ids |-> b.req_ids, index |-> b.index, row |-> b.row] /\ b.req_ids \in Seq(Entry)
      /\ Len(b.req_ids) \in Nat /\ DOMAIN b.req_ids = 1..Len(b.req_ids)
      /\ b.index \in [BatchRid -> 0..MaxReqs]
  BY DEF Batch
<1>2. \A r \in InBatch(b) : r \in BatchRid /\ b.index[r] \in 1..Len(b.req_ids) /\ b.index[r] # 0
  BY DEF Batch, InBatch
<1>3. \A r, q \in InBatch(b) : b.index[r] = b.index[q] => r = q
  BY DEF Batch, InBatch
<1>4. ASSUME S = {} PROVE Gone(b, S) = b
  <2>1. [i \in 1..Len(b.req_ids) |->
             IF \E r \in S : b.index[r] = i THEN NoReq ELSE b.req_ids[i]] = b.req_ids
    BY <1>1, <1>4
  <2>2. [r \in BatchRid |-> IF r \in S THEN 0 ELSE b.index[r]] = b.index
    BY <1>1, <1>4
  <2> QED
    BY <1>1, <2>1, <2>2 DEF Gone
<1>5. ASSUME NEW r \in InBatch(b) \ S
      PROVE  /\ remove_request(Gone(b, S), r) = Gone(b, S \cup {r})
             /\ cpu_remove_request(Core(Gone(b, S)), r) = Core(Gone(b, S \cup {r}))
  <2> DEFINE g == Gone(b, S)
             h == Gone(b, S \cup {r})
             at == b.index[r]
  <2>1. /\ g.index = [q \in BatchRid |-> IF q \in S THEN 0 ELSE b.index[q]]
        /\ h.index = [q \in BatchRid |-> IF q \in S \cup {r} THEN 0 ELSE b.index[q]]
        /\ g.req_ids = [i \in 1..Len(b.req_ids) |->
                           IF \E q \in S : b.index[q] = i THEN NoReq ELSE b.req_ids[i]]
        /\ h.req_ids = [i \in 1..Len(b.req_ids) |->
                           IF \E q \in S \cup {r} : b.index[q] = i THEN NoReq ELSE b.req_ids[i]]
        /\ g = [req_ids |-> g.req_ids, index |-> g.index, row |-> g.row] /\ g.row = b.row
        /\ h = [req_ids |-> h.req_ids, index |-> h.index, row |-> b.row]
    BY DEF Gone
  <2> HIDE DEF g, h
  <2>2. r \in BatchRid /\ at \in 1..Len(b.req_ids) /\ at # 0 /\ r \notin S
    BY <1>2
  <2>3. g.index[r] = at
    BY <2>1, <2>2
  <2>4. h.index = [g.index EXCEPT ![r] = 0]
    BY <2>1, <2>2
  <2>5. h.req_ids = [g.req_ids EXCEPT ![at] = NoReq]
    <3>1. \A i \in 1..Len(b.req_ids) : h.req_ids[i] = [g.req_ids EXCEPT ![at] = NoReq][i]
      BY <2>1, <2>2
    <3> QED
      BY <2>1, <3>1
  <2>6. remove_request(g, r) = h
    <3> DEFINE e == [g EXCEPT !.req_ids[at] = NoReq, !.index[r] = 0]
    <3>1. remove_request(g, r) = e
      BY <2>2, <2>3 DEF remove_request
    <3>2. e \in [req_ids : {h.req_ids}, index : {h.index}, row : {g.row}]
      BY <2>1, <2>4, <2>5
    <3> HIDE DEF e
    <3> QED
      BY <2>1, <3>1, <3>2, ByFields
  <2>7. cpu_remove_request(Core(g), r) = Core(h)
    <3> DEFINE e == [Core(g) EXCEPT !.req_ids[at] = NoReq, !.index[r] = 0]
    <3>0. Core(g).index = g.index /\ Core(g).req_ids = g.req_ids
      BY DEF Core
    <3>1. cpu_remove_request(Core(g), r) = e
      BY <2>2, <2>3, <3>0 DEF cpu_remove_request
    <3>2. e \in [req_ids : {h.req_ids}, index : {h.index}]
      BY <2>4, <2>5 DEF Core
    <3> HIDE DEF e
    <3> QED
      BY <3>1, <3>2, ByFields DEF Core
  <2> QED
    BY <2>6, <2>7 DEF g, h
<1> QED
  BY <1>4, <1>5

\* A list of a set's members has each of them once.
LEMMA ListsOf ==
    ASSUME NEW S, IsFiniteSet(S), NEW order \in SetToSeqs(S)
    PROVE  /\ order \in Seq(S) /\ Len(order) = Cardinality(S) /\ Len(order) \in Nat
           /\ DOMAIN order = 1..Len(order)
           /\ \A i, j \in 1..Len(order) : i # j => order[i] # order[j]
           /\ ToSet(order) = S /\ S = {order[j] : j \in 1..Len(order)}
<1> DEFINE n == Cardinality(S)
<1>1. n \in Nat
  BY FS_CardinalityType
<1>2. order \in [1..n -> S] /\ \A i, j \in 1..n : i # j => order[i] # order[j]
  BY DEF SetToSeqs
<1> HIDE DEF n
<1>3. order \in Seq(S) /\ Len(order) = n /\ DOMAIN order = 1..n
  BY <1>1, <1>2
<1>4. order \in Injection(1..n, S)
  BY <1>2 DEF Injection, IsInjective
<1>5. IsFiniteSet(1..n) /\ Cardinality(1..n) = n
  BY <1>1, FS_Interval
<1>6. order \in Surjection(1..n, S)
  BY <1>4, <1>5, FS_Injection DEF n
<1>7. S = {order[j] : j \in 1..n}
  BY <1>2, <1>6 DEF Surjection
<1>8. ToSet(order) = S
  BY <1>3, <1>7 DEF ToSet
<1> QED
  BY <1>1, <1>2, <1>3, <1>7, <1>8 DEF n

\* However a process iterates over the requests to remove, they are gone.
LEMMA RemoveAll ==
    ASSUME NEW b, NEW L, Batch(b, L, {}), NEW S, S \subseteq InBatch(b),
           NEW order \in SetToSeqs(S)
    PROVE  /\ FoldLeft(remove_request, b, order) = Gone(b, S)
           /\ FoldLeft(cpu_remove_request, Core(b), order) = Core(Gone(b, S))
<1> DEFINE c == [b |-> b, order |-> order]
           first(k) == {order[j] : j \in 1..k}
<1>1. IsFiniteSet(S)
  BY BatchAssumption, FS_Subset DEF InBatch
<1>2. /\ order \in Seq(S) /\ Len(order) \in Nat /\ DOMAIN order = 1..Len(order)
      /\ \A i, j \in 1..Len(order) : i # j => order[i] # order[j]
      /\ S = {order[j] : j \in 1..Len(order)}
  BY <1>1, ListsOf
<1>3. first(0) = {} /\ Gone(b, first(0)) = b
  <2>1. first(0) = {}
    OBVIOUS
  <2> HIDE DEF first
  <2> QED
    BY <2>1, GoneMore
<1>4. ASSUME NEW k \in 1..Len(order)
      PROVE  /\ first(k - 1) \subseteq InBatch(b)
             /\ order[k] \in InBatch(b) \ first(k - 1)
             /\ first(k) = first(k - 1) \cup {order[k]}
  <2>1. order[k] \in S /\ order[k] \notin first(k - 1)
    <3>1. \A j \in 1..(k - 1) : j \in 1..Len(order) /\ j # k
      BY <1>2
    <3> QED
      BY <1>2, <3>1
  <2>2. first(k - 1) \subseteq S
    BY <1>2
  <2>3. first(k) = first(k - 1) \cup {order[k]}
    <3>1. 1..k = (1..(k - 1)) \cup {k}
      OBVIOUS
    <3> QED
      BY <3>1
  <2> QED
    BY <2>1, <2>2, <2>3
<1>5. \A s, k : /\ RemoveGood(c, s, k) <=> s = Gone(b, first(k))
                /\ CpuRemoveGood(c, s, k) <=> s = Core(Gone(b, first(k)))
  BY DEF RemoveGood, CpuRemoveGood
<1> HIDE DEF c, first
<1>6. /\ RemoveGood(c, b, 0)
      /\ \A k \in 1..Len(order) : \A s :
            RemoveGood(c, s, k - 1) => RemoveGood(c, remove_request(s, order[k]), k)
  BY <1>3, <1>4, <1>5, GoneMore
<1>7. /\ CpuRemoveGood(c, Core(b), 0)
      /\ \A k \in 1..Len(order) : \A s :
            CpuRemoveGood(c, s, k - 1) => CpuRemoveGood(c, cpu_remove_request(s, order[k]), k)
  BY <1>3, <1>4, <1>5, GoneMore
<1>8. RemoveGood(c, Rem!End(b, order), Len(order))
  BY <1>2, <1>6, Rem!LoopKeeps
<1>9. CpuRemoveGood(c, CpuRem!End(Core(b), order), Len(order))
  BY <1>2, <1>7, CpuRem!LoopKeeps
<1>10. first(Len(order)) = S
  BY <1>2 DEF first
<1>11. FoldLeft(remove_request, b, order) = Rem!End(b, order)
  BY DEF Rem!End, FoldLeft, Rem!FoldLeft, MapThenFoldSet, Rem!MapThenFoldSet, Max, Rem!Max
<1>12. FoldLeft(cpu_remove_request, Core(b), order) = CpuRem!End(Core(b), order)
  BY DEF CpuRem!End, FoldLeft, CpuRem!FoldLeft, MapThenFoldSet, CpuRem!MapThenFoldSet, Max, CpuRem!Max
<1> QED
  BY <1>5, <1>8, <1>9, <1>10, <1>11, <1>12

\* The requests that are gone leave holes.
LEMMA GoneHoles ==
    ASSUME NEW b, NEW L, Batch(b, L, {}), NEW S, S \subseteq InBatch(b)
    PROVE  /\ Batch(Gone(b, S), L, {b.index[r] : r \in S})
           /\ InBatch(Gone(b, S)) = InBatch(b) \ S
<1> DEFINE g == Gone(b, S)
           E == {b.index[r] : r \in S}
<1>1. /\ b.req_ids \in Seq(Entry) /\ Len(b.req_ids) = L /\ L \in Nat /\ L \in 0..MaxReqs
      /\ b.index \in [BatchRid -> 0..MaxReqs] /\ b.row \in [Index -> Entry]
  BY BatchAssumption DEF Batch
<1>2. /\ g = [req_ids |-> g.req_ids, index |-> g.index, row |-> g.row]
      /\ g.index = [q \in BatchRid |-> IF q \in S THEN 0 ELSE b.index[q]]
      /\ g.req_ids = [i \in 1..L |->
                           IF \E q \in S : b.index[q] = i THEN NoReq ELSE b.req_ids[i]]
      /\ g.row = b.row
  BY <1>1 DEF Gone
<1> HIDE DEF g
<1>3. \A r \in BatchRid : b.index[r] # 0 => b.index[r] \in 1..L /\ b.req_ids[b.index[r]] = r
  BY DEF Batch
<1>4. \A i \in 1..L : /\ b.req_ids[i] \in BatchRid
                      /\ b.index[b.req_ids[i]] = i
                      /\ b.row[i] = b.req_ids[i]
  BY DEF Batch
<1>5. \A r \in S : r \in BatchRid /\ b.index[r] # 0
  BY DEF InBatch
<1>6. E \subseteq 1..L
  BY <1>3, <1>5
<1>7. g.req_ids \in Seq(Entry) /\ Len(g.req_ids) = L
  <2>1. \A i \in 1..L : g.req_ids[i] \in Entry
    BY <1>1, <1>2, <1>4 DEF Entry
  <2> QED
    BY <1>1, <1>2, <2>1
<1>8. g.index \in [BatchRid -> 0..MaxReqs]
  BY <1>1, <1>2, BatchAssumption
<1>9. ASSUME NEW r \in BatchRid, g.index[r] # 0
      PROVE  g.index[r] \in (1..L) \ E /\ g.req_ids[g.index[r]] = r
  <2>1. r \notin S /\ g.index[r] = b.index[r] /\ b.index[r] \in 1..L /\ b.req_ids[b.index[r]] = r
    BY <1>2, <1>3, <1>9
  <2>2. \A q \in S : b.index[q] # b.index[r]
    BY <1>3, <1>5, <2>1
  <2> QED
    BY <1>2, <2>1, <2>2
<1>10. ASSUME NEW i \in (1..L) \ E
       PROVE  /\ g.req_ids[i] \in BatchRid
              /\ g.index[g.req_ids[i]] = i
              /\ g.row[i] = g.req_ids[i]
  <2>1. g.req_ids[i] = b.req_ids[i]
    BY <1>2
  <2>2. b.req_ids[i] \notin S
    BY <1>4
  <2> QED
    BY <1>2, <1>4, <2>1, <2>2
<1>11. Batch(g, L, E)
  BY <1>1, <1>2, <1>6, <1>7, <1>8, <1>9, <1>10 DEF Batch
<1>12. InBatch(g) = InBatch(b) \ S
  BY <1>2 DEF InBatch
<1> QED
  BY <1>11, <1>12 DEF g

-----------------------------------------------------------------------------
(* Adding requests. *)

\* r is in the batch, in a hole or behind the last request; in both batches.
InPlace(b, L, E, r, i) ==
    /\ i # 0 => Batch(add_request(b, r, i), L, E \ {i})
    /\ i = 0 => Batch(add_request(b, r, i), L + 1, {})
    /\ InBatch(add_request(b, r, i)) = InBatch(b) \cup {r}
    /\ cpu_add_request(Core(b), r, i) = Core(add_request(b, r, i))

\* A request fills a hole, or is appended where there is none.
LEMMA AddOne ==
    ASSUME NEW b, NEW L, NEW E, Batch(b, L, E), NEW r \in BatchRid, r \notin InBatch(b), NEW i,
           i \in E \/ (i = 0 /\ E = {} /\ L < MaxReqs)
    PROVE  InPlace(b, L, E, r, i)
<1> DEFINE at == IF i = 0 THEN num_reqs(b) + 1 ELSE i
           M == IF i = 0 THEN L + 1 ELSE L
           ids == PutId(b.req_ids, at, r)
           g == [b EXCEPT !.req_ids = ids, !.index[r] = at, !.row[at] = r]
<1>1. /\ b.req_ids \in Seq(Entry) /\ Len(b.req_ids) = L /\ L \in Nat /\ L \in 0..MaxReqs
      /\ b.index \in [BatchRid -> 0..MaxReqs] /\ b.row \in [Index -> Entry]
      /\ E \subseteq 1..L /\ MaxReqs \in Nat
      /\ b = [req_ids |-> b.req_ids, index |-> b.index, row |-> b.row]
      /\ b \in [req_ids : Seq(Entry), index : [BatchRid -> 0..MaxReqs], row : [Index -> Entry]]
  BY BatchAssumption DEF Batch
<1>2. at = (IF i = 0 THEN L + 1 ELSE i) /\ at \in 1..M /\ M \in 0..MaxReqs /\ M \in Nat
      /\ at \in Nat
  <2>1. E = {} => num_reqs(b) = L
    BY <1>1, NumReqs, FS_EmptySet
  <2>2. CASE i = 0
    <3>1. E = {} /\ L < MaxReqs
      BY <1>1, <2>2
    <3> QED
      BY <1>1, <2>1, <2>2, <3>1
  <2>3. CASE i # 0
    <3>1. i \in 1..L
      BY <1>1, <2>3
    <3> QED
      BY <1>1, <2>3, <3>1
  <2> QED
    BY <2>2, <2>3
<1>3. at \in Index
  BY <1>1, <1>2 DEF Index
<1>4. /\ ids \in Seq(Entry) /\ Len(ids) = M /\ ids[at] = r
      /\ \A j \in (1..M) \ {at} : j \in 1..L /\ ids[j] = b.req_ids[j]
  <2>0. r \in Entry
    BY DEF Entry
  <2>1. CASE i = 0
    <3>1. ids = Append(b.req_ids, r)
      BY <1>1, <1>2, <2>1 DEF PutId
    <3> HIDE DEF ids, at
    <3> QED
      BY <1>1, <1>2, <2>0, <2>1, <3>1
  <2>2. CASE i # 0
    <3>1. at = i /\ i \in 1..L /\ M = L
      BY <1>1, <2>2
    <3>2. ids = [b.req_ids EXCEPT ![i] = r]
      BY <1>1, <3>1 DEF PutId
    <3> HIDE DEF ids, at, M
    <3> QED
      BY <1>1, <2>0, <3>1, <3>2
  <2> QED
    BY <2>1, <2>2
<1>5. add_request(b, r, i) = g
  BY DEF add_request
<1> HIDE DEF ids, at, M
<1>6. /\ g.req_ids = ids
      /\ g.index = [b.index EXCEPT ![r] = at]
      /\ g.row = [b.row EXCEPT ![at] = r]
      /\ g \in [req_ids : {ids}, index : {[b.index EXCEPT ![r] = at]}, row : {[b.row EXCEPT ![at] = r]}]
  BY <1>1
<1>7. cpu_add_request(Core(b), r, i) = Core(g)
  <2> DEFINE e == [Core(b) EXCEPT !.req_ids = ids, !.index[r] = at]
  <2>1. num_reqs(Core(b)) = num_reqs(b)
    BY DEF num_reqs, Core
  <2>2. cpu_add_request(Core(b), r, i) = e
    BY <2>1 DEF cpu_add_request, Core, ids, at
  <2>3. e \in [req_ids : {ids}, index : {[b.index EXCEPT ![r] = at]}]
    BY DEF Core
  <2> HIDE DEF e, g
  <2> QED
    BY <1>6, <2>2, <2>3, ByFields DEF Core
<1> HIDE DEF g
<1>8. \A q \in BatchRid : b.index[q] # 0 => /\ b.index[q] \in (1..L) \ E
                                            /\ b.req_ids[b.index[q]] = q
  BY DEF Batch
<1>9. \A j \in (1..L) \ E : /\ b.req_ids[j] \in BatchRid
                            /\ b.index[b.req_ids[j]] = j
                            /\ b.row[j] = b.req_ids[j]
  BY DEF Batch
<1>10. r \in BatchRid /\ b.index[r] = 0
  BY DEF InBatch
<1>11. at \notin (1..L) \ E /\ (1..M) \ (E \ {i}) = ((1..L) \ E) \cup {at}
  <2>1. CASE i = 0
    BY <1>1, <1>2, <2>1 DEF M
  <2>2. CASE i # 0
    BY <1>1, <1>2, <2>2 DEF M
  <2> QED
    BY <2>1, <2>2
<1>12. \A j \in (1..L) \ E : ids[j] = b.req_ids[j] /\ j # at /\ j \in 1..M
  BY <1>4, <1>11
<1>13. ASSUME NEW q \in BatchRid, g.index[q] # 0
       PROVE  g.index[q] \in (1..M) \ (E \ {i}) /\ g.req_ids[g.index[q]] = q
  <2>1. CASE q = r
    BY <1>1, <1>4, <1>6, <1>11, <2>1
  <2>2. CASE q # r
    <3>1. g.index[q] = b.index[q]
      BY <1>1, <1>6, <2>2
    <3> QED
      BY <1>6, <1>8, <1>11, <1>12, <1>13, <3>1
  <2> QED
    BY <2>1, <2>2
<1>14. ASSUME NEW j \in (1..M) \ (E \ {i})
       PROVE  /\ g.req_ids[j] \in BatchRid
              /\ g.index[g.req_ids[j]] = j
              /\ g.row[j] = g.req_ids[j]
  <2>1. CASE j = at
    BY <1>1, <1>3, <1>4, <1>6, <1>10, <2>1
  <2>2. CASE j # at
    <3>1. j \in (1..L) \ E
      BY <1>11, <2>2
    <3>2. g.req_ids[j] = b.req_ids[j] /\ b.req_ids[j] \in BatchRid /\ b.req_ids[j] # r
      <4>1. j # 0
        BY <3>1, <1>1
      <4> QED
        BY <1>6, <1>9, <1>10, <1>12, <3>1, <4>1
    <3>3. j \in Index /\ g.row[j] = b.row[j]
      BY <1>1, <1>3, <1>6, <2>2, <3>1 DEF Index
    <3> QED
      BY <1>1, <1>6, <1>9, <3>1, <3>2, <3>3
  <2> QED
    BY <2>1, <2>2
<1>15. g \in [req_ids : Seq(Entry), index : [BatchRid -> 0..MaxReqs], row : [Index -> Entry]]
  <2>1. [b.index EXCEPT ![r] = at] \in [BatchRid -> 0..MaxReqs]
    BY <1>1, <1>2
  <2>2. [b.row EXCEPT ![at] = r] \in [Index -> Entry]
    BY <1>1 DEF Entry
  <2> HIDE DEF ids
  <2> QED
    BY <1>4, <1>6, <2>1, <2>2
<1>16. E \ {i} \subseteq 1..M
  <2>1. \A j \in 1..L : j \in 1..M
    BY <1>1 DEF M
  <2> QED
    BY <1>1, <2>1
<1>17. Batch(g, M, E \ {i})
  BY <1>2, <1>4, <1>6, <1>13, <1>14, <1>15, <1>16 DEF Batch
<1>18. InBatch(g) = InBatch(b) \cup {r}
  <2>1. at # 0 /\ \A q \in BatchRid : g.index[q] = IF q = r THEN at ELSE b.index[q]
    BY <1>1, <1>2, <1>6
  <2> QED
    BY <1>10, <2>1 DEF InBatch
<1>19. i = 0 => E \ {i} = {}
  BY <1>1
<1> QED
  BY <1>5, <1>7, <1>17, <1>18, <1>19 DEF M, InPlace

\* b has holes at the indices of free, and the requests of add find a place.
AddInput(L, free, add, b) ==
    /\ L \in Nat /\ free \in Seq(Nat) /\ add \in Seq(BatchRid)
    /\ Batch(b, L, {free[j] : j \in 1..Len(free)})
    /\ \A i, j \in 1..Len(free) : i # j => free[i] # free[j]
    /\ \A i, j \in 1..Len(add) : i # j => add[i] # add[j]
    /\ \A j \in 1..Len(add) : add[j] \notin InBatch(b)
    /\ L + Len(add) - Len(free) <= MaxReqs

\* The first k requests of add are in b: the first ones have filled holes, in
\* the order of free, the others were appended.
Added(L, free, add, b, s, k) ==
    /\ Batch(s, IF k <= Len(free) THEN L ELSE L + k - Len(free),
             {free[j] : j \in (k + 1)..Len(free)})
    /\ InBatch(s) = InBatch(b) \cup {add[j] : j \in 1..k}

\* The loop's invariant, and with c.f, the batches of the worker, that of the
\* engine core's loop.
AddInv(c, s, k) == Added(c.L, c.free, c.add, c.b, s, k)
CpuAddInv(c, s, k) == s = Core(c.f[k]) /\ AddInv(c, c.f[k], k)

Add == INSTANCE Iteration WITH Step <- AddAt, Good <- AddInv
CpuAdd == INSTANCE Iteration WITH Step <- CpuAddAt, Good <- CpuAddInv

\* A round of the loop that adds the requests.
LEMMA AddRound ==
    ASSUME NEW L, NEW free, NEW add, NEW b, AddInput(L, free, add, b),
           NEW k \in 1..Len(add), NEW s, Added(L, free, add, b, s, k - 1),
           NEW p, p = [r |-> add[k], at |-> IF k <= Len(free) THEN free[k] ELSE 0]
    PROVE  Added(L, free, add, b, AddAt(s, p), k) /\ CpuAddAt(Core(s), p) = Core(AddAt(s, p))
<1> DEFINE m == Len(free)
           n == Len(add)
           holes == {free[j] : j \in k..m}
           idx == p.at
           q == add[k]
<1>0. /\ free \in Seq(Nat) /\ add \in Seq(BatchRid)
      /\ \A x, y \in 1..m : x # y => free[x] # free[y]
      /\ \A x, y \in 1..n : x # y => add[x] # add[y]
      /\ \A x \in 1..n : add[x] \notin InBatch(b)
      /\ L + n - m <= MaxReqs /\ L \in Nat
  BY DEF AddInput
<1>1. /\ k \in Nat /\ m \in Nat /\ (k - 1) + 1 = k /\ n \in Nat /\ k <= n
      /\ L \in Nat /\ MaxReqs \in Nat /\ L + n - m <= MaxReqs
  BY <1>0, BatchAssumption
<1>2. Batch(s, IF k - 1 <= m THEN L ELSE L + (k - 1) - m, holes)
  BY <1>1 DEF Added
<1>3. InBatch(s) = InBatch(b) \cup {add[j] : j \in 1..(k - 1)}
  BY DEF Added
<1>4. q \in BatchRid /\ q \notin InBatch(s)
  <2>1. q \in BatchRid /\ q \notin InBatch(b)
    BY <1>0
  <2>2. \A j \in 1..(k - 1) : add[j] # q
    BY <1>0, <1>1
  <2> QED
    BY <1>3, <2>1, <2>2
<1>5. p.r = q /\ idx = IF k <= m THEN free[k] ELSE 0
  OBVIOUS
<1>6. AddAt(s, p) = add_request(s, q, idx) /\ CpuAddAt(Core(s), p) = cpu_add_request(Core(s), q, idx)
  BY <1>5 DEF AddAt, CpuAddAt
<1>7. {add[j] : j \in 1..k} = {add[j] : j \in 1..(k - 1)} \cup {q}
  <2>1. 1..k = (1..(k - 1)) \cup {k}
    BY <1>1
  <2> QED
    BY <2>1
<1> DEFINE F == {free[j] : j \in (k + 1)..m}
<1>8. CASE k <= m
  <2>1. idx = free[k] /\ idx \in holes /\ idx # 0 /\ k - 1 <= m
    <3>1. idx = free[k] /\ idx \in holes /\ k - 1 <= m
      BY <1>1, <1>5, <1>8
    <3>2. holes \subseteq 1..L
      BY <1>2, <3>1 DEF Batch
    <3> HIDE DEF idx, holes
    <3> QED
      BY <3>1, <3>2
  <2>2. holes \ {idx} = F
    <3>1. k..m = {k} \cup ((k + 1)..m) /\ k \notin (k + 1)..m
      BY <1>1, <1>8
    <3>2. \A j \in (k + 1)..m : free[j] # idx
      BY <1>0, <1>1, <1>8, <2>1
    <3> HIDE DEF idx
    <3> QED
      BY <2>1, <3>1, <3>2
  <2>3. Batch(s, L, holes)
    BY <1>2, <2>1
  <2> HIDE DEF idx, q, holes, F
  <2>4. /\ Batch(add_request(s, q, idx), L, F)
        /\ InBatch(add_request(s, q, idx)) = InBatch(s) \cup {q}
        /\ cpu_add_request(Core(s), q, idx) = Core(add_request(s, q, idx))
    <3>1. idx \in holes \/ (idx = 0 /\ holes = {} /\ L < MaxReqs)
      BY <2>1
    <3>2. InPlace(s, L, holes, q, idx)
      BY <1>4, <2>3, <3>1, AddOne
    <3> QED
      BY <2>1, <2>2, <3>2 DEF InPlace
  <2> HIDE DEF m
  <2> QED
    BY <1>3, <1>6, <1>7, <1>8, <2>4 DEF Added, F, m
<1>9. CASE k > m
  <2>1. idx = 0 /\ holes = {} /\ F = {}
    BY <1>1, <1>5, <1>9
  <2> DEFINE M == L + (k - 1) - m
  <2>2. Batch(s, M, {}) /\ M < MaxReqs /\ M + 1 = L + k - m
    <3>0. (IF k - 1 <= m THEN L ELSE M) = M /\ M < MaxReqs /\ M + 1 = L + k - m
      <4> HIDE DEF m
      <4>1. k - 1 <= m => k - 1 = m
        BY <1>1, <1>9
      <4>2. M + 1 = L + k - m /\ M < MaxReqs
        BY <1>1
      <4> QED
        BY <1>1, <4>1, <4>2
    <3> HIDE DEF holes
    <3> QED
      BY <1>2, <2>1, <3>0
  <2> HIDE DEF idx, q, holes, F, M
  <2>4. /\ Batch(add_request(s, q, idx), M + 1, {})
        /\ InBatch(add_request(s, q, idx)) = InBatch(s) \cup {q}
        /\ cpu_add_request(Core(s), q, idx) = Core(add_request(s, q, idx))
    <3>1. idx \in {} \/ (idx = 0 /\ {} = {} /\ M < MaxReqs)
      BY <2>1, <2>2
    <3>2. InPlace(s, M, {}, q, idx)
      BY <1>4, <2>2, <3>1, AddOne
    <3> QED
      BY <2>1, <3>2 DEF InPlace
  <2>5. ~(k <= m)
    BY <1>1, <1>9
  <2> HIDE DEF m
  <2> QED
    BY <1>3, <1>6, <1>7, <2>1, <2>2, <2>4, <2>5 DEF Added, F, m
<1> QED
  BY <1>1, <1>8, <1>9

\* All requests are added, in both batches alike.
AllAdded(L, free, add, b) ==
    /\ Batch(FoldLeft(AddAt, b, Places(add, free)),
             IF Len(add) <= Len(free) THEN L ELSE L + Len(add) - Len(free),
             {free[j] : j \in (Len(add) + 1)..Len(free)})
    /\ InBatch(FoldLeft(AddAt, b, Places(add, free)))
         = InBatch(b) \cup {add[j] : j \in 1..Len(add)}
    /\ FoldLeft(CpuAddAt, Core(b), Places(add, free))
         = Core(FoldLeft(AddAt, b, Places(add, free)))

\* The loops that add the requests do so.
LEMMA AddAll ==
    ASSUME NEW L, NEW free, NEW add, NEW b, AddInput(L, free, add, b)
    PROVE  AllAdded(L, free, add, b)
<1> DEFINE l == Places(add, free)
           n == Len(add)
<1>1. /\ n \in Nat /\ DOMAIN add = 1..n
      /\ free \in Seq(Nat) /\ Len(free) \in Nat
      /\ Len(l) = n /\ DOMAIN l = 1..Len(l)
      /\ \A k \in 1..n : l[k] = [r |-> add[k], at |-> IF k <= Len(free) THEN free[k] ELSE 0]
  BY DEF AddInput, Places
<1> HIDE DEF l
<1>2. PICK f : /\ f[0] = b
               /\ \A k \in 1..Len(l) : f[k] = AddAt(f[k - 1], l[k])
               /\ f[Len(l)] = Add!End(b, l)
  BY <1>1, Add!LoopTrace
<1> DEFINE c == [L |-> L, free |-> free, add |-> add, b |-> b, f |-> f]
<1>3. c.L = L /\ c.free = free /\ c.add = add /\ c.b = b /\ c.f = f
  OBVIOUS
<1> HIDE DEF c
<1>4. \A s, k : AddInv(c, s, k) <=> Added(L, free, add, b, s, k)
  BY <1>3 DEF AddInv
<1>5. CpuAddInv(c, Core(b), 0)
  <2>1. 0 <= Len(free) /\ 0 + 1 = 1 /\ {add[j] : j \in 1..0} = {}
    BY <1>1
  <2>2. InBatch(b) \cup {add[j] : j \in 1..0} = InBatch(b)
    BY <2>1
  <2>3. Added(L, free, add, b, b, 0)
    BY <2>1, <2>2 DEF Added, AddInput
  <2> QED
    BY <1>2, <1>3, <1>4, <2>3 DEF CpuAddInv
<1>6. ASSUME NEW k \in 1..Len(l), NEW s, CpuAddInv(c, s, k - 1)
      PROVE  CpuAddInv(c, CpuAddAt(s, l[k]), k)
  <2>1. s = Core(f[k - 1]) /\ Added(L, free, add, b, f[k - 1], k - 1)
    BY <1>3, <1>4, <1>6 DEF CpuAddInv
  <2>2. k \in 1..Len(add) /\ l[k] = [r |-> add[k], at |-> IF k <= Len(free) THEN free[k] ELSE 0]
    BY <1>1
  <2>4. /\ Added(L, free, add, b, AddAt(f[k - 1], l[k]), k)
        /\ CpuAddAt(Core(f[k - 1]), l[k]) = Core(AddAt(f[k - 1], l[k]))
    BY <2>1, <2>2, AddRound
  <2> QED
    BY <1>2, <1>3, <1>4, <2>1, <2>4 DEF CpuAddInv
<1>7. CpuAddInv(c, CpuAdd!End(Core(b), l), Len(l))
  BY <1>1, <1>5, <1>6, CpuAdd!LoopKeeps
<1>8. FoldLeft(AddAt, b, l) = Add!End(b, l)
  BY DEF Add!End, FoldLeft, Add!FoldLeft, MapThenFoldSet, Add!MapThenFoldSet, Max, Add!Max
<1>9. FoldLeft(CpuAddAt, Core(b), l) = CpuAdd!End(Core(b), l)
  BY DEF CpuAdd!End, FoldLeft, CpuAdd!FoldLeft, MapThenFoldSet, CpuAdd!MapThenFoldSet, Max, CpuAdd!Max
<1>10. /\ FoldLeft(CpuAddAt, Core(b), l) = Core(FoldLeft(AddAt, b, l))
       /\ Added(L, free, add, b, FoldLeft(AddAt, b, l), n)
  BY <1>1, <1>2, <1>3, <1>4, <1>7, <1>8, <1>9 DEF CpuAddInv
<1> QED
  BY <1>10 DEF Added, AllAdded, l

-----------------------------------------------------------------------------
(* Condensing. *)

\* LastUsed returns the largest index that is not empty.
LEMMA LastUsedIs ==
    ASSUME NEW last \in Nat, NEW empty, 0 \notin empty
    PROVE  /\ LastUsed(last, empty) \in 0..last /\ LastUsed(last, empty) \notin empty
           /\ \A i \in 0..last : i \notin empty => i <= LastUsed(last, empty)
<1> DEFINE used == {i \in 0..last : i \notin empty}
           max == \E x \in used : \A y \in used : x >= y
           T == {n \in Nat : (\E i \in used : i >= last - n) => max}
<1>1. \A i \in used : i \in Nat /\ i <= last
  OBVIOUS
<1>2. 0 \in used
  OBVIOUS
<1> HIDE DEF used
<1>3. 0 \in T
  <2> SUFFICES ASSUME NEW i \in used, i >= last - 0 PROVE max
    OBVIOUS
  <2> QED
    BY <1>1
<1>4. ASSUME NEW n \in Nat, n \in T PROVE n + 1 \in T
  <2> SUFFICES ASSUME NEW i \in used, i >= last - (n + 1) PROVE max
    OBVIOUS
  <2>1. CASE \E j \in used : j >= last - n
    BY <1>4, <2>1
  <2>2. CASE \A j \in used : ~(j >= last - n)
    <3>1. \A j \in used : i >= j
      BY <1>1, <2>2
    <3> QED
      BY <3>1
  <2> QED
    BY <2>1, <2>2
<1>5. max
  <2>1. last \in T
    <3> HIDE DEF T
    <3> QED
      BY <1>3, <1>4, Rem!Induction
  <2>2. 0 >= last - last
    OBVIOUS
  <2> QED
    BY <1>2, <2>1, <2>2
<1> DEFINE top == CHOOSE x \in used : \A y \in used : x >= y
<1>6. top \in used /\ \A y \in used : top >= y
  BY <1>5
<1>7. LastUsed(last, empty) = top
  BY DEF LastUsed, Max, used
<1> HIDE DEF top
<1>8. \A y \in used : y <= top
  BY <1>1, <1>6
<1> QED
  BY <1>6, <1>7, <1>8 DEF used

\* The batch after the request at the index last has moved to the hole e.
Moved(b, last, e) ==
    [b EXCEPT !.req_ids[e] = b.req_ids[last], !.req_ids[last] = NoReq,
              !.index[b.req_ids[last]] = e, !.row[e] = b.row[last]]

\* The hole is then where the request was.
HoleMoved(b, L, E, last, e) ==
    /\ Batch(Moved(b, last, e), L, (E \ {e}) \cup {last})
    /\ InBatch(Moved(b, last, e)) = InBatch(b)
    /\ Core(Moved(b, last, e))
          = [Core(b) EXCEPT !.req_ids[e] = b.req_ids[last], !.req_ids[last] = NoReq,
                            !.index[b.req_ids[last]] = e]

\* A request moves to a hole, in both batches.
LEMMA MoveKeeps ==
    ASSUME NEW b, NEW L, NEW E, Batch(b, L, E), NEW e \in E, NEW last \in (1..L) \ E
    PROVE  HoleMoved(b, L, E, last, e)
<1> DEFINE r == b.req_ids[last]
           g == Moved(b, last, e)
           ids == [b.req_ids EXCEPT ![e] = r, ![last] = NoReq]
           F == (E \ {e}) \cup {last}
<1>1. /\ b.req_ids \in Seq(Entry) /\ Len(b.req_ids) = L /\ L \in Nat /\ L \in 0..MaxReqs
      /\ b.index \in [BatchRid -> 0..MaxReqs] /\ b.row \in [Index -> Entry]
      /\ E \subseteq 1..L /\ MaxReqs \in Nat
      /\ b \in [req_ids : Seq(Entry), index : [BatchRid -> 0..MaxReqs], row : [Index -> Entry]]
  BY BatchAssumption DEF Batch
<1>2. /\ e \in 1..L /\ last \in 1..L /\ e # last /\ e \in Index /\ last \in Index /\ e # 0
      /\ e \in 0..MaxReqs
  BY <1>1 DEF Index
<1>3. \A q \in BatchRid : b.index[q] # 0 => /\ b.index[q] \in (1..L) \ E
                                            /\ b.req_ids[b.index[q]] = q
  BY DEF Batch
<1>4. \A j \in (1..L) \ E : /\ b.req_ids[j] \in BatchRid
                            /\ b.index[b.req_ids[j]] = j
                            /\ b.row[j] = b.req_ids[j]
  BY DEF Batch
<1>5. r \in BatchRid /\ b.index[r] = last /\ b.row[last] = r
  BY <1>4
<1>6. /\ g.req_ids = ids
      /\ g.index = [b.index EXCEPT ![r] = e]
      /\ g.row = [b.row EXCEPT ![e] = b.row[last]]
      /\ g \in [req_ids : {ids}, index : {[b.index EXCEPT ![r] = e]},
                row : {[b.row EXCEPT ![e] = b.row[last]]}]
  BY <1>1 DEF Moved
<1>7. Core(g) = [Core(b) EXCEPT !.req_ids[e] = r, !.req_ids[last] = NoReq, !.index[r] = e]
  <2> DEFINE d == [Core(b) EXCEPT !.req_ids[e] = r, !.req_ids[last] = NoReq, !.index[r] = e]
  <2>1. d \in [req_ids : {ids}, index : {[b.index EXCEPT ![r] = e]}]
    BY DEF Core
  <2> HIDE DEF d, g, ids, r
  <2>2. Core(g) = d
    BY <1>6, <2>1, ByFields DEF Core
  <2> QED
    BY <2>2 DEF d
<1> HIDE DEF g, r
<1>8. /\ ids \in Seq(Entry) /\ Len(ids) = L
      /\ \A j \in 1..L : ids[j] = IF j = last THEN NoReq ELSE IF j = e THEN r ELSE b.req_ids[j]
  <2>1. r \in Entry /\ NoReq \in Entry
    BY <1>5 DEF Entry
  <2>2. \A j \in 1..L : ids[j] = IF j = last THEN NoReq ELSE IF j = e THEN r ELSE b.req_ids[j]
    BY <1>1, <1>2
  <2> QED
    BY <1>1, <2>1, <2>2
<1> HIDE DEF ids
<1>9. (1..L) \ F = (((1..L) \ E) \ {last}) \cup {e} /\ F \subseteq 1..L
  BY <1>1, <1>2
<1> HIDE DEF F
<1>10. \A q \in BatchRid : g.index[q] = IF q = r THEN e ELSE b.index[q]
  BY <1>1, <1>6
<1>11. ASSUME NEW q \in BatchRid, g.index[q] # 0
       PROVE  g.index[q] \in (1..L) \ F /\ g.req_ids[g.index[q]] = q
  <2>1. CASE q = r
    BY <1>2, <1>6, <1>8, <1>9, <1>10, <2>1
  <2>2. CASE q # r
    <3>1. g.index[q] = b.index[q] /\ b.index[q] \in (1..L) \ E /\ b.req_ids[b.index[q]] = q
      BY <1>3, <1>10, <1>11, <2>2
    <3>2. b.index[q] # last /\ b.index[q] # e
      BY <2>2, <3>1 DEF r
    <3> QED
      BY <1>6, <1>8, <1>9, <3>1, <3>2
  <2> QED
    BY <2>1, <2>2
<1>12. ASSUME NEW j \in (1..L) \ F
       PROVE  /\ g.req_ids[j] \in BatchRid
              /\ g.index[g.req_ids[j]] = j
              /\ g.row[j] = g.req_ids[j]
  <2>1. CASE j = e
    BY <1>1, <1>2, <1>5, <1>6, <1>8, <1>10, <2>1
  <2>2. CASE j # e
    <3>1. j \in (1..L) \ E /\ j # last
      BY <1>9, <2>2
    <3>2. g.req_ids[j] = b.req_ids[j] /\ b.req_ids[j] \in BatchRid /\ b.req_ids[j] # r
      BY <1>4, <1>5, <1>6, <1>8, <2>2, <3>1
    <3>3. j \in Index /\ g.row[j] = b.row[j]
      BY <1>1, <1>6, <2>2, <3>1 DEF Index
    <3> QED
      BY <1>4, <1>10, <3>1, <3>2, <3>3
  <2> QED
    BY <2>1, <2>2
<1>13. g \in [req_ids : Seq(Entry), index : [BatchRid -> 0..MaxReqs], row : [Index -> Entry]]
  <2>1. [b.index EXCEPT ![r] = e] \in [BatchRid -> 0..MaxReqs]
    BY <1>1, <1>2
  <2>2. [b.row EXCEPT ![e] = b.row[last]] \in [Index -> Entry]
    BY <1>1, <1>2
  <2> QED
    BY <1>6, <1>8, <2>1, <2>2
<1>14. Batch(g, L, F)
  BY <1>1, <1>6, <1>8, <1>9, <1>11, <1>12, <1>13 DEF Batch
<1>15. InBatch(g) = InBatch(b)
  <2>1. b.index[r] # 0
    BY <1>2, <1>5
  <2> QED
    BY <1>2, <1>10, <2>1 DEF InBatch
<1> QED
  BY <1>7, <1>14, <1>15 DEF g, F, r, HoleMoved

\* The state of condense's loop over the holes e after k rounds: the holes left
\* are a.empty and everything behind a.last, and once it has stopped they are
\* all behind the requests.
Condensing(L, e, in, a, k) ==
    /\ a.stop \in BOOLEAN
    /\ a = [b |-> a.b, last |-> a.last, empty |-> a.empty, stop |-> a.stop]
    /\ InBatch(a.b) = in
    /\ ~a.stop => /\ a.last \in 0..L
                  /\ a.empty = {e[j] : j \in (k + 1)..Len(e)}
                  /\ Batch(a.b, L, {i \in 1..L : i \in a.empty \/ i > a.last})
    /\ a.stop => \E m \in 0..L : Batch(a.b, L, (m + 1)..L)

\* The state of the engine core's loop.
CoreLoop(a) == [b |-> Core(a.b), last |-> a.last, empty |-> a.empty, stop |-> a.stop]

\* e lists the holes of b, ascending.
CondenseInput(L, e, b) ==
    /\ L \in Nat /\ e \in Seq(Nat)
    /\ Batch(b, L, {e[j] : j \in 1..Len(e)})
    /\ \A i, j \in 1..Len(e) : i < j => e[i] < e[j]

\* A state of the loop is given by its fields.
LEMMA ByLoopFields ==
    ASSUME NEW a, NEW x, NEW y, NEW z, NEW s,
           a \in [b : {x}, last : {y}, empty : {z}, stop : {s}]
    PROVE  a = [b |-> x, last |-> y, empty |-> z, stop |-> s]
OBVIOUS

\* A round in which nothing moves.
LEMMA CondenseStops ==
    ASSUME NEW L, NEW e, NEW in, NEW b, CondenseInput(L, e, b),
           NEW k \in 1..Len(e), NEW a, Condensing(L, e, in, a, k - 1),
           a.stop \/ e[k] >= LastUsed(a.last, a.empty)
    PROVE  /\ Condensing(L, e, in, condense_step(a, e[k]), k)
           /\ cpu_condense_step(CoreLoop(a), e[k]) = CoreLoop(condense_step(a, e[k]))
<1> DEFINE g == [a EXCEPT !.stop = TRUE]
           d == [CoreLoop(a) EXCEPT !.stop = TRUE]
           last == LastUsed(a.last, a.empty)
<1>1. a = [b |-> a.b, last |-> a.last, empty |-> a.empty, stop |-> a.stop] /\ a.stop \in BOOLEAN
  BY DEF Condensing
<1>2. condense_step(a, e[k]) = g
  BY DEF condense_step
<1>3. cpu_condense_step(CoreLoop(a), e[k]) = d
  <2>1. /\ CoreLoop(a).last = a.last /\ CoreLoop(a).empty = a.empty
        /\ CoreLoop(a).stop = a.stop
    BY DEF CoreLoop
  <2> QED
    BY <2>1 DEF cpu_condense_step
<1>4. g \in [b : {a.b}, last : {a.last}, empty : {a.empty}, stop : {TRUE}]
  BY <1>1
<1>5. g.b = a.b /\ g.last = a.last /\ g.empty = a.empty /\ g.stop = TRUE
  BY <1>1
<1>6. d \in [b : {Core(a.b)}, last : {a.last}, empty : {a.empty}, stop : {TRUE}]
  BY DEF CoreLoop
<1> HIDE DEF g, d
<1>7. g = [b |-> a.b, last |-> a.last, empty |-> a.empty, stop |-> TRUE]
  BY <1>4, ByLoopFields
<1>8. d = [b |-> Core(a.b), last |-> a.last, empty |-> a.empty, stop |-> TRUE]
  BY <1>6, ByLoopFields
<1>9. d = CoreLoop(g)
  BY <1>5, <1>8 DEF CoreLoop
<1>10. \E m \in 0..L : Batch(a.b, L, (m + 1)..L)
  <2>1. CASE a.stop
    BY <2>1 DEF Condensing
  <2>2. CASE ~a.stop
    <3> DEFINE holes == {i \in 1..L : i \in a.empty \/ i > a.last}
    <3>1. /\ L \in Nat /\ e \in Seq(Nat) /\ Len(e) \in Nat
          /\ \A i, j \in 1..Len(e) : i < j => e[i] < e[j]
      BY DEF CondenseInput
    <3>2. a.last \in 0..L /\ Batch(a.b, L, holes) /\ a.last \in Nat
      BY <2>2, <3>1 DEF Condensing
    <3>3. a.empty = {e[j] : j \in k..Len(e)}
      <4>1. (k - 1) + 1 = k
        BY <3>1
      <4> QED
        BY <2>2, <4>1 DEF Condensing
    <3>4. \A j \in 1..Len(e) : e[j] # 0 /\ e[j] \in Nat
      <4>1. {e[j] : j \in 1..Len(e)} \subseteq 1..L
        BY DEF CondenseInput, Batch
      <4> QED
        BY <3>1, <4>1
    <3>5. \A i \in a.empty : i >= e[k] /\ i # 0 /\ i \in Nat
      <4>1. \A j \in k..Len(e) : e[j] >= e[k]
        <5> TAKE j \in k..Len(e)
        <5>1. j \in 1..Len(e) /\ (k < j \/ k = j)
          BY <3>1
        <5> QED
          BY <3>1, <3>4, <5>1
      <4>2. \A j \in k..Len(e) : j \in 1..Len(e)
        BY <3>1
      <4> QED
        BY <3>3, <3>4, <4>1, <4>2
    <3>6. /\ last \in 0..a.last /\ last \notin a.empty
          /\ \A i \in 0..a.last : i \notin a.empty => i <= last
      <4>1. 0 \notin a.empty
        BY <3>5
      <4> QED
        BY <3>2, <4>1, LastUsedIs
    <3> HIDE DEF last
    <3>7. e[k] >= last /\ e[k] \in a.empty /\ e[k] \in Nat
      <4>1. e[k] >= last
        BY <2>2 DEF last
      <4>2. k \in k..Len(e)
        BY <3>1
      <4> QED
        BY <3>3, <3>4, <4>1, <4>2
    <3>8. last \in 0..L /\ last \in Nat /\ last < e[k]
      <4>1. last \in 0..L /\ last \in Nat
        BY <3>1, <3>2, <3>6
      <4>2. e[k] # last
        BY <3>6, <3>7
      <4> QED
        BY <3>7, <4>1, <4>2
    <3>9. \A i \in 1..L : i \in holes <=> i > last
      <4> TAKE i \in 1..L
      <4>1. i > last => i \in holes
        BY <3>2, <3>6
      <4>2. i \in holes => i > last
        <5>1. i \in a.empty => i > last
          BY <3>5, <3>7, <3>8
        <5>2. i > a.last => i > last
          BY <3>2, <3>6
        <5> QED
          BY <5>1, <5>2
      <4> QED
        BY <4>1, <4>2
    <3>10. holes = (last + 1)..L
      <4>1. \A i \in holes : i \in 1..L
        OBVIOUS
      <4> HIDE DEF holes
      <4>2. \A i \in holes : i \in (last + 1)..L
        BY <3>1, <3>8, <3>9, <4>1
      <4>3. \A i \in (last + 1)..L : i \in holes
        BY <3>1, <3>8, <3>9
      <4> QED
        BY <4>2, <4>3
    <3> HIDE DEF holes
    <3> QED
      BY <3>2, <3>8, <3>10
  <2> QED
    BY <1>1, <2>1, <2>2
<1>11. InBatch(a.b) = in
  BY DEF Condensing
<1>12. Condensing(L, e, in, g, k)
  BY <1>5, <1>7, <1>10, <1>11 DEF Condensing
<1> QED
  BY <1>2, <1>3, <1>9, <1>12

\* A round in which the last request moves.
LEMMA CondenseMoves ==
    ASSUME NEW L, NEW e, NEW in, NEW b, CondenseInput(L, e, b),
           NEW k \in 1..Len(e), NEW a, Condensing(L, e, in, a, k - 1),
           ~a.stop, ~(e[k] >= LastUsed(a.last, a.empty))
    PROVE  /\ Condensing(L, e, in, condense_step(a, e[k]), k)
           /\ cpu_condense_step(CoreLoop(a), e[k]) = CoreLoop(condense_step(a, e[k]))
<1> DEFINE top == LastUsed(a.last, a.empty)
           q == a.b.req_ids[top]
           mb == Moved(a.b, top, e[k])
           g == [a EXCEPT !.b.req_ids[e[k]] = q, !.b.req_ids[top] = NoReq,
                          !.b.index[q] = e[k], !.b.row[e[k]] = a.b.row[top],
                          !.last = top - 1, !.empty = @ \ {e[k]}]
           cb == [Core(a.b) EXCEPT !.req_ids[e[k]] = q, !.req_ids[top] = NoReq, !.index[q] = e[k]]
           d == [CoreLoop(a) EXCEPT !.b.req_ids[e[k]] = q, !.b.req_ids[top] = NoReq,
                          !.b.index[q] = e[k],
                          !.last = top - 1, !.empty = @ \ {e[k]}]
           holes == {i \in 1..L : i \in a.empty \/ i > a.last}
           rest == {i \in 1..L : i \in a.empty \ {e[k]} \/ i > top - 1}
<1>1. a = [b |-> a.b, last |-> a.last, empty |-> a.empty, stop |-> a.stop] /\ a.stop = FALSE
  BY DEF Condensing
<1>2. condense_step(a, e[k]) = g
  BY DEF condense_step
<1>3. cpu_condense_step(CoreLoop(a), e[k]) = d
  <2>1. /\ CoreLoop(a).last = a.last /\ CoreLoop(a).empty = a.empty
        /\ CoreLoop(a).stop = a.stop /\ CoreLoop(a).b.req_ids = a.b.req_ids
    BY DEF CoreLoop, Core
  <2> QED
    BY <2>1 DEF cpu_condense_step
<1>4. /\ g \in [b : {mb}, last : {top - 1}, empty : {a.empty \ {e[k]}}, stop : {FALSE}]
      /\ g.b = mb /\ g.last = top - 1 /\ g.empty = a.empty \ {e[k]} /\ g.stop = FALSE
  <2> HIDE DEF top
  <2>1. a.stop = FALSE
    BY <1>1
  <2> QED
    BY <1>1 DEF Moved
<1>5. d \in [b : {cb}, last : {top - 1}, empty : {a.empty \ {e[k]}}, stop : {FALSE}]
  <2> HIDE DEF top
  <2> QED
    BY <1>1 DEF CoreLoop
<1> HIDE DEF g, d, mb, cb, q
<1>6. g = [b |-> mb, last |-> top - 1, empty |-> a.empty \ {e[k]}, stop |-> FALSE]
  <2> HIDE DEF top
  <2> QED
    BY <1>4, ByLoopFields
<1>7. d = [b |-> cb, last |-> top - 1, empty |-> a.empty \ {e[k]}, stop |-> FALSE]
  <2> HIDE DEF top
  <2> QED
    BY <1>5, ByLoopFields
<1>8. /\ L \in Nat /\ e \in Seq(Nat) /\ Len(e) \in Nat /\ k \in Nat
      /\ \A i, j \in 1..Len(e) : i < j => e[i] < e[j]
  BY DEF CondenseInput
<1>9. a.last \in 0..L /\ Batch(a.b, L, holes) /\ a.last \in Nat
  BY <1>1, <1>8 DEF Condensing
<1>10. a.empty = {e[j] : j \in k..Len(e)}
  <2>1. (k - 1) + 1 = k
    BY <1>8
  <2> QED
    BY <1>1, <2>1 DEF Condensing
<1>11. \A j \in 1..Len(e) : e[j] \in 1..L
  <2>1. {e[j] : j \in 1..Len(e)} \subseteq 1..L
    BY DEF CondenseInput, Batch
  <2> QED
    BY <2>1
<1>12. a.empty \subseteq 1..L /\ e[k] \in a.empty
  <2>1. \A j \in k..Len(e) : j \in 1..Len(e)
    BY <1>8
  <2>2. k \in k..Len(e)
    BY <1>8
  <2> QED
    BY <1>10, <1>11, <2>1, <2>2
<1>13. a.empty \ {e[k]} = {e[j] : j \in (k + 1)..Len(e)}
  <2>1. k..Len(e) = {k} \cup ((k + 1)..Len(e))
    BY <1>8
  <2>2. \A j \in (k + 1)..Len(e) : e[j] # e[k]
    <3> TAKE j \in (k + 1)..Len(e)
    <3>1. j \in 1..Len(e) /\ k < j
      BY <1>8
    <3>2. e[k] < e[j] /\ e[k] \in Nat /\ e[j] \in Nat
      BY <1>8, <3>1
    <3> QED
      BY <3>2
  <2> QED
    BY <1>10, <2>1, <2>2
<1>14. /\ top \in 0..a.last /\ top \notin a.empty
       /\ \A i \in 0..a.last : i \notin a.empty => i <= top
  <2>1. 0 \notin a.empty
    BY <1>12
  <2> QED
    BY <1>9, <2>1, LastUsedIs
<1>15. ~(e[k] >= top)
  OBVIOUS
<1> HIDE DEF top
<1>16. top \in 1..L /\ top \in (1..L) \ holes /\ e[k] \in holes /\ e[k] < top /\ e[k] \in 1..L
  <2>1. e[k] \in 1..L
    BY <1>11
  <2>2. top \in Nat /\ top <= a.last /\ top <= L
    BY <1>8, <1>9, <1>14
  <2>3. e[k] < top
    BY <1>15, <2>1, <2>2
  <2>4. top \in 1..L
    BY <2>1, <2>2, <2>3
  <2>5. top \notin holes
    BY <1>9, <1>14, <2>2
  <2> QED
    BY <1>12, <2>1, <2>3, <2>4, <2>5
<1>17. (holes \ {e[k]}) \cup {top} = rest
  <2>1. ASSUME NEW i \in 1..L PROVE i \in (holes \ {e[k]}) \cup {top} <=> i \in rest
    <3>1. CASE i = top
      BY <1>16, <3>1
    <3>2. CASE i > top
      <4>1. i \in holes
        BY <1>9, <1>14, <3>2
      <4>2. i # e[k] /\ i > top - 1
        BY <1>16, <3>2
      <4> QED
        BY <4>1, <4>2
    <3>3. CASE i < top
      <4>1. ~(i > a.last) /\ ~(i > top - 1) /\ i # top
        BY <1>9, <1>14, <3>3
      <4> QED
        BY <4>1
    <3> QED
      BY <1>16, <3>1, <3>2, <3>3
  <2>2. \A i \in (holes \ {e[k]}) \cup {top} : i \in 1..L
    BY <1>16
  <2>3. \A i \in rest : i \in 1..L
    OBVIOUS
  <2> HIDE DEF holes, rest
  <2> QED
    BY <2>1, <2>2, <2>3
<1>18. Batch(mb, L, rest) /\ InBatch(mb) = InBatch(a.b) /\ Core(mb) = cb
  <2> HIDE DEF holes, rest
  <2>1. HoleMoved(a.b, L, holes, top, e[k])
    BY <1>9, <1>16, MoveKeeps
  <2> QED
    BY <1>17, <2>1 DEF HoleMoved, mb, cb, q
<1>19. top - 1 \in 0..L
  BY <1>8, <1>16
<1>20. rest = {i \in 1..L : i \in g.empty \/ i > g.last}
  BY <1>4
<1> HIDE DEF holes, rest
<1>21. Condensing(L, e, in, g, k)
  <2>1. InBatch(a.b) = in
    BY DEF Condensing
  <2>2. g = [b |-> g.b, last |-> g.last, empty |-> g.empty, stop |-> g.stop]
    BY <1>4, <1>6
  <2>3. g.empty = {e[j] : j \in (k + 1)..Len(e)} /\ g.last \in 0..L
    BY <1>4, <1>13, <1>19
  <2>4. Batch(g.b, L, {i \in 1..L : i \in g.empty \/ i > g.last})
    BY <1>4, <1>18, <1>20
  <2> QED
    BY <1>4, <1>18, <2>1, <2>2, <2>3, <2>4 DEF Condensing
<1>22. d = CoreLoop(g)
  BY <1>4, <1>7, <1>18 DEF CoreLoop
<1> QED
  BY <1>2, <1>3, <1>21, <1>22

\* The loops' invariants, with c.f the states of the worker's loop.
CondenseInv(c, a, k) == Condensing(c.L, c.e, c.in, a, k)
CpuCondenseInv(c, a, k) == a = CoreLoop(c.f[k]) /\ CondenseInv(c, c.f[k], k)

Con == INSTANCE Iteration WITH Step <- condense_step, Good <- CondenseInv
CpuCon == INSTANCE Iteration WITH Step <- cpu_condense_step, Good <- CpuCondenseInv

\* The batch is dense after condense, has the same requests, and both batches
\* are condensed alike.
Condensed(b, e) ==
    /\ Batch(condense(b, e), num_reqs(b), {})
    /\ InBatch(condense(b, e)) = InBatch(b)
    /\ cpu_condense(Core(b), e) = Core(condense(b, e))

\* A batch whose holes are all behind its requests is cut there.
LEMMA CutKeeps ==
    ASSUME NEW b, NEW L, NEW m, Batch(b, L, (m + 1)..L), m \in 0..L
    PROVE  /\ num_reqs(b) = m
           /\ Batch([b EXCEPT !.req_ids = SubSeq(@, 1, m)], m, {})
           /\ InBatch([b EXCEPT !.req_ids = SubSeq(@, 1, m)]) = InBatch(b)
           /\ [Core(b) EXCEPT !.req_ids = SubSeq(@, 1, m)]
                = Core([b EXCEPT !.req_ids = SubSeq(@, 1, m)])
<1> DEFINE g == [b EXCEPT !.req_ids = SubSeq(@, 1, m)]
           ids == SubSeq(b.req_ids, 1, m)
           d == [Core(b) EXCEPT !.req_ids = SubSeq(@, 1, m)]
<1>1. /\ b.req_ids \in Seq(Entry) /\ Len(b.req_ids) = L /\ L \in Nat /\ L \in 0..MaxReqs
      /\ b.index \in [BatchRid -> 0..MaxReqs] /\ b.row \in [Index -> Entry]
      /\ m \in Nat /\ m <= L /\ MaxReqs \in Nat
      /\ b \in [req_ids : Seq(Entry), index : [BatchRid -> 0..MaxReqs], row : [Index -> Entry]]
  BY BatchAssumption DEF Batch
<1>2. num_reqs(b) = m
  <2>1. Cardinality((m + 1)..L) = L - m
    <3>1. m + 1 \in Int /\ L \in Int
      BY <1>1
    <3>2. Cardinality((m + 1)..L) = IF m + 1 > L THEN 0 ELSE L - (m + 1) + 1
      BY <3>1, FS_Interval
    <3> QED
      BY <1>1, <3>2
  <2>2. num_reqs(b) = L - Cardinality((m + 1)..L)
    BY NumReqs
  <2> QED
    BY <1>1, <2>1, <2>2
<1>3. (1..L) \ ((m + 1)..L) = 1..m
  BY <1>1
<1>4. \A q \in BatchRid : b.index[q] # 0 => b.index[q] \in 1..m /\ b.req_ids[b.index[q]] = q
  BY <1>3 DEF Batch
<1>5. \A j \in 1..m : /\ b.req_ids[j] \in BatchRid
                      /\ b.index[b.req_ids[j]] = j
                      /\ b.row[j] = b.req_ids[j]
  BY <1>3 DEF Batch
<1>6. ids \in Seq(Entry) /\ Len(ids) = m /\ \A j \in 1..m : ids[j] = b.req_ids[j]
  BY <1>1
<1>7. /\ g.req_ids = ids /\ g.index = b.index /\ g.row = b.row
      /\ g \in [req_ids : {ids}, index : {b.index}, row : {b.row}]
  BY <1>1
<1>8. d = Core(g)
  <2>1. d \in [req_ids : {ids}, index : {b.index}]
    BY DEF Core
  <2> HIDE DEF d, ids, g
  <2> QED
    BY <1>7, <2>1, ByFields DEF Core
<1> HIDE DEF g, ids
<1>9. g \in [req_ids : Seq(Entry), index : [BatchRid -> 0..MaxReqs], row : [Index -> Entry]]
  BY <1>1, <1>6, <1>7
<1>10. m \in 0..MaxReqs /\ (1..m) \ {} = 1..m
  BY <1>1
<1>11. Batch(g, m, {})
  <2>1. \A q \in BatchRid : g.index[q] # 0 => g.index[q] \in (1..m) \ {} /\ g.req_ids[g.index[q]] = q
    BY <1>4, <1>6, <1>7, <1>10
  <2>2. \A j \in (1..m) \ {} : /\ g.req_ids[j] \in BatchRid
                               /\ g.index[g.req_ids[j]] = j
                               /\ g.row[j] = g.req_ids[j]
    BY <1>5, <1>6, <1>7
  <2>3. Len(g.req_ids) = m /\ {} \subseteq 1..m
    BY <1>6, <1>7
  <2> QED
    BY <1>9, <1>10, <2>1, <2>2, <2>3 DEF Batch
<1>12. InBatch(g) = InBatch(b)
  BY <1>7 DEF InBatch
<1> QED
  BY <1>2, <1>8, <1>11, <1>12 DEF g

\* condense moves the last requests into the holes.
LEMMA CondenseAll ==
    ASSUME NEW L, NEW e, NEW b, CondenseInput(L, e, b)
    PROVE  Condensed(b, e)
<1> DEFINE a0 == [b |-> b, last |-> num_reqs(b) + Len(e), empty |-> ToSet(e), stop |-> FALSE]
           d0 == [b |-> Core(b), last |-> num_reqs(b) + Len(e), empty |-> ToSet(e), stop |-> FALSE]
           in == InBatch(b)
           n == num_reqs(b)
<1>1. /\ L \in Nat /\ e \in Seq(Nat) /\ Len(e) \in Nat /\ DOMAIN e = 1..Len(e)
      /\ \A i, j \in 1..Len(e) : i < j => e[i] < e[j]
      /\ Batch(b, L, ToSet(e)) /\ ToSet(e) = {e[j] : j \in 1..Len(e)}
  <2>1. /\ L \in Nat /\ e \in Seq(Nat) /\ Batch(b, L, {e[j] : j \in 1..Len(e)})
        /\ \A i, j \in 1..Len(e) : i < j => e[i] < e[j]
    BY DEF CondenseInput
  <2>2. Len(e) \in Nat /\ DOMAIN e = 1..Len(e)
    BY <2>1
  <2>3. ToSet(e) = {e[j] : j \in 1..Len(e)}
    BY <2>2 DEF ToSet
  <2> QED
    BY <2>1, <2>2, <2>3
<1>2. num_reqs(b) + Len(e) = L /\ n \in Nat
  <2>1. Cardinality(ToSet(e)) = Len(e)
    <3>1. e \in Bijection(1..Len(e), ToSet(e))
      <4>1. \A i, j \in 1..Len(e) : e[i] = e[j] => i = j
        <5> SUFFICES ASSUME NEW i \in 1..Len(e), NEW j \in 1..Len(e), e[i] = e[j] PROVE i = j
          OBVIOUS
        <5>1. ~(i < j) /\ ~(j < i)
          BY <1>1
        <5> QED
          BY <1>1, <5>1
      <4>2. e \in [1..Len(e) -> ToSet(e)] /\ \A x \in ToSet(e) : \E i \in 1..Len(e) : e[i] = x
        BY <1>1
      <4> QED
        BY <4>1, <4>2 DEF Bijection, Injection, IsInjective, Surjection
    <3>2. IsFiniteSet(1..Len(e)) /\ Cardinality(1..Len(e)) = Len(e)
      <4>1. Len(e) \in Nat
        BY <1>1
      <4> QED
        BY <4>1, FS_Interval
    <3> QED
      BY <3>1, <3>2, FS_Bijection DEF ExistsBijection
  <2>2. num_reqs(b) = L - Cardinality(ToSet(e)) /\ num_reqs(b) = Cardinality(InBatch(b))
    BY <1>1, NumReqs
  <2>3. IsFiniteSet(InBatch(b))
    BY BatchAssumption, FS_Subset DEF InBatch
  <2>4. n \in Nat
    BY <2>2, <2>3, FS_CardinalityType
  <2> QED
    BY <1>1, <2>1, <2>2, <2>4
<1>3. Condensing(L, e, in, a0, 0)
  <2>1. a0.b = b /\ a0.last = L /\ a0.empty = ToSet(e) /\ a0.stop = FALSE
    BY <1>2
  <2>2. {i \in 1..L : i \in ToSet(e) \/ i > L} = ToSet(e)
    <3>1. ToSet(e) \subseteq 1..L
      BY <1>1 DEF Batch
    <3> QED
      BY <1>1, <3>1
  <2>3. 0 + 1 = 1 /\ L \in 0..L
    BY <1>1
  <2>4. a0 = [b |-> a0.b, last |-> a0.last, empty |-> a0.empty, stop |-> a0.stop]
    BY <1>2
  <2> HIDE DEF a0
  <2> QED
    BY <1>1, <2>1, <2>2, <2>3, <2>4 DEF Condensing
<1>4. d0 = CoreLoop(a0)
  BY DEF CoreLoop
<1> HIDE DEF a0, d0
<1>5. PICK f : /\ f[0] = a0
               /\ \A k \in 1..Len(e) : f[k] = condense_step(f[k - 1], e[k])
               /\ f[Len(e)] = Con!End(a0, e)
  BY <1>1, Con!LoopTrace
<1> DEFINE c == [L |-> L, e |-> e, in |-> in, f |-> f]
<1>6. c.L = L /\ c.e = e /\ c.in = in /\ c.f = f
  OBVIOUS
<1> HIDE DEF c, in
<1>7. \A a, k : CondenseInv(c, a, k) <=> Condensing(L, e, in, a, k)
  BY <1>6 DEF CondenseInv
<1>8. CpuCondenseInv(c, d0, 0)
  BY <1>3, <1>4, <1>5, <1>6, <1>7 DEF CpuCondenseInv
<1>9. ASSUME NEW k \in 1..Len(e), NEW s, CpuCondenseInv(c, s, k - 1)
      PROVE  CpuCondenseInv(c, cpu_condense_step(s, e[k]), k)
  <2> DEFINE a == f[k - 1]
  <2>1. s = CoreLoop(a) /\ Condensing(L, e, in, a, k - 1)
    BY <1>6, <1>7, <1>9 DEF CpuCondenseInv
  <2> HIDE DEF a
  <2>2. /\ Condensing(L, e, in, condense_step(a, e[k]), k)
        /\ cpu_condense_step(CoreLoop(a), e[k]) = CoreLoop(condense_step(a, e[k]))
    <3>1. CASE a.stop \/ e[k] >= LastUsed(a.last, a.empty)
      BY <2>1, <3>1, CondenseStops
    <3>2. CASE ~a.stop /\ ~(e[k] >= LastUsed(a.last, a.empty))
      BY <2>1, <3>2, CondenseMoves
    <3> QED
      BY <3>1, <3>2
  <2> QED
    BY <1>5, <1>6, <1>7, <2>1, <2>2 DEF CpuCondenseInv, a
<1>10. CpuCondenseInv(c, CpuCon!End(d0, e), Len(e))
  BY <1>1, <1>8, <1>9, CpuCon!LoopKeeps
<1>11. FoldLeft(condense_step, a0, e) = Con!End(a0, e)
  BY DEF Con!End, FoldLeft, Con!FoldLeft, MapThenFoldSet, Con!MapThenFoldSet, Max, Con!Max
<1>12. FoldLeft(cpu_condense_step, d0, e) = CpuCon!End(d0, e)
  BY DEF CpuCon!End, FoldLeft, CpuCon!FoldLeft, MapThenFoldSet, CpuCon!MapThenFoldSet, Max, CpuCon!Max
<1> DEFINE a == FoldLeft(condense_step, a0, e)
           d == FoldLeft(cpu_condense_step, d0, e)
<1>13. d = CoreLoop(a) /\ Condensing(L, e, in, a, Len(e))
  BY <1>5, <1>6, <1>7, <1>10, <1>11, <1>12 DEF CpuCondenseInv
<1>14. condense(b, e) = IF n = 0 THEN [b EXCEPT !.req_ids = <<>>]
                        ELSE [a.b EXCEPT !.req_ids = SubSeq(@, 1, n)]
  BY DEF condense, a0
<1>15. cpu_condense(Core(b), e) = IF n = 0 THEN [Core(b) EXCEPT !.req_ids = <<>>]
                                  ELSE [d.b EXCEPT !.req_ids = SubSeq(@, 1, n)]
  <2>1. num_reqs(Core(b)) = num_reqs(b)
    BY DEF num_reqs, Core
  <2> QED
    BY <2>1 DEF cpu_condense, d0
<1> HIDE DEF a, d, n
<1>16. CASE n = 0
  <2> DEFINE g == [b EXCEPT !.req_ids = <<>>]
  <2>1. /\ b \in [req_ids : Seq(Entry), index : [BatchRid -> 0..MaxReqs], row : [Index -> Entry]]
        /\ MaxReqs \in Nat
    BY <1>1, BatchAssumption DEF Batch
  <2>2. g.req_ids = <<>> /\ g.index = b.index /\ g.row = b.row
        /\ g \in [req_ids : {<<>>}, index : {b.index}, row : {b.row}]
    BY <2>1
  <2>3. \A r \in BatchRid : b.index[r] = 0
    <3>1. Cardinality(InBatch(b)) = 0
      BY <1>1, <1>16, NumReqs DEF n
    <3>2. IsFiniteSet(InBatch(b))
      BY BatchAssumption, FS_Subset DEF InBatch
    <3> QED
      BY <3>1, <3>2, FS_EmptySet DEF InBatch
  <2>4. [Core(b) EXCEPT !.req_ids = <<>>] = Core(g)
    <3> DEFINE h == [Core(b) EXCEPT !.req_ids = <<>>]
    <3>1. h \in [req_ids : {<<>>}, index : {b.index}]
      BY DEF Core
    <3> HIDE DEF h, g
    <3>2. h = Core(g)
      BY <2>2, <3>1, ByFields DEF Core
    <3> QED
      BY <3>2 DEF h
  <2> HIDE DEF g
  <2>5. g \in [req_ids : Seq(Entry), index : [BatchRid -> 0..MaxReqs], row : [Index -> Entry]]
    <3>1. <<>> \in Seq(Entry) /\ b.index \in [BatchRid -> 0..MaxReqs] /\ b.row \in [Index -> Entry]
      BY <2>1
    <3> QED
      BY <2>2, <3>1
  <2>6. Batch(g, 0, {})
    <3>1. 0 \in 0..MaxReqs /\ {} \subseteq 1..0 /\ Len(<<>>) = 0 /\ (1..0) \ {} = {}
      BY <2>1
    <3> QED
      BY <2>2, <2>3, <2>5, <3>1 DEF Batch
  <2>7. InBatch(g) = InBatch(b)
    BY <2>2 DEF InBatch
  <2> QED
    BY <1>14, <1>15, <1>16, <2>4, <2>6, <2>7 DEF Condensed, g, n
<1>17. CASE n # 0
  <2>1. \E m \in 0..L : Batch(a.b, L, (m + 1)..L)
    <3>1. CASE a.stop
      BY <1>13, <3>1 DEF Condensing
    <3>2. CASE ~a.stop
      <4>1. (Len(e) + 1)..Len(e) = {}
        BY <1>1
      <4>2. a.last \in 0..L /\ a.empty = {} /\ Batch(a.b, L, {i \in 1..L : i \in a.empty \/ i > a.last})
        BY <1>13, <3>2, <4>1 DEF Condensing
      <4>3. {i \in 1..L : i \in a.empty \/ i > a.last} = (a.last + 1)..L
        BY <1>1, <4>2
      <4> QED
        BY <4>2, <4>3
    <3> QED
      BY <3>1, <3>2
  <2>2. PICK m \in 0..L : Batch(a.b, L, (m + 1)..L)
    BY <2>1
  <2>3. InBatch(a.b) = InBatch(b) /\ d.b = Core(a.b)
    BY <1>13 DEF Condensing, CoreLoop, in
  <2>4. num_reqs(a.b) = n
    BY <2>3 DEF num_reqs, InBatch, n
  <2> DEFINE g == [a.b EXCEPT !.req_ids = SubSeq(@, 1, n)]
             h == [Core(a.b) EXCEPT !.req_ids = SubSeq(@, 1, n)]
  <2>5. n = m
    BY <2>2, <2>4, CutKeeps
  <2>6. Batch(g, n, {}) /\ InBatch(g) = InBatch(a.b) /\ h = Core(g)
    BY <2>2, <2>5, CutKeeps
  <2>7. condense(b, e) = g /\ cpu_condense(Core(b), e) = h
    BY <1>14, <1>15, <1>17, <2>3
  <2> HIDE DEF g, h
  <2> QED
    BY <2>3, <2>6, <2>7 DEF Condensed, n
<1> QED
  BY <1>16, <1>17

-----------------------------------------------------------------------------
(* The update of a batch by a scheduler output. *)

\* A scheduler output: no request is scheduled twice, nor one that finished,
\* and there are rows for all.
OutOK(out) ==
    /\ out.scheduled \in Seq(BatchRid) /\ Len(out.scheduled) <= MaxReqs
    /\ \A i, j \in DOMAIN out.scheduled : i # j => out.scheduled[i] # out.scheduled[j]
    /\ out.finished \cap ToSet(out.scheduled) = {}

\* A list without repetitions has as many elements as members.
LEMMA ListSize ==
    ASSUME NEW S, NEW l \in Seq(S), \A i, j \in DOMAIN l : i # j => l[i] # l[j]
    PROVE  IsFiniteSet(ToSet(l)) /\ Cardinality(ToSet(l)) = Len(l)
<1> DEFINE n == Len(l)
<1>1. n \in Nat /\ DOMAIN l = 1..n /\ l \in [1..n -> S]
  OBVIOUS
<1>2. ToSet(l) = {l[i] : i \in 1..n}
  BY <1>1 DEF ToSet
<1>3. IsFiniteSet(1..n) /\ Cardinality(1..n) = n
  BY <1>1, FS_Interval
<1> HIDE DEF n
<1>4. l \in Bijection(1..n, ToSet(l))
  <2>1. l \in [1..n -> ToSet(l)] /\ \A x \in ToSet(l) : \E i \in 1..n : l[i] = x
    BY <1>1, <1>2
  <2>2. \A i, j \in 1..n : l[i] = l[j] => i = j
    BY <1>1
  <2> QED
    BY <2>1, <2>2 DEF Bijection, Injection, IsInjective, Surjection
<1>5. IsFiniteSet(ToSet(l)) /\ Cardinality(ToSet(l)) = Cardinality(1..n)
  BY <1>3, <1>4, FS_Bijection DEF ExistsBijection
<1> QED
  BY <1>3, <1>5 DEF n

\* In whatever order the requests were removed, their indices are filled
\* ascending.
LEMMA FreeList ==
    ASSUME NEW b, NEW L, Batch(b, L, {}), NEW S, S \subseteq InBatch(b),
           NEW order \in SetToSeqs(S)
    PROVE  FillOrder([k \in DOMAIN order |-> b.index[order[k]]]) = Ascending({b.index[r] : r \in S})
<1>1. IsFiniteSet(S)
  BY BatchAssumption, FS_Subset DEF InBatch
<1>2. DOMAIN order = 1..Len(order) /\ S = {order[j] : j \in 1..Len(order)}
  BY <1>1, ListsOf
<1> DEFINE w == [k \in DOMAIN order |-> b.index[order[k]]]
<1>3. ToSet(w) = {b.index[r] : r \in S}
  <2>1. DOMAIN w = DOMAIN order /\ \A k \in DOMAIN order : w[k] = b.index[order[k]]
    OBVIOUS
  <2> HIDE DEF w
  <2>2. \A x \in ToSet(w) : x \in {b.index[r] : r \in S}
    BY <1>2, <2>1 DEF ToSet
  <2>3. \A r \in S : b.index[r] \in ToSet(w)
    BY <1>2, <2>1 DEF ToSet
  <2> QED
    BY <2>2, <2>3
<1> HIDE DEF w
<1>4. FillOrder(w) = Ascending({b.index[r] : r \in S})
  BY <1>3 DEF FillOrder
<1> QED
  BY <1>4 DEF w

\* What is added: the scheduled requests that are not in the batch, each once.
LEMMA AddList ==
    ASSUME NEW g, NEW L, NEW E, Batch(g, L, E), NEW out, OutOK(out),
           InBatch(g) \subseteq ToSet(out.scheduled)
    PROVE  /\ ToAdd(g, out) \in Seq(BatchRid) /\ Len(ToAdd(g, out)) \in Nat
           /\ \A i, j \in 1..Len(ToAdd(g, out)) : i # j => ToAdd(g, out)[i] # ToAdd(g, out)[j]
           /\ \A j \in 1..Len(ToAdd(g, out)) : ToAdd(g, out)[j] \notin InBatch(g)
           /\ InBatch(g) \cup {ToAdd(g, out)[j] : j \in 1..Len(ToAdd(g, out))} = ToSet(out.scheduled)
           /\ Len(out.scheduled) = Cardinality(InBatch(g)) + Len(ToAdd(g, out))
<1> DEFINE s == out.scheduled
           new == {i \in DOMAIN s : g.index[s[i]] = 0}
           at == Ascending(new)
           n == Cardinality(new)
           w == ToAdd(g, out)
<1>1. /\ s \in Seq(BatchRid) /\ Len(s) \in Nat /\ DOMAIN s = 1..Len(s)
      /\ \A i, j \in DOMAIN s : i # j => s[i] # s[j]
      /\ ToSet(s) = {s[i] : i \in DOMAIN s}
  BY DEF OutOK, ToSet
<1>2. new \in SUBSET Nat /\ new \subseteq 1..Len(s) /\ IsFiniteSet(new)
  <2>1. new \subseteq 1..Len(s) /\ new \in SUBSET Nat
    BY <1>1
  <2>2. IsFiniteSet(1..Len(s))
    BY <1>1, FS_Interval
  <2> HIDE DEF new
  <2> QED
    BY <2>1, <2>2, FS_Subset
<1>3. /\ n \in Nat /\ at \in Seq(new) /\ Len(at) = n
      /\ \A k, m \in 1..n : k < m => at[k] < at[m]
      /\ \A i \in new : \E k \in 1..n : at[k] = i
  <2> HIDE DEF new
  <2> QED
    BY <1>2, AscendingLists
<1>4. DOMAIN at = 1..n /\ \A k \in 1..n : at[k] \in new
  <2> HIDE DEF at, n, new
  <2> QED
    BY <1>3
<1>5. w = [k \in DOMAIN at |-> s[at[k]]]
  BY DEF ToAdd
<1>6. \A i \in new : i \in DOMAIN s /\ s[i] \in BatchRid /\ s[i] \notin InBatch(g) /\ i \in Nat
  BY <1>1 DEF InBatch
<1>7. \A i \in DOMAIN s : i \notin new => s[i] \in InBatch(g)
  BY <1>1 DEF InBatch
<1> HIDE DEF s, at, n, w, new
<1>8. \A k \in 1..n : w[k] = s[at[k]] /\ w[k] \in BatchRid /\ w[k] \notin InBatch(g)
  BY <1>4, <1>5, <1>6
<1>9. w \in Seq(BatchRid) /\ Len(w) = n /\ DOMAIN w = 1..n
  BY <1>3, <1>4, <1>5, <1>8
<1>10. \A i, j \in 1..n : i # j => w[i] # w[j]
  <2> SUFFICES ASSUME NEW i \in 1..n, NEW j \in 1..n, i # j PROVE w[i] # w[j]
    OBVIOUS
  <2>1. at[i] \in Nat /\ at[j] \in Nat /\ at[i] \in DOMAIN s /\ at[j] \in DOMAIN s
    BY <1>4, <1>6
  <2>2. at[i] # at[j]
    <3>1. i < j \/ j < i
      BY <1>3
    <3> QED
      BY <1>3, <2>1, <3>1
  <2> QED
    BY <1>1, <1>8, <2>1, <2>2
<1>11. InBatch(g) \cup {w[j] : j \in 1..n} = ToSet(s)
  <2>1. \A j \in 1..n : w[j] \in ToSet(s)
    BY <1>1, <1>4, <1>6, <1>8
  <2>2. \A i \in DOMAIN s : s[i] \in InBatch(g) \/ \E j \in 1..n : w[j] = s[i]
    <3> TAKE i \in DOMAIN s
    <3>1. CASE i \notin new
      BY <1>7, <3>1
    <3>2. CASE i \in new
      BY <1>3, <1>8, <3>2
    <3> QED
      BY <3>1, <3>2
  <2>3. InBatch(g) \subseteq ToSet(s)
    BY DEF s
  <2> QED
    BY <1>1, <2>1, <2>2, <2>3
<1>12. Len(s) = Cardinality(InBatch(g)) + n
  <2>1. ToSet(w) = {w[j] : j \in 1..n}
    BY <1>9 DEF ToSet
  <2>2. IsFiniteSet(ToSet(w)) /\ Cardinality(ToSet(w)) = n
    BY <1>9, <1>10, ListSize
  <2>3. Cardinality(ToSet(s)) = Len(s)
    BY <1>1, ListSize
  <2>4. IsFiniteSet(InBatch(g)) /\ Cardinality(InBatch(g)) \in Nat
    BY BatchAssumption, FS_Subset, FS_CardinalityType DEF InBatch
  <2>5. InBatch(g) \cap ToSet(w) = {}
    BY <1>8, <2>1
  <2>6. Cardinality(InBatch(g) \cup ToSet(w))
          = Cardinality(InBatch(g)) + n - Cardinality(InBatch(g) \cap ToSet(w))
    BY <2>2, <2>4, FS_Union
  <2>7. Cardinality(InBatch(g) \cap ToSet(w)) = 0
    BY <2>5, FS_EmptySet
  <2>8. InBatch(g) \cup ToSet(w) = ToSet(s)
    BY <1>11, <2>1
  <2>9. Len(s) = Cardinality(InBatch(g)) + n - 0
    BY <2>3, <2>6, <2>7, <2>8
  <2> QED
    BY <1>3, <2>4, <2>9
<1> QED
  BY <1>3, <1>8, <1>9, <1>10, <1>11, <1>12 DEF s, w

\* The batch is updated, by whatever order of iteration, and in both processes
\* alike; it then has the scheduled requests and no holes.
Updated(b, out, o1, o2) ==
    /\ _update_states(b, out, o1) = _update_states(b, out, o2)
    /\ update_states(Core(b), out, o2) = Core(_update_states(b, out, o1))
    /\ Batch(_update_states(b, out, o1), Len(out.scheduled), {})

\* The two update functions agree, whatever the orders.
LEMMA UpdateStates ==
    ASSUME NEW b, NEW L, Batch(b, L, {}), NEW out, OutOK(out),
           NEW o1 \in SetToSeqs(ToRemove(b, out)), NEW o2 \in SetToSeqs(ToRemove(b, out))
    PROVE  Updated(b, out, o1, o2)
<1> DEFINE S == ToRemove(b, out)
           E == {b.index[r] : r \in S}
           g == Gone(b, S)
           free == Ascending(E)
           add == ToAdd(g, out)
           full == FoldLeft(AddAt, g, Places(add, free))
           sched == out.scheduled
           e == SubSeq(free, Len(add) + 1, Len(free))
<1>1. S \subseteq InBatch(b) /\ InBatch(b) \ S \subseteq ToSet(sched)
  BY DEF ToRemove, InBatch
<1> HIDE DEF S
<1>2. Batch(g, L, E) /\ InBatch(g) = InBatch(b) \ S
  BY <1>1, GoneHoles
<1> HIDE DEF g, E
<1>3. L \in Nat /\ E \subseteq 1..L /\ E \in SUBSET Nat /\ MaxReqs \in Nat
  BY <1>2, BatchAssumption DEF Batch
<1>4. IsFiniteSet(E) /\ num_reqs(g) = L - Cardinality(E) /\ num_reqs(g) = Cardinality(InBatch(g))
  BY <1>2, NumReqs
<1>5. /\ free \in Seq(E) /\ Len(free) = Cardinality(E) /\ Len(free) \in Nat
      /\ \A i, j \in 1..Len(free) : i < j => free[i] < free[j]
      /\ \A x \in E : \E i \in 1..Len(free) : free[i] = x
  BY <1>3, <1>4, AscendingLists
<1>6. InBatch(g) \subseteq ToSet(sched)
  BY <1>1, <1>2
<1>7. /\ add \in Seq(BatchRid) /\ Len(add) \in Nat
      /\ \A i, j \in 1..Len(add) : i # j => add[i] # add[j]
      /\ \A j \in 1..Len(add) : add[j] \notin InBatch(g)
      /\ InBatch(g) \cup {add[j] : j \in 1..Len(add)} = ToSet(sched)
      /\ Len(sched) = Cardinality(InBatch(g)) + Len(add)
  BY <1>2, <1>6, AddList
<1> HIDE DEF free, add
<1>8. {free[j] : j \in 1..Len(free)} = E
  BY <1>5
<1>9. free \in Seq(Nat) /\ \A j \in 1..Len(free) : free[j] \in Nat
  <2>1. \A j \in 1..Len(free) : free[j] \in Nat
    <3>1. \A j \in 1..Len(free) : free[j] \in E
      BY <1>8
    <3>2. \A x \in E : x \in Nat
      BY <1>3
    <3> QED
      BY <3>1, <3>2
  <2>2. free \in [1..Len(free) -> Nat]
    BY <1>5, <2>1
  <2> QED
    BY <1>5, <2>1, <2>2
<1>10. Len(sched) = L + Len(add) - Len(free) /\ Len(sched) \in Nat /\ Len(sched) <= MaxReqs
  <2>1. Len(sched) \in Nat /\ Len(sched) <= MaxReqs
    BY DEF OutOK
  <2>2. Cardinality(InBatch(g)) = L - Len(free)
    BY <1>4, <1>5
  <2> QED
    BY <1>3, <1>5, <1>7, <2>1, <2>2
<1>11. AddInput(L, free, add, g)
  <2>1. \A i, j \in 1..Len(free) : i # j => free[i] # free[j]
    <3> SUFFICES ASSUME NEW i \in 1..Len(free), NEW j \in 1..Len(free), i # j PROVE free[i] # free[j]
      OBVIOUS
    <3>1. i < j \/ j < i
      BY <1>5
    <3>2. free[i] < free[j] \/ free[j] < free[i]
      BY <1>5, <3>1
    <3> QED
      BY <1>9, <3>2
  <2>2. L + Len(add) - Len(free) <= MaxReqs
    BY <1>10
  <2>3. Batch(g, L, {free[j] : j \in 1..Len(free)})
    BY <1>2, <1>8
  <2> QED
    BY <1>3, <1>7, <1>9, <2>1, <2>2, <2>3 DEF AddInput
<1>12. /\ Batch(full, IF Len(add) <= Len(free) THEN L ELSE L + Len(add) - Len(free),
                {free[j] : j \in (Len(add) + 1)..Len(free)})
       /\ InBatch(full) = ToSet(sched)
       /\ FoldLeft(CpuAddAt, Core(g), Places(add, free)) = Core(full)
  <2>1. AllAdded(L, free, add, g)
    BY <1>11, AddAll
  <2> QED
    BY <1>7, <2>1 DEF AllAdded
<1>13. ASSUME NEW o \in SetToSeqs(S)
       PROVE  /\ _update_states(b, out, o) = IF Len(add) < Len(free) THEN condense(full, e) ELSE full
              /\ update_states(Core(b), out, o)
                   = IF Len(add) < Len(free) THEN cpu_condense(Core(full), e) ELSE Core(full)
  <2>1. FoldLeft(remove_request, b, o) = g /\ FoldLeft(cpu_remove_request, Core(b), o) = Core(g)
    BY <1>1, RemoveAll DEF g
  <2>2. FillOrder([k \in DOMAIN o |-> b.index[o[k]]]) = free
    BY <1>1, FreeList DEF free, E
  <2>3. Core(b).index = b.index /\ Core(g).index = g.index
    BY DEF Core
  <2>4. ToAdd(g, out) = add /\ ToAdd(Core(g), out) = add
    BY <2>3 DEF ToAdd, add
  <2>5. _update_states(b, out, o) = IF Len(add) < Len(free) THEN condense(full, e) ELSE full
    BY <2>1, <2>2, <2>4 DEF _update_states
  <2>6. update_states(Core(b), out, o)
          = IF Len(add) < Len(free) THEN cpu_condense(Core(full), e) ELSE Core(full)
    BY <1>12, <2>1, <2>2, <2>3, <2>4 DEF update_states
  <2> QED
    BY <2>5, <2>6
<1> HIDE DEF full, sched
<1>14. CASE Len(add) < Len(free)
  <2>1. /\ e \in Seq(Nat) /\ Len(e) = Len(free) - Len(add)
        /\ \A j \in 1..Len(e) : e[j] = free[Len(add) + j] /\ Len(add) + j \in 1..Len(free)
    <3> DEFINE m == Len(add)
               n == Len(free)
    <3>1. m \in Nat /\ n \in Nat /\ m < n /\ free \in Seq(Nat)
      BY <1>5, <1>7, <1>9, <1>14
    <3>2. e = SubSeq(free, m + 1, n)
      OBVIOUS
    <3> HIDE DEF m, e
    <3>3. e \in Seq(Nat) /\ Len(e) = n - m
      BY <3>1, <3>2
    <3>4. \A j \in 1..(n - m) : e[j] = free[m + j] /\ m + j \in 1..n
      BY <3>1, <3>2
    <3> QED
      BY <3>3, <3>4 DEF m
  <2> HIDE DEF e
  <2>2. {e[j] : j \in 1..Len(e)} = {free[j] : j \in (Len(add) + 1)..Len(free)}
    <3>1. \A j \in 1..Len(e) : Len(add) + j \in (Len(add) + 1)..Len(free)
      BY <1>5, <1>7, <2>1
    <3>2. \A j \in (Len(add) + 1)..Len(free) : j - Len(add) \in 1..Len(e) /\ Len(add) + (j - Len(add)) = j
      BY <1>5, <1>7, <2>1
    <3>3. \A j \in (Len(add) + 1)..Len(free) : e[j - Len(add)] = free[j]
      BY <2>1, <3>2
    <3>4. \A j \in 1..Len(e) : e[j] = free[Len(add) + j]
      BY <2>1
    <3>5. \A x : x \in {e[j] : j \in 1..Len(e)} => x \in {free[j] : j \in (Len(add) + 1)..Len(free)}
      BY <3>1, <3>4
    <3>6. \A x : x \in {free[j] : j \in (Len(add) + 1)..Len(free)} => x \in {e[j] : j \in 1..Len(e)}
      BY <3>2, <3>3
    <3> QED
      BY <3>5, <3>6
  <2>3. Batch(full, L, {e[j] : j \in 1..Len(e)})
    <3>1. Len(add) <= Len(free)
      BY <1>5, <1>7, <1>14
    <3> QED
      BY <1>12, <2>2, <3>1
  <2>4. \A i, j \in 1..Len(e) : i < j => e[i] < e[j]
    <3> SUFFICES ASSUME NEW i \in 1..Len(e), NEW j \in 1..Len(e), i < j PROVE e[i] < e[j]
      OBVIOUS
    <3>1. Len(add) + i < Len(add) + j
      BY <1>5, <1>7, <2>1
    <3> QED
      BY <1>5, <2>1, <3>1
  <2>5. Condensed(full, e)
    <3>1. CondenseInput(L, e, full)
      BY <1>3, <2>1, <2>3, <2>4 DEF CondenseInput
    <3> QED
      BY <3>1, CondenseAll
  <2>6. num_reqs(full) = Len(sched)
    <3>1. num_reqs(full) = Cardinality(InBatch(full))
      BY <2>3, NumReqs
    <3>2. Cardinality(ToSet(sched)) = Len(sched)
      <4>1. sched \in Seq(BatchRid) /\ \A i, j \in DOMAIN sched : i # j => sched[i] # sched[j]
        BY DEF OutOK, sched
      <4> QED
        BY <4>1, ListSize
    <3> QED
      BY <1>12, <3>1, <3>2
  <2>7. /\ Batch(condense(full, e), Len(sched), {})
        /\ cpu_condense(Core(full), e) = Core(condense(full, e))
    BY <2>5, <2>6 DEF Condensed
  <2> QED
    BY <1>13, <1>14, <2>7 DEF Updated, S, sched
<1>15. CASE ~(Len(add) < Len(free))
  <2>1. (Len(add) + 1)..Len(free) = {}
    BY <1>5, <1>7, <1>15
  <2>2. {free[j] : j \in (Len(add) + 1)..Len(free)} = {}
    BY <2>1
  <2>3. (IF Len(add) <= Len(free) THEN L ELSE L + Len(add) - Len(free)) = Len(sched)
    <3>1. Len(add) <= Len(free) => Len(add) = Len(free)
      BY <1>5, <1>7, <1>15
    <3> QED
      BY <1>3, <1>5, <1>7, <1>10, <3>1
  <2>4. Batch(full, Len(sched), {})
    BY <1>12, <2>2, <2>3
  <2> QED
    BY <1>13, <1>15, <2>4 DEF Updated, S, sched
<1> QED
  BY <1>14, <1>15

-----------------------------------------------------------------------------
(* The engine core and the worker. *)

\* What is under way to the worker.
Output ==
    [out : [scheduled : Seq(BatchRid), finished : SUBSET BatchRid], embeddings : Seq(Entry)]

\* c[k] is the worker's batch after the k oldest outputs under way, whatever
\* the orders in which it iterates; the embeddings of each output are in the
\* order of its batch, and the last batch is the one of the engine core.
Ahead(c) ==
    /\ c[0] = gpu_batch
    /\ \A k \in 0..Len(dag) : Batch(c[k], Len(c[k].req_ids), {})
    /\ \A k \in 1..Len(dag) :
           /\ OutOK(dag[k].out)
           /\ dag[k].embeddings = c[k].req_ids
           /\ \A order \in SetToSeqs(ToRemove(c[k - 1], dag[k].out)) :
                  c[k] = _update_states(c[k - 1], dag[k].out, order)
    /\ cpu_batch = Core(c[Len(dag)])

\* The engine core's batch is the worker's, as it will be when all outputs
\* under way have been executed.
BatchInv ==
    /\ sent \subseteq BatchRid /\ done \subseteq BatchRid
    /\ dag \in Seq(Output) /\ Len(dag) <= MaxInFlight
    /\ \E c : Ahead(c)

\* It holds initially.
LEMMA BatchInvInit == BatchInit => BatchInv
<1> SUFFICES ASSUME BatchInit PROVE BatchInv
  OBVIOUS
<1> DEFINE c == [k \in {0} |-> gpu_batch]
<1>1. MaxReqs \in Nat /\ MaxInFlight \in Nat
  BY BatchAssumption
<1>2. /\ dag = <<>> /\ Len(dag) = 0 /\ sent = {} /\ done = {}
      /\ gpu_batch = [req_ids |-> <<>>, index |-> EmptyIndex, row |-> [i \in Index |-> NoReq]]
      /\ cpu_batch = [req_ids |-> <<>>, index |-> EmptyIndex]
  BY DEF BatchInit
<1>3. Batch(gpu_batch, Len(gpu_batch.req_ids), {})
  <2>1. <<>> \in Seq(Entry) /\ Len(<<>>) = 0 /\ 0 \in 0..MaxReqs
    BY <1>1
  <2>2. EmptyIndex \in [BatchRid -> 0..MaxReqs] /\ \A r \in BatchRid : EmptyIndex[r] = 0
    BY <1>1 DEF EmptyIndex
  <2>3. [i \in Index |-> NoReq] \in [Index -> Entry]
    BY DEF Entry
  <2>4. gpu_batch \in [req_ids : Seq(Entry), index : [BatchRid -> 0..MaxReqs], row : [Index -> Entry]]
    BY <1>2, <2>1, <2>2, <2>3
  <2>5. gpu_batch.req_ids = <<>> /\ gpu_batch.index = EmptyIndex
    BY <1>2
  <2>6. (1..0) \ {} = {} /\ {} \subseteq 1..0
    OBVIOUS
  <2> QED
    BY <2>1, <2>2, <2>4, <2>5, <2>6 DEF Batch
<1>4. c[0] = gpu_batch
  OBVIOUS
<1> HIDE DEF c
<1>5. cpu_batch = Core(gpu_batch)
  BY <1>2 DEF Core
<1>6. Ahead(c)
  BY <1>2, <1>3, <1>4, <1>5 DEF Ahead
<1>7. dag \in Seq(Output) /\ Len(dag) <= MaxInFlight
  BY <1>1, <1>2
<1> QED
  BY <1>2, <1>6, <1>7 DEF BatchInv

\* The worker executes the oldest output.
LEMMA ExecuteKeeps ==
    ASSUME BatchInv, Execute
    PROVE  BatchInv' /\ gpu_batch'.req_ids = Head(dag).embeddings
<1>1. PICK c : Ahead(c)
  BY DEF BatchInv
<1> DEFINE n == Len(dag)
<1>2. /\ dag \in Seq(Output) /\ dag # <<>> /\ n \in Nat /\ n >= 1 /\ Head(dag) = dag[1]
      /\ MaxInFlight \in Nat /\ n <= MaxInFlight
  BY BatchAssumption DEF BatchInv, Execute
<1>3. /\ dag' = Tail(dag) /\ Tail(dag) \in Seq(Output) /\ Len(dag') = n - 1
      /\ \A k \in 1..(n - 1) : dag'[k] = dag[k + 1]
  <2>1. dag' = Tail(dag)
    BY DEF Execute
  <2> QED
    BY <1>2, <2>1
<1>4. cpu_batch' = cpu_batch /\ sent' = sent /\ done' = done
  BY DEF Execute
<1>5. PICK order \in SetToSeqs(ToRemove(gpu_batch, dag[1].out)) :
          gpu_batch' = _update_states(gpu_batch, dag[1].out, order)
  BY <1>2 DEF Execute
<1>6. /\ c[0] = gpu_batch
      /\ \A k \in 0..n : Batch(c[k], Len(c[k].req_ids), {})
      /\ cpu_batch = Core(c[n])
  BY <1>1 DEF Ahead
<1>7. \A k \in 1..n :
           /\ OutOK(dag[k].out)
           /\ dag[k].embeddings = c[k].req_ids
           /\ \A o \in SetToSeqs(ToRemove(c[k - 1], dag[k].out)) :
                  c[k] = _update_states(c[k - 1], dag[k].out, o)
  BY <1>1 DEF Ahead
<1>8. gpu_batch' = c[1] /\ dag[1].embeddings = c[1].req_ids
  <2>1. 1 \in 1..n /\ 1 - 1 = 0
    BY <1>2
  <2>2. dag[1].embeddings = c[1].req_ids
    BY <1>7, <2>1
  <2>3. \A o \in SetToSeqs(ToRemove(c[0], dag[1].out)) : c[1] = _update_states(c[0], dag[1].out, o)
    BY <1>7, <2>1
  <2> QED
    BY <1>5, <1>6, <2>2, <2>3
<1>9. PICK d : \A k \in 0..(n - 1) : d[k] = c[k + 1] /\ k + 1 \in 0..n
  <2>1. \A k \in 0..(n - 1) : [j \in 0..(n - 1) |-> c[j + 1]][k] = c[k + 1] /\ k + 1 \in 0..n
    BY <1>2
  <2> QED
    BY <2>1
<1> HIDE DEF n
<1>10. \A k \in 0..Len(dag') : Batch(d[k], Len(d[k].req_ids), {})
  BY <1>3, <1>6, <1>9
<1>11. ASSUME NEW k \in 1..Len(dag')
       PROVE  /\ OutOK(dag'[k].out)
              /\ dag'[k].embeddings = d[k].req_ids
              /\ \A o \in SetToSeqs(ToRemove(d[k - 1], dag'[k].out)) :
                     d[k] = _update_states(d[k - 1], dag'[k].out, o)
  <2>1. k + 1 \in 1..n /\ dag'[k] = dag[k + 1] /\ d[k] = c[k + 1]
    BY <1>2, <1>3, <1>9
  <2>2. d[k - 1] = c[(k + 1) - 1]
    <3>1. k - 1 \in 0..(n - 1) /\ (k - 1) + 1 = (k + 1) - 1
      BY <1>2, <1>3
    <3> QED
      BY <1>9, <3>1
  <2> DEFINE j == k + 1
  <2>3. j \in 1..n /\ dag'[k] = dag[j] /\ d[k] = c[j] /\ d[k - 1] = c[j - 1]
    BY <2>1, <2>2
  <2> HIDE DEF j
  <2> QED
    BY <1>7, <2>3
<1>12. d[0] = gpu_batch' /\ cpu_batch' = Core(d[Len(dag')])
  <2>1. 0 \in 0..(n - 1) /\ 0 + 1 = 1 /\ n - 1 \in 0..(n - 1) /\ (n - 1) + 1 = n
    BY <1>2
  <2> QED
    BY <1>3, <1>4, <1>6, <1>8, <1>9, <2>1
<1>13. Ahead(d)'
  BY <1>10, <1>11, <1>12 DEF Ahead
<1>14. (\E x : Ahead(x))'
  BY <1>13
<1>15. Len(dag') <= MaxInFlight
  BY <1>2, <1>3
<1>16. sent \subseteq BatchRid /\ done \subseteq BatchRid
  BY DEF BatchInv
<1>17. BatchInv'
  BY <1>3, <1>4, <1>14, <1>15, <1>16 DEF BatchInv
<1> QED
  BY <1>2, <1>8, <1>17

\* A step of the engine core sends an output, or none.
LEMMA EngineKeeps ==
    ASSUME BatchInv, Engine
    PROVE  BatchInv' /\ Len(dag') >= Len(dag) /\ Len(dag) \in Nat
<1>1. PICK c : Ahead(c)
  BY DEF BatchInv
<1>2. PICK finished \in SUBSET (sent \ done) : \E S \in SUBSET (BatchRid \ (done \cup finished)) :
          /\ Cardinality(S) <= MaxReqs
          /\ \E scheduled \in SetToSeqs(S) :
                 NewFirst(scheduled) /\ Schedule(scheduled, finished)
  BY DEF Engine
<1>3. PICK S \in SUBSET (BatchRid \ (done \cup finished)) :
          /\ Cardinality(S) <= MaxReqs
          /\ \E scheduled \in SetToSeqs(S) :
                 NewFirst(scheduled) /\ Schedule(scheduled, finished)
  BY <1>2
<1>4. PICK scheduled \in SetToSeqs(S) : Schedule(scheduled, finished)
  BY <1>3
<1> DEFINE out == [scheduled |-> scheduled, finished |-> finished]
           n == Len(dag)
<1>5. /\ sent \subseteq BatchRid /\ done \subseteq BatchRid /\ dag \in Seq(Output) /\ n \in Nat
      /\ n <= MaxInFlight /\ MaxInFlight \in Nat
  BY BatchAssumption DEF BatchInv
<1>6. gpu_batch' = gpu_batch /\ n < MaxInFlight /\ done' = done \cup finished
  BY <1>4 DEF Schedule
<1>7. done' \subseteq BatchRid /\ finished \subseteq BatchRid
  BY <1>5, <1>6
<1>8. /\ scheduled \in Seq(S) /\ Len(scheduled) = Cardinality(S) /\ DOMAIN scheduled = 1..Len(scheduled)
      /\ \A i, j \in 1..Len(scheduled) : i # j => scheduled[i] # scheduled[j]
      /\ ToSet(scheduled) = S
  <2>1. IsFiniteSet(S)
    BY BatchAssumption, FS_Subset
  <2> QED
    BY <2>1, ListsOf
<1>9. OutOK(out) /\ scheduled \in Seq(BatchRid)
  <2>1. out.scheduled = scheduled /\ out.finished = finished
    OBVIOUS
  <2> HIDE DEF out
  <2>2. scheduled \in Seq(BatchRid)
    <3>1. \A i \in 1..Len(scheduled) : scheduled[i] \in BatchRid
      BY <1>8
    <3> QED
      BY <1>8, <3>1
  <2>3. finished \cap S = {}
    OBVIOUS
  <2> QED
    BY <1>3, <1>8, <2>1, <2>2, <2>3 DEF OutOK
<1>10. CASE scheduled = <<>>
  <2>1. cpu_batch' = cpu_batch /\ sent' = sent /\ dag' = dag
    BY <1>4, <1>10 DEF Schedule
  <2>2. Ahead(c)'
    BY <1>1, <1>6, <2>1 DEF Ahead
  <2>3. (\E x : Ahead(x))'
    BY <2>2
  <2> QED
    BY <1>5, <1>7, <2>1, <2>3 DEF BatchInv
<1>11. CASE scheduled # <<>>
  <2>1. PICK order \in SetToSeqs(ToRemove(cpu_batch, out)) :
            /\ cpu_batch' = update_states(cpu_batch, out, order)
            /\ sent' = sent \cup ToSet(scheduled)
            /\ dag' = Append(dag, [out |-> out, embeddings |-> cpu_batch'.req_ids])
    BY <1>4, <1>11 DEF Schedule
  <2>2. PICK b : b = c[n]
    OBVIOUS
  <2>3. PICK next : next = _update_states(b, out, order)
    OBVIOUS
  <2>4. cpu_batch = Core(b) /\ Batch(b, Len(b.req_ids), {})
    <3>1. n \in 0..n
      BY <1>5
    <3> QED
      BY <1>1, <2>2, <3>1 DEF Ahead
  <2>5. ToRemove(cpu_batch, out) = ToRemove(b, out)
    <3>1. cpu_batch.index = b.index
      BY <2>4 DEF Core
    <3> QED
      BY <3>1 DEF ToRemove
  <2> HIDE DEF out
  <2>6. ASSUME NEW o \in SetToSeqs(ToRemove(b, out)) PROVE Updated(b, out, order, o)
    BY <1>9, <2>1, <2>4, <2>5, UpdateStates
  <2>7. /\ \A o \in SetToSeqs(ToRemove(b, out)) : next = _update_states(b, out, o)
        /\ cpu_batch' = Core(next)
        /\ Batch(next, Len(out.scheduled), {})
    <3>1. Updated(b, out, order, order)
      BY <2>1, <2>5, <2>6
    <3>2. \A o \in SetToSeqs(ToRemove(b, out)) : next = _update_states(b, out, o)
      BY <2>3, <2>6 DEF Updated
    <3> QED
      BY <2>1, <2>3, <2>4, <3>1, <3>2 DEF Updated
  <2>8. Batch(next, Len(next.req_ids), {}) /\ cpu_batch'.req_ids = next.req_ids
        /\ next.req_ids \in Seq(Entry)
    <3>1. Len(next.req_ids) = Len(out.scheduled) /\ next.req_ids \in Seq(Entry)
      BY <2>7 DEF Batch
    <3> QED
      BY <2>7, <3>1 DEF Core
  <2>9. PICK d : /\ \A k \in 0..n : d[k] = c[k]
                 /\ d[n + 1] = next
    <3> DEFINE x == [k \in 0..(n + 1) |-> IF k <= n THEN c[k] ELSE next]
    <3>1. \A k \in 0..n : k \in 0..(n + 1) /\ k <= n
      BY <1>5
    <3>2. n + 1 \in 0..(n + 1) /\ ~(n + 1 <= n)
      BY <1>5
    <3>3. (\A k \in 0..n : x[k] = c[k]) /\ x[n + 1] = next
      BY <3>1, <3>2
    <3> QED
      BY <3>3
  <2> DEFINE item == [out |-> out, embeddings |-> cpu_batch'.req_ids]
  <2>10. item \in Output /\ item.out = out /\ item.embeddings = next.req_ids
    <3>1. out \in [scheduled : Seq(BatchRid), finished : SUBSET BatchRid]
      BY <1>7, <1>9 DEF out
    <3> QED
      BY <2>8, <3>1 DEF Output
  <2>11. /\ dag' \in Seq(Output) /\ Len(dag') = n + 1 /\ dag'[n + 1] = item
         /\ \A k \in 1..n : dag'[k] = dag[k]
    <3> HIDE DEF item
    <3> QED
      BY <1>5, <2>1, <2>10 DEF item
  <2> HIDE DEF item
  <2>12. \A k \in 0..Len(dag') : Batch(d[k], Len(d[k].req_ids), {})
    <3> TAKE k \in 0..Len(dag')
    <3>1. k \in 0..n \/ k = n + 1
      BY <1>5, <2>11
    <3>2. k \in 0..n => Batch(c[k], Len(c[k].req_ids), {})
      BY <1>1 DEF Ahead
    <3> QED
      BY <2>8, <2>9, <3>1, <3>2
  <2>13. ASSUME NEW k \in 1..Len(dag')
         PROVE  /\ OutOK(dag'[k].out)
                /\ dag'[k].embeddings = d[k].req_ids
                /\ \A o \in SetToSeqs(ToRemove(d[k - 1], dag'[k].out)) :
                       d[k] = _update_states(d[k - 1], dag'[k].out, o)
    <3>1. CASE k \in 1..n
      <4>1. d[k] = c[k] /\ d[k - 1] = c[k - 1] /\ dag'[k] = dag[k]
        BY <1>5, <2>9, <2>11, <3>1
      <4>2. /\ OutOK(dag[k].out)
            /\ dag[k].embeddings = c[k].req_ids
            /\ \A o \in SetToSeqs(ToRemove(c[k - 1], dag[k].out)) :
                   c[k] = _update_states(c[k - 1], dag[k].out, o)
        BY <1>1, <3>1 DEF Ahead
      <4> QED
        BY <4>1, <4>2
    <3>2. CASE k = n + 1
      <4>1. k - 1 = n /\ n \in 0..n
        BY <1>5, <3>2
      <4>2. d[k] = next /\ d[k - 1] = b /\ dag'[k].out = out /\ dag'[k].embeddings = next.req_ids
        BY <2>2, <2>9, <2>10, <2>11, <3>2, <4>1
      <4> QED
        BY <1>9, <2>7, <4>2
    <3> QED
      BY <1>5, <2>11, <3>1, <3>2
  <2>14. d[0] = gpu_batch' /\ cpu_batch' = Core(d[Len(dag')])
    <3>1. 0 \in 0..n
      BY <1>5
    <3>2. c[0] = gpu_batch
      BY <1>1 DEF Ahead
    <3> QED
      BY <1>6, <2>7, <2>9, <2>11, <3>1, <3>2
  <2>15. Ahead(d)'
    BY <2>12, <2>13, <2>14 DEF Ahead
  <2>16. (\E x : Ahead(x))'
    BY <2>15
  <2>17. sent' \subseteq BatchRid /\ Len(dag') <= MaxInFlight /\ Len(dag') >= n
    BY <1>5, <1>6, <1>8, <2>1, <2>11
  <2> QED
    BY <1>5, <1>7, <2>11, <2>16, <2>17 DEF BatchInv
<1> QED
  BY <1>10, <1>11

\* Every step keeps the invariant.
LEMMA BatchInvStep == BatchInv /\ [BatchNext]_batchVars => BatchInv'
<1> SUFFICES ASSUME BatchInv, [BatchNext]_batchVars PROVE BatchInv'
  OBVIOUS
<1>1. CASE Engine
  BY <1>1, EngineKeeps
<1>2. CASE Execute
  BY <1>2, ExecuteKeeps
<1>3. CASE UNCHANGED batchVars
  <2>1. /\ cpu_batch' = cpu_batch /\ gpu_batch' = gpu_batch /\ sent' = sent /\ done' = done
        /\ dag' = dag
    BY <1>3 DEF batchVars
  <2>2. PICK c : Ahead(c)
    BY DEF BatchInv
  <2>3. Ahead(c)'
    BY <2>1, <2>2 DEF Ahead
  <2>4. (\E x : Ahead(x))'
    BY <2>3
  <2> QED
    BY <2>1, <2>4 DEF BatchInv
<1> QED
  BY <1>1, <1>2, <1>3 DEF BatchNext

\* The invariant holds throughout.
LEMMA BatchInvariant == BatchSpec => []BatchInv
BY BatchInvInit, BatchInvStep, PTL DEF BatchSpec

\* A batch without holes is dense.
LEMMA DenseBatch ==
    ASSUME NEW b, Batch(b, Len(b.req_ids), {})
    PROVE  /\ Dense(b) /\ Dense(Core(b))
           /\ \A i \in DOMAIN b.req_ids : b.row[i] = b.req_ids[i]
<1> DEFINE L == Len(b.req_ids)
<1>1. b.req_ids \in Seq(Entry) /\ L \in Nat /\ DOMAIN b.req_ids = 1..L
  BY DEF Batch
<1>2. num_reqs(b) = L
  <2>1. num_reqs(b) = L - Cardinality({})
    BY NumReqs
  <2> QED
    BY <1>1, <2>1, FS_EmptySet
<1>3. \A r \in BatchRid : b.index[r] # 0 => b.index[r] <= L /\ b.req_ids[b.index[r]] = r
  <2> TAKE r \in BatchRid
  <2>1. b.index[r] # 0 => b.index[r] \in 1..L /\ b.req_ids[b.index[r]] = r
    BY DEF Batch
  <2> QED
    BY <1>1, <2>1
<1>4. Core(b).index = b.index /\ Core(b).req_ids = b.req_ids /\ num_reqs(Core(b)) = num_reqs(b)
  BY DEF Core, num_reqs
<1>5. \A i \in 1..L : b.row[i] = b.req_ids[i]
  BY DEF Batch
<1> QED
  BY <1>1, <1>2, <1>3, <1>4, <1>5 DEF Dense

\* Through any churn of requests, for any number of them, the batches of the
\* engine core and of the worker stay dense, and the rows of the worker's
\* tensors go with its list: what add, remove and condense do to their indices
\* in update_states and _update_states fits together.
THEOREM BatchKept == BatchSpec => []BatchConsistent
<1>1. BatchInv => BatchConsistent
  <2> SUFFICES ASSUME BatchInv PROVE BatchConsistent
    OBVIOUS
  <2>1. PICK c : Ahead(c)
    BY DEF BatchInv
  <2>2. Len(dag) \in Nat
    BY DEF BatchInv
  <2>3. 0 \in 0..Len(dag) /\ Len(dag) \in 0..Len(dag)
    BY <2>2
  <2>4. /\ gpu_batch = c[0] /\ cpu_batch = Core(c[Len(dag)])
        /\ Batch(c[0], Len(c[0].req_ids), {})
        /\ Batch(c[Len(dag)], Len(c[Len(dag)].req_ids), {})
    BY <2>1, <2>3 DEF Ahead
  <2> QED
    BY <2>4, DenseBatch DEF BatchConsistent
<1> QED
  BY <1>1, BatchInvariant, PTL

\* The batches keep their types and the worker is never more than MaxInFlight
\* outputs behind.
THEOREM BatchTypes == BatchSpec => []BatchTypeOK
<1>1. BatchInv => BatchTypeOK
  <2> SUFFICES ASSUME BatchInv PROVE BatchTypeOK
    OBVIOUS
  <2>1. PICK c : Ahead(c)
    BY DEF BatchInv
  <2>2. Len(dag) \in Nat
    BY DEF BatchInv
  <2>3. 0 \in 0..Len(dag) /\ Len(dag) \in 0..Len(dag)
    BY <2>2
  <2>4. /\ gpu_batch = c[0] /\ cpu_batch = Core(c[Len(dag)])
        /\ Batch(c[0], Len(c[0].req_ids), {})
        /\ Batch(c[Len(dag)], Len(c[Len(dag)].req_ids), {})
    BY <2>1, <2>3 DEF Ahead
  <2>5. /\ gpu_batch.req_ids \in Seq(Entry) /\ gpu_batch.index \in [BatchRid -> 0..MaxReqs]
        /\ gpu_batch.row \in [Index -> Entry]
    BY <2>4 DEF Batch
  <2>6. cpu_batch.req_ids \in Seq(Entry) /\ cpu_batch.index \in [BatchRid -> 0..MaxReqs]
    <3> DEFINE b == c[Len(dag)]
    <3>1. b.req_ids \in Seq(Entry) /\ b.index \in [BatchRid -> 0..MaxReqs]
      BY <2>4 DEF Batch
    <3> HIDE DEF b
    <3> QED
      BY <2>4, <3>1 DEF Core, b
  <2> QED
    BY <2>5, <2>6 DEF BatchTypeOK, BatchInv, Entry
<1> QED
  BY <1>1, BatchInvariant, PTL

\* The embeddings that the engine core has put into an output are in the order
\* of the worker's batch when the worker gets to it, however many outputs were
\* under way then and whatever the orders in which the two processes iterate
\* over their sets of requests.
THEOREM EmbeddingsMatch == BatchSpec => EmbeddingsInOrder
<1>1. BatchInv /\ [BatchNext]_batchVars
        => [dag # <<>> /\ dag' = Tail(dag) => gpu_batch'.req_ids = Head(dag).embeddings]_batchVars
  <2> SUFFICES ASSUME BatchInv, [BatchNext]_batchVars, dag # <<>>, dag' = Tail(dag)
               PROVE  gpu_batch'.req_ids = Head(dag).embeddings
    OBVIOUS
  <2>1. dag \in Seq(Output)
    BY DEF BatchInv
  <2>2. Len(dag') < Len(dag)
    BY <2>1
  <2>3. ~Engine /\ ~UNCHANGED batchVars
    <3>1. ~Engine
      BY <2>1, <2>2, EngineKeeps
    <3>2. Len(dag) \in Nat
      BY <2>1
    <3>3. dag' # dag
      BY <2>2, <3>2
    <3> QED
      BY <3>1, <3>3 DEF batchVars
  <2> QED
    BY <2>3, ExecuteKeeps DEF BatchNext
<1> QED
  BY <1>1, BatchInvariant, PTL DEF BatchSpec, EmbeddingsInOrder
=============================================================================
