------------------------------ MODULE KVBlocks ------------------------------
(***************************************************************************)
(* The KV cache manager: the pool of reference-counted blocks with its     *)
(* linked list of free ones (v1/core/block_pool.py, kv_cache_utils.py),    *)
(* the prefix cache, and the allocation of blocks to requests              *)
(* (v1/core/kv_cache_manager.py), as two schedulers use it:                *)
(*                                                                         *)
(*   - upstream, one step at a time: a token is known once it is computed; *)
(*   - Spexis, with several steps in flight: tokens are guessed when their *)
(*     step is scheduled, corrected when it ends, and a request may lose   *)
(*     its blocks while steps of it are in flight.  SPKVCacheManager then  *)
(*     leaves the prefix cache empty (spec_parallel/kv_cache_manager.py).  *)
(*                                                                         *)
(* The order in which requests are scheduled, the lengths of the chunks    *)
(* and the tokens are arbitrary.  A block's slot holds the tokens of which *)
(* its KV entry was computed, and the hash of a block is those tokens:     *)
(* collisions are left out.                                                *)
(***************************************************************************)
EXTENDS Integers, Sequences, FiniteSets, SequencesExt, FiniteSetsExt, TLC

CONSTANTS KVRid,              \* request ids
          KVPrompts,          \* the prompts a request may have
          KVToken,            \* generated tokens
          KVMaxLen,           \* max_model_len
          KVBlockSize,        \* block_size
          NumGpuBlocks,       \* num_gpu_blocks
          PreallocateBlocks,  \* num_preallocate_blocks
          MaxSteps,           \* steps in flight
          MaxPreempt          \* bound on evictions, all requests together

ASSUME KVAssumption ==
    /\ KVMaxLen \in Nat \ {0} /\ KVBlockSize \in Nat \ {0}
    /\ NumGpuBlocks \in Nat \ {0} /\ PreallocateBlocks \in Nat
    /\ MaxSteps \in Nat \ {0} /\ MaxPreempt \in Nat
    /\ IsFiniteSet(KVRid)
    /\ \A s \in KVPrompts : s \in Seq(ToSet(s)) /\ Len(s) \in 1..(KVMaxLen - 1)

VARIABLES spexis,       \* which of the two schedulers, and managers, it is
          pool,         \* BlockPool
          mgr,          \* KVCacheManager: per request
          seqs,         \* per request: tokens, num_computed_tokens, status
          flight,       \* the steps on their way through the workers
          slot_kv,      \* the workers' KV cache: [Block -> [Slot -> tokens]]
          evictions     \* evictions so far

kvVars == <<spexis, pool, mgr, seqs, flight, slot_kv, evictions>>

KVBlock == 0..(NumGpuBlocks - 1)
NoBlock == -1
NoHash == <<>>
Slot == 0..(KVBlockSize - 1)
cdiv(a, b) == (a + b - 1) \div b
MaxBlocksPerReq == cdiv(KVMaxLen, KVBlockSize)

-----------------------------------------------------------------------------
(* FreeKVCacheBlockQueue. *)

remove(p, b) ==
    [p EXCEPT !.next = [x \in KVBlock |->
                  CASE x = b -> NoBlock
                    [] x # b /\ x = p.prev[b] -> p.next[b]
                    [] OTHER -> @[x]],
              !.prev = [x \in KVBlock |->
                  CASE x = b -> NoBlock
                    [] x # b /\ x = p.next[b] -> p.prev[b]
                    [] OTHER -> @[x]],
              !.head = IF @ = b THEN p.next[b] ELSE @,
              !.tail = IF @ = b THEN p.prev[b] ELSE @,
              !.num_free = @ - 1]

append(p, b) ==
    IF p.tail # NoBlock
    THEN [p EXCEPT !.next = [@ EXCEPT ![p.tail] = b, ![b] = NoBlock],
                   !.prev[b] = p.tail, !.tail = b, !.num_free = @ + 1]
    ELSE [p EXCEPT !.ok = @ /\ p.head = NoBlock,
                   !.head = b, !.tail = b, !.next[b] = NoBlock, !.num_free = @ + 1]

\* All blocks in the free list, in the order of their ids.
AllFree ==
    [ref_cnt |-> [b \in KVBlock |-> 0],
     block_hash |-> [b \in KVBlock |-> NoHash],
     prev |-> [b \in KVBlock |-> IF b = 0 THEN NoBlock ELSE b - 1],
     next |-> [b \in KVBlock |-> IF b = NumGpuBlocks - 1 THEN NoBlock ELSE b + 1],
     head |-> 0, tail |-> NumGpuBlocks - 1, num_free |-> NumGpuBlocks,
     cached |-> <<>>, ok |-> TRUE]

\* The free list, from its head.
Follow(s, next) ==
    IF s # <<>> /\ next[Last(s)] # NoBlock THEN Append(s, next[Last(s)]) ELSE s

get_all_free_blocks(p) ==
    FoldLeft(Follow, IF p.head = NoBlock THEN <<>> ELSE <<p.head>>,
             [k \in 1..NumGpuBlocks |-> p.next])

-----------------------------------------------------------------------------
(* BlockPool.  p.cached maps a hash to its blocks, the oldest entry first; *)
(* p.ok records that no assertion has failed.                              *)

\* The pool of a new manager: block 0 is taken out as the null block.
NewPool == remove(AllFree, AllFree.head)

Uncache(cached, h, b) ==
    IF cached[h] = <<b>> THEN [x \in DOMAIN cached \ {h} |-> cached[x]]
    ELSE [cached EXCEPT ![h] = RemoveAt(@, CHOOSE i \in DOMAIN @ : @[i] = b)]

_maybe_evict_cached_block(p, b) ==
    LET h == p.block_hash[b]
    IN  IF h = NoHash \/ h \notin DOMAIN p.cached THEN p
        ELSE [p EXCEPT !.block_hash[b] = NoHash, !.cached = Uncache(@, h, b)]

\* The k-th block of a call.
TakeHead(p, k) ==
    LET b == p.head
        q == _maybe_evict_cached_block(remove(p, b), b)
    IN  [q EXCEPT !.ok = @ /\ p.ref_cnt[b] = 0, !.ref_cnt[b] = @ + 1]

get_new_blocks(p, n) == FoldLeft(TakeHead, p, [k \in 1..n |-> k])

\* Mutant: the request that hits a block is not counted.
TouchWithoutRef(p, b) == IF p.ref_cnt[b] = 0 THEN remove(p, b) ELSE p

TouchBlock(p, b) ==
    [(IF p.ref_cnt[b] = 0 THEN remove(p, b) ELSE p) EXCEPT !.ref_cnt[b] = @ + 1]

touch(p, blocks) == FoldLeft(TouchBlock, p, blocks)

\* Mutant: a block goes to the free list although others still use it.
FreeShared(p, b) == append([p EXCEPT !.ref_cnt[b] = 0], b)

FreeBlock(p, b) ==
    LET q == [p EXCEPT !.ref_cnt[b] = @ - 1]
    IN  IF q.ref_cnt[b] = 0 THEN append(q, b) ELSE q

free_blocks(p, blocks) == FoldLeft(FreeBlock, p, blocks)

\* One full block gets its hash, the tokens up to its end, and an entry.
CacheBlock(p, full) ==
    LET b == full.block
        h == full.hash
        entry == IF h \in DOMAIN p.cached THEN p.cached[h] ELSE <<>>
    IN  [p EXCEPT !.ok = @ /\ p.block_hash[b] = NoHash,
                  !.block_hash[b] = h,
                  !.cached = [x \in DOMAIN @ \cup {h} |-> IF x = h THEN Append(entry, b) ELSE @[x]]]

\* hashes: block_hashes, already extended by the blocks to cache.
cache_full_blocks(p, blocks, hashes, num_cached, num_full) ==
    IF num_cached = num_full THEN p
    ELSE FoldLeft(CacheBlock,
                  [p EXCEPT !.ok = @ /\ (num_cached > 0 =>
                                            p.block_hash[blocks[num_cached]] # NoHash)],
                  [k \in 1..(num_full - num_cached) |->
                      [block |-> blocks[num_cached + k], hash |-> hashes[num_cached + k]]])

-----------------------------------------------------------------------------
(* KVCacheManager. *)

hash_request_tokens(tokens) ==
    [k \in 1..(Len(tokens) \div KVBlockSize) |-> SubSeq(tokens, 1, k * KVBlockSize)]

get_cached_block(p, h) == IF h \in DOMAIN p.cached THEN p.cached[h][1] ELSE NoBlock

\* FullAttentionManager: the cached blocks of a chain, up to the first miss.
find_longest_cache_hit(p, hashes) ==
    LET hit == {k \in 0..Len(hashes) :
                   \A i \in 1..k : get_cached_block(p, hashes[i]) # NoBlock}
    IN  [i \in 1..Max(hit) |-> get_cached_block(p, hashes[i])]

\* The hashes of a request, computed at the first attempt to schedule it.
block_hashes(r) ==
    IF mgr[r].hashes = <<>> THEN hash_request_tokens(seqs[r].tokens) ELSE mgr[r].hashes

\* The last token is computed even if its block is cached.
get_computed_blocks(r) ==
    LET hashes == block_hashes(r)
    IN  find_longest_cache_hit(pool,
            IF Len(hashes) * KVBlockSize = Len(seqs[r].tokens) THEN Front(hashes) ELSE hashes)

\* The number of blocks that allocate_slots adds, 0 or less when none is
\* needed, and whether there are as many.
NumNewBlocks(r, n, computed) ==
    cdiv(seqs[r].num_computed_tokens + Len(computed) * KVBlockSize + n, KVBlockSize)
        - Len(mgr[r].blocks) - Len(computed)

HasRoom(r, n, computed) ==
    NumNewBlocks(r, n, computed) <=
        pool.num_free - Cardinality({i \in DOMAIN computed : pool.ref_cnt[computed[i]] = 0})

\* Mutant: SPKVCacheManager is the upstream manager.
CommitsSpeculated == TRUE

\* Whether full blocks are entered into the prefix cache: SPKVCacheManager
\* replaces cache_full_blocks by a function that does nothing.
Commits == ~spexis

\* The new pool and the new state of the manager, where there is room.
\* known: the entry of r in req_to_block_hashes.
allocate_slots(r, n, computed, known) ==
    LET touched == touch(pool, computed)
        owned == mgr[r].blocks \o computed
        num_new == NumNewBlocks(r, n, computed)
        num_get == IF num_new <= 0 THEN 0
                   ELSE Min({num_new + PreallocateBlocks, touched.num_free,
                             MaxBlocksPerReq - Len(owned)})
        got == get_new_blocks(touched, num_get)
        blocks == owned \o SubSeq(get_all_free_blocks(touched), 1, num_get)
        num_cached == IF mgr[r].num_cached = -1 THEN Len(computed) ELSE mgr[r].num_cached
        num_full == (seqs[r].num_computed_tokens + Len(computed) * KVBlockSize + n)
                        \div KVBlockSize
        hashes == IF ~Commits \/ num_full <= Len(known) THEN known
                  ELSE known \o [k \in 1..(num_full - Len(known)) |->
                                    SubSeq(seqs[r].tokens, 1, (Len(known) + k) * KVBlockSize)]
    IN  [pool |-> [(IF Commits THEN cache_full_blocks(got, blocks, hashes, num_cached, num_full)
                    ELSE got)
                    EXCEPT !.ok = @ /\ (num_new > 0 => num_get > 0)
                                    /\ (Commits => Len(known) >= num_cached)],
         mgr |-> [blocks |-> blocks, hashes |-> hashes, num_cached |-> num_full]]

\* Mutant: the head of a chain is reused first.
FreeHeadFirst(blocks) == blocks

\* free: in reverse order, so that the tail of a chain is reused first.
FreeOrder(blocks) == Reverse(blocks)

free(r) ==
    /\ pool' = free_blocks(pool, FreeOrder(mgr[r].blocks))
    /\ mgr' = [mgr EXCEPT ![r].blocks = <<>>, ![r].num_cached = -1]

-----------------------------------------------------------------------------
(* The schedulers. *)

KVInit ==
    /\ spexis \in BOOLEAN
    /\ pool = NewPool
    /\ mgr = [r \in KVRid |-> [blocks |-> <<>>, hashes |-> <<>>, num_cached |-> -1]]
    /\ \E prompt \in [KVRid -> KVPrompts] :
           seqs = [r \in KVRid |-> [tokens |-> prompt[r], num_prompt_tokens |-> Len(prompt[r]),
                                    num_computed_tokens |-> 0, status |-> "WAITING"]]
    /\ flight = <<>>
    /\ slot_kv = [b \in KVBlock |-> [s \in Slot |-> <<>>]]
    /\ evictions = 0

InFlight(r) == {i \in DOMAIN flight : flight[i].r = r}

\* Spexis guesses the token that a step samples when the step is sent.
Guesses(tokens, to) ==
    IF spexis /\ to = Len(tokens) /\ to < KVMaxLen THEN {Append(tokens, t) : t \in KVToken}
    ELSE {tokens}

\* A step computes the n tokens after from.
Send(r, from, n, alloc) ==
    /\ pool' = alloc.pool
    /\ mgr' = [mgr EXCEPT ![r] = alloc.mgr]
    /\ flight' = Append(flight, [r |-> r, blocks |-> alloc.mgr.blocks, from |-> from,
                                 tokens |-> SubSeq(seqs[r].tokens, 1, from + n), live |-> TRUE])
    /\ \E tokens \in Guesses(seqs[r].tokens, from + n) :
           seqs' = [seqs EXCEPT ![r].tokens = tokens, ![r].num_computed_tokens = from + n,
                                ![r].status = "RUNNING"]
    /\ UNCHANGED <<spexis, slot_kv, evictions>>

\* The waiting loop of schedule().
ScheduleWaiting(r) ==
    /\ seqs[r].status = "WAITING" /\ Len(flight) < MaxSteps
    /\ LET computed == get_computed_blocks(r)
           from == Len(computed) * KVBlockSize
       IN  \E n \in 1..(Len(seqs[r].tokens) - from) :
               IF HasRoom(r, n, computed)
               THEN Send(r, from, n, allocate_slots(r, n, computed, block_hashes(r)))
               ELSE /\ mgr' = [mgr EXCEPT ![r].hashes = block_hashes(r)]
                    /\ UNCHANGED <<spexis, pool, seqs, flight, slot_kv, evictions>>

\* The running loop: a step of r, while upstream only between steps.
ScheduleRunning(r) ==
    /\ seqs[r].status = "RUNNING" /\ Len(flight) < MaxSteps
    /\ spexis \/ InFlight(r) = {}
    /\ \E n \in 1..(Len(seqs[r].tokens) - seqs[r].num_computed_tokens) :
           /\ HasRoom(r, n, <<>>)
           /\ Send(r, seqs[r].num_computed_tokens, n,
                   allocate_slots(r, n, <<>>, mgr[r].hashes))

\* There is no room for a step of r: p, which may be r, loses its blocks.  In
\* Spexis it waits until its steps in flight have ended.
Preempt(r, p) ==
    /\ {r, p} \subseteq {x \in KVRid : seqs[x].status = "RUNNING"}
    /\ spexis \/ InFlight(r) \cup InFlight(p) = {}
    /\ \E n \in 1..(Len(seqs[r].tokens) - seqs[r].num_computed_tokens) : ~HasRoom(r, n, <<>>)
    /\ evictions < MaxPreempt /\ evictions' = evictions + 1
    /\ free(p)
    /\ seqs' = [seqs EXCEPT ![p].num_computed_tokens = IF InFlight(p) = {} THEN 0 ELSE @,
                            ![p].status = IF InFlight(p) = {} THEN "WAITING" ELSE "DRAINING"]
    /\ UNCHANGED <<spexis, flight, slot_kv>>

\* _preempt_request, once nothing of the request is in flight.
Requeue(r) ==
    /\ seqs[r].status = "DRAINING" /\ InFlight(r) = {}
    /\ seqs' = [seqs EXCEPT ![r].num_computed_tokens = 0, ![r].status = "WAITING"]
    /\ UNCHANGED <<spexis, pool, mgr, flight, slot_kv, evictions>>

\* The place of the i-th token of a step.
At(step, i) == <<step.blocks[cdiv(i, KVBlockSize)], (i - 1) % KVBlockSize>>

Computes(step) == (step.from + 1)..Len(step.tokens)

\* Mutant: the workers run the steps in any order.
AnyInFlight == DOMAIN flight

\* The workers run the steps in the order they were sent.
NextInFlight == IF flight = <<>> THEN {} ELSE {1}

\* The other steps of r in flight will not be verified.
Stale(later, r) == [k \in DOMAIN later |-> [later[k] EXCEPT !.live = @ /\ later[k].r # r]]

\* The tokens of r that are known or guessed, the number that is computed, and
\* whether it goes on, after a token of it was verified.
Verified(r, tokens, computed, status) ==
    seqs' = [seqs EXCEPT ![r].tokens = tokens, ![r].num_computed_tokens = computed,
                         ![r].status = status]

\* A step ends.  It has written the KV entries of its tokens.  What it sampled
\* is discarded (a chunk's token), flushed, appended, or the token of the place
\* that was guessed, which it confirms or corrects.  That token may be the one
\* that stops the request, whatever of it is still in flight.
EndStep(i) ==
    LET step == flight[i]
        r == step.r
        n == Len(step.tokens)
        q == seqs[r]
        later == RemoveAt(flight, i)
    IN  /\ slot_kv' = [b \in KVBlock |-> [s \in Slot |->
               IF \E k \in Computes(step) : At(step, k) = <<b, s>>
               THEN SubSeq(step.tokens, 1,
                           CHOOSE k \in Computes(step) : At(step, k) = <<b, s>>)
               ELSE slot_kv[b][s]]]
        /\ \/ /\ IF spexis THEN ~step.live \/ n < q.num_prompt_tokens \/ n + 1 < Len(q.tokens)
                           ELSE n < Len(q.tokens)
              /\ UNCHANGED seqs /\ flight' = later
           \/ \E status \in {q.status, "STOPPED"}, t \in KVToken :
                 /\ n + 1 = KVMaxLen => status = "STOPPED"
                 /\ \/ /\ ~spexis /\ n = Len(q.tokens) /\ n < KVMaxLen
                       /\ Verified(r, Append(q.tokens, t), q.num_computed_tokens, status)
                       /\ flight' = later
                    \/ /\ spexis /\ step.live /\ n \in q.num_prompt_tokens..(Len(q.tokens) - 1)
                       /\ IF t = q.tokens[n + 1]
                          THEN Verified(r, q.tokens, q.num_computed_tokens, status)
                          ELSE Verified(r, Append(step.tokens, t), n, status)
                       /\ flight' = IF t = q.tokens[n + 1] /\ status = q.status THEN later
                                    ELSE Stale(later, r)
        /\ UNCHANGED <<spexis, pool, mgr, evictions>>

Work == \E i \in NextInFlight : EndStep(i)

\* _free_request, in the call that found the stop: nothing comes between.
Finish(r) ==
    /\ seqs[r].status = "STOPPED"
    /\ pool' = free_blocks(pool, FreeOrder(mgr[r].blocks))
    /\ mgr' = [mgr EXCEPT ![r] = [blocks |-> <<>>, hashes |-> <<>>, num_cached |-> -1]]
    /\ seqs' = [seqs EXCEPT ![r].status = "FINISHED"]
    /\ UNCHANGED <<spexis, flight, slot_kv, evictions>>

\* reset_prefix_cache: refused while blocks other than the null block are used.
reset_prefix_cache ==
    /\ NumGpuBlocks - pool.num_free = 1
    /\ pool' = [pool EXCEPT !.cached = <<>>, !.block_hash = [b \in KVBlock |-> NoHash]]
    /\ UNCHANGED <<spexis, mgr, seqs, flight, slot_kv, evictions>>

KVNext ==
    \/ \E r \in KVRid : Finish(r)
    \/ /\ \A r \in KVRid : seqs[r].status # "STOPPED"
       /\ \/ \E r \in KVRid : ScheduleWaiting(r) \/ ScheduleRunning(r) \/ Requeue(r)
          \/ \E r, p \in KVRid : Preempt(r, p)
          \/ Work \/ reset_prefix_cache

KVSpec == KVInit /\ [][KVNext]_kvVars
-----------------------------------------------------------------------------
(* Properties. *)

KVTypeOK ==
    /\ spexis \in BOOLEAN
    /\ pool.ref_cnt \in [KVBlock -> Nat]
    /\ pool.prev \in [KVBlock -> KVBlock \cup {NoBlock}]
    /\ pool.next \in [KVBlock -> KVBlock \cup {NoBlock}]
    /\ {pool.head, pool.tail} \subseteq KVBlock \cup {NoBlock}
    /\ \A r \in KVRid : Len(mgr[r].blocks) <= MaxBlocksPerReq

\* No assertion of the pool or of the manager ever fails.
AssertionsHold == pool.ok

\* The free list, read in either direction, is exactly the blocks no request
\* owns, each once, and a block's reference count is the number of its owners.
PoolExact ==
    LET list == get_all_free_blocks(pool)
        owners(b) == {r \in KVRid : b \in ToSet(mgr[r].blocks)}
    IN  /\ IsInjective(list) /\ Len(list) = pool.num_free
        /\ ToSet(list) = {b \in KVBlock \ {0} : owners(b) = {}}
        /\ \A i \in DOMAIN list :
               pool.prev[list[i]] = IF i = 1 THEN NoBlock ELSE list[i - 1]
        /\ pool.tail = IF list = <<>> THEN NoBlock ELSE Last(list)
        /\ \A b \in KVBlock : pool.ref_cnt[b] = Cardinality(owners(b))

\* "If a block hash is not in the cached_block_hash_to_id, the following block
\* hashes are not computed yet for sure": eviction never breaks a chain.
ChainsUnbroken ==
    \A h \in DOMAIN pool.cached :
        Len(h) > KVBlockSize => SubSeq(h, 1, Len(h) - KVBlockSize) \in DOMAIN pool.cached

\* A step attends over KV entries computed from its own tokens, whoever wrote
\* them: the blocks it shares hold its prefix, and the owner of a block gets
\* the better of the steps of an evicted request that still write to it.
ReadsOwnTokens ==
    [][\A i \in DOMAIN flight : Len(flight') < Len(flight) /\ EndStep(i) =>
           \A k \in DOMAIN flight[i].tokens :
               LET at == At(flight[i], k)
               IN  slot_kv'[at[1]][at[2]] = SubSeq(flight[i].tokens, 1, k)]_kvVars
=============================================================================
