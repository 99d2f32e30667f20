----------------------------- MODULE InputBatch -----------------------------
(***************************************************************************)
(* The persistent batch, kept twice.  The engine core orders the input     *)
(* embeddings by CPUInputBatch (spec_parallel/handle_inputbatch.py), a     *)
(* trimmed copy of the InputBatch by which the worker orders everything    *)
(* else (v1/worker/gpu_input_batch.py).  Both are computed from the same   *)
(* scheduler outputs, at different times and in different processes, whose *)
(* sets iterate in different orders.                                       *)
(*                                                                         *)
(* Which requests a step schedules and finishes is arbitrary.  Rows of the *)
(* worker's tensors are abstracted to the request whose state they hold.   *)
(***************************************************************************)
EXTENDS Integers, Sequences, FiniteSets, SequencesExt, FiniteSetsExt

CONSTANTS BatchRid,      \* request ids
          MaxReqs,       \* max_num_reqs
          MaxInFlight    \* scheduler outputs under way to the worker

ASSUME BatchAssumption ==
    IsFiniteSet(BatchRid) /\ MaxReqs \in Nat \ {0} /\ MaxInFlight \in Nat \ {0}

VARIABLES cpu_batch,     \* CPUInputBatch: _req_ids, req_id_to_index
          gpu_batch,     \* InputBatch: the same, and the tensors' rows
          sent,          \* requests the worker has been told of
          done,          \* finished requests
          dag            \* scheduler outputs on their way to the worker

batchVars == <<cpu_batch, gpu_batch, sent, done, dag>>

NoReq == "none"
Index == 1..MaxReqs

EmptyIndex == [r \in BatchRid |-> 0]

BatchInit ==
    /\ cpu_batch = [req_ids |-> <<>>, index |-> EmptyIndex]
    /\ gpu_batch = [req_ids |-> <<>>, index |-> EmptyIndex,
                    row |-> [i \in Index |-> NoReq]]
    /\ sent = {} /\ done = {} /\ dag = <<>>

num_reqs(b) == Cardinality({r \in BatchRid : b.index[r] # 0})

\* The members of a finite set of numbers, ascending.
Ascending(S) ==
    [k \in 1..Cardinality(S) |-> CHOOSE i \in S : Cardinality({j \in S : j <= i}) = k]

-----------------------------------------------------------------------------
(* CPUInputBatch. *)

PutId(ids, i, r) == IF i = Len(ids) + 1 THEN Append(ids, r) ELSE [ids EXCEPT ![i] = r]

\* add_request: i is 0 when the request is to be appended.
cpu_add_request(b, r, i) ==
    LET at == IF i = 0 THEN num_reqs(b) + 1 ELSE i
    IN  [b EXCEPT !.req_ids = PutId(@, at, r), !.index[r] = at]

cpu_remove_request(b, r) ==
    IF b.index[r] = 0 THEN b
    ELSE [b EXCEPT !.req_ids[b.index[r]] = NoReq, !.index[r] = 0]

\* The largest index up to last that is not empty.
LastUsed(last, empty) == Max({i \in 0..last : i \notin empty})

\* One round of condense's loop: the last request moves to the smallest
\* empty index, unless that lies behind it.
cpu_condense_step(a, e) ==
    LET last == LastUsed(a.last, a.empty)
        r == a.b.req_ids[last]
    IN  IF a.stop \/ e >= last THEN [a EXCEPT !.stop = TRUE]
        ELSE [a EXCEPT !.b.req_ids[e] = r, !.b.req_ids[last] = NoReq,
                       !.b.index[r] = e,
                       !.last = last - 1, !.empty = @ \ {e}]

\* empty: the indices left, ascending.
cpu_condense(b, empty) ==
    LET n == num_reqs(b)
        a == FoldLeft(cpu_condense_step,
                      [b |-> b, last |-> n + Len(empty), empty |-> ToSet(empty),
                       stop |-> FALSE],
                      empty)
    IN  IF n = 0 THEN [b EXCEPT !.req_ids = <<>>]
        ELSE [a.b EXCEPT !.req_ids = SubSeq(@, 1, n)]

-----------------------------------------------------------------------------
(* InputBatch. *)

add_request(b, r, i) ==
    LET at == IF i = 0 THEN num_reqs(b) + 1 ELSE i
    IN  [b EXCEPT !.req_ids = PutId(@, at, r), !.index[r] = at, !.row[at] = r]

remove_request(b, r) ==
    IF b.index[r] = 0 THEN b
    ELSE [b EXCEPT !.req_ids[b.index[r]] = NoReq, !.index[r] = 0]

\* Mutant: the row of the request that moves stays behind.
CondenseKeepsRow(a, e) ==
    LET last == LastUsed(a.last, a.empty)
        r == a.b.req_ids[last]
    IN  IF a.stop \/ e >= last THEN [a EXCEPT !.stop = TRUE]
        ELSE [a EXCEPT !.b.req_ids[e] = r, !.b.req_ids[last] = NoReq,
                       !.b.index[r] = e,
                       !.last = last - 1, !.empty = @ \ {e}]

condense_step(a, e) ==
    LET last == LastUsed(a.last, a.empty)
        r == a.b.req_ids[last]
    IN  IF a.stop \/ e >= last THEN [a EXCEPT !.stop = TRUE]
        ELSE [a EXCEPT !.b.req_ids[e] = r, !.b.req_ids[last] = NoReq,
                       !.b.index[r] = e, !.b.row[e] = a.b.row[last],
                       !.last = last - 1, !.empty = @ \ {e}]

condense(b, empty) ==
    LET n == num_reqs(b)
        a == FoldLeft(condense_step,
                      [b |-> b, last |-> n + Len(empty), empty |-> ToSet(empty),
                       stop |-> FALSE],
                      empty)
    IN  IF n = 0 THEN [b EXCEPT !.req_ids = <<>>]
        ELSE [a.b EXCEPT !.req_ids = SubSeq(@, 1, n)]

-----------------------------------------------------------------------------
(* update_states and _update_states. *)

\* The requests of b that a scheduler output removes, finished or unscheduled.
ToRemove(b, out) ==
    {r \in BatchRid : b.index[r] # 0 /\ (r \in out.finished \/ r \notin ToSet(out.scheduled))}

\* Mutant: the indices are filled in the order they were removed.
FillUnsorted(removed) == removed

\* sorted(..., reverse=True), from which pop() takes the smallest.
FillOrder(removed) == Ascending(ToSet(removed))

\* req_ids_to_add: new requests first, then the ones that had dropped out.
ToAdd(b, out) ==
    LET at == Ascending({i \in DOMAIN out.scheduled : b.index[out.scheduled[i]] = 0})
    IN  [k \in DOMAIN at |-> out.scheduled[at[k]]]

\* Each request that is added and the index it gets, 0 behind the last one.
Places(add, free) ==
    [k \in DOMAIN add |-> [r |-> add[k], at |-> IF k <= Len(free) THEN free[k] ELSE 0]]

CpuAddAt(b, p) == cpu_add_request(b, p.r, p.at)
AddAt(b, p) == add_request(b, p.r, p.at)

\* order: how this process iterates over the sets.
update_states(b, out, order) ==
    LET gone == FoldLeft(cpu_remove_request, b, order)
        free == FillOrder([k \in DOMAIN order |-> b.index[order[k]]])
        add == ToAdd(gone, out)
        full == FoldLeft(CpuAddAt, gone, Places(add, free))
    IN  IF Len(add) < Len(free) THEN cpu_condense(full, SubSeq(free, Len(add) + 1, Len(free)))
        ELSE full

_update_states(b, out, order) ==
    LET gone == FoldLeft(remove_request, b, order)
        free == FillOrder([k \in DOMAIN order |-> b.index[order[k]]])
        add == ToAdd(gone, out)
        full == FoldLeft(AddAt, gone, Places(add, free))
    IN  IF Len(add) < Len(free) THEN condense(full, SubSeq(free, Len(add) + 1, Len(free)))
        ELSE full

-----------------------------------------------------------------------------
(* The engine core schedules and the worker executes. *)

\* A step schedules the requests of scheduled, new ones first.  A step that
\* schedules nothing is not sent, and neither are the finished ids it would
\* have carried.
Schedule(scheduled, finished) ==
    LET out == [scheduled |-> scheduled, finished |-> finished]
    IN  /\ Len(dag) < MaxInFlight
        /\ done' = done \cup finished
        /\ IF scheduled = <<>> THEN UNCHANGED <<cpu_batch, sent, dag>>
           ELSE \E order \in SetToSeqs(ToRemove(cpu_batch, out)) :
                  /\ cpu_batch' = update_states(cpu_batch, out, order)
                  /\ sent' = sent \cup ToSet(scheduled)
                  /\ dag' = Append(dag, [out |-> out, embeddings |-> cpu_batch'.req_ids])
        /\ UNCHANGED gpu_batch

NewFirst(s) ==
    \A i, j \in DOMAIN s : i < j /\ s[j] \notin sent => s[i] \notin sent

\* The worker executes the oldest output.
Execute ==
    /\ dag # <<>>
    /\ LET out == Head(dag).out
       IN  \E order \in SetToSeqs(ToRemove(gpu_batch, out)) :
               gpu_batch' = _update_states(gpu_batch, out, order)
    /\ dag' = Tail(dag)
    /\ UNCHANGED <<cpu_batch, sent, done>>

Engine ==
    \E finished \in SUBSET (sent \ done) :
        \E S \in SUBSET (BatchRid \ (done \cup finished)) :
            /\ Cardinality(S) <= MaxReqs
            /\ \E scheduled \in SetToSeqs(S) :
                   NewFirst(scheduled) /\ Schedule(scheduled, finished)

BatchNext == Engine \/ Execute

BatchSpec == BatchInit /\ [][BatchNext]_batchVars
-----------------------------------------------------------------------------
(* Properties. *)

BatchTypeOK ==
    /\ cpu_batch.req_ids \in Seq(BatchRid \cup {NoReq})
    /\ cpu_batch.index \in [BatchRid -> 0..MaxReqs]
    /\ gpu_batch.req_ids \in Seq(BatchRid \cup {NoReq})
    /\ gpu_batch.index \in [BatchRid -> 0..MaxReqs]
    /\ gpu_batch.row \in [Index -> BatchRid \cup {NoReq}]
    /\ sent \subseteq BatchRid /\ done \subseteq BatchRid
    /\ Len(dag) <= MaxInFlight

\* b's indices are 1..num_reqs without a gap and inverse to its list.
Dense(b) ==
    /\ Len(b.req_ids) = num_reqs(b)
    /\ \A r \in BatchRid : b.index[r] # 0 =>
           b.index[r] <= Len(b.req_ids) /\ b.req_ids[b.index[r]] = r

\* Through any churn of requests both batches stay dense, and every row of
\* the worker's tensors holds the state of the request at its index.
BatchConsistent ==
    /\ Dense(cpu_batch) /\ Dense(gpu_batch)
    /\ \A i \in DOMAIN gpu_batch.req_ids : gpu_batch.row[i] = gpu_batch.req_ids[i]

\* The embeddings were assembled in "exactly the order gpu_model_runner
\* expects" when the worker gets to them, several steps later and with its
\* own order of iteration.
EmbeddingsInOrder ==
    [][dag # <<>> /\ dag' = Tail(dag) => gpu_batch'.req_ids = Head(dag).embeddings]_batchVars
=============================================================================
