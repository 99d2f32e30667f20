------------------------------ MODULE FrontEnd ------------------------------
(***************************************************************************)
(* The way of a request through the front end (v1/engine/async_llm.py,     *)
(* output_processor.py, core_client.py) to the engine core and back        *)
(* (EngineCoreProc, v1/engine/core.py).                                    *)
(*                                                                         *)
(* A client may disconnect, or its request be stopped by a stop string     *)
(* that only the front end sees, while messages about it are on their way  *)
(* in both directions.  What a disconnect does depends on where generate() *)
(* is suspended: a task that awaits something is cancelled and aborts its  *)
(* request; a generator that has yielded is closed, and nobody is told.    *)
(*                                                                         *)
(* The scheduler behind the engine core is abstracted *)
(* to the state of each request; its finish_requests is modelled as it is, *)
(* both the upstream one and that of Spexis.  An exception in the engine   *)
(* core ends everything: the parent is sent SIGUSR1 and kills its process  *)
(* tree.                                                                   *)
(*                                                                         *)
(* Sockets and thread queues in a row are one queue.  The k-th token of a  *)
(* request is k.                                                           *)
(***************************************************************************)
EXTENDS Integers, Sequences

CONSTANTS FERid,          \* request ids, each used once
          OutputKinds,    \* the output_kinds a request may ask for, per request
          StopStrings,    \* requests with stop strings
          Sampled,        \* requests with a temperature other than 0
          Cores,          \* the engine cores considered: Spexis (TRUE) or not
          MaxOut,         \* tokens of a request
          MaxEvict        \* bound on evictions, all requests together

ASSUME FEAssumption ==
    /\ OutputKinds \in [FERid -> SUBSET {"DELTA", "CUMULATIVE", "FINAL_ONLY"}]
    /\ StopStrings \subseteq FERid /\ Sampled \subseteq FERid
    /\ Cores \subseteq BOOLEAN
    /\ MaxOut \in Nat \ {0} /\ MaxEvict \in Nat

VARIABLES
    client,          \* the generate() task of each request
    received,        \* tokens it has been given
    request_states,  \* OutputProcessor: requests it knows
    detokenized,     \* tokens it has detokenized, per request
    collector,       \* the request's RequestOutputCollector
    input_queue,     \* ADD and ABORT, to the engine core
    output_queue,    \* EngineCoreOutput, to the output handler
    sched,           \* the scheduler: state of each request
    made,            \* tokens the engine core has produced, per request
    evicted,         \* evictions so far
    output_kind,     \* RequestOutputKind of each request
    spexis_core,     \* which scheduler it is
    alive            \* the processes run

feVars == <<client, received, request_states, detokenized, collector, input_queue,
            output_queue, sched, made, evicted, output_kind, spexis_core, alive>>
frontVars == <<client, received, request_states, detokenized, collector>>
coreVars == <<sched, made, evicted>>
setting == <<output_kind, spexis_core>>

NoOutput == [token_ids |-> <<>>, finished |-> FALSE]
Iota(n) == [k \in 1..n |-> k]

FEInit ==
    /\ client = [r \in FERid |-> "new"]
    /\ received = [r \in FERid |-> <<>>]
    /\ request_states = {}
    /\ detokenized = [r \in FERid |-> 0]
    /\ collector = [r \in FERid |-> NoOutput]
    /\ input_queue = <<>> /\ output_queue = <<>>
    /\ sched = [r \in FERid |-> "unknown"]
    /\ made = [r \in FERid |-> 0]
    /\ evicted = 0
    /\ output_kind \in {f \in [FERid -> UNION {OutputKinds[r] : r \in FERid}] :
                           \A r \in FERid : f[r] \in OutputKinds[r]}
    /\ spexis_core \in Cores
    /\ alive = TRUE

-----------------------------------------------------------------------------
(* AsyncLLM and OutputProcessor, in the front end's event loop. *)

\* generate(), up to the await of add_request_async.
add_request(r) ==
    /\ client[r] = "new"
    /\ client' = [client EXCEPT ![r] = "adding"]
    /\ request_states' = request_states \cup {r}
    /\ UNCHANGED <<received, detokenized, collector, input_queue, output_queue, coreVars,
                   setting, alive>>

add_request_async(r) ==
    /\ client[r] = "adding"
    /\ client' = [client EXCEPT ![r] = "streaming"]
    /\ input_queue' = Append(input_queue, [type |-> "ADD", r |-> r])
    /\ UNCHANGED <<received, request_states, detokenized, collector, output_queue, coreVars,
                   setting, alive>>

\* RequestOutputCollector.get: the task gets what has collected and yields it.
get(r) ==
    /\ client[r] = "streaming" /\ collector[r] # NoOutput
    /\ collector' = [collector EXCEPT ![r] = NoOutput]
    /\ received' = [received EXCEPT ![r] = IF output_kind[r] = "DELTA"
                                           THEN @ \o collector[r].token_ids
                                           ELSE collector[r].token_ids]
    /\ client' = [client EXCEPT ![r] = IF collector[r].finished THEN "last" ELSE "yielding"]
    /\ UNCHANGED <<request_states, detokenized, input_queue, output_queue, coreVars,
                   setting, alive>>

\* The API server asks for the next output: generate() goes on after yield.
resume(r) ==
    /\ client[r] \in {"yielding", "last"}
    /\ client' = [client EXCEPT ![r] = IF @ = "last" THEN "done" ELSE "streaming"]
    /\ UNCHANGED <<received, request_states, detokenized, collector, input_queue,
                   output_queue, coreVars, setting, alive>>

\* The client disconnects before that: GeneratorExit, which generate() does not
\* catch.
close(r) ==
    /\ client[r] \in {"yielding", "last"}
    /\ client' = [client EXCEPT ![r] = "closed"]
    /\ UNCHANGED <<received, request_states, detokenized, collector, input_queue,
                   output_queue, coreVars, setting, alive>>

\* Mutant: the engine core is not told.
AbortFrontOnly(r) == input_queue

\* abort_requests_async
SendAbort(r) == Append(input_queue, [type |-> "ABORT", r |-> r])

\* The client disconnects while the task awaits something: CancelledError.
abort(r) ==
    /\ client[r] \in {"adding", "streaming"}
    /\ client' = [client EXCEPT ![r] = "cancelled"]
    /\ collector' = [collector EXCEPT ![r] = NoOutput]
    /\ request_states' = request_states \ {r}
    /\ input_queue' = IF r \in request_states THEN SendAbort(r) ELSE input_queue
    /\ UNCHANGED <<received, detokenized, output_queue, coreVars, setting, alive>>

\* make_request_output: the output for n tokens, the last of them new.
make_request_output(r, n, finished) ==
    IF ~finished /\ output_kind[r] = "FINAL_ONLY" THEN NoOutput
    ELSE [token_ids |-> IF output_kind[r] = "DELTA" THEN <<n>> ELSE Iota(n),
          finished |-> finished]

\* Mutant: deltas replace each other too.
PutLatest(r, output) == IF output = NoOutput THEN collector[r] ELSE output

\* RequestOutputCollector.put: deltas are merged if the task is behind.
put(r, output) ==
    LET old == collector[r]
    IN  IF output = NoOutput THEN old
        ELSE IF old = NoOutput \/ output_kind[r] # "DELTA" THEN output
        ELSE [token_ids |-> old.token_ids \o output.token_ids,
              finished |-> old.finished \/ output.finished]

\* Mutant: a stop string does not finish the output.
FinishedByCore(o, stopped) == o.finished

FinishReason(o, stopped) == o.finished \/ stopped

\* One output of the engine core in _run_output_handler, the event loop being
\* free to run other tasks after each.
process_outputs ==
    /\ output_queue # <<>> /\ output_queue' = Tail(output_queue)
    /\ LET o == Head(output_queue)
           r == o.r
           n == detokenized[r] + 1
       IN  \E stopped \in {FALSE} \cup (IF r \in StopStrings THEN {TRUE} ELSE {}) :
             IF r \notin request_states
             THEN UNCHANGED <<request_states, detokenized, collector, input_queue>>
             ELSE /\ detokenized' = [detokenized EXCEPT ![r] = n]
                  /\ collector' = [collector EXCEPT ![r] =
                         put(r, make_request_output(r, n, FinishReason(o, stopped)))]
                  /\ request_states' = IF o.finished \/ stopped THEN request_states \ {r}
                                       ELSE request_states
                  /\ input_queue' = IF stopped /\ ~o.finished THEN SendAbort(r) ELSE input_queue
    /\ UNCHANGED <<client, received, coreVars, setting, alive>>

-----------------------------------------------------------------------------
(* EngineCoreProc. *)

Move(r, from, to) == sched[r] = from /\ sched' = [sched EXCEPT ![r] = to]

\* finish_requests: the state of r afterwards.  Spexis leaves a running
\* request in running_scheduled, where the next steps find it.
finish_requests(r) ==
    CASE sched[r] = "WAITING" -> "finished"
      [] sched[r] = "RUNNING" -> IF spexis_core THEN "ghost" ELSE "finished"
      [] OTHER -> sched[r]

\* waiting.remove fails for a request that is in to_be_preempted, and
\* add_request for one that is not decoded greedily.
Raises(msg) ==
    /\ spexis_core
    /\ \/ msg.type = "ADD" /\ msg.r \in Sampled
       \/ msg.type = "ABORT" /\ sched[msg.r] = "PREEMPTED"

_handle_client_request ==
    /\ input_queue # <<>> /\ input_queue' = Tail(input_queue)
    /\ LET msg == Head(input_queue)
       IN  /\ alive' = ~Raises(msg)
           /\ sched' = [sched EXCEPT ![msg.r] =
                            IF Raises(msg) THEN @
                            ELSE IF msg.type = "ADD" THEN "WAITING"
                            ELSE finish_requests(msg.r)]
    /\ UNCHANGED <<frontVars, output_queue, made, evicted, setting>>

\* What schedule() may do to a request.
Admit(r) ==
    /\ Move(r, "WAITING", "RUNNING")
    /\ UNCHANGED <<frontVars, input_queue, output_queue, made, evicted, setting, alive>>

Evict(r) ==
    /\ evicted < MaxEvict /\ evicted' = evicted + 1
    /\ Move(r, "RUNNING", IF spexis_core THEN "PREEMPTED" ELSE "WAITING")
    /\ UNCHANGED <<frontVars, input_queue, output_queue, made, setting, alive>>

Requeue(r) ==
    /\ Move(r, "PREEMPTED", "WAITING")
    /\ UNCHANGED <<frontVars, input_queue, output_queue, made, evicted, setting, alive>>

\* A request that requests no longer holds is looked up there when it is
\* scheduled: KeyError.
ScheduleGhost(r) ==
    /\ sched[r] = "ghost"
    /\ alive' = FALSE
    /\ UNCHANGED <<frontVars, input_queue, output_queue, coreVars, setting>>

\* A token is verified and goes out, with the reason if it is the last one.
\* Steps of a request that is to be preempted still end.
Emit(r) ==
    /\ sched[r] \in {"RUNNING", "PREEMPTED"} /\ made[r] < MaxOut
    /\ made' = [made EXCEPT ![r] = @ + 1]
    /\ \E finished \in BOOLEAN :
           /\ made[r] + 1 = MaxOut => finished
           /\ output_queue' = Append(output_queue, [r |-> r, finished |-> finished])
           /\ sched' = [sched EXCEPT ![r] = IF finished THEN "finished" ELSE @]
    /\ UNCHANGED <<frontVars, input_queue, evicted, setting, alive>>

\* The same for a request that was aborted: its reason is the abort.  When it
\* stops it is freed once more: KeyError.
EmitGhost(r) ==
    /\ sched[r] = "ghost" /\ made[r] < MaxOut
    /\ made' = [made EXCEPT ![r] = @ + 1]
    /\ IF made[r] + 1 < MaxOut
       THEN output_queue' = Append(output_queue, [r |-> r, finished |-> TRUE]) /\ UNCHANGED alive
       ELSE alive' = FALSE /\ UNCHANGED output_queue
    /\ UNCHANGED <<frontVars, input_queue, sched, evicted, setting>>

ClientStep(r) == add_request_async(r) \/ get(r) \/ resume(r)
CoreStep(r) == Admit(r) \/ Requeue(r) \/ Emit(r) \/ EmitGhost(r) \/ ScheduleGhost(r)

\* The generate() task of r has returned or has been ended by a disconnect.
Ended(r) == client[r] \in {"done", "cancelled", "closed"}

\* Nothing is left to do, or nobody is left to do it.
FEStopped ==
    /\ ~alive \/ /\ input_queue = <<>> /\ output_queue = <<>>
                 /\ \A r \in FERid : Ended(r) /\ sched[r] \in {"unknown", "finished"}
    /\ UNCHANGED feVars

FENext ==
    \/ /\ alive
       /\ \/ process_outputs \/ _handle_client_request
          \/ \E r \in FERid : \/ add_request(r) \/ ClientStep(r) \/ abort(r) \/ close(r)
                              \/ CoreStep(r) \/ Evict(r)
    \/ FEStopped

FESpec == FEInit /\ [][FENext]_feVars
-----------------------------------------------------------------------------
(* Properties. *)

FETypeOK ==
    /\ client \in [FERid -> {"new", "adding", "streaming", "yielding", "last",
                             "done", "cancelled", "closed"}]
    /\ received \in [FERid -> Seq(1..MaxOut)]
    /\ request_states \subseteq FERid
    /\ detokenized \in [FERid -> 0..MaxOut] /\ made \in [FERid -> 0..MaxOut]
    /\ sched \in [FERid -> {"unknown", "WAITING", "RUNNING", "PREEMPTED", "ghost", "finished"}]
    /\ alive \in BOOLEAN

\* However far the task is behind, a stream of deltas loses no token, has none
\* twice and none out of order, and a finished stream of any kind has every
\* token up to the one that finished it.
StreamIntact ==
    \A r \in FERid :
        /\ client[r] \in {"streaming", "yielding"} /\ output_kind[r] = "DELTA" =>
               Iota(detokenized[r]) = received[r] \o collector[r].token_ids
        /\ client[r] \in {"last", "done"} => received[r] = Iota(detokenized[r])

\* Unless the engine core fails, every request whose client stays gets its last
\* output, stop strings and evictions included.
EveryClientAnswered ==
    \A r \in FERid : client[r] = "streaming" ~> ~alive \/ Ended(r)

\* The engine core still has r, or will have it.
Queued(type, r) == {i \in DOMAIN input_queue : input_queue[i] = [type |-> type, r |-> r]}
Held(r) == sched[r] \in {"WAITING", "RUNNING", "PREEMPTED"} \/ Queued("ADD", r) # {}

\* A request whose task has returned or was cancelled is no longer in
\* request_states; and one that is not there any more, but is still held by
\* the engine core, has an ABORT on its way, behind its ADD.  In whatever order
\* abort, stop string and last output crossed, no request is computed for
\* nobody until it ends by itself, unless its generator was closed.
NoneOrphaned ==
    \A r \in FERid :
        /\ client[r] \in {"done", "cancelled"} => r \notin request_states
        /\ alive /\ client[r] # "new" /\ r \notin request_states /\ Held(r) =>
               \E i \in Queued("ABORT", r) : \A j \in Queued("ADD", r) : j < i

\* "The API server can abort a request when the client disconnects": doing so
\* does not bring the engine down.
EngineSurvives == alive
=============================================================================
