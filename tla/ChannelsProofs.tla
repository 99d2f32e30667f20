--------------------------- MODULE ChannelsProofs ---------------------------
(***************************************************************************)
(* Proofs about the two ends of the engine core: its channel to the worker *)
(* (ShmChannel) and its queues to the front end (FrontEnd).                *)
(*                                                                         *)
(* The flag protocol of ShmChannel is correct for all sizes and messages.  *)
(*                                                                         *)
(* In FrontEnd, what a client has been given and what waits for it in its  *)
(* collector are together what has been detokenized for it, as long as it  *)
(* streams; from the output that finishes the stream on, the output        *)
(* processor does not know the request any more, so that outputs still on  *)
(* their way add nothing to it.                                            *)
(*                                                                         *)
(* As to what is left behind: the messages about each request (Messages)   *)
(* are one ADD at most, and an ABORT behind it whenever the engine core    *)
(* still has a request that the front end has given up.                    *)
(***************************************************************************)
EXTENDS MCChannels, FiniteSets, FiniteSetTheorems, TLAPS

-----------------------------------------------------------------------------
(* The shared-memory channel. *)

\* The worker owns the segment from the moment it holds an output until it
\* sets the flag, the engine core from then on until it clears the flag.
WriterOwns == writer \in {"wait", "payload", "flag", "failed"}

\* The batch launched by this engine step is in exactly one place: on its
\* way, in the worker, or in the segment.
OnePlace ==
    \/ reader = "step" /\ ~batch /\ writer = "idle" /\ flag = 0 /\ got = sent
    \/ reader = "spin" /\ batch /\ writer = "idle" /\ flag = 0 /\ got = sent
    \/ reader = "spin" /\ ~batch /\ WriterOwns /\ flag = 0 /\ sent = Append(got, data)
    \/ /\ reader \in {"spin", "len", "copy"} /\ ~batch /\ writer = "idle" /\ flag = 1
       /\ sent = Append(got, data)

\* The first k cells of the payload are those of the worker's output.
Holds(k) ==
    /\ k <= Len(data) /\ k <= PayloadSize
    /\ \A i \in 1..k : payload[i] = data[i]

Progress ==
    /\ WriterOwns \/ flag = 1 => data \in Message
    /\ writer = "payload" => Holds(written)
    /\ writer = "flag" \/ flag = 1 => len = Len(data) /\ Holds(Len(data))
    /\ reader = "copy" =>
          /\ data_len = Len(data) /\ Len(copied) <= Len(data)
          /\ \A i \in 1..Len(copied) : copied[i] = data[i]

IInv == TypeOK /\ OnePlace /\ Progress

LEMMA PayloadSizeType == PayloadSize \in Nat \ {0}
BY SizesAssumption DEF PayloadSize

LEMMA InitIInv == Init => IInv
<1> SUFFICES ASSUME Init PROVE IInv
    OBVIOUS
<1>0. batch \in BOOLEAN
    BY Zenon DEF Init
<1>1. TypeOK
    BY <1>0 DEF Init, TypeOK
<1>2. ~batch
    BY DEF Init
<1>3. OnePlace
    BY <1>2 DEF Init, OnePlace
<1>4. Progress
    BY DEF Init, Progress, WriterOwns
<1> QED BY <1>1, <1>3, <1>4 DEF IInv

\* Two sequences over a set are equal when they agree in length and elements.
LEMMA SeqEqual ==
    ASSUME NEW S, NEW s \in Seq(S), NEW t \in Seq(S), Len(s) = Len(t),
           \A i \in 1..Len(s) : s[i] = t[i]
    PROVE  s = t
OBVIOUS

LEMMA NextIInv == IInv /\ [Next]_vars => IInv'
<1> SUFFICES ASSUME IInv, [Next]_vars PROVE IInv'
    OBVIOUS
<1> USE PayloadSizeType DEF IInv
<1>1. CASE Launch
    BY <1>1 DEF Launch, TypeOK, OnePlace, Progress, Holds, WriterOwns, segment, writerVars
<1>2. CASE SpinReader
    BY <1>2 DEF SpinReader, TypeOK, OnePlace, Progress, Holds, WriterOwns, segment, writerVars
<1>3. CASE ReadLen
    BY <1>3 DEF ReadLen, TypeOK, OnePlace, Progress, Holds, WriterOwns, segment, writerVars
<1>4. CASE CopyCell
  <2>1. /\ Len(copied) + 1 \in 1..Len(data) /\ Len(copied) + 1 \in 1..PayloadSize
        /\ payload[Len(copied) + 1] = data[Len(copied) + 1]
        /\ payload[Len(copied) + 1] \in Cell
    BY <1>4 DEF CopyCell, TypeOK, OnePlace, Progress, Holds, WriterOwns
  <2>2. copied' \in Seq(Cell) /\ Len(copied') = Len(copied) + 1
    BY <1>4, <2>1 DEF CopyCell, TypeOK
  <2>3. \A i \in 1..Len(copied') : copied'[i] = data[i]
    BY <1>4, <2>1, <2>2 DEF CopyCell, TypeOK, Progress
  <2> QED
    BY <1>4, <2>1, <2>2, <2>3
    DEF CopyCell, TypeOK, OnePlace, Progress, Holds, WriterOwns, segment, writerVars
<1>5. CASE Return
  <2>1. flag = 1 /\ data \in Message /\ sent = Append(got, data) /\ ~batch /\ writer = "idle"
    BY <1>5 DEF Return, OnePlace, Progress, WriterOwns
  <2>2. data \in Seq(Cell) /\ copied \in Seq(Cell) /\ Len(copied) = Len(data)
    BY <1>5 DEF Return, TypeOK, Progress
  <2>3. copied = data
    BY <1>5, <2>2, SeqEqual DEF Return, Progress
  <2> QED
    BY <1>5, <2>1, <2>3
    DEF Return, TypeOK, OnePlace, Progress, Holds, WriterOwns, writerVars
<1>6. ASSUME NEW m \in Message, Compute(m) PROVE IInv'
  <2>1. m \in Seq(Cell)
    BY MessageAssumption
  <2>2. ~batch' /\ batch' \in BOOLEAN
    BY <1>6, Zenon DEF Compute
  <2> QED
    BY <1>6, <2>1, <2>2
    DEF Compute, TypeOK, OnePlace, Progress, Holds, WriterOwns, segment, readerVars
<1>7. CASE SpinWriter
    BY <1>7 DEF SpinWriter, TypeOK, OnePlace, Progress, Holds, WriterOwns, segment, readerVars
<1>8. CASE WriteCell
  <2>1. writer = "payload" /\ flag = 0 /\ reader = "spin" /\ data \in Seq(Cell)
    BY <1>8 DEF WriteCell, TypeOK, OnePlace, WriterOwns
  <2>2. CASE Len(data) > PayloadSize
    BY <1>8, <2>1, <2>2
    DEF WriteCell, TypeOK, OnePlace, Progress, Holds, WriterOwns, readerVars
  <2>3. CASE ~(Len(data) > PayloadSize)
    <3>1. written + 1 \in 1..Len(data) /\ written + 1 \in 1..PayloadSize
      BY <1>8, <2>1, <2>3 DEF WriteCell, TypeOK
    <3>2. /\ payload' = [payload EXCEPT ![written + 1] = data[written + 1]]
          /\ written' = written + 1 /\ writer' = writer
      BY <1>8, <2>3 DEF WriteCell
    <3>3. payload' \in [1..PayloadSize -> Cell]
      BY <2>1, <3>1, <3>2 DEF TypeOK
    <3>4. Holds(written)'
      <4>1. Holds(written) /\ data' = data /\ payload \in [1..PayloadSize -> Cell]
        BY <1>8, <2>1 DEF WriteCell, TypeOK, Progress
      <4>2. written' <= Len(data') /\ written' <= PayloadSize /\ written \in Nat
        BY <3>1, <3>2, <4>1 DEF TypeOK
      <4>3. ASSUME NEW i \in 1..written' PROVE payload'[i] = data'[i]
        <5>1. CASE i = written + 1
          BY <3>1, <3>2, <4>1, <5>1
        <5>2. CASE i # written + 1
          <6>1. i \in 1..written /\ i \in 1..PayloadSize
            BY <3>2, <4>2, <5>2, PayloadSizeType
          <6> QED
            BY <3>2, <4>1, <5>2, <6>1 DEF Holds
        <5> QED
          BY <5>1, <5>2
      <4> QED
        BY <4>2, <4>3 DEF Holds
    <3> QED
      BY <1>8, <2>1, <3>2, <3>3, <3>4
      DEF WriteCell, TypeOK, OnePlace, Progress, WriterOwns, readerVars
  <2> QED BY <2>2, <2>3
<1>9. CASE WriteLen
    BY <1>9 DEF WriteLen, TypeOK, OnePlace, Progress, Holds, WriterOwns, readerVars
<1>10. CASE SetFlag
    BY <1>10 DEF SetFlag, TypeOK, OnePlace, Progress, Holds, WriterOwns, readerVars
<1>11. CASE UNCHANGED vars
    BY <1>11 DEF TypeOK, OnePlace, Progress, Holds, WriterOwns, vars, segment,
                 writerVars, readerVars
<1> QED
    BY <1>1, <1>2, <1>3, <1>4, <1>5, <1>6, <1>7, <1>8, <1>9, <1>10, <1>11
    DEF Next, ReaderStep, WriterStep

LEMMA Inductive == Spec => []IInv
<1>1. Init => IInv
  BY InitIInv
<1>2. IInv /\ [Next]_vars => IInv'
  BY NextIInv
<1> QED
  BY <1>1, <1>2, PTL DEF Spec

\* The types of the segment and of the two processes, for the spin loops and
\* the copies of read_result_from_shm and execute_spec_parallel_model_ray.
THEOREM TypeCorrect == Spec => []TypeOK
<1>1. IInv => TypeOK
  BY DEF IInv
<1> QED
  BY <1>1, Inductive, PTL

\* Worker and engine core are never both inside the segment, whatever its
\* size and the messages: the flag alone keeps them apart.
THEOREM Mutex == Spec => []MutualExclusion
<1>1. IInv => MutualExclusion
  BY DEF IInv, OnePlace, WriterOwns, MutualExclusion
<1> QED
  BY <1>1, Inductive, PTL

\* Every call of read_result_from_shm returns the output of the batch its
\* engine step launched, whole.
THEOREM OwnOutput == Spec => []EachBatchItsOutput
<1>1. IInv => EachBatchItsOutput
  BY DEF IInv, OnePlace, EachBatchItsOutput
<1> QED
  BY <1>1, Inductive, PTL

-----------------------------------------------------------------------------
(* The front end. *)

EngineCoreRequest == [type : {"ADD", "ABORT"}, r : FERid]
EngineCoreOutput == [r : FERid, finished : BOOLEAN]
RequestOutput == [token_ids : Seq(1..MaxOut), finished : BOOLEAN]

SchedState == {"unknown", "WAITING", "RUNNING", "PREEMPTED", "ghost", "finished"}

\* The outputs in q that are about request r.
About(q, r) == {i \in DOMAIN q : q[i].r = r}
Count(q, r) == Cardinality(About(q, r))

FEMoreTypes ==
    /\ input_queue \in Seq(EngineCoreRequest)
    /\ output_queue \in Seq(EngineCoreOutput)
    /\ collector \in [FERid -> RequestOutput]
    /\ output_kind \in [FERid -> {"DELTA", "CUMULATIVE", "FINAL_ONLY"}]

\* No token is detokenized that the engine core has not made.
TokensOnTheirWay ==
    \A r \in FERid : detokenized[r] + Count(output_queue, r) <= made[r]

\* What the client of r has and will get.
Stream(r) ==
    /\ client[r] = "new" => r \notin request_states /\ collector[r] = NoOutput
    /\ collector[r].finished => r \notin request_states
    /\ client[r] \in {"last", "done", "cancelled"} => r \notin request_states
    /\ client[r] \in {"last", "done"} => received[r] = Iota(detokenized[r])
    /\ client[r] \in {"new", "adding", "streaming", "yielding"} =>
          IF output_kind[r] = "DELTA"
          THEN Iota(detokenized[r]) = received[r] \o collector[r].token_ids
          ELSE collector[r].finished => collector[r].token_ids = Iota(detokenized[r])

Streams == \A r \in FERid : Stream(r)

FEIInv == FETypeOK /\ FEMoreTypes /\ TokensOnTheirWay /\ Streams

-----------------------------------------------------------------------------
(* Sequences and queues. *)

\* The first n tokens.
LEMMA IotaType ==
    ASSUME NEW n \in 0..MaxOut, MaxOut \in Nat
    PROVE  /\ Iota(n) \in Seq(1..MaxOut) /\ Len(Iota(n)) = n
           /\ \A k \in 1..n : Iota(n)[k] = k
  BY DEF Iota

\* There are no tokens at first.
LEMMA IotaZero == Iota(0) = <<>>
  BY DEF Iota

\* The next token follows the tokens before it.
LEMMA IotaNext ==
    ASSUME NEW n \in 0..(MaxOut - 1), MaxOut \in Nat
    PROVE  Iota(n) \o <<n + 1>> = Iota(n + 1)
<1>1. /\ Iota(n) \in Seq(1..MaxOut) /\ Len(Iota(n)) = n
      /\ \A k \in 1..n : Iota(n)[k] = k
  BY IotaType
<1>2. /\ Iota(n + 1) \in Seq(1..MaxOut) /\ Len(Iota(n + 1)) = n + 1
      /\ \A k \in 1..(n + 1) : Iota(n + 1)[k] = k
  BY IotaType
<1> DEFINE s == Iota(n) \o <<n + 1>>
<1>3. /\ s \in Seq(1..MaxOut) /\ Len(s) = n + 1
      /\ \A k \in 1..(n + 1) : s[k] = k
  BY <1>1
<1> HIDE DEF s
<1>4. s = Iota(n + 1)
  BY <1>2, <1>3
<1> QED
  BY <1>4 DEF s

\* Concatenation is associative, and the empty sequence its unit.
LEMMA ConcatLaws ==
    ASSUME NEW S, NEW s \in Seq(S), NEW t \in Seq(S), NEW u \in Seq(S)
    PROVE  /\ s \o t \in Seq(S)
           /\ s \o (t \o u) = (s \o t) \o u
           /\ s \o <<>> = s
  OBVIOUS

\* The outputs in a queue are finitely many.
LEMMA AboutFinite ==
    ASSUME NEW S, NEW q \in Seq(S), NEW r
    PROVE  IsFiniteSet(About(q, r)) /\ Count(q, r) \in Nat
<1>1. DOMAIN q = 1..Len(q) /\ IsFiniteSet(1..Len(q))
  BY FS_Interval
<1>2. About(q, r) \subseteq 1..Len(q)
  BY <1>1 DEF About
<1> QED
  BY <1>1, <1>2, FS_Subset, FS_CardinalityType DEF Count

\* An output is put in the queue.
LEMMA CountAppend ==
    ASSUME NEW S, NEW q \in Seq(S), NEW e \in S, NEW r
    PROVE  Count(Append(q, e), r) = Count(q, r) + (IF e.r = r THEN 1 ELSE 0)
<1>1. /\ Append(q, e) \in Seq(S) /\ DOMAIN Append(q, e) = 1..(Len(q) + 1)
      /\ DOMAIN q = 1..Len(q) /\ Len(q) \in Nat
      /\ Append(q, e)[Len(q) + 1] = e
      /\ \A i \in 1..Len(q) : Append(q, e)[i] = q[i]
  OBVIOUS
<1>2. About(Append(q, e), r) = IF e.r = r THEN About(q, r) \cup {Len(q) + 1} ELSE About(q, r)
  BY <1>1 DEF About
<1>3. Len(q) + 1 \notin About(q, r)
  BY <1>1 DEF About
<1>4. IsFiniteSet(About(q, r)) /\ Count(q, r) \in Nat
  BY AboutFinite
<1>5. CASE e.r = r
  <2>1. Cardinality(About(q, r) \cup {Len(q) + 1}) = Cardinality(About(q, r)) + 1
    BY <1>3, <1>4, FS_AddElement
  <2> QED
    BY <1>2, <1>5, <2>1 DEF Count
<1>6. CASE e.r # r
  BY <1>2, <1>4, <1>6 DEF Count
<1> QED
  BY <1>5, <1>6

\* An output is taken from the queue.
LEMMA CountTail ==
    ASSUME NEW S, NEW q \in Seq(S), q # <<>>, NEW r
    PROVE  Count(q, r) = Count(Tail(q), r) + (IF Head(q).r = r THEN 1 ELSE 0)
<1> DEFINE T == About(Tail(q), r)
           Q == About(q, r) \ {1}
           f == [i \in T |-> i + 1]
<1>1. /\ Tail(q) \in Seq(S) /\ DOMAIN Tail(q) = 1..(Len(q) - 1)
      /\ DOMAIN q = 1..Len(q) /\ Len(q) \in Nat \ {0} /\ Head(q) = q[1]
      /\ \A i \in 1..(Len(q) - 1) : Tail(q)[i] = q[i + 1]
  OBVIOUS
<1>2. IsFiniteSet(T) /\ Count(Tail(q), r) \in Nat /\ IsFiniteSet(About(q, r))
      /\ Count(q, r) \in Nat
  BY <1>1, AboutFinite
<1>3. f \in Bijection(T, Q)
  <2>1. T = {i \in 1..(Len(q) - 1) : q[i + 1].r = r}
    BY <1>1 DEF About
  <2>2. Q = {i \in 2..Len(q) : q[i].r = r}
    BY <1>1 DEF About
  <2> HIDE DEF T, Q
  <2>3. f \in [T -> Q] /\ \A i, j \in T : f[i] = f[j] => i = j
    BY <1>1, <2>1, <2>2
  <2>4. \A j \in Q : \E i \in T : f[i] = j
    <3>1. ASSUME NEW j \in Q PROVE j - 1 \in T /\ f[j - 1] = j
      BY <1>1, <2>1, <2>2
    <3> QED
      BY <3>1
  <2> QED
    BY <2>3, <2>4 DEF Bijection, Injection, Surjection, IsInjective
<1>4. IsFiniteSet(Q) /\ Cardinality(Q) = Cardinality(T)
  <2>1. IsFiniteSet(Q)
    BY <1>2, FS_Subset
  <2> HIDE DEF T, Q, f
  <2>2. Cardinality(T) = Cardinality(Q)
    BY <1>2, <1>3, <2>1, FS_Bijection DEF ExistsBijection
  <2> QED
    BY <2>1, <2>2
<1>5. CASE Head(q).r = r
  <2>1. 1 \in About(q, r)
    BY <1>1, <1>5 DEF About
  <2>2. Cardinality(About(q, r) \ {1}) = Cardinality(About(q, r)) - 1
    BY <1>2, <2>1, FS_RemoveElement
  <2> QED
    BY <1>2, <1>4, <1>5, <2>2 DEF Count
<1>6. CASE Head(q).r # r
  <2>1. Q = About(q, r)
    BY <1>1, <1>6 DEF About
  <2>2. Count(q, r) = Count(Tail(q), r)
    BY <1>4, <2>1 DEF Count
  <2> QED
    BY <1>2, <1>6, <2>2
<1> QED
  BY <1>5, <1>6

-----------------------------------------------------------------------------
(* The actions of the front end. *)

\* What the proofs of all steps start from.
LEMMA FEContext ==
    ASSUME FEIInv
    PROVE  /\ MaxOut \in Nat \ {0}
           /\ NoOutput \in RequestOutput /\ NoOutput.token_ids = <<>> /\ ~NoOutput.finished
           /\ FETypeOK /\ FEMoreTypes
           /\ \A r \in FERid :
                 /\ collector[r] \in RequestOutput /\ collector[r].token_ids \in Seq(1..MaxOut)
                 /\ collector[r].finished \in BOOLEAN
                 /\ received[r] \in Seq(1..MaxOut)
                 /\ detokenized[r] \in 0..MaxOut /\ made[r] \in 0..MaxOut
                 /\ detokenized[r] + Count(output_queue, r) <= made[r]
                 /\ Count(output_queue, r) \in Nat
                 /\ Iota(detokenized[r]) \in Seq(1..MaxOut)
                 /\ Stream(r)
<1>1. MaxOut \in Nat \ {0} /\ FETypeOK /\ FEMoreTypes
  BY FEAssumption DEF FEIInv
<1>2. NoOutput \in RequestOutput /\ NoOutput.token_ids = <<>> /\ ~NoOutput.finished
  BY DEF NoOutput, RequestOutput
<1>3. ASSUME NEW r \in FERid
      PROVE  /\ collector[r] \in RequestOutput /\ collector[r].token_ids \in Seq(1..MaxOut)
             /\ collector[r].finished \in BOOLEAN
             /\ received[r] \in Seq(1..MaxOut)
             /\ detokenized[r] \in 0..MaxOut /\ made[r] \in 0..MaxOut
    BY <1>1 DEF FEMoreTypes, FETypeOK, RequestOutput
<1>4. ASSUME NEW r \in FERid
      PROVE  Count(output_queue, r) \in Nat /\ Iota(detokenized[r]) \in Seq(1..MaxOut)
    BY <1>1, <1>3, AboutFinite, IotaType DEF FEMoreTypes
<1> QED
  BY <1>1, <1>2, <1>3, <1>4 DEF FEIInv, TokensOnTheirWay, Streams

\* generate() starts: the output processor knows a request for which nothing
\* has been put yet.
LEMMA AddRequestStep ==
    ASSUME FEIInv, NEW r \in FERid, add_request(r)
    PROVE  FEIInv'
<1> USE FEContext
<1>1. FETypeOK' /\ FEMoreTypes' /\ TokensOnTheirWay'
  BY DEF add_request, FETypeOK, FEMoreTypes, TokensOnTheirWay, coreVars, setting
<1>2. Stream(r)'
  BY DEF add_request, Stream, coreVars, setting, FETypeOK
<1>3. \A s \in FERid \ {r} : Stream(s)'
  BY DEF add_request, Stream, coreVars, setting, FETypeOK
<1> QED
  BY <1>1, <1>2, <1>3 DEF FEIInv, Streams

\* The request is sent to the engine core.
LEMMA AddRequestAsyncStep ==
    ASSUME FEIInv, NEW r \in FERid, add_request_async(r)
    PROVE  FEIInv'
<1> USE FEContext
<1>1. FETypeOK' /\ TokensOnTheirWay'
  BY DEF add_request_async, FETypeOK, TokensOnTheirWay, coreVars, setting
<1>2. FEMoreTypes'
  BY DEF add_request_async, FEMoreTypes, coreVars, setting, EngineCoreRequest
<1>3. \A s \in FERid : Stream(s)'
  BY DEF add_request_async, Stream, coreVars, setting, FETypeOK
<1> QED
  BY <1>1, <1>2, <1>3 DEF FEIInv, Streams

\* The client takes what has collected.
LEMMA GetStep ==
    ASSUME FEIInv, NEW r \in FERid, get(r)
    PROVE  FEIInv'
<1> USE FEContext
<1> DEFINE c == collector[r]
           taken == IF output_kind[r] = "DELTA" THEN received[r] \o c.token_ids ELSE c.token_ids
<1>1. taken \in Seq(1..MaxOut) /\ taken \o <<>> = taken
  BY ConcatLaws
<1>2. /\ client[r] = "streaming"
      /\ collector' = [collector EXCEPT ![r] = NoOutput]
      /\ received' = [received EXCEPT ![r] = taken]
      /\ client' = [client EXCEPT ![r] = IF c.finished THEN "last" ELSE "yielding"]
      /\ UNCHANGED <<request_states, detokenized, input_queue, output_queue, coreVars,
                     setting, alive>>
  BY DEF get
<1>3. c.finished => r \notin request_states /\ taken = Iota(detokenized[r])
  BY <1>2 DEF Stream
<1>4. output_kind[r] = "DELTA" => taken = Iota(detokenized[r])
  BY <1>2 DEF Stream
<1> HIDE DEF c, taken
<1>5. FETypeOK' /\ FEMoreTypes' /\ TokensOnTheirWay'
  BY <1>1, <1>2 DEF FETypeOK, FEMoreTypes, TokensOnTheirWay, coreVars, setting
<1>6. Stream(r)'
  <2>1. client'[r] = (IF c.finished THEN "last" ELSE "yielding") /\ received'[r] = taken
        /\ collector'[r] = NoOutput
    BY <1>2 DEF FETypeOK, FEMoreTypes
  <2>2. /\ request_states' = request_states /\ detokenized' = detokenized
        /\ output_kind' = output_kind
    BY <1>2 DEF setting
  <2>3. c.finished => r \notin request_states' /\ received'[r] = Iota(detokenized'[r])
    BY <1>3, <2>1, <2>2
  <2>4. /\ ~collector'[r].finished
        /\ output_kind'[r] = "DELTA" => Iota(detokenized'[r]) = received'[r] \o collector'[r].token_ids
    BY <1>1, <1>4, <2>1, <2>2
  <2>5. (client'[r] = "last" /\ c.finished) \/ client'[r] = "yielding"
    BY <2>1
  <2> QED
    BY <2>3, <2>4, <2>5 DEF Stream
<1>7. \A s \in FERid \ {r} : Stream(s)'
  BY <1>2 DEF Stream, setting, FETypeOK, FEMoreTypes
<1> QED
  BY <1>5, <1>6, <1>7 DEF FEIInv, Streams

\* generate() goes on, or is closed.
LEMMA YieldStep ==
    ASSUME FEIInv, NEW r \in FERid, resume(r) \/ close(r)
    PROVE  FEIInv'
<1> USE FEContext
<1>1. /\ client[r] \in {"yielding", "last"}
      /\ \/ client' = [client EXCEPT ![r] = IF @ = "last" THEN "done" ELSE "streaming"]
         \/ client' = [client EXCEPT ![r] = "closed"]
      /\ UNCHANGED <<received, request_states, detokenized, collector, input_queue,
                     output_queue, coreVars, setting, alive>>
  BY DEF resume, close
<1>2. FETypeOK' /\ FEMoreTypes' /\ TokensOnTheirWay'
  BY <1>1 DEF FETypeOK, FEMoreTypes, TokensOnTheirWay, coreVars, setting
<1>3. Stream(r)'
  <2>1. \/ client[r] = "last" /\ client'[r] = "done"
        \/ client[r] = "yielding" /\ client'[r] = "streaming"
        \/ client'[r] = "closed"
    BY <1>1 DEF FETypeOK
  <2> QED
    BY <1>1, <2>1 DEF Stream, setting
<1>4. \A s \in FERid \ {r} : Stream(s)'
  BY <1>1 DEF Stream, setting, FETypeOK
<1> QED
  BY <1>2, <1>3, <1>4 DEF FEIInv, Streams

\* The client disconnects.
LEMMA AbortStep ==
    ASSUME FEIInv, NEW r \in FERid, abort(r)
    PROVE  FEIInv'
<1> USE FEContext
<1>1. FETypeOK' /\ TokensOnTheirWay'
  BY DEF abort, FETypeOK, TokensOnTheirWay, coreVars, setting
<1>2. FEMoreTypes'
  <2>1. input_queue' \in Seq(EngineCoreRequest)
    <3>1. [type |-> "ABORT", r |-> r] \in EngineCoreRequest /\ input_queue \in Seq(EngineCoreRequest)
      BY DEF EngineCoreRequest, FEMoreTypes
    <3> QED
      BY <3>1 DEF abort, SendAbort
  <2> QED
    BY <2>1 DEF abort, FEMoreTypes, coreVars, setting
<1>3. Stream(r)'
  BY DEF abort, Stream, coreVars, setting, FETypeOK, FEMoreTypes
<1>4. \A s \in FERid \ {r} : Stream(s)'
  BY DEF abort, Stream, coreVars, setting, FETypeOK, FEMoreTypes
<1> QED
  BY <1>1, <1>2, <1>3, <1>4 DEF FEIInv, Streams

\* What put leaves in the collector of a request that the output processor
\* knows, when its n-th token has been detokenized.
LEMMA PutOutput ==
    ASSUME FEIInv, NEW r \in FERid, r \in request_states, NEW finished \in BOOLEAN,
           NEW n \in 1..MaxOut, n = detokenized[r] + 1
    PROVE  LET p == put(r, make_request_output(r, n, finished)) IN
           /\ p \in RequestOutput
           /\ p.finished = finished
           /\ client[r] \in {"new", "adding", "streaming", "yielding"} =>
                 IF output_kind[r] = "DELTA"
                 THEN Iota(n) = received[r] \o p.token_ids
                 ELSE p.finished => p.token_ids = Iota(n)
<1> USE FEContext
<1> DEFINE old == collector[r]
           output == [token_ids |-> IF output_kind[r] = "DELTA" THEN <<n>> ELSE Iota(n),
                      finished |-> finished]
           p == put(r, make_request_output(r, n, finished))
<1>1. /\ ~old.finished /\ old.finished \in BOOLEAN /\ old.token_ids \in Seq(1..MaxOut)
      /\ old \in RequestOutput
  BY DEF Stream
<1>2. /\ <<n>> \in Seq(1..MaxOut) /\ Len(<<n>>) = 1
      /\ Iota(n) \in Seq(1..MaxOut) /\ Len(Iota(n)) = n
  BY IotaType
<1>3. output \in RequestOutput /\ output # NoOutput
  <2>1. output.token_ids # <<>> /\ output \in RequestOutput
    <3> DEFINE t == IF output_kind[r] = "DELTA" THEN <<n>> ELSE Iota(n)
    <3>1. t \in Seq(1..MaxOut) /\ Len(t) >= 1
      <4>1. CASE output_kind[r] = "DELTA"
        BY <1>2, <4>1
      <4>2. CASE output_kind[r] # "DELTA"
        <5>1. t = Iota(n)
          BY <4>2
        <5> QED
          BY <1>2, <5>1
      <4> QED
        BY <4>1, <4>2
    <3> HIDE DEF t
    <3>2. t # <<>> /\ [token_ids |-> t, finished |-> finished] \in RequestOutput
      BY <3>1 DEF RequestOutput
    <3> QED
      BY <3>2 DEF t
  <2> QED
    BY <2>1
<1>4. CASE ~finished /\ output_kind[r] = "FINAL_ONLY"
  <2>1. p = old
    BY <1>4 DEF put, make_request_output
  <2> QED
    BY <1>1, <1>4, <2>1
<1>5. CASE ~(~finished /\ output_kind[r] = "FINAL_ONLY")
  <2>1. p = IF old = NoOutput \/ output_kind[r] # "DELTA" THEN output
            ELSE [token_ids |-> old.token_ids \o output.token_ids,
                  finished |-> old.finished \/ output.finished]
    BY <1>3, <1>5 DEF put, make_request_output
  <2>2. CASE output_kind[r] # "DELTA"
    BY <1>3, <2>1, <2>2
  <2>3. CASE output_kind[r] = "DELTA"
    <3>1. p.token_ids = old.token_ids \o <<n>> /\ p.finished = finished /\ p \in RequestOutput
      <4>1. CASE old = NoOutput
        <5>1. p = output
          BY <2>1, <4>1
        <5>2. output.token_ids = <<n>> /\ old.token_ids = <<>>
          BY <2>3, <4>1
        <5>3. <<>> \o <<n>> = <<n>>
          OBVIOUS
        <5> QED
          BY <1>3, <5>1, <5>2, <5>3
      <4>2. CASE old # NoOutput
        <5>1. p = [token_ids |-> old.token_ids \o <<n>>, finished |-> finished]
          BY <1>1, <2>1, <2>3, <4>2
        <5>2. old.token_ids \o <<n>> \in Seq(1..MaxOut)
          BY <1>1, <1>2, ConcatLaws
        <5> HIDE DEF p
        <5> QED
          BY <5>1, <5>2 DEF RequestOutput
      <4> QED
        BY <4>1, <4>2
    <3>2. ASSUME client[r] \in {"new", "adding", "streaming", "yielding"}
          PROVE  Iota(n) = received[r] \o p.token_ids
      <4>1. Iota(detokenized[r]) = received[r] \o old.token_ids
        BY <2>3, <3>2 DEF Stream
      <4>2. received[r] \o (old.token_ids \o <<n>>) = (received[r] \o old.token_ids) \o <<n>>
        <5>1. received[r] \in Seq(1..MaxOut)
          OBVIOUS
        <5> DEFINE ra == received[r]
                   rb == old.token_ids
                   rc == <<n>>
        <5>2. ra \in Seq(1..MaxOut) /\ rb \in Seq(1..MaxOut) /\ rc \in Seq(1..MaxOut)
          BY <1>1, <1>2, <5>1
        <5> HIDE DEF ra, rb, rc
        <5>3. ra \o (rb \o rc) = (ra \o rb) \o rc
          BY ONLY <5>2, ConcatLaws
        <5> QED
          BY <5>3 DEF ra, rb, rc
      <4>3. Iota(detokenized[r]) \o <<n>> = Iota(n)
        <5>1. detokenized[r] \in 0..(MaxOut - 1)
          OBVIOUS
        <5> QED
          BY <5>1, IotaNext
      <4> QED
        BY <3>1, <4>1, <4>2, <4>3
    <3> QED
      BY <2>3, <3>1, <3>2
  <2> QED
    BY <2>2, <2>3
<1> QED
  BY <1>4, <1>5

\* An output is taken from the queue and processed, or dropped if its request
\* is not known any more.
LEMMA ProcessOutputsStep ==
    ASSUME FEIInv, process_outputs
    PROVE  FEIInv'
<1> USE FEContext
<1>1. /\ output_queue \in Seq(EngineCoreOutput) /\ output_queue # <<>>
      /\ output_queue' = Tail(output_queue) /\ output_queue' \in Seq(EngineCoreOutput)
      /\ Head(output_queue) \in EngineCoreOutput
  BY DEF process_outputs, FEMoreTypes
<1>2. PICK o \in EngineCoreOutput, r \in FERid : o = Head(output_queue) /\ r = o.r
  BY <1>1 DEF EngineCoreOutput
<1>0. o.finished \in BOOLEAN
  BY DEF EngineCoreOutput
<1> DEFINE n == detokenized[r] + 1
<1>3. UNCHANGED <<client, received, sched, made, evicted, output_kind, spexis_core, alive>>
  BY DEF process_outputs, coreVars, setting
<1>4. ASSUME NEW s \in FERid
      PROVE  Count(output_queue, s) = Count(output_queue', s) + (IF r = s THEN 1 ELSE 0)
  BY <1>1, <1>2, CountTail
<1>5. ASSUME NEW s \in FERid
      PROVE  Count(output_queue', s) \in Nat
  BY <1>1, AboutFinite
<1>6. PICK stopped \in BOOLEAN :
        IF r \notin request_states
        THEN UNCHANGED <<request_states, detokenized, collector, input_queue>>
        ELSE /\ detokenized' = [detokenized EXCEPT ![r] = n]
             /\ collector' = [collector EXCEPT ![r] =
                    put(r, make_request_output(r, n, o.finished \/ stopped))]
             /\ request_states' = IF o.finished \/ stopped THEN request_states \ {r}
                                  ELSE request_states
             /\ input_queue' = IF stopped /\ ~o.finished
                               THEN Append(input_queue, [type |-> "ABORT", r |-> r])
                               ELSE input_queue
  BY <1>2 DEF process_outputs, FinishReason, SendAbort
<1> HIDE DEF n
<1>7. CASE r \notin request_states
  <2>1. UNCHANGED <<request_states, detokenized, collector, input_queue>>
    BY <1>6, <1>7
  <2>2. FETypeOK' /\ FEMoreTypes'
    BY <1>1, <1>3, <2>1 DEF FETypeOK, FEMoreTypes
  <2>3. TokensOnTheirWay'
    <3> SUFFICES ASSUME NEW s \in FERid
                 PROVE  detokenized[s] + Count(output_queue', s) <= made[s]
      BY <1>3, <2>1 DEF TokensOnTheirWay
    <3>1. Count(output_queue', s) <= Count(output_queue, s) /\ Count(output_queue', s) \in Nat
      <4>1. /\ Count(output_queue, s) = Count(output_queue', s) + (IF r = s THEN 1 ELSE 0)
            /\ Count(output_queue', s) \in Nat
        BY <1>4, <1>5
      <4> QED
        BY ONLY <4>1
    <3>2. /\ detokenized[s] \in Int /\ made[s] \in Int /\ Count(output_queue, s) \in Int
          /\ detokenized[s] + Count(output_queue, s) <= made[s]
      OBVIOUS
    <3> QED
      BY ONLY <3>1, <3>2
  <2>4. Streams'
    BY <1>3, <2>1 DEF Streams, Stream
  <2> QED
    BY <2>2, <2>3, <2>4 DEF FEIInv
<1>8. CASE r \in request_states
  <2> DEFINE fin == o.finished \/ stopped
             p == put(r, make_request_output(r, n, fin))
  <2>1. /\ detokenized' = [detokenized EXCEPT ![r] = n]
        /\ collector' = [collector EXCEPT ![r] = p]
        /\ request_states' = IF fin THEN request_states \ {r} ELSE request_states
        /\ input_queue' = IF stopped /\ ~o.finished
                          THEN Append(input_queue, [type |-> "ABORT", r |-> r])
                          ELSE input_queue
    BY <1>6, <1>8
  <2>2. fin \in BOOLEAN /\ n = detokenized[r] + 1
    BY <1>0 DEF n
  <2>3. n \in 1..MaxOut
    <3>1. /\ Count(output_queue, r) = Count(output_queue', r) + 1
          /\ Count(output_queue', r) \in Nat
      BY <1>2, <1>4, <1>5
    <3>2. /\ detokenized[r] \in 0..MaxOut /\ made[r] \in 0..MaxOut /\ MaxOut \in Nat
          /\ detokenized[r] + Count(output_queue, r) <= made[r]
      BY <1>2
    <3> QED
      BY ONLY <2>2, <3>1, <3>2
  <2>4. /\ p \in RequestOutput /\ p.finished = fin
        /\ client[r] \in {"new", "adding", "streaming", "yielding"} =>
              IF output_kind[r] = "DELTA"
              THEN Iota(n) = received[r] \o p.token_ids
              ELSE p.finished => p.token_ids = Iota(n)
    <3> HIDE DEF fin
    <3> QED
      BY ONLY FEIInv, r \in FERid, <1>8, <2>2, <2>3, PutOutput
  <2> HIDE DEF fin, p
  <2>5. FETypeOK'
    <3>1. request_states' \subseteq FERid /\ detokenized' \in [FERid -> 0..MaxOut]
      BY <1>2, <2>1, <2>3 DEF FETypeOK
    <3> QED
      BY <1>3, <3>1 DEF FETypeOK
  <2>6. FEMoreTypes'
    <3>1. input_queue' \in Seq(EngineCoreRequest)
      <4>1. [type |-> "ABORT", r |-> r] \in EngineCoreRequest
            /\ input_queue \in Seq(EngineCoreRequest)
        BY <1>2 DEF EngineCoreRequest, FEMoreTypes
      <4> QED
        BY <2>1, <4>1
    <3> QED
      BY <1>1, <1>2, <1>3, <2>1, <2>4, <3>1 DEF FEMoreTypes
  <2>7. TokensOnTheirWay'
    <3> SUFFICES ASSUME NEW s \in FERid
                 PROVE  detokenized'[s] + Count(output_queue', s) <= made[s]
      BY <1>3 DEF TokensOnTheirWay
    <3>1. detokenized'[s] = IF s = r THEN n ELSE detokenized[s]
      BY <2>1 DEF FETypeOK
    <3> QED
      BY <1>2, <1>4, <1>5, <2>2, <3>1
  <2>8. Stream(r)'
    <3>1. detokenized'[r] = n /\ collector'[r] = p
      BY <1>2, <2>1 DEF FETypeOK, FEMoreTypes
    <3>2. client[r] \notin {"new", "last", "done", "cancelled"}
      BY <1>2, <1>8 DEF Stream
    <3>3. p.finished => r \notin request_states'
      BY <2>1, <2>4
    <3> QED
      BY <1>3, <2>4, <3>1, <3>2, <3>3 DEF Stream
  <2>9. \A s \in FERid \ {r} : Stream(s)'
    <3> SUFFICES ASSUME NEW s \in FERid, s # r PROVE Stream(s)'
      OBVIOUS
    <3>1. /\ detokenized'[s] = detokenized[s] /\ collector'[s] = collector[s]
          /\ s \in request_states' <=> s \in request_states
      BY <2>1 DEF FETypeOK, FEMoreTypes
    <3> QED
      BY <1>3, <3>1 DEF Stream
  <2> QED
    BY <1>2, <2>5, <2>6, <2>7, <2>8, <2>9 DEF FEIInv, Streams
<1> QED
  BY <1>7, <1>8

-----------------------------------------------------------------------------
(* The actions of the engine core. *)

\* Only the state of requests in the scheduler changes.
LEMMA SchedStep ==
    ASSUME FEIInv, UNCHANGED <<frontVars, output_queue, made, setting>>,
           input_queue' \in Seq(EngineCoreRequest), alive' \in BOOLEAN,
           sched' \in [FERid -> SchedState]
    PROVE  FEIInv'
<1> USE FEContext
<1>1. FETypeOK' /\ FEMoreTypes' /\ TokensOnTheirWay'
  BY DEF FETypeOK, FEMoreTypes, TokensOnTheirWay, frontVars, setting, SchedState
<1>2. Streams'
  BY DEF Streams, Stream, frontVars, setting
<1> QED
  BY <1>1, <1>2 DEF FEIInv

\* A message of the front end is handled.
LEMMA HandleClientRequestStep ==
    ASSUME FEIInv, _handle_client_request
    PROVE  FEIInv'
<1> USE FEContext
<1> DEFINE msg == Head(input_queue)
<1>1. /\ input_queue \in Seq(EngineCoreRequest) /\ input_queue # <<>>
      /\ input_queue' = Tail(input_queue) /\ msg \in EngineCoreRequest
  BY DEF _handle_client_request, FEMoreTypes
<1>2. input_queue' \in Seq(EngineCoreRequest) /\ msg.r \in FERid
  BY <1>1 DEF EngineCoreRequest
<1>3. sched \in [FERid -> SchedState] /\ finish_requests(msg.r) \in SchedState
  BY <1>2 DEF FETypeOK, SchedState, finish_requests
<1>4. /\ alive' = ~Raises(msg)
      /\ sched' = [sched EXCEPT ![msg.r] =
                       IF Raises(msg) THEN @
                       ELSE IF msg.type = "ADD" THEN "WAITING"
                       ELSE finish_requests(msg.r)]
      /\ UNCHANGED <<frontVars, output_queue, made, setting>>
  BY DEF _handle_client_request
<1> HIDE DEF msg
<1>5. sched' \in [FERid -> SchedState]
  BY <1>2, <1>3, <1>4 DEF SchedState
<1>6. alive' \in BOOLEAN
  BY <1>4, Zenon
<1> QED
  BY <1>2, <1>4, <1>5, <1>6, SchedStep

\* What schedule() does to a request.
LEMMA CoreSchedStep ==
    ASSUME FEIInv, NEW r \in FERid, Admit(r) \/ Requeue(r) \/ Evict(r) \/ ScheduleGhost(r)
    PROVE  FEIInv'
<1> USE FEContext
<1>1. input_queue' \in Seq(EngineCoreRequest)
  BY DEF Admit, Requeue, Evict, ScheduleGhost, FEMoreTypes
<1>2. alive' \in BOOLEAN
  BY DEF Admit, Requeue, Evict, ScheduleGhost, FETypeOK
<1>3. sched' \in [FERid -> SchedState]
  BY DEF Admit, Requeue, Evict, ScheduleGhost, coreVars, Move, FETypeOK, SchedState
<1>4. UNCHANGED <<frontVars, output_queue, made, setting>>
  BY DEF Admit, Requeue, Evict, ScheduleGhost, coreVars
<1> QED
  BY <1>1, <1>2, <1>3, <1>4, SchedStep

\* A token goes out.
LEMMA TokenStep ==
    ASSUME FEIInv, NEW r \in FERid, made[r] < MaxOut, UNCHANGED <<frontVars, input_queue, setting>>,
           made' = [made EXCEPT ![r] = @ + 1],
           sched' \in [FERid -> SchedState], alive' \in BOOLEAN,
           \/ output_queue' = output_queue
           \/ \E finished \in BOOLEAN :
                 output_queue' = Append(output_queue, [r |-> r, finished |-> finished])
    PROVE  FEIInv'
<1> USE FEContext
<1>1. ASSUME NEW finished \in BOOLEAN PROVE [r |-> r, finished |-> finished] \in EngineCoreOutput
  BY DEF EngineCoreOutput
<1>2. output_queue' \in Seq(EngineCoreOutput)
  <2>1. output_queue \in Seq(EngineCoreOutput)
    BY DEF FEMoreTypes
  <2>2. ASSUME NEW e \in EngineCoreOutput PROVE Append(output_queue, e) \in Seq(EngineCoreOutput)
    BY <2>1
  <2> QED
    BY <1>1, <2>1, <2>2
<1>3. FETypeOK'
  BY DEF FETypeOK, frontVars, SchedState
<1>4. FEMoreTypes'
  BY <1>2 DEF FEMoreTypes, frontVars, setting
<1>5. ASSUME NEW s \in FERid
      PROVE  Count(output_queue', s) <= Count(output_queue, s) + (IF s = r THEN 1 ELSE 0)
             /\ Count(output_queue', s) \in Nat
  <2>1. Count(output_queue', s) \in Nat
    BY <1>2, AboutFinite
  <2>2. CASE output_queue' = output_queue
    BY <2>1, <2>2
  <2>3. ASSUME NEW finished \in BOOLEAN,
               output_queue' = Append(output_queue, [r |-> r, finished |-> finished])
        PROVE  Count(output_queue', s) = Count(output_queue, s) + (IF r = s THEN 1 ELSE 0)
    <3> DEFINE e == [r |-> r, finished |-> finished]
    <3>1. e \in EngineCoreOutput /\ e.r = r /\ output_queue \in Seq(EngineCoreOutput)
      BY <1>1 DEF FEMoreTypes
    <3> HIDE DEF e
    <3>2. Count(Append(output_queue, e), s) = Count(output_queue, s) + (IF e.r = s THEN 1 ELSE 0)
      BY <3>1, CountAppend
    <3> QED
      BY <2>3, <3>1, <3>2 DEF e
  <2>4. Count(output_queue, s) \in Nat
    OBVIOUS
  <2>5. CASE output_queue' # output_queue
    <3>1. Count(output_queue', s) = Count(output_queue, s) + (IF r = s THEN 1 ELSE 0)
      BY <2>3, <2>5
    <3> QED
      BY ONLY <2>1, <2>4, <3>1
  <2> QED
    BY <2>2, <2>5
<1>6. TokensOnTheirWay'
  <2> SUFFICES ASSUME NEW s \in FERid
               PROVE  detokenized[s] + Count(output_queue', s) <= made'[s]
    BY DEF TokensOnTheirWay, frontVars
  <2>1. made'[s] = made[s] + (IF s = r THEN 1 ELSE 0)
    BY DEF FETypeOK
  <2>2. /\ detokenized[s] \in Int /\ made[s] \in Int /\ Count(output_queue, s) \in Int
        /\ detokenized[s] + Count(output_queue, s) <= made[s]
    OBVIOUS
  <2>3. /\ Count(output_queue', s) \in Int
        /\ Count(output_queue', s) <= Count(output_queue, s) + (IF s = r THEN 1 ELSE 0)
    BY <1>5
  <2> QED
    BY ONLY <2>1, <2>2, <2>3
<1>7. Streams'
  BY DEF Streams, Stream, frontVars, setting
<1> QED
  BY <1>3, <1>4, <1>6, <1>7 DEF FEIInv

\* The token of a request that is served, and of one that was aborted.
LEMMA EmitStep ==
    ASSUME FEIInv, NEW r \in FERid, Emit(r) \/ EmitGhost(r)
    PROVE  FEIInv'
<1> USE FEContext
<1>1. CASE Emit(r)
  <2>1. PICK finished \in BOOLEAN :
          /\ output_queue' = Append(output_queue, [r |-> r, finished |-> finished])
          /\ sched' = [sched EXCEPT ![r] = IF finished THEN "finished" ELSE @]
    BY <1>1 DEF Emit
  <2>2. sched' \in [FERid -> SchedState]
    BY <2>1 DEF FETypeOK, SchedState
  <2>3. /\ made[r] < MaxOut /\ made' = [made EXCEPT ![r] = @ + 1]
        /\ UNCHANGED <<frontVars, input_queue, setting>> /\ alive' \in BOOLEAN
    BY <1>1 DEF Emit, FETypeOK
  <2> QED
    BY <2>1, <2>2, <2>3, TokenStep
<1>2. CASE EmitGhost(r)
  <2>1. /\ made[r] < MaxOut /\ made' = [made EXCEPT ![r] = @ + 1]
        /\ UNCHANGED <<frontVars, input_queue, setting>> /\ sched' = sched
    BY <1>2 DEF EmitGhost
  <2>2. alive' \in BOOLEAN /\ sched' \in [FERid -> SchedState]
    BY <1>2, <2>1 DEF EmitGhost, FETypeOK, SchedState
  <2>3. \/ output_queue' = output_queue
        \/ output_queue' = Append(output_queue, [r |-> r, finished |-> TRUE])
    BY <1>2 DEF EmitGhost
  <2> QED
    BY <2>1, <2>2, <2>3, TokenStep
<1> QED
  BY <1>1, <1>2

-----------------------------------------------------------------------------
(* The theorems. *)

\* Nothing has been asked or answered.
LEMMA FEInitIInv == FEInit => FEIInv
<1> SUFFICES ASSUME FEInit PROVE FEIInv
  OBVIOUS
<1>1. MaxOut \in Nat \ {0}
  BY FEAssumption
<1>2. FETypeOK
  BY <1>1 DEF FEInit, FETypeOK
<1>3. FEMoreTypes
  <2>1. output_kind \in [FERid -> {"DELTA", "CUMULATIVE", "FINAL_ONLY"}]
    BY FEAssumption DEF FEInit
  <2>2. collector \in [FERid -> RequestOutput]
    BY DEF FEInit, RequestOutput, NoOutput
  <2> QED
    BY <2>1, <2>2 DEF FEInit, FEMoreTypes
<1>4. TokensOnTheirWay
  <2>1. ASSUME NEW r \in FERid PROVE Count(<<>>, r) = 0
    <3>1. About(<<>>, r) = {}
      BY DEF About
    <3> QED
      BY <3>1, FS_EmptySet DEF Count
  <2> QED
    <3> SUFFICES ASSUME NEW r \in FERid PROVE detokenized[r] + Count(output_queue, r) <= made[r]
      BY DEF TokensOnTheirWay
    <3>1. detokenized[r] = 0 /\ made[r] = 0 /\ output_queue = <<>>
      BY DEF FEInit
    <3> QED
      BY <2>1, <3>1
<1>5. Streams
  <2>1. <<>> \o <<>> = <<>>
    OBVIOUS
  <2> QED
    BY <2>1, IotaZero DEF FEInit, Streams, Stream, NoOutput
<1> QED
  BY <1>2, <1>3, <1>4, <1>5 DEF FEIInv

\* Every step keeps the invariant.
LEMMA FENextIInv == FEIInv /\ [FENext]_feVars => FEIInv'
<1> SUFFICES ASSUME FEIInv, [FENext]_feVars PROVE FEIInv'
  OBVIOUS
<1>1. CASE UNCHANGED feVars
  BY <1>1 DEF feVars, FEIInv, FETypeOK, FEMoreTypes, TokensOnTheirWay, Streams, Stream
<1>2. ASSUME NEW r \in FERid, add_request(r) \/ ClientStep(r) \/ abort(r) \/ close(r)
      PROVE  FEIInv'
  BY <1>2, AddRequestStep, AddRequestAsyncStep, GetStep, YieldStep, AbortStep DEF ClientStep
<1>3. ASSUME NEW r \in FERid, CoreStep(r) \/ Evict(r)
      PROVE  FEIInv'
  BY <1>3, CoreSchedStep, EmitStep DEF CoreStep
<1> QED
  BY <1>1, <1>2, <1>3, ProcessOutputsStep, HandleClientRequestStep DEF FENext, FEStopped

\* The invariant holds in every reachable state.
LEMMA FEInductive == FESpec => []FEIInv
<1> QED
  BY FEInitIInv, FENextIInv, PTL DEF FESpec

\* The types of the front end's and the engine core's state: in particular no
\* output is detokenized that the engine core did not make, however outputs,
\* aborts and stop strings cross.
THEOREM FETypeCorrect == FESpec => []FETypeOK
<1>1. FEIInv => FETypeOK
  BY DEF FEIInv
<1> QED
  BY <1>1, FEInductive, PTL

\* For any number of requests of any output kind, with either scheduler: a
\* stream of deltas that RequestOutputCollector merges is complete and in
\* order, and a finished stream ends with the token that finished it.
THEOREM StreamsIntact == FESpec => []StreamIntact
<1>1. FEIInv => StreamIntact
  BY DEF FEIInv, Streams, Stream, StreamIntact
<1> QED
  BY <1>1, FEInductive, PTL

-----------------------------------------------------------------------------
(* Messages to the engine core, and what it still holds. *)

Add(r) == [type |-> "ADD", r |-> r]
Abort(r) == [type |-> "ABORT", r |-> r]

\* Where message m is in q, and that r's ABORT is in q behind its ADD.
At(q, m) == {i \in DOMAIN q : q[i] = m}
Behind(q, r) == \E i \in At(q, Abort(r)) : \A j \in At(q, Add(r)) : j < i

\* The last output of r is in q.
FinishedOut(q, r) == \E k \in DOMAIN q : q[k].r = r /\ q[k].finished

\* A request is added once, by its task; a finished one is not held.
Messages(r) ==
    /\ client[r] \in {"new", "adding"} => sched[r] = "unknown" /\ At(input_queue, Add(r)) = {}
    /\ client[r] = "adding" => r \in request_states
    /\ sched[r] = "unknown" => made[r] = 0
    /\ sched[r] # "unknown" => At(input_queue, Add(r)) = {}
    /\ \A i, j \in At(input_queue, Add(r)) : i = j
    /\ sched[r] = "PREEMPTED" => spexis_core
    /\ FinishedOut(output_queue, r) => ~Held(r)
    /\ alive /\ client[r] # "new" /\ r \notin request_states /\ Held(r) => Behind(input_queue, r)

AllMessages == \A r \in FERid : Messages(r)

\* A message is put in the queue.
LEMMA AtAppend ==
    ASSUME NEW S, NEW q \in Seq(S), NEW e \in S, NEW m
    PROVE  At(Append(q, e), m) = IF e = m THEN At(q, m) \cup {Len(q) + 1} ELSE At(q, m)
<1>1. /\ Append(q, e) \in Seq(S) /\ DOMAIN Append(q, e) = 1..(Len(q) + 1)
      /\ DOMAIN q = 1..Len(q) /\ Len(q) \in Nat
      /\ Append(q, e)[Len(q) + 1] = e
      /\ \A i \in 1..Len(q) : Append(q, e)[i] = q[i]
  OBVIOUS
<1> QED
  BY <1>1 DEF At

\* A message is taken from the queue.
LEMMA AtTail ==
    ASSUME NEW S, NEW q \in Seq(S), q # <<>>, NEW m
    PROVE  /\ At(Tail(q), m) \subseteq Nat /\ At(q, m) \subseteq Nat \ {0}
           /\ \A i \in Nat : i \in At(Tail(q), m) <=> i >= 1 /\ i + 1 \in At(q, m)
           /\ 1 \in At(q, m) <=> Head(q) = m
<1>1. /\ Tail(q) \in Seq(S) /\ DOMAIN Tail(q) = 1..(Len(q) - 1)
      /\ DOMAIN q = 1..Len(q) /\ Len(q) \in Nat \ {0} /\ Head(q) = q[1]
      /\ \A i \in 1..(Len(q) - 1) : Tail(q)[i] = q[i + 1]
  OBVIOUS
<1> QED
  BY <1>1 DEF At

\* The ABORT of r is put behind all that is in the queue.
LEMMA BehindAppend ==
    ASSUME NEW q \in Seq(EngineCoreRequest), NEW r \in FERid, NEW s \in FERid
    PROVE  /\ Behind(Append(q, Abort(r)), r)
           /\ At(Append(q, Abort(r)), Add(s)) = At(q, Add(s))
           /\ Behind(q, s) => Behind(Append(q, Abort(r)), s)
<1>1. Abort(r) \in EngineCoreRequest /\ Abort(r) # Add(s) /\ Abort(r) # Add(r)
  BY DEF Abort, Add, EngineCoreRequest
<1>2. /\ At(Append(q, Abort(r)), Add(s)) = At(q, Add(s))
      /\ At(Append(q, Abort(r)), Add(r)) = At(q, Add(r))
      /\ At(Append(q, Abort(r)), Abort(r)) = At(q, Abort(r)) \cup {Len(q) + 1}
      /\ At(q, Abort(s)) \subseteq At(Append(q, Abort(r)), Abort(s))
  BY <1>1, AtAppend
<1>3. \A j \in At(q, Add(r)) : j < Len(q) + 1
  BY DEF At
<1> QED
  BY <1>2, <1>3 DEF Behind

\* A message other than the last ABORT is taken.
LEMMA BehindTail ==
    ASSUME NEW q \in Seq(EngineCoreRequest), q # <<>>, NEW r \in FERid, Behind(q, r),
           Head(q) # Abort(r) \/ At(Tail(q), Add(r)) # {}
    PROVE  Behind(Tail(q), r)
<1>1. PICK i \in At(q, Abort(r)) : \A j \in At(q, Add(r)) : j < i
  BY DEF Behind
<1>2. /\ At(Tail(q), Abort(r)) \subseteq Nat /\ At(q, Abort(r)) \subseteq Nat \ {0}
      /\ \A k \in Nat : k \in At(Tail(q), Abort(r)) <=> k >= 1 /\ k + 1 \in At(q, Abort(r))
      /\ 1 \in At(q, Abort(r)) <=> Head(q) = Abort(r)
  BY AtTail
<1>3. /\ At(Tail(q), Add(r)) \subseteq Nat /\ At(q, Add(r)) \subseteq Nat \ {0}
      /\ \A k \in Nat : k \in At(Tail(q), Add(r)) <=> k >= 1 /\ k + 1 \in At(q, Add(r))
  BY AtTail
<1>4. i \in Nat /\ i # 1 /\ i >= 1
  <2>1. CASE Head(q) # Abort(r)
    BY <1>1, <1>2, <2>1
  <2>2. CASE At(Tail(q), Add(r)) # {}
    <3>1. PICK k \in Nat : k >= 1 /\ k + 1 \in At(q, Add(r))
      BY <1>3, <2>2
    <3>2. k + 1 < i
      BY <1>1, <3>1
    <3>3. i \in Nat
      BY <1>1, <1>2
    <3> QED
      BY ONLY <3>1, <3>2, <3>3
  <2> QED
    BY <2>1, <2>2
<1>5. i - 1 \in At(Tail(q), Abort(r))
  <2>1. i - 1 \in Nat /\ i - 1 >= 1 /\ (i - 1) + 1 = i
    BY <1>4
  <2> QED
    BY <1>1, <1>2, <2>1
<1>6. ASSUME NEW j \in At(Tail(q), Add(r)) PROVE j < i - 1
  <2>1. j \in Nat /\ j + 1 \in At(q, Add(r))
    BY <1>3
  <2>2. j + 1 < i
    BY <1>1, <2>1
  <2> QED
    BY ONLY <1>4, <2>1, <2>2
<1> QED
  BY <1>5, <1>6 DEF Behind

\* What the engine core holds, and what is left of the outputs.
LEMMA HeldIs ==
    ASSUME NEW r \in FERid
    PROVE  /\ Held(r) <=> \/ sched[r] \in {"WAITING", "RUNNING", "PREEMPTED"}
                          \/ At(input_queue, Add(r)) # {}
           /\ Held(r)' <=> \/ sched'[r] \in {"WAITING", "RUNNING", "PREEMPTED"}
                           \/ At(input_queue', Add(r)) # {}
BY DEF Held, Queued, At, Add

LEMMA FinishedOutQueue ==
    ASSUME NEW q \in Seq(EngineCoreOutput), NEW r \in FERid
    PROVE  /\ q # <<>> /\ FinishedOut(Tail(q), r) => FinishedOut(q, r)
           /\ q # <<>> /\ Head(q).r = r /\ Head(q).finished => FinishedOut(q, r)
           /\ \A e \in EngineCoreOutput :
                 FinishedOut(Append(q, e), r) =>
                     FinishedOut(q, r) \/ (e.r = r /\ e.finished)
<1>1. ASSUME q # <<>>
      PROVE  /\ DOMAIN Tail(q) = 1..(Len(q) - 1) /\ DOMAIN q = 1..Len(q)
             /\ Len(q) \in Nat \ {0} /\ Head(q) = q[1]
             /\ \A k \in 1..(Len(q) - 1) : Tail(q)[k] = q[k + 1] /\ k + 1 \in DOMAIN q
  BY <1>1
<1>2. ASSUME NEW e \in EngineCoreOutput
      PROVE  /\ DOMAIN Append(q, e) = DOMAIN q \cup {Len(q) + 1}
             /\ Append(q, e)[Len(q) + 1] = e
             /\ \A k \in DOMAIN q : Append(q, e)[k] = q[k]
  OBVIOUS
<1>3. q # <<>> /\ FinishedOut(Tail(q), r) => FinishedOut(q, r)
  BY <1>1 DEF FinishedOut
<1>4. q # <<>> /\ Head(q).r = r /\ Head(q).finished => FinishedOut(q, r)
  BY <1>1 DEF FinishedOut
<1>5. ASSUME NEW e \in EngineCoreOutput, FinishedOut(Append(q, e), r)
      PROVE  FinishedOut(q, r) \/ (e.r = r /\ e.finished)
  BY <1>2, <1>5 DEF FinishedOut
<1> QED
  BY <1>3, <1>4, <1>5

\* What a step has to leave alone for the invariant of a request to last.
LEMMA KeepsMessages ==
    ASSUME NEW s \in FERid, Messages(s),
           sched'[s] = sched[s], made'[s] = made[s], spexis_core' = spexis_core,
           alive' => alive,
           \/ client'[s] = client[s]
           \/ client[s] \notin {"new", "adding"} /\ client'[s] \notin {"new", "adding"},
           s \in request_states' <=> s \in request_states,
           At(input_queue', Add(s)) = {} <=> At(input_queue, Add(s)) = {},
           \A i, j \in At(input_queue', Add(s)) : i = j,
           Held(s) /\ Behind(input_queue, s) => Behind(input_queue', s),
           FinishedOut(output_queue', s) => FinishedOut(output_queue, s)
    PROVE  Messages(s)'
<1>1. Held(s)' <=> Held(s)
  BY HeldIs
<1> QED
  BY <1>1 DEF Messages

\* generate() and what it is given.
LEMMA ClientMessages ==
    ASSUME FEIInv, AllMessages, NEW r \in FERid, add_request(r) \/ ClientStep(r) \/ close(r)
    PROVE  AllMessages'
<1> USE FEContext
<1> SUFFICES ASSUME NEW s \in FERid PROVE Messages(s)'
  BY DEF AllMessages
<1>1. /\ Messages(s) /\ Messages(r) /\ input_queue \in Seq(EngineCoreRequest)
      /\ client \in [FERid -> {"new", "adding", "streaming", "yielding", "last",
                               "done", "cancelled", "closed"}]
  BY DEF AllMessages, FEMoreTypes, FETypeOK
<1>2. CASE add_request(r)
  <2>1. /\ UNCHANGED <<input_queue, output_queue, coreVars, setting, alive>>
        /\ client[r] = "new" /\ client' = [client EXCEPT ![r] = "adding"]
        /\ request_states' = request_states \cup {r}
    BY <1>2 DEF add_request
  <2>2. CASE s = r
    <3>1. /\ client'[s] = "adding" /\ s \in request_states' /\ (Held(s)' <=> Held(s))
      BY <1>1, <2>1, <2>2, HeldIs DEF coreVars
    <3> QED
      BY <1>1, <2>1, <2>2, <3>1 DEF Messages, coreVars, setting
  <2>3. CASE s # r
    <3>1. client'[s] = client[s] /\ (s \in request_states' <=> s \in request_states)
      BY <1>1, <2>1, <2>3
    <3>2. \A i, j \in At(input_queue', Add(s)) : i = j
      BY <1>1, <2>1 DEF Messages
    <3> QED
      BY <1>1, <2>1, <3>1, <3>2, KeepsMessages DEF coreVars, setting
  <2> QED
    BY <2>2, <2>3
<1>3. CASE add_request_async(r)
  <2>1. /\ UNCHANGED <<request_states, output_queue, coreVars, setting, alive>>
        /\ client[r] = "adding" /\ client' = [client EXCEPT ![r] = "streaming"]
        /\ input_queue' = Append(input_queue, Add(r))
    BY <1>3 DEF add_request_async, Add
  <2>2. Add(r) \in EngineCoreRequest
    BY DEF Add, EngineCoreRequest
  <2>3. CASE s = r
    <3>1. client'[s] = "streaming" /\ s \in request_states' /\ sched'[s] = "unknown"
      BY <1>1, <2>1, <2>3 DEF Messages, coreVars
    <3>2. At(input_queue', Add(s)) = At(input_queue, Add(s)) \cup {Len(input_queue) + 1}
      BY <1>1, <2>1, <2>2, <2>3, AtAppend
    <3>3. At(input_queue, Add(s)) = {} /\ made'[s] = 0
      BY <1>1, <2>1, <2>3 DEF Messages, coreVars
    <3>4. ~FinishedOut(output_queue', s)
      <4>1. ASSUME NEW k \in DOMAIN output_queue, output_queue[k].r = s PROVE FALSE
        <5>1. Count(output_queue, s) = 0
          <6>1. made[s] = 0
            BY <2>1, <3>3 DEF coreVars
          <6>2. /\ detokenized[s] \in Nat /\ Count(output_queue, s) \in Nat
                /\ detokenized[s] + Count(output_queue, s) <= made[s]
            OBVIOUS
          <6> QED
            BY ONLY <6>1, <6>2
        <5>2. k \in About(output_queue, s) /\ IsFiniteSet(About(output_queue, s))
          BY <4>1, AboutFinite DEF About, FEMoreTypes
        <5> QED
          BY <5>1, <5>2, FS_EmptySet DEF Count
      <4> QED
        BY <2>1, <4>1 DEF FinishedOut
    <3> QED
      BY <3>1, <3>2, <3>3, <3>4 DEF Messages
  <2>4. CASE s # r
    <3>1. Add(r) # Add(s) /\ Add(r) # Abort(s)
      BY <2>4 DEF Add, Abort
    <3>2. /\ At(input_queue', Add(s)) = At(input_queue, Add(s))
          /\ At(input_queue', Abort(s)) = At(input_queue, Abort(s))
      BY <1>1, <2>1, <2>2, <3>1, AtAppend
    <3>3. client'[s] = client[s]
      BY <1>1, <2>1, <2>4
    <3>4. /\ \A i, j \in At(input_queue', Add(s)) : i = j
          /\ Behind(input_queue, s) => Behind(input_queue', s)
      BY <1>1, <3>2 DEF Messages, Behind
    <3> QED
      BY <1>1, <2>1, <3>2, <3>3, <3>4, KeepsMessages DEF coreVars, setting
  <2> QED
    BY <2>3, <2>4
<1>4. CASE get(r) \/ resume(r) \/ close(r)
  <2>1. /\ UNCHANGED <<request_states, input_queue, output_queue, coreVars, setting, alive>>
        /\ client[r] \notin {"new", "adding"} /\ client'[r] \notin {"new", "adding"}
        /\ \A t \in FERid \ {r} : client'[t] = client[t]
    BY <1>1, <1>4 DEF get, resume, close
  <2>2. \A i, j \in At(input_queue', Add(s)) : i = j
    BY <1>1, <2>1 DEF Messages
  <2> QED
    BY <1>1, <2>1, <2>2, KeepsMessages DEF coreVars, setting
<1> QED
  BY <1>2, <1>3, <1>4 DEF ClientStep

\* A disconnect that cancels the task.
LEMMA AbortMessages ==
    ASSUME FEIInv, AllMessages, NEW r \in FERid, abort(r)
    PROVE  AllMessages'
<1> USE FEContext
<1> SUFFICES ASSUME NEW s \in FERid PROVE Messages(s)'
  BY DEF AllMessages
<1>1. /\ Messages(s) /\ input_queue \in Seq(EngineCoreRequest)
      /\ client \in [FERid -> {"new", "adding", "streaming", "yielding", "last",
                               "done", "cancelled", "closed"}]
  BY DEF AllMessages, FEMoreTypes, FETypeOK
<1>2. /\ UNCHANGED <<output_queue, coreVars, setting, alive>>
      /\ client[r] \in {"adding", "streaming"} /\ client' = [client EXCEPT ![r] = "cancelled"]
      /\ request_states' = request_states \ {r}
      /\ input_queue' = IF r \in request_states THEN Append(input_queue, Abort(r))
                        ELSE input_queue
  BY DEF abort, SendAbort, Abort
<1>3. /\ Behind(Append(input_queue, Abort(r)), r)
      /\ At(Append(input_queue, Abort(r)), Add(s)) = At(input_queue, Add(s))
      /\ Behind(input_queue, s) => Behind(Append(input_queue, Abort(r)), s)
  BY <1>1, BehindAppend
<1>4. /\ At(input_queue', Add(s)) = At(input_queue, Add(s))
      /\ Behind(input_queue, s) => Behind(input_queue', s)
  BY <1>2, <1>3
<1>5. Held(s)' <=> Held(s)
  BY <1>2, <1>4, HeldIs DEF coreVars
<1>6. CASE s = r
  <2>1. client'[s] = "cancelled" /\ client[s] # "new"
    BY <1>1, <1>2, <1>6
  <2>2. Held(s)' /\ alive' => Behind(input_queue', s)
    BY <1>1, <1>2, <1>3, <1>4, <1>5, <1>6, <2>1 DEF Messages
  <2> QED
    BY <1>1, <1>2, <1>4, <1>5, <2>1, <2>2 DEF Messages, coreVars, setting
<1>7. CASE s # r
  <2>1. client'[s] = client[s] /\ (s \in request_states' <=> s \in request_states)
    BY <1>1, <1>2, <1>7
  <2>2. \A i, j \in At(input_queue', Add(s)) : i = j
    BY <1>1, <1>4 DEF Messages
  <2> QED
    BY <1>1, <1>2, <1>4, <2>1, <2>2, KeepsMessages DEF coreVars, setting
<1> QED
  BY <1>6, <1>7

\* An output that is still on its way is about a request that was added.
LEMMA OutputOfAdded ==
    ASSUME FEIInv, NEW r \in FERid, Messages(r), NEW k \in DOMAIN output_queue,
           output_queue[k].r = r
    PROVE  sched[r] # "unknown" /\ client[r] \notin {"new", "adding"}
<1> USE FEContext
<1>1. k \in About(output_queue, r) /\ IsFiniteSet(About(output_queue, r))
  BY AboutFinite DEF About, FEMoreTypes
<1>2. Count(output_queue, r) # 0
  BY <1>1, FS_EmptySet DEF Count
<1>3. made[r] # 0
  BY <1>2
<1> QED
  BY <1>3 DEF Messages

\* An output reaches the output processor.
LEMMA ProcessOutputsMessages ==
    ASSUME FEIInv, AllMessages, process_outputs
    PROVE  AllMessages'
<1> USE FEContext
<1> DEFINE o == Head(output_queue)
<1> SUFFICES ASSUME NEW s \in FERid PROVE Messages(s)'
  BY DEF AllMessages
<1>1. /\ Messages(s) /\ input_queue \in Seq(EngineCoreRequest)
      /\ output_queue \in Seq(EngineCoreOutput) /\ output_queue # <<>>
      /\ output_queue' = Tail(output_queue) /\ UNCHANGED <<client, coreVars, setting, alive>>
  BY DEF AllMessages, FEMoreTypes, process_outputs
<1>2. o \in EngineCoreOutput /\ o.r \in FERid /\ 1 \in DOMAIN output_queue /\ o = output_queue[1]
  <2>1. \A S : \A q \in Seq(S) :
           q # <<>> => Head(q) \in S /\ 1 \in DOMAIN q /\ Head(q) = q[1]
    OBVIOUS
  <2>2. o \in EngineCoreOutput /\ 1 \in DOMAIN output_queue /\ o = output_queue[1]
    BY <1>1, <2>1
  <2> QED
    BY <2>2 DEF EngineCoreOutput
<1>3. PICK stopped \in BOOLEAN :
         /\ request_states' = IF o.r \in request_states /\ (o.finished \/ stopped)
                              THEN request_states \ {o.r} ELSE request_states
         /\ input_queue' = IF o.r \in request_states /\ stopped /\ ~o.finished
                           THEN Append(input_queue, Abort(o.r)) ELSE input_queue
  BY DEF process_outputs, SendAbort, Abort
<1> HIDE DEF o
<1>4. /\ Behind(Append(input_queue, Abort(o.r)), o.r)
      /\ At(Append(input_queue, Abort(o.r)), Add(s)) = At(input_queue, Add(s))
      /\ Behind(input_queue, s) => Behind(Append(input_queue, Abort(o.r)), s)
  BY <1>1, <1>2, BehindAppend
<1>5. /\ At(input_queue', Add(s)) = At(input_queue, Add(s))
      /\ Behind(input_queue, s) => Behind(input_queue', s)
  BY <1>3, <1>4
<1>6. Held(s)' <=> Held(s)
  BY <1>1, <1>5, HeldIs DEF coreVars
<1>7. FinishedOut(output_queue', s) => FinishedOut(output_queue, s)
  BY <1>1, FinishedOutQueue
<1>8. CASE s = o.r /\ s \in request_states /\ s \notin request_states'
  <2>1. client[s] \notin {"new", "adding"}
    BY <1>1, <1>2, <1>8, OutputOfAdded
  <2>2. CASE o.finished
    <3>1. ~Held(s)
      BY <1>1, <1>8, <2>2, FinishedOutQueue DEF Messages, o
    <3> QED
      BY <1>1, <1>5, <1>6, <1>7, <2>1, <3>1 DEF Messages, coreVars, setting
  <2>3. CASE ~o.finished
    <3>1. Behind(input_queue', s)
      BY <1>3, <1>4, <1>8, <2>3
    <3> QED
      BY <1>1, <1>5, <1>6, <1>7, <2>1, <3>1 DEF Messages, coreVars, setting
  <2> QED
    BY <2>2, <2>3
<1>9. CASE ~(s = o.r /\ s \in request_states /\ s \notin request_states')
  <2>1. s \in request_states' <=> s \in request_states
    BY <1>3, <1>9
  <2>2. \A i, j \in At(input_queue', Add(s)) : i = j
    BY <1>1, <1>5 DEF Messages
  <2> QED
    BY <1>1, <1>5, <1>7, <2>1, <2>2, KeepsMessages DEF coreVars, setting
<1> QED
  BY <1>8, <1>9

\* The engine core takes a message: an ADD is the only one of its request, and
\* an ABORT ends what it finds, unless the engine core fails of it.
LEMMA HandleMessages ==
    ASSUME FEIInv, AllMessages, alive, _handle_client_request
    PROVE  AllMessages'
<1> USE FEContext
<1> DEFINE msg == Head(input_queue)
<1> SUFFICES ASSUME NEW s \in FERid PROVE Messages(s)'
  BY DEF AllMessages
<1>1. /\ Messages(s) /\ input_queue \in Seq(EngineCoreRequest) /\ input_queue # <<>>
      /\ input_queue' = Tail(input_queue) /\ UNCHANGED <<frontVars, output_queue, made, setting>>
  BY DEF AllMessages, FEMoreTypes, _handle_client_request
<1>2. /\ alive' = ~Raises(msg)
      /\ sched' = [sched EXCEPT ![msg.r] =
                       IF Raises(msg) THEN @
                       ELSE IF msg.type = "ADD" THEN "WAITING"
                       ELSE finish_requests(msg.r)]
  BY DEF _handle_client_request
<1>3. msg \in EngineCoreRequest /\ msg.r \in FERid /\ msg \in {Add(msg.r), Abort(msg.r)}
  <2>1. msg \in EngineCoreRequest
    BY <1>1
  <2> HIDE DEF msg
  <2> QED
    BY <2>1 DEF EngineCoreRequest, Add, Abort
<1> HIDE DEF msg
<1>4. /\ At(input_queue', Add(s)) \subseteq Nat /\ At(input_queue, Add(s)) \subseteq Nat \ {0}
      /\ \A i \in Nat : i \in At(input_queue', Add(s)) <=> i >= 1 /\ i + 1 \in At(input_queue, Add(s))
      /\ 1 \in At(input_queue, Add(s)) <=> msg = Add(s)
  BY <1>1, AtTail DEF msg
<1>5. /\ \A i, j \in At(input_queue', Add(s)) : i = j
      /\ At(input_queue, Add(s)) = {} => At(input_queue', Add(s)) = {}
      /\ msg = Add(s) => At(input_queue', Add(s)) = {}
      /\ msg # Add(s) /\ At(input_queue', Add(s)) = {} => At(input_queue, Add(s)) = {}
  <2>1. \A i, j \in At(input_queue, Add(s)) : i = j
    BY <1>1 DEF Messages
  <2>2. ASSUME NEW i \in At(input_queue', Add(s)), NEW j \in At(input_queue', Add(s)) PROVE i = j
    <3>1. i \in Nat /\ j \in Nat /\ i + 1 = j + 1
      BY <1>4, <2>1
    <3> QED
      BY <3>1
  <2>3. ASSUME At(input_queue, Add(s)) = {} PROVE At(input_queue', Add(s)) = {}
    BY <1>4, <2>3
  <2>4. ASSUME msg = Add(s), NEW i \in At(input_queue', Add(s)) PROVE FALSE
    <3>1. i \in Nat /\ i >= 1 /\ i + 1 \in At(input_queue, Add(s)) /\ 1 \in At(input_queue, Add(s))
      BY <1>4, <2>4
    <3>2. i + 1 = 1
      BY <2>1, <3>1
    <3> QED
      BY <3>1, <3>2
  <2>5. ASSUME msg # Add(s), NEW j \in At(input_queue, Add(s))
        PROVE  At(input_queue', Add(s)) # {}
    <3>1. j \in Nat /\ j # 0 /\ j # 1
      BY <1>4, <2>5
    <3>2. j - 1 \in Nat /\ j - 1 >= 1 /\ (j - 1) + 1 = j
      BY <3>1
    <3> QED
      BY <1>4, <3>2
  <2> QED
    BY <2>2, <2>3, <2>4, <2>5
<1>6. ~FinishedOut(output_queue, s) \/ sched[s] # "unknown"
  BY <1>1, OutputOfAdded DEF FinishedOut
<1>7. Behind(input_queue, s) /\ (msg # Abort(s) \/ At(input_queue', Add(s)) # {})
         => Behind(input_queue', s)
  BY <1>1, BehindTail DEF msg
<1>8. CASE msg.r # s
  <2>1. msg # Add(s) /\ msg # Abort(s) /\ sched'[s] = sched[s]
    BY <1>2, <1>3, <1>8 DEF Add, Abort, FETypeOK
  <2> QED
    BY <1>1, <1>5, <1>7, <2>1, KeepsMessages DEF frontVars, setting
<1>9. CASE msg = Add(s)
  <2>1. /\ At(input_queue, Add(s)) # {} /\ At(input_queue', Add(s)) = {}
        /\ msg.r = s /\ msg.type = "ADD"
    BY <1>4, <1>5, <1>9 DEF Add
  <2>2. /\ sched[s] = "unknown" /\ client[s] \notin {"new", "adding"} /\ made[s] = 0
        /\ ~FinishedOut(output_queue, s) /\ Held(s)
    BY <1>1, <1>6, <2>1, HeldIs DEF Messages
  <2>3. sched'[s] = IF Raises(msg) THEN "unknown" ELSE "WAITING"
    BY <1>2, <2>1, <2>2 DEF FETypeOK
  <2>4. msg # Abort(s)
    BY <1>9 DEF Add, Abort
  <2>5. s \notin request_states => Behind(input_queue', s)
    BY <1>1, <1>7, <2>2, <2>4 DEF Messages
  <2> QED
    BY <1>1, <1>5, <2>1, <2>2, <2>3, <2>5 DEF Messages, frontVars, setting
<1>10. CASE msg = Abort(s)
  <2>1. msg.r = s /\ msg.type = "ABORT" /\ msg # Add(s)
    BY <1>10 DEF Add, Abort
  <2>2. sched'[s] = IF Raises(msg) THEN sched[s] ELSE finish_requests(s)
    BY <1>2, <2>1 DEF FETypeOK
  <2>3. CASE Raises(msg)
    BY <1>1, <1>2, <1>5, <2>1, <2>2, <2>3, HeldIs DEF Messages, frontVars, setting
  <2>4. CASE ~Raises(msg)
    <3>1. sched[s] # "PREEMPTED"
      BY <1>1, <2>1, <2>4 DEF Messages, Raises
    <3>2. /\ sched'[s] \in {"unknown", "finished", "ghost"}
          /\ sched'[s] = "unknown" <=> sched[s] = "unknown"
      BY <2>2, <2>4, <3>1 DEF finish_requests, FETypeOK
    <3>3. Held(s)' <=> At(input_queue', Add(s)) # {}
      BY <3>2, HeldIs
    <3>4. Held(s)' => Held(s) /\ sched[s] = "unknown"
      BY <1>1, <1>5, <3>3, HeldIs DEF Messages
    <3>5. alive /\ client[s] # "new" /\ s \notin request_states /\ Held(s)'
             => Behind(input_queue', s)
      BY <1>1, <1>7, <3>3, <3>4 DEF Messages
    <3> QED
      BY <1>1, <1>5, <1>6, <3>2, <3>3, <3>4, <3>5 DEF Messages, frontVars, setting
  <2> QED
    BY <2>3, <2>4
<1>11. msg.r = s => msg = Add(s) \/ msg = Abort(s)
  BY <1>3
<1> QED
  BY <1>8, <1>9, <1>10, <1>11

\* schedule() and the tokens that go out.
LEMMA CoreMessages ==
    ASSUME FEIInv, AllMessages, NEW r \in FERid, CoreStep(r) \/ Evict(r)
    PROVE  AllMessages'
<1> USE FEContext
<1> SUFFICES ASSUME NEW s \in FERid PROVE Messages(s)'
  BY DEF AllMessages
<1>1. /\ Messages(s) /\ output_queue \in Seq(EngineCoreOutput)
      /\ UNCHANGED <<client, request_states, input_queue, setting>> /\ (alive' => alive)
  BY DEF AllMessages, FEMoreTypes, CoreStep, Evict, Admit, Requeue, Emit, EmitGhost,
         ScheduleGhost, frontVars
<1>2. \A i, j \in At(input_queue', Add(s)) : i = j
  BY <1>1 DEF Messages
<1>3. CASE ScheduleGhost(r)
  BY <1>1, <1>2, <1>3, KeepsMessages DEF ScheduleGhost, coreVars, setting
<1>4. CASE Admit(r) \/ Requeue(r) \/ Evict(r)
  <2>1. /\ sched[r] \in {"WAITING", "RUNNING", "PREEMPTED"}
        /\ sched'[r] \in {"WAITING", "RUNNING", "PREEMPTED"}
        /\ sched'[r] = "PREEMPTED" => spexis_core
        /\ \A t \in FERid \ {r} : sched'[t] = sched[t]
        /\ UNCHANGED <<output_queue, made, alive>>
    BY <1>4 DEF Admit, Requeue, Evict, Move, FETypeOK
  <2>2. CASE s = r
    <3>1. Held(s)' /\ Held(s) /\ sched[s] # "unknown" /\ sched'[s] # "unknown"
      BY <2>1, <2>2, HeldIs
    <3> QED
      BY <1>1, <1>2, <2>1, <2>2, <3>1 DEF Messages, setting
  <2>3. CASE s # r
    BY <1>1, <1>2, <2>1, <2>3, KeepsMessages DEF setting
  <2> QED
    BY <2>2, <2>3
<1>5. CASE Emit(r)
  <2>1. PICK finished \in BOOLEAN :
          /\ output_queue' = Append(output_queue, [r |-> r, finished |-> finished])
          /\ sched' = [sched EXCEPT ![r] = IF finished THEN "finished" ELSE @]
    BY <1>5 DEF Emit
  <2>2. /\ sched[r] \in {"RUNNING", "PREEMPTED"} /\ UNCHANGED alive
        /\ made' = [made EXCEPT ![r] = @ + 1]
    BY <1>5 DEF Emit
  <2> DEFINE e == [r |-> r, finished |-> finished]
  <2>3. e \in EngineCoreOutput /\ e.r = r /\ e.finished = finished
    BY DEF EngineCoreOutput
  <2>4. output_queue' = Append(output_queue, e)
    BY <2>1
  <2> HIDE DEF e
  <2>5. FinishedOut(output_queue', s) => FinishedOut(output_queue, s) \/ (s = r /\ finished)
    BY <1>1, <2>3, <2>4, FinishedOutQueue
  <2>6. CASE s = r
    <3>1. /\ Held(s) /\ ~FinishedOut(output_queue, s)
          /\ At(input_queue, Add(s)) = {} /\ client[s] \notin {"new", "adding"}
      BY <1>1, <2>2, <2>6, HeldIs DEF Messages
    <3>2. /\ sched'[s] \in {"RUNNING", "PREEMPTED", "finished"}
          /\ sched'[s] = "PREEMPTED" => sched[s] = "PREEMPTED"
          /\ finished => sched'[s] = "finished"
      BY <2>1, <2>2, <2>6 DEF FETypeOK
    <3>3. finished => ~Held(s)'
      BY <1>1, <3>1, <3>2, HeldIs
    <3> QED
      BY <1>1, <1>2, <2>2, <2>5, <3>1, <3>2, <3>3 DEF Messages, setting
  <2>7. CASE s # r
    <3>1. sched'[s] = sched[s] /\ made'[s] = made[s]
      BY <2>1, <2>2, <2>7 DEF FETypeOK
    <3> QED
      BY <1>1, <1>2, <2>5, <2>7, <3>1, KeepsMessages DEF setting
  <2> QED
    BY <2>6, <2>7
<1>6. CASE EmitGhost(r)
  <2>1. /\ sched[r] = "ghost" /\ UNCHANGED sched /\ made' = [made EXCEPT ![r] = @ + 1]
        /\ \/ output_queue' = output_queue
           \/ output_queue' = Append(output_queue, [r |-> r, finished |-> TRUE])
    BY <1>6 DEF EmitGhost
  <2> DEFINE e == [r |-> r, finished |-> TRUE]
  <2>2. e \in EngineCoreOutput /\ e.r = r
    BY DEF EngineCoreOutput
  <2>3. output_queue' = output_queue \/ output_queue' = Append(output_queue, e)
    BY <2>1
  <2> HIDE DEF e
  <2>4. FinishedOut(output_queue', s) => FinishedOut(output_queue, s) \/ s = r
    <3>1. FinishedOut(Append(output_queue, e), s) => FinishedOut(output_queue, s) \/ e.r = s
      BY <1>1, <2>2, FinishedOutQueue
    <3> QED
      BY <2>2, <2>3, <3>1
  <2>5. CASE s = r
    <3>1. At(input_queue, Add(s)) = {} /\ ~Held(s) /\ ~Held(s)'
      BY <1>1, <2>1, <2>5, HeldIs DEF Messages
    <3> QED
      BY <1>1, <1>2, <2>1, <2>5, <3>1 DEF Messages, setting
  <2>6. CASE s # r
    <3>1. made'[s] = made[s]
      BY <2>1, <2>6 DEF FETypeOK
    <3> QED
      BY <1>1, <1>2, <2>1, <2>4, <2>6, <3>1, KeepsMessages DEF setting
  <2> QED
    BY <2>5, <2>6
<1> QED
  BY <1>3, <1>4, <1>5, <1>6 DEF CoreStep

\* Both invariants hold in every reachable state.
LEMMA MessagesInductive == FESpec => [](FEIInv /\ AllMessages)
<1>1. FEInit => AllMessages
  <2> SUFFICES ASSUME FEInit, NEW r \in FERid PROVE Messages(r)
    BY DEF AllMessages
  <2>1. /\ client[r] = "new" /\ sched[r] = "unknown" /\ made[r] = 0
        /\ input_queue = <<>> /\ output_queue = <<>>
    BY DEF FEInit
  <2>2. At(input_queue, Add(r)) = {} /\ ~FinishedOut(output_queue, r)
    BY <2>1 DEF At, FinishedOut
  <2> QED
    BY <2>1, <2>2 DEF Messages
<1>2. FEIInv /\ AllMessages /\ [FENext]_feVars => AllMessages'
  <2> SUFFICES ASSUME FEIInv, AllMessages, [FENext]_feVars PROVE AllMessages'
    OBVIOUS
  <2>1. CASE UNCHANGED feVars
    BY <2>1 DEF feVars, AllMessages, Messages, Held, Queued, FinishedOut
  <2>2. ASSUME NEW r \in FERid, add_request(r) \/ ClientStep(r) \/ abort(r) \/ close(r)
        PROVE  AllMessages'
    BY <2>2, ClientMessages, AbortMessages
  <2>3. ASSUME NEW r \in FERid, CoreStep(r) \/ Evict(r)
        PROVE  AllMessages'
    BY <2>3, CoreMessages
  <2> QED
    BY <2>1, <2>2, <2>3, ProcessOutputsMessages, HandleMessages DEF FENext, FEStopped
<1> QED
  BY <1>1, <1>2, FEInitIInv, FENextIInv, PTL DEF FESpec

\* For any number of requests, with either scheduler, in whatever order
\* disconnects, stop strings, last outputs and evictions cross: a request that
\* the front end no longer has is held by the engine core only as long as an
\* ABORT is on its way, behind the ADD; and a task that returned or was
\* cancelled has left nothing in request_states.  (A generator that is closed
\* where it yields does leave its request there: NoneOrphaned does not speak of
\* it: it goes on until it ends by itself.)
THEOREM FrontEndForgets == FESpec => []NoneOrphaned
<1>1. FEIInv /\ AllMessages => NoneOrphaned
  <2> SUFFICES ASSUME FEIInv, AllMessages, NEW r \in FERid
               PROVE  /\ client[r] \in {"done", "cancelled"} => r \notin request_states
                      /\ alive /\ client[r] # "new" /\ r \notin request_states /\ Held(r) =>
                            \E i \in Queued("ABORT", r) : \A j \in Queued("ADD", r) : j < i
    BY DEF NoneOrphaned
  <2>1. Stream(r) /\ Messages(r)
    BY DEF FEIInv, Streams, AllMessages
  <2> QED
    BY <2>1 DEF Stream, Messages, Behind, At, Abort, Add, Queued
<1> QED
  BY <1>1, MessagesInductive, PTL

-----------------------------------------------------------------------------
(* The two side by side. *)

\* What runs both channels, a behaviour one of them, runs each of them as it is
\* specified: the segment and the queues have no state in common.
THEOREM SideBySide == ChannelsSpec => Spec /\ FESpec
<1>1. ChannelsInit => Init /\ FEInit
  BY DEF ChannelsInit, ShmAtRest, FEAtRest
<1>2. [ChannelsNext]_channelVars => [Next]_vars /\ [FENext]_feVars
  BY DEF ChannelsNext, channelVars, ShmDo, FEDo, ShmStopped
<1> QED
  BY <1>1, <1>2, PTL DEF ChannelsSpec, Spec, FESpec

\* The types of both (TypeOK: what the engine core takes from the segment is a
\* message; FETypeOK: a client has been given tokens the core can have made).
THEOREM ChannelsTypeCorrect == ChannelsSpec => []ChannelsTypeOK
<1>1. TypeOK /\ FETypeOK => ChannelsTypeOK
  BY DEF ChannelsTypeOK
<1> QED
  BY <1>1, SideBySide, TypeCorrect, FETypeCorrect, PTL
=============================================================================
