----------------------------- MODULE ShmChannel -----------------------------
(***************************************************************************)
(* The shared-memory channel of spec_parallel/shm.py: the stage-0 worker   *)
(* publishes the exit layer's output of every batch out of band, the       *)
(* engine core picks it up right after it launched the batch.              *)
(*                                                                         *)
(*     [ flag : FlagSize ][ len : HeaderSize ][ payload ]                  *)
(*                                                                         *)
(* Two processes spin on flag.  A payload is copied cell by cell, so that  *)
(* a reader could see half of a message.  Memory is taken to be            *)
(* sequentially consistent.  The Ray DAG that carries batches to the       *)
(* worker is external: a batch arrives once, in order.                     *)
(***************************************************************************)
EXTENDS Integers, Sequences

CONSTANTS MaxSize, FlagSize, HeaderSize,  \* sizes in cells
          Cell,                           \* contents of a cell
          Message,                        \* pickled outputs: nonempty Seq(Cell)
          NumBatches                      \* batches the engine core launches

ASSUME SizesAssumption ==
    {MaxSize, FlagSize, HeaderSize} \subseteq Nat /\ FlagSize + HeaderSize < MaxSize
ASSUME MessageAssumption == Message \subseteq Seq(Cell) \ {<<>>}
ASSUME BatchesAssumption == NumBatches \in Nat

VARIABLES flag, len, payload,      \* the segment
          batch,                   \* a batch is on its way to the worker
          writer, data, written,   \* the worker: control, output, cells written
          reader, data_len, copied,\* the engine core
          sent, got                \* history: outputs computed and returned

segment == <<flag, len, payload>>
writerVars == <<writer, data, written>>
readerVars == <<reader, data_len, copied>>
vars == <<segment, batch, writerVars, readerVars, sent, got>>

PayloadSize == MaxSize - FlagSize - HeaderSize

TypeOK ==
    /\ flag \in {0, 1} /\ len \in Nat
    /\ payload \in [1..PayloadSize -> Cell]
    /\ batch \in BOOLEAN
    /\ writer \in {"idle", "wait", "payload", "flag", "failed"}
    /\ data \in Seq(Cell) /\ written \in Nat
    /\ reader \in {"step", "spin", "len", "copy"}
    /\ data_len \in Nat /\ copied \in Seq(Cell)
    /\ sent \in Seq(Message) /\ got \in Seq(Message)

\* _init_spexis_state: a fresh segment, flag and len cleared.
Init ==
    /\ flag = 0 /\ len = 0
    /\ payload \in [1..PayloadSize -> Cell]
    /\ batch = FALSE
    /\ writer = "idle" /\ data = <<>> /\ written = 0
    /\ reader = "step" /\ data_len = 0 /\ copied = <<>>
    /\ sent = <<>> /\ got = <<>>

-----------------------------------------------------------------------------
(* The engine core: execute_spec_parallel_model, then read_result_from_shm. *)

Launch ==
    /\ reader = "step"
    /\ Len(got) < NumBatches
    /\ reader' = "spin"
    /\ batch' = TRUE
    /\ UNCHANGED <<segment, writerVars, data_len, copied, sent, got>>

\* Mutant: the reader does not look at the flag.
SpinReaderAnyFlag ==
    /\ reader = "spin"
    /\ reader' = "len"
    /\ UNCHANGED <<segment, batch, writerVars, data_len, copied, sent, got>>

SpinReader ==
    /\ reader = "spin"
    /\ flag = 1
    /\ reader' = "len"
    /\ UNCHANGED <<segment, batch, writerVars, data_len, copied, sent, got>>

ReadLen ==
    /\ reader = "len"
    /\ reader' = "copy"
    /\ data_len' = len
    /\ copied' = <<>>
    /\ UNCHANGED <<segment, batch, writerVars, sent, got>>

CopyCell ==
    /\ reader = "copy"
    /\ Len(copied) < data_len
    /\ copied' = Append(copied, payload[Len(copied) + 1])
    /\ UNCHANGED <<segment, batch, writerVars, reader, data_len, sent, got>>

Return ==
    /\ reader = "copy"
    /\ Len(copied) = data_len
    /\ reader' = "step"
    /\ flag' = 0
    /\ got' = Append(got, copied)
    /\ UNCHANGED <<len, payload, batch, writerVars, data_len, copied, sent>>

-----------------------------------------------------------------------------
(* The worker: the end of execute_exitlayer_model_ray. *)

Compute(m) ==
    /\ writer = "idle"
    /\ batch
    /\ batch' = FALSE
    /\ data' = m
    /\ sent' = Append(sent, m)
    /\ writer' = IF Len(m) < MaxSize - FlagSize THEN "wait" ELSE "failed"
    /\ UNCHANGED <<segment, written, readerVars, got>>

\* Mutant: the flag is set before the payload is written.
SpinWriterEarlyFlag ==
    /\ writer = "wait"
    /\ flag = 0
    /\ writer' = "payload"
    /\ written' = 0
    /\ flag' = 1
    /\ UNCHANGED <<len, payload, batch, data, readerVars, sent, got>>

SpinWriter ==
    /\ writer = "wait"
    /\ flag = 0
    /\ writer' = "payload"
    /\ written' = 0
    /\ UNCHANGED <<segment, batch, data, readerVars, sent, got>>

\* numpy refuses to assign an array to a slice that is shorter.
WriteCell ==
    /\ writer = "payload"
    /\ written < Len(data)
    /\ IF Len(data) > PayloadSize
       THEN /\ writer' = "failed"
            /\ UNCHANGED <<payload, written>>
       ELSE /\ payload' = [payload EXCEPT ![written + 1] = data[written + 1]]
            /\ written' = written + 1
            /\ UNCHANGED writer
    /\ UNCHANGED <<flag, len, batch, data, readerVars, sent, got>>

\* Mutant: the length of the message before is left in the header.
WriteNoLen ==
    /\ writer = "payload"
    /\ written = Len(data)
    /\ writer' = "flag"
    /\ UNCHANGED <<segment, batch, data, written, readerVars, sent, got>>

WriteLen ==
    /\ writer = "payload"
    /\ written = Len(data)
    /\ writer' = "flag"
    /\ len' = Len(data)
    /\ UNCHANGED <<flag, payload, batch, data, written, readerVars, sent, got>>

\* Mutant: the reader is not notified.
SetNoFlag ==
    /\ writer = "flag"
    /\ writer' = "idle"
    /\ UNCHANGED <<segment, batch, data, written, readerVars, sent, got>>

SetFlag ==
    /\ writer = "flag"
    /\ writer' = "idle"
    /\ flag' = 1
    /\ UNCHANGED <<len, payload, batch, data, written, readerVars, sent, got>>

ReaderStep == Launch \/ SpinReader \/ ReadLen \/ CopyCell \/ Return
WriterStep ==
    (\E m \in Message : Compute(m)) \/ SpinWriter \/ WriteCell \/ WriteLen \/ SetFlag

Next == ReaderStep \/ WriterStep

Spec == Init /\ [][Next]_vars

\* Both processes keep running.
FairSpec == Spec /\ WF_vars(ReaderStep) /\ WF_vars(WriterStep)
-----------------------------------------------------------------------------
(* Properties. *)

\* The flag is a mutex: the worker never touches payload and len while the
\* engine core reads them, although neither of them takes a lock.
MutualExclusion ==
    ~ /\ writer \in {"payload", "flag"}
      /\ reader \in {"len", "copy"}

\* Every engine step gets the output of the batch it launched: whenever
\* read_result_from_shm has returned, the messages it returned so far are,
\* in order and whole, the outputs computed so far.  No output is read
\* twice, torn, cut at an old length or left for the next step.
EachBatchItsOutput ==
    reader = "step" => got = sent

\* read_result_from_shm returns.
BatchAnswered ==
    reader = "spin" ~> reader = "step"
=============================================================================
