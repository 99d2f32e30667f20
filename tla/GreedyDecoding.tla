--------------------------- MODULE GreedyDecoding ---------------------------
(***************************************************************************)
(* What Spexis promises the user of one request: the stream he receives is *)
(* the target model's own greedy continuation of the prompt, one token at  *)
(* a time, up to and including the first token at which the request stops. *)
(* Nothing is said of speculation, pipelines or preemption.                *)
(***************************************************************************)
EXTENDS Naturals, Sequences

CONSTANTS Target(_),  \* the target model's greedy next token after a prefix
          Stops(_)    \* does the request end with this output?

VARIABLES stream,     \* tokens delivered to the user
          done        \* the request has finished

Init == stream = <<>> /\ done = FALSE

Emit ==
    /\ ~done
    /\ stream' = Append(stream, Target(stream))
    /\ done' = Stops(stream')

Next == Emit

Spec == Init /\ [][Next]_<<stream, done>>
=============================================================================
