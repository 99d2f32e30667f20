----------------------------- MODULE MCChannels -----------------------------
(***************************************************************************)
(* The two channels at the engine core, checked side by side: the shared   *)
(* memory through which the first stage answers, and the queues between it *)
(* and the front end.  A behaviour exercises one of them.                  *)
(***************************************************************************)
EXTENDS ShmChannel, FrontEnd, TLC

CONSTANTS x, y, q1, q2

MCCell == {x, y}

\* Messages of different lengths and contents, up to the size of the payload.
MCMessage == {<<x>>, <<x, y>>, <<y, x, y>>}

\* The first request is streamed, the second need not be.
MCOutputKinds == q1 :> {"DELTA"} @@ q2 :> {"CUMULATIVE", "FINAL_ONLY"}

VARIABLE channel

channelVars == <<channel, vars, feVars>>

\* Where the channel that is not exercised stays.
ShmAtRest == Init /\ payload = [i \in 1..PayloadSize |-> x]
FEAtRest ==
    /\ FEInit /\ spexis_core = (CHOOSE c \in Cores : TRUE)
    /\ output_kind = [r \in FERid |-> CHOOSE k \in OutputKinds[r] : TRUE]

ChannelsInit ==
    \/ channel = "shm" /\ Init /\ FEAtRest
    \/ channel = "queues" /\ ShmAtRest /\ FEInit

ShmDo(A) == channel = "shm" /\ A /\ UNCHANGED <<channel, feVars>>
FEDo(A) == channel = "queues" /\ A /\ UNCHANGED <<channel, vars>>

\* The worker waits for a batch that does not come any more.
ShmStopped == reader = "step" /\ Len(got) = NumBatches /\ writer = "idle" /\ UNCHANGED vars

ChannelsNext == ShmDo(Next \/ ShmStopped) \/ FEDo(FENext)

\* The worker and the engine core keep running, and so do the event loop of
\* the front end, the threads at the sockets and every request in the core.
ChannelsSpec ==
    /\ ChannelsInit /\ [][ChannelsNext]_channelVars
    /\ WF_channelVars(ShmDo(ReaderStep)) /\ WF_channelVars(ShmDo(WriterStep))
    /\ \A r \in FERid :
           /\ WF_channelVars(FEDo(alive /\ ClientStep(r)))
           /\ WF_channelVars(FEDo(alive /\ CoreStep(r)))
    /\ WF_channelVars(FEDo(alive /\ process_outputs))
    /\ WF_channelVars(FEDo(alive /\ _handle_client_request))

ChannelsTypeOK == TypeOK /\ FETypeOK
=============================================================================
