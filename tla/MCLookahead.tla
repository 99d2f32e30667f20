---------------------------- MODULE MCLookahead ----------------------------
(***************************************************************************)
(* The two calculations of look-ahead scheduling that schedule() makes,    *)
(* checked side by side: a behaviour exercises one of them.                *)
(***************************************************************************)
EXTENDS ConfidenceDrop, LookaheadMemory

MCIterList == <<2, 4>>
MCExpectLength == <<1, 3>>
MCPrec == <<2, 1>>
MCTokenCounts == {1, 3}

VARIABLE call

vars == <<call, dropVars, memVars>>

\* Where the calculation that is not exercised stays.
DropAtRest == DropInit /\ running = <<>>
MemAtRest == MemInit /\ batch = <<>> /\ waiting = <<1>>

Init ==
    \/ call = "drop" /\ DropInit /\ MemAtRest
    \/ call = "memory" /\ DropAtRest /\ MemInit

DropStep == call = "drop" /\ DropNext /\ UNCHANGED <<call, memVars>>
MemStep == call = "memory" /\ MemNext /\ UNCHANGED <<call, dropVars>>

\* The selection has been made.
Returned == call = "drop" /\ sel_pc = "done" /\ UNCHANGED vars

Next == DropStep \/ MemStep \/ Returned

Spec == Init /\ [][Next]_vars

TypeOK == DropTypeOK /\ MemTypeOK
=============================================================================
