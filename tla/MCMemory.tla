------------------------------ MODULE MCMemory ------------------------------
(***************************************************************************)
(* The two tables by which the workers find the state of a request,        *)
(* checked side by side: the rows of the persistent batch and the KV       *)
(* blocks.  A behaviour exercises one of them.                             *)
(***************************************************************************)
EXTENDS InputBatch, KVBlocks

CONSTANTS tokA, tokB, r1, r2, r3

\* A prompt with a full and a part of a block, and one with a full block.
MCPrompts == {<<tokA, tokA, tokB>>, <<tokB, tokA>>}

VARIABLE table

vars == <<table, batchVars, kvVars>>

\* Where the table that is not exercised stays.
KVAtRest ==
    /\ KVInit /\ spexis
    /\ \A r \in KVRid : seqs[r].tokens = (CHOOSE p \in MCPrompts : TRUE)

Init ==
    \/ table = "batch" /\ BatchInit /\ KVAtRest
    \/ table = "blocks" /\ BatchInit /\ KVInit

BatchStep == table = "batch" /\ BatchNext /\ UNCHANGED <<table, kvVars>>
KVStep == table = "blocks" /\ KVNext /\ UNCHANGED <<table, batchVars>>

Next == BatchStep \/ KVStep

Spec == Init /\ [][Next]_vars

TypeOK == BatchTypeOK /\ KVTypeOK

\* Two requests are alike.
MCSymmetry == Permutations({r1, r2})
=============================================================================
