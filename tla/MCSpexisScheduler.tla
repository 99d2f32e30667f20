------------------------- MODULE MCSpexisScheduler -------------------------
(* Values for the constants of SpexisScheduler. *)
EXTENDS SpexisScheduler

CONSTANTS r1, r2, r3, tokA, tokB, eos

MCTwo == {r1, r2}
MCThree == {r1, r2, r3}

MCPrompt == [r \in Rid |-> IF r = r1 THEN 2 ELSE 1]
MCMaxTokens == [r \in Rid |-> 3]
MCMaxTokens4 == [r \in Rid |-> 4]
\* Two long requests and a short one.
MCMaxTokensMixed == [r \in Rid |-> IF r = r3 THEN 1 ELSE 5]
MCMaxTokens5 == [r \in Rid |-> 5]

MCToken == {tokA, tokB}
MCTokenEos == {tokA, eos}

\* Target models that tell requests, lengths and last tokens apart.
MCTarget(r, s) ==
    IF s = <<>> THEN (IF r = r1 THEN tokA ELSE tokB)
    ELSE IF s[Len(s)] = tokA THEN tokB ELSE tokA

MCTargetEos(r, s) ==
    IF Len(s) < 3 THEN tokA ELSE IF s[Len(s)] = eos THEN tokA ELSE eos
=============================================================================
