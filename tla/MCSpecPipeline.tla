--------------------------- MODULE MCSpecPipeline ---------------------------
(* Values for the constants of SpecPipeline. *)
EXTENDS SpecPipeline

CONSTANTS tokA, tokB, eos

MCToken == {tokA, tokB, eos}

\* A target model whose answer depends on the last token and the length, so
\* that a result computed after a wrong token is itself wrong.
MCTarget(s) ==
    IF s = <<>> THEN tokA
    ELSE IF s[Len(s)] = eos THEN tokB
    ELSE IF Len(s) >= 4 THEN eos
    ELSE IF s[Len(s)] = tokA THEN tokB ELSE tokA
=============================================================================
