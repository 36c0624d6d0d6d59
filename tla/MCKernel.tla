------------------------------ MODULE MCKernel -------------------------------
(***************************************************************************)
(* Kernel with a timebase of two counts, a print every three ticks and a   *)
(* tick counter that wraps at five, which like 2^32 and 100 is not a       *)
(* multiple of it.                                                         *)
(***************************************************************************)
EXTENDS Kernel

MCSBI_TIMEBASE == 1200
MCTICK_NUM     == 3
MCTicksMod     == 5
MCGarbage      == {0, 2}
MCBootSTIE     == {TRUE}
MCAnySTIE      == BOOLEAN
MCBuilds       == BOOLEAN
MCUngraded     == {FALSE}
=============================================================================
