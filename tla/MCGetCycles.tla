----------------------------- MODULE MCGetCycles -----------------------------
(***************************************************************************)
(* GetCycles over a counter with a three-valued low half, so that carries are   *)
(* frequent.                                                               *)
(***************************************************************************)
EXTENDS GetCycles

MCXlens  == {32, 64}
MCLoSize == 3
MCMaxHi  == 3
=============================================================================
