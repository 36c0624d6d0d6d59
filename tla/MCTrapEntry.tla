----------------------------- MODULE MCTrapEntry -----------------------------
(***************************************************************************)
(* TrapEntry with room for three frames and every general register.        *)
(* The C code leaves in every register a value that names the register,    *)
(* so that two registers restored from each other's slots are told apart,  *)
(* and one of two versions, so that an older value is told from a newer.   *)
(***************************************************************************)
EXTENDS TrapEntry

CONSTANTS v1, v2, irq, exc, nowhere, somewhere

MCXRegs    == (1..31) \ {SlotSp}
MCRegFiles == {[i \in MCXRegs |-> [reg |-> i, version |-> v]] : v \in {v1, v2}}
MCTraps    == {[cause |-> irq, badvaddr |-> nowhere], [cause |-> exc, badvaddr |-> somewhere]}
MCCSlots   == 2
MCStackTop == 3 * FrameSlots + 4 * MCCSlots
=============================================================================
