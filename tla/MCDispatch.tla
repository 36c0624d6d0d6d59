----------------------------- MODULE MCDispatch ------------------------------
(***************************************************************************)
(* Dispatch over a loop of two instructions, timers that are due at once,  *)
(* within the loop and after it, a known exception and an unknown one.     *)
(***************************************************************************)
EXTENDS Dispatch

MCTimebases == {0, 1, 3}
MCFaults    == {3, 12}   \* CAUSE_BREAKPOINT, and one past CAUSE_MACHINE_ECALL
=============================================================================
