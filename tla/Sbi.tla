--------------------------------- MODULE Sbi ---------------------------------
(***************************************************************************)
(* The machine timer and the firmware's timer service, as the kernel uses  *)
(* them through libs/sbi.h: sbi_set_timer arms the one timer and clears    *)
(* the pending supervisor timer interrupt; when the time comes the         *)
(* firmware raises it and disarms the timer.  External to the repository.  *)
(***************************************************************************)
EXTENDS Naturals

CONSTANT MaxTime   \* bound: the counter stops there

ASSUME MaxTimeAssumption == MaxTime \in Nat

VARIABLES
  mtime,     \* the counter rdtime reads
  mtimecmp,  \* the time last asked for
  armed,     \* the firmware waits for mtimecmp
  STIP,      \* supervisor timer interrupt pending
  fires,     \* history: how often the timer went off
  lastFire   \* history: when it last did

sbiVars == <<mtime, mtimecmp, armed, STIP, fires, lastFire>>

SbiTypeOK ==
  /\ mtime \in 0..MaxTime
  /\ mtimecmp \in Nat
  /\ armed \in BOOLEAN /\ STIP \in BOOLEAN
  /\ fires \in Nat /\ lastFire \in 0..MaxTime

SbiInit ==
  /\ mtime = 0 /\ mtimecmp = 0
  /\ armed = FALSE /\ STIP = FALSE
  /\ fires = 0 /\ lastFire = 0

sbi_set_timer(when) ==
  /\ mtimecmp' = when
  /\ armed' = TRUE
  /\ STIP' = FALSE
  /\ UNCHANGED <<mtime, fires, lastFire>>

AdvanceTime ==
  /\ mtime < MaxTime
  /\ mtime' = mtime + 1
  /\ UNCHANGED <<mtimecmp, armed, STIP, fires, lastFire>>

Fire ==
  /\ armed
  /\ mtime >= mtimecmp
  /\ STIP' = TRUE
  /\ armed' = FALSE
  /\ fires' = fires + 1
  /\ lastFire' = mtime
  /\ UNCHANGED <<mtime, mtimecmp>>
=============================================================================
