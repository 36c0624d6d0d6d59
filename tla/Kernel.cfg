SPECIFICATION FairSpec
CONSTANTS
  XLEN = 32
  MaxTime = 16
  SBI_TIMEBASE <- MCSBI_TIMEBASE
  TICK_NUM <- MCTICK_NUM
  TicksMod <- MCTicksMod
  Builds <- MCBuilds
  BootSTIE <- MCBootSTIE
  Garbage <- MCGarbage
INVARIANTS
  TypeOK
  KernelInv
  NoTickLost
  TicksAreCounted
  PrintsEveryTickNum
  TimerAlwaysDue
  InterruptsOnlyWhenIdle
  GradedRunPrintsOnce
PROPERTIES
  TimerSpaced
  TimerServed
  PanicIsFinal
  GradedRunEnds
