SPECIFICATION Spec
CONSTANTS
  XLEN = 32
  MaxTime = 16
  SBI_TIMEBASE <- MCSBI_TIMEBASE
  TICK_NUM <- MCTICK_NUM
  TicksMod <- MCTicksMod
  Builds <- MCUngraded
  BootSTIE <- MCAnySTIE
  Garbage <- MCGarbage
INVARIANTS
  ClockInitEnablesTimer
