SPECIFICATION Spec
CONSTANTS
  XLEN = 64
  MaxTime = 16
  SBI_TIMEBASE <- MCSBI_TIMEBASE
  TICK_NUM <- MCTICK_NUM
  TicksMod <- MCTicksMod
  Builds <- MCUngraded
  BootSTIE <- MCBootSTIE
  Garbage <- MCGarbage
PROPERTIES
  DispatchByType
