SPECIFICATION Spec
CONSTANTS
  XLEN = 32
  v1 = v1
  v2 = v2
  irq = irq
  exc = exc
  nowhere = nowhere
  somewhere = somewhere
  Junk = Junk
  XRegs <- MCXRegs
  RegFiles <- MCRegFiles
  Traps <- MCTraps
  CSlots <- MCCSlots
  StackTop <- MCStackTop
INVARIANTS
  TypeOK
  HandlerSeesItsTrap
  StaysInSupervisor
  ReportIsTrue
  TrapInv
PROPERTIES
  ContextRestored
  RefinesTrapSpec
