SPECIFICATION FairSpec
CONSTANTS
  LoopLen = 2
  Timebases <- MCTimebases
  Faults <- MCFaults
INVARIANTS
  TypeOK
PROPERTIES
  StormIsFinal
  RunsUnlessStorm
