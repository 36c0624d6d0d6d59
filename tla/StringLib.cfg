SPECIFICATION Spec
CONSTANTS
  MemSize = 5
  NUL = 0
  Byte <- MCByte
  Memories <- MCMemories
  Texts <- MCTexts
  Bases <- MCBases
INVARIANTS
  TypeOK
  CopyContract
  ScanContract
