SPECIFICATION Spec
CONSTANTS
  Xlens <- MCXlens
  LoSize <- MCLoSize
  MaxHi <- MCMaxHi
INVARIANTS
  TypeOK
  RetriesPaid
PROPERTIES
  ReadIsExact
  NeverBackwards
