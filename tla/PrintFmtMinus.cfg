SPECIFICATION Spec
CONSTANTS
  NUL = "NUL"
  Space = " "
  Junk = "Junk"
  IntBits = 4
  LongBits = 6
  Char <- MCChar
  Sizes <- MCSizes
  Formats <- MCFormats
  IntArgs <- MCIntArgs
  LongArgs <- MCLongArgs
  CharArgs <- MCCharArgs
  StrArgs <- MCStrArgs
  Unprintable <- MCUnprintable
  ErrorString <- MCErrorString
  NullPtr <- MCNullPtr
INVARIANTS
  MinusPadsOnTheRight
