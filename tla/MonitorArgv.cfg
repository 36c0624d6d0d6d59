SPECIFICATION Spec
CONSTANTS
  h = h
  b = b
  sp = sp
  tab = tab
  lf = lf
  NUL = NUL
  Backspace = Backspace
  BUFSIZE = 6
  MAXARGS = 2
  Printable <- MCPrintable
  Newlines <- MCNewlines
  Controls <- MCControls
  WHITESPACE <- MCWHITESPACE
  Commands <- MCCommands
  Backtrace <- MCBacktrace
  MaxDepth = 2
INVARIANTS
  ArgvInBounds
