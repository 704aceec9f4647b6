CONSTANTS
  Chars = {x, lf}
  Symbols = {sp, tab}
  Blank = sp
  LineFeed = lf
  Margins <- MCMargins
  BufferSize = 3
  MaxIndent = 2
  MaxChars = 4
SPECIFICATION Spec
INVARIANTS
  TypeOK
  NoDanglingMargin
PROPERTIES
  StreamIsPrinter
