SPECIFICATION Spec
CONSTANTS
  MemInputs <- MCMem
  NumInputs <- MCNum
  FmtInputs <- MCFmt
  DateInputs <- MCDate
  Word = 8
  IntBits = 4
  MEMMOVE_SMALL_COPY_SIZE = 2
  Width = 6
  Height = 7
  GlyphWidth = 1
  GlyphHeight = 2
  Logos <- MCLogos
  Texts <- MCTexts
  Positions <- MCPositions
  UintSize = 1000
  MaxPrints = 4
INVARIANTS  NumbersRight DatesRight ScrollKeepsLogo
PROPERTY CursorStays
CHECK_DEADLOCK FALSE
