CONSTANTS
  Ident <- MCIdent
  Number <- MCNumber
  ValueIn <- MCValueIn
  Char <- MCChar
  Sentence <- MCSentence
  Texts <- MCTexts
  Eof = "eof"
  Spelling <- MCSpelling
  Letter <- MCLetter
  Digit <- MCDigit
  Space <- MCSpace
  NewLine <- MCNewLine
SPECIFICATION Spec
INVARIANTS
  TypeOK
  Consecutive
  ReadsBack
  ReadsLayout
  ReadsAsWritten
PROPERTY Terminates
