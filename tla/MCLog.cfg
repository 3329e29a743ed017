CONSTANTS
  Message <- MCMessage
  BufLen = 8
  Word = 32
SPECIFICATION Spec
INVARIANTS LinesTagged
PROPERTY KeepsLast
