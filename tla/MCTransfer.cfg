SPECIFICATION FairSpec
CONSTANTS
  Count = 3
  Word = 16
  MaxBytes = 9
INVARIANTS
  TypeOK
  Aligned
  InOrder
PROPERTIES
  StopsAtEof
