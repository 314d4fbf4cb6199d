SPECIFICATION Spec
CONSTANTS
  r1 = r1
  r2 = r2
  Readers <- MCReaders
  Writer = Writer
  Unlocked = Unlocked
  N = 2
  MaxWrites = 2
INVARIANTS
  TypeOK
  ReadWhole
  SequenceWhole
