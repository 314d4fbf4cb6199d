SPECIFICATION DSpec
CONSTANTS
  Notes <- MCNotes
  MaxBins = 2
INVARIANTS
  DTypeOK
  Mirror
  NoDropout
