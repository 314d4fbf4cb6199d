SPECIFICATION Spec
CONSTANTS
  Frets = {0, 1, 2}
  hopoDelta = 3
  Gaps = {1, 3}
  MaxNotes = 5
  MaxTime = 6
INVARIANTS
  TypeOK
  HopoHasStart
  RunGoesOn
CHECK_DEADLOCK FALSE
