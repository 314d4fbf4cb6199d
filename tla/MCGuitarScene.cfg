SPECIFICATION Spec
CONSTANTS
  Songs <- SmallSongs
  Frets = {0, 4}
  Lead = 1
  Margin = 3
  Bucket = 1
  Step = 2
  Inputs = 2
INVARIANTS
  TypeOK
  NothingSlipsBy
  HitsCounted
  TapFollowsHopo
  FailedIsFinal
CHECK_DEADLOCK FALSE
