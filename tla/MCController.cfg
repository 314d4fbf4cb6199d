SPECIFICATION FairSpec
CONSTANTS
  N = 2
  Windows = 3
  Turns = 2
  Descriptors = 2
  Buffer = 2
INVARIANTS
  TypeOK
  FrameWhole
  LocalControllerOutlivesUse
  SendsOnlyWhenReady
PROPERTIES
  StopsWhenTold
