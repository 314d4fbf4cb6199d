SPECIFICATION FairSpec
CONSTANTS
  t1 = t1
  t2 = t2
  t3 = t3
  t4 = t4
  Threads <- MCThreads
  ChannelCount = 3
  DrumChannel = 1
  Unlocked = Unlocked
INVARIANTS
  TypeOK
  NoSharedChannel
  Accounted
PROPERTIES
  ImplementsPool
  CallsReturn
