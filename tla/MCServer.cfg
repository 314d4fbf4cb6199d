SPECIFICATION FairSpec
CONSTANTS
  c1 = c1
  c2 = c2
  c3 = c3
  Clients <- MCClients
  ChannelCount = 1
  DrumChannel = 0
  Descriptors = 2
  Buffer = 1
  Nobody = Nobody
INVARIANTS
  TypeOK
  DescriptorsKept
  AcceptsUntilFull
  CleanShutdown
PROPERTIES
  SessionEndsForCause
  QuitExits
  ClientAnswered
  FramesRead
