SPECIFICATION Spec
CONSTANTS
  c1 = c1
  c2 = c2
  c3 = c3
  Clients <- MCClients
  ChannelCount = 2
  DrumChannel = 1
  Descriptors = 3
  Buffer = 1
  Nobody = Nobody
INVARIANTS
  ServedWhileConnected
