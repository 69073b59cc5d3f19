\* Two streams of one client and a request, to a service that awaits its handlers
\* in the loop; channels fill at one message.
CONSTANTS
  client = client
  server = server
  r1 = r1
  r2 = r2
  r3 = r3
  s1 = s1
  s2 = s2
  o1 = o1
  o2 = o2
  o3 = o3
  NoCall = NoCall
  Peer = {client, server}
  Call = {r1, s1, s2}
  Id = {1, 2}
  Owner <- MCOwner
  Kind <- MCKind
  ChannelSize = 1
  Inline = {server}
  OneThread = {}
  Reused = {}
  Faults = {"drop_stream", "spawn", "close", "fail"}
  MaxItems = 2
SPECIFICATION SafeSpec
\* Both services may be gone, or both be sending, each to a full channel.
CHECK_DEADLOCK FALSE
INVARIANTS StreamsInOrder ServicePanicsOnlyFor
PROPERTY ImplementsCallService
