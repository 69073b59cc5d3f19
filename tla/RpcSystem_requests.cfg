\* Three requests of one client, which uses one of two ids again too early;
\* channels fill at one message.
CONSTANTS
  client = client
  server = server
  r1 = r1
  r2 = r2
  r3 = r3
  s1 = s1
  s2 = s2
  o1 = o1
  o2 = o2
  o3 = o3
  NoCall = NoCall
  Peer = {client, server}
  Call = {r1, r2, r3}
  Id = {1, 2}
  Owner <- MCOwner
  Kind <- MCKind
  ChannelSize = 1
  Inline = {}
  OneThread = {}
  Reused = {1}
  Faults = {"cancel", "drop_handle", "fail", "stop", "code"}
  MaxItems = 0
SPECIFICATION SafeSpec
\* Both services may be gone and every call over.
CHECK_DEADLOCK FALSE
INVARIANTS TypeOK AnswersOwnCall CallPanicsOnlyWithoutService ServicePanicsOnlyFor
PROPERTY ImplementsCallService
