\* A stream and two oneshots of one client; channels fill at one message, and the
\* server runs on one thread.
CONSTANTS
  client = client
  server = server
  r1 = r1
  r2 = r2
  r3 = r3
  s1 = s1
  s2 = s2
  o1 = o1
  o2 = o2
  o3 = o3
  NoCall = NoCall
  Peer = {client, server}
  Call = {s1, o1, o3}
  Id = {1}
  Owner <- MCOwner
  Kind <- MCKind
  ChannelSize = 1
  Inline = {}
  OneThread = {server}
  Reused = {}
  Faults = {"drop_handle", "stop", "reset"}
  MaxItems = 2
SPECIFICATION Spec
\* All calls may be over, or both services be sending, each to a full channel.
CHECK_DEADLOCK FALSE
PROPERTIES StepsAdvance SendsEnd ItemsArrive BothEnd
