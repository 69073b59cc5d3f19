\* Calls of both peers, whatever fails; channels fill at one message, and one
\* service awaits its handlers in the loop, on one thread.
CONSTANTS
  client = client
  server = server
  r1 = r1
  r2 = r2
  r3 = r3
  s1 = s1
  s2 = s2
  o1 = o1
  o2 = o2
  o3 = o3
  NoCall = NoCall
  Peer = {client, server}
  Call = {r1, r3, o1, o2}
  Id = {1}
  Owner <- MCOwnerBoth
  Kind <- MCKind
  ChannelSize = 1
  Inline = {server}
  OneThread = {server}
  Reused = {}
  Faults = {"cancel", "drop_handle", "fail", "stop", "code"}
  MaxItems = 0
SPECIFICATION Spec
\* All calls may be over.
CHECK_DEADLOCK FALSE
INVARIANTS NoCallLost NobodyIsStuck
PROPERTY CallsReturn
