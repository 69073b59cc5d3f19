\* The smallest instance with a frame longer than the receive buffer.
CONSTANTS
  Message = {2}
  HeaderLen = 1
  BodyLen <- MCBodyLen
  Unencodable = {}
  Undecodable = {}
  SendQueueSize = 1
  RecvQueueSize = 1
  RecvBufferSize = 2
  SocketCapacity = 3
  Faults = {}
  MaxItems = 1
SPECIFICATION SafeSpec
\* The sending task may panic (a second close) after the peer saw the end.
CHECK_DEADLOCK FALSE
INVARIANT EndIsComplete
