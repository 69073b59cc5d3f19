\* Every frame can be decoded and fits the receive buffer; nothing fails.
CONSTANTS
  Message = {1, 2}
  HeaderLen = 1
  BodyLen <- MCBodyLen
  Unencodable = {}
  Undecodable = {}
  SendQueueSize = 1
  RecvQueueSize = 1
  RecvBufferSize = 3
  SocketCapacity = 3
  Faults = {}
  MaxItems = 3
SPECIFICATION Spec
\* The sending task may panic (a second close) after the peer saw the end.
CHECK_DEADLOCK FALSE
INVARIANT StreamIntact
PROPERTIES FeedReturns CloseIsSeen
