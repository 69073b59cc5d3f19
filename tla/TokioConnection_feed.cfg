\* The smallest instance with a close between two feeds.
CONSTANTS
  Message = {1}
  HeaderLen = 1
  BodyLen <- MCBodyLen
  Unencodable = {}
  Undecodable = {}
  SendQueueSize = 1
  RecvQueueSize = 1
  RecvBufferSize = 3
  SocketCapacity = 3
  Faults = {}
  MaxItems = 2
SPECIFICATION Spec
\* The sending task may panic (a second close) after the peer saw the end.
CHECK_DEADLOCK FALSE
PROPERTY FeedReturns
