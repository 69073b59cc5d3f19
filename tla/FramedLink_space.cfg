\* The smallest instance with a queue that can be half full.
CONSTANTS
  Message = {1}
  HeaderLen = 1
  BodyLen <- MCBodyLen
  Unencodable = {}
  Undecodable = {}
  SendQueueSize = 2
  RecvQueueSize = 1
  RecvBufferSize = 2
  MaxChunk = 2
  MaxItems = 2
SPECIFICATION SafeSpec
INVARIANT AvailableSpaceCountsItems
