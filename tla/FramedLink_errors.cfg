\* Messages of one to three body bytes; 2 cannot be decoded, 3 not encoded.
\* The longest frame that is ever decoded has 3 bytes, the undecodable one 4.
CONSTANTS
  Message = {1, 2, 3}
  HeaderLen = 2
  BodyLen <- MCBodyLen
  Unencodable = {3}
  Undecodable = {2}
  SendQueueSize = 2
  RecvQueueSize = 2
  RecvBufferSize = 4
  MaxChunk = 3
  MaxItems = 4
SPECIFICATION Spec
INVARIANTS TypeOK ByteConservation OnlyUnencodableMissing
PROPERTY ImplementsChannel
