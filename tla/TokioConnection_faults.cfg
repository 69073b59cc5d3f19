\* Messages of one to four body bytes: 2 cannot be decoded, 3 not encoded, the
\* frame of 4 is longer than the receive buffer.
CONSTANTS
  Message = {1, 2, 3, 4}
  HeaderLen = 1
  BodyLen <- MCBodyLen
  Unencodable = {3}
  Undecodable = {2}
  SendQueueSize = 1
  RecvQueueSize = 2
  RecvBufferSize = 3
  SocketCapacity = 6
  Faults = {"drop", "break"}
  MaxItems = 3
SPECIFICATION SafeSpec
\* A dropped connection whose peer has seen the end, and panicked tasks, stop.
CHECK_DEADLOCK FALSE
INVARIANTS StreamIntact AcceptedOnStream FlushIsComplete EndIsComplete RefusesOnlyLongFrames SleepMissesNothingFlushed PanicsOnlyAfterEnd
PROPERTIES DecodeErrorIsFinal ImplementsChannel
