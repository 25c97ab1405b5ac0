\* Two clients that send up to two messages of two bytes, in pieces of any size.
CONSTANTS
  Clients = {c1, c2}
  Fds = {f1, f2}
  Listen = listen
  MESSAGE_SIZE = 2
  QUEUE_CAPACITY = 1
  MAX_EVENTS = 2
  MaxSegment = 3
  MaxBytes = 5
SPECIFICATION FairSpec
INVARIANTS TypeOK FramesInOrder ConnectionsMatchSockets
PROPERTIES  StopEndsRun
CHECK_DEADLOCK FALSE
