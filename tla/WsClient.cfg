\* Three sessions, so that reconnects overlap, and one frame.  The status
\* channel holds the two statuses of a lost connection and no more.
SPECIFICATION FairSpec
CONSTANTS
  StatusBuffer = 2
  FrameBuffer = 1
  EventBuffer = 1
  MaxSessions = 3
  MaxFrames = 1
INVARIANTS
  NoSocketLeak
PROPERTIES
  Resubscribed
  ShutdownCompletes
  RelayIsStream
CHECK_DEADLOCK FALSE
