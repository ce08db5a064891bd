\* Two transactions from two devices and an event channel that fills up; three
\* messages, four keys and one line; three starts with two faults; seven answers
\* to the wizard; four starts with Matrix.
SPECIFICATION ClientSpec
CONSTANTS
  Txns = {t1, t2}
  Outgoing = {t1}
  None = None
  EventBuffer = 2
  MvChannels = {"a", "b"}
  MvKind <- MCKind
  MvPlace <- MCPlace
  MvShown = 2
  MaxMvKeys = 4
  MaxMvLines = 1
  MaxCsPairs = 3
  MaxCsFaults = 2
  MaxCsStarts = 3
  SwGuilds = {1, 2}
  MaxSwLines = 7
  MaxSwFails = 2
  MaxMlMade = 3
  MaxMlFaults = 3
  MaxMlStarts = 4
INVARIANTS
  ClientTypeOK
  VerifiedMeansCompared
  NoGhost
  EditsAreOwn
  TokensSurvive
  RefusedForACause
  AddedWasConfirmed
  EncryptionKept
PROPERTIES
  LockFreed
  PickedReplyKept
CHECK_DEADLOCK FALSE
