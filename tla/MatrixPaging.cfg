\* Rooms of messages, edits and joins; pages of two events.
SPECIFICATION MhSpec
CONSTANTS
  PageLimit = 2
  RoomKinds = {"text", "edit", "state"}
  MaxEvents = 5
  MaxOpens = 1
INVARIANT
  AllLoadedMeansAll
CHECK_DEADLOCK FALSE
