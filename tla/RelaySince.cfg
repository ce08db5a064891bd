\* A reader that was away for longer than the window while the pruner has not
\* yet run again: the oldest newer row is past the window and fills the page.
SPECIFICATION Spec
CONSTANTS
  Publishers = {p1}
  Users = {"alice"}
  Channels = {"general", "random"}
  Home = "general"
  Retention = 1
  Limit = 1
  MaxTime = 4
  MaxRestarts = 1
INVARIANT
  EmptySinceIsCaughtUp
CHECK_DEADLOCK FALSE
