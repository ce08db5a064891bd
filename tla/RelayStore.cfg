\* Two publishers in one channel, a window of one clock reading and pages of
\* one message, so that pruning, paging and publishing meet within four readings.
SPECIFICATION Spec
CONSTANTS
  Publishers = {p1, p2}
  Users = {"alice"}
  Channels = {"general"}
  Home = "general"
  Retention = 1
  Limit = 1
  MaxTime = 4
  MaxRestarts = 1
SYMMETRY PublisherSymmetry
INVARIANTS
  AnnouncedIsKept
  StaleNeverServed
  PagingComplete
CHECK_DEADLOCK FALSE
