\* Liveness: one client action in all, no symmetry.
SPECIFICATION FairSpec
CONSTANTS
  Conns = {c1, c2}
  Posters = {p1}
  Users = {"alice"}
  Channels = {"general"}
  None = None
  Buffer = 1
  MaxActions = 1
  MaxPosts = 1
PROPERTIES
  NoStall
  PumpsEndTogether
CHECK_DEADLOCK FALSE
