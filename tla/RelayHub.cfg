\* Two interchangeable connections and one publisher on one channel.  A send
\* buffer of one frame makes a full buffer as common as room.
SPECIFICATION Spec
CONSTANTS
  Conns = {c1, c2}
  Posters = {p1}
  Users = {"alice"}
  Channels = {"general"}
  None = None
  Buffer = 1
  MaxActions = 3
  MaxPosts = 1
SYMMETRY ConnSymmetry
INVARIANTS
  NoSendOnClosed
  RegistryConsistent
PROPERTY
  NoDeliveryAfterLeaving
CHECK_DEADLOCK FALSE
