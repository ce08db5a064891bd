\* Two transactions, of which one waits for the other device to confirm.
SPECIFICATION Spec
CONSTANTS
  Txns = {t1, t2}
  Outgoing = {t1}
  None = None
  EventBuffer = 1
PROPERTY
  WaitsForOther
CHECK_DEADLOCK FALSE
