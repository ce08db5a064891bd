\* Three messages, and a second channel that has none.
SPECIFICATION MvSpec
CONSTANTS
  MvChannels = {"a", "b"}
  MvKind <- MCKind
  MvPlace <- MCPlace
  MvShown = 2
  MaxMvKeys = 4
  MaxMvLines = 1
INVARIANT
  PickerStaysInList
CHECK_DEADLOCK FALSE
