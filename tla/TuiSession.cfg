\* The relay and one direct network, two channel names that both have; a message
\* with one edit and one reaction, and one channel switch;
\* two mentions over two starts; panels of up to two sources.
SPECIFICATION TuiSpec
CONSTANTS
  Networks = {"discord", "irc"}
  Relay = "discord"
  NumChannels = 2
  Home = 1
  None = None
  PageSize = 1
  Budgets <- MCBudgets
  LsChannels = {"a", "b"}
  LsPlace <- MCLsPlace
  MaxLsTexts = 2
  MaxLsReacts = 1
  MaxLsWrites = 2
  MaxLsOpens = 1
  MnIds = {n1, n2}
  MnNotice = notice
  MaxMnWrites = 2
  MaxMnStarts = 1
  MaxMnClears = 2
  SpConfigs <- MCSpConfigs
  SpLegacy = {"s"}
  MaxSpVersions = 2
  MaxSpFetches = 4
INVARIANTS
  TuiTypeOK
  ViewWellFormed
  AlwaysListening
  OneTicker
  LastWordKept
  SidebarKept
PROPERTIES
  EventsInOrder
  NothingVanishes
  BadgeKept
CHECK_DEADLOCK FALSE
