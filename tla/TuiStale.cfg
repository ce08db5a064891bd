\* The relay and one direct network, two channel names that both have.
SPECIFICATION Spec
CONSTANTS
  Networks = {"discord", "irc"}
  Relay = "discord"
  NumChannels = 2
  Home = 1
  None = None
  PageSize = 1
  Budgets <- MCBudgets
INVARIANT
  ScreenShowsActive
CHECK_DEADLOCK FALSE
