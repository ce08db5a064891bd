\* Channels of one event, so that every send can block; two calls of
\* plugins; a room of three events, opened twice, with pages of one.
SPECIFICATION NetSpec
CONSTANTS
  IrcChannels = {"a", "b"}
  IrcNicks = {"n"}
  IrcBuffer = 1
  IrcBudgets <- MCIrcBudgets
  MxKinds = {"text", "edit", "reaction", "blank", "typing", "locked"}
  MxBuffer = 1
  MaxMxEvents = 3
  MaxMxFails = 2
  Opening <- MCOpening
  Script <- MCScript
  DemoBuffer = 2
  PlPlugins = {1, 2}
  PlScripts <- MCScripts
  MaxPlCalls = 2
  MaxPlEffects = 1
  PageLimit = 1
  RoomKinds = {"text", "state"}
  MaxEvents = 3
  MaxOpens = 2
INVARIANTS
  NetTypeOK
  JoinedIsSubscribed
  NoNickAcrossSessions
  EffectsOfTheCall
  PagesJoin
PROPERTIES
  IrcIsStream
  OthersAreStreams
  NetworksClose
  CallsReturn
CHECK_DEADLOCK FALSE
