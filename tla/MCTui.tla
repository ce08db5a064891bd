------------------------------- MODULE MCTui -------------------------------
(* The session, and with no state in common a message in the local store,   *)
(* the mentions and the panels beside the chat: a behaviour exercises one.  *)
EXTENDS MCTuiSession, LocalStore, Mentions, SidePanels, TLC

VARIABLE part  \* the part that is exercised

\* One message, in a channel beside an empty one.
MCLsPlace == 1 :> "a"

Parts == {"session", "store", "mentions", "panels"}

\* No panels; one for github and one that cannot be built; two entries for one feed, one of
\* another kind and a switched off github panel.
MCSpEntry(type, enabled, refresh) ==
  [type |-> type, source |-> "s", enabled |-> enabled, refresh |-> refresh]
MCSpConfigs ==
  {<<>>,
   <<MCSpEntry("github", "yes", "good"), MCSpEntry("unknown", "yes", "good")>>,
   <<MCSpEntry("rss", "yes", "good"), MCSpEntry("rss", "omitted", "good"),
     MCSpEntry("github", "no", "good"), MCSpEntry("ci", "yes", "bad")>>}

\* A part that is not exercised starts in one way only.
TuiInit ==
  /\ part \in Parts
  /\ Init
  /\ part # "session" => channels = {Home} /\ budget = CHOOSE b \in Budgets : TRUE
  /\ LsInit
  /\ part # "store" => lsChannel = CHOOSE c \in LsChannels : TRUE
  /\ MnInit
  /\ SpInit
  /\ part # "panels" => spPanels = <<>>

TuiNext ==
  /\ UNCHANGED part
  /\ \/ part = "session" /\ Next /\ UNCHANGED <<lsVars, mnVars, spVars>>
     \/ part = "store" /\ LsNext /\ UNCHANGED <<vars, mnVars, spVars>>
     \/ part = "mentions" /\ MnNext /\ UNCHANGED <<vars, lsVars, spVars>>
     \/ part = "panels" /\ SpNext /\ UNCHANGED <<vars, lsVars, mnVars>>

TuiSpec == TuiInit /\ [][TuiNext]_<<part, vars, lsVars, mnVars, spVars>>

TuiTypeOK == part \in Parts /\ TypeOK /\ LsTypeOK /\ MnTypeOK /\ SpTypeOK

\* What stands beside the chat follows its source: MentionsKept and PanelsFollow.
SidebarKept == MentionsKept /\ PanelsFollow
=============================================================================
