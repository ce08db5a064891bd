---------------------------- MODULE SetupWizard ----------------------------
(***************************************************************************)
(* Adding a network or a server: the wizard that runs in the terminal      *)
(* before the TUI (internal/setup/wizard.go) and the overlay inside it     *)
(* (internal/tui/setup_wizard.go).  Both write what they added to the      *)
(* configuration; the wizard can go back, a list of servers can fail to    *)
(* load, ctrl+c can come at any prompt, and the overlay can be closed and  *)
(* opened again before its list arrives.                                   *)
(*                                                                         *)
(* A server of Discord is a number, 0 for none.  How it is written is in   *)
(* ClientStart, the prompts' wording is left out, and names are prefixed   *)
(* so that the client's parts can be checked side by side.                 *)
(***************************************************************************)
EXTENDS Naturals, Sequences

CONSTANTS
  SwGuilds,     \* servers of which the user is an administrator
  MaxSwLines,   \* bound: answers of the user
  MaxSwFails    \* bound: requests that fail

ASSUME SetupWizardAssumption ==
  /\ SwGuilds \subseteq Nat \ {0}
  /\ {MaxSwLines, MaxSwFails} \subseteq Nat

VARIABLES
  swStep,       \* state.Step, or how RunSetup ended
  swSelected,   \* state.SelectedGuild
  swPrev,       \* state.PrevGuild
  swCfg,        \* cfg: its networks, servers, current server, Discord's use
  swStopped,    \* the context is cancelled
  soStep,       \* m.setupStep of the overlay
  soList,       \* m.setupGuilds
  soIdx,        \* m.setupSelectedIdx, from 1
  soFetches,    \* requests of the overlay in flight
  swYes,        \* history: servers the user said yes to
  swSkipped,    \* history: the server with which the wizard went on without a list
  swAdded,      \* history: servers written to the configuration
  swLines,      \* bounded by MaxSwLines
  swFails       \* bounded by MaxSwFails

swWizard  == <<swStep, swSelected, swPrev, swStopped, swSkipped>>
soOverlay == <<soStep, soList, soIdx, soFetches>>
swKept    == <<swCfg, swAdded>>
swBounds  == <<swLines, swFails>>
swVars == <<swWizard, soOverlay, swKept, swYes, swBounds>>

SwSteps == {"ChooseNetwork", "MatrixConnect", "IRCConnect", "PickGuild",
            "Choosing", "ConfirmGuild", "InviteBot", "WaitForBot", "Done"}
SwEnds  == {"cancelled", "error", "returned"}

SwTypeOK ==
  /\ swStep \in SwSteps \cup SwEnds
  /\ {swSelected, swPrev} \subseteq SwGuilds \cup {0}
  /\ swCfg \in [networks : SUBSET {"matrix", "irc"}, guilds : SUBSET SwGuilds,
                guild : SwGuilds \cup {0}, auth : BOOLEAN, app : BOOLEAN,
                token : BOOLEAN]
  /\ swStopped \in BOOLEAN
  /\ soStep \in {"idle", "fetching", "picking", "confirming", "done"}
  /\ soList \in Seq(SwGuilds)
  /\ soIdx \in Nat
  /\ soFetches \in 0..MaxSwLines
  /\ {swYes, swSkipped, swAdded} \subseteq SUBSET SwGuilds
  /\ swLines \in 0..MaxSwLines
  /\ swFails \in 0..MaxSwFails

\* NeedsOnboarding is forced, so that the wizard runs.
SwInit ==
  /\ swStep = "ChooseNetwork"
  /\ swSelected = 0
  /\ swPrev = 0
  /\ \E app \in BOOLEAN, token \in BOOLEAN, configured \in SUBSET SwGuilds :
       swCfg = [networks |-> {}, guilds |-> configured, auth |-> TRUE, app |-> app,
                guild |-> IF configured = {} THEN 0
                          ELSE CHOOSE g \in configured : TRUE,
                token |-> token]
  /\ swStopped = FALSE
  /\ soStep = "idle"
  /\ soList = <<>>
  /\ soIdx = 1
  /\ soFetches = 0
  /\ swYes = {}
  /\ swSkipped = {}
  /\ swAdded = {}
  /\ swLines = 0
  /\ swFails = 0

\* The user answers a prompt, or a request fails.
SwAnswer == swLines < MaxSwLines /\ swLines' = swLines + 1 /\ UNCHANGED swFails
SwFail   == swFails < MaxSwFails /\ swFails' = swFails + 1 /\ UNCHANGED swLines

InStep(step) == swStep = step /\ ~swStopped
ToStep(step) == swStep' = step

-----------------------------------------------------------------------------
(* The wizard.                                                             *)

\* handleChooseNetwork.  Discord is offered to one who has a relay and an
\* application, when EnsureUserConfig gets a token, or who has a token already.
ChooseNetwork ==
  /\ InStep("ChooseNetwork")
  /\ \/ ToStep("MatrixConnect") /\ SwAnswer /\ UNCHANGED swCfg
     \/ ToStep("IRCConnect") /\ SwAnswer /\ UNCHANGED swCfg
     \/ /\ swCfg.app
        /\ \/ SwAnswer /\ ToStep("PickGuild")
              /\ swCfg' = [swCfg EXCEPT !.auth = TRUE, !.token = TRUE]
           \/ SwFail /\ swCfg' = [swCfg EXCEPT !.auth = TRUE] /\ UNCHANGED swStep
     \/ /\ ~swCfg.app /\ swCfg.token
        /\ ToStep("PickGuild") /\ SwAnswer /\ UNCHANGED swCfg
  /\ UNCHANGED <<swSelected, swPrev, swStopped, swSkipped, soOverlay, swAdded, swYes>>

\* handleMatrixConnect and handleIRCConnect: the entry is added or replaced, and
\* Discord is switched off if nothing of it is configured.  Save can fail.
Connect(network, step) ==
  /\ InStep(step)
  /\ swCfg' = [swCfg EXCEPT
                 !.networks = @ \cup {network},
                 !.auth = @ /\ (swCfg.guilds # {} \/ swCfg.app)]
  /\ \/ SwAnswer /\ ToStep("Done")
     \/ SwFail /\ ToStep("error")
  /\ UNCHANGED <<swSelected, swPrev, swStopped, swSkipped, soOverlay, swAdded, swYes>>

\* handlePickGuild up to its prompt: without a list, or with nothing on it that is
\* new, enter goes on.
PickGuild ==
  /\ InStep("PickGuild")
  /\ \/ /\ SwGuilds \ swCfg.guilds # {}
        /\ ToStep("Choosing")
        /\ UNCHANGED <<swSkipped, swBounds>>
     \/ /\ \/ SwGuilds \ swCfg.guilds = {} /\ SwAnswer
           \/ SwFail
        /\ ToStep("Done")
        /\ swSkipped' = swSkipped \cup ({swSelected} \ {0})
  /\ UNCHANGED <<swSelected, swPrev, swStopped, soOverlay, swKept, swYes>>

\* The number of a server.
ChooseGuild(g) ==
  /\ InStep("Choosing")
  /\ g \notin swCfg.guilds
  /\ SwAnswer
  /\ swPrev' = swSelected
  /\ swSelected' = g
  /\ ToStep("ConfirmGuild")
  /\ UNCHANGED <<swStopped, swSkipped, soOverlay, swKept, swYes>>

\* [fault] "n" takes back the server, but not the step.
DeclineAndGoOn == "InviteBot"

\* Where "n" leads.
AfterDecline == "PickGuild"

\* handleConfirmGuild.
ConfirmGuild ==
  /\ InStep("ConfirmGuild")
  /\ SwAnswer
  /\ \/ ToStep("InviteBot") /\ swYes' = swYes \cup {swSelected} /\ UNCHANGED swSelected
     \/ /\ ToStep(AfterDecline)
        /\ swSelected' = IF swPrev # 0 THEN swPrev ELSE swSelected
        /\ UNCHANGED swYes
  /\ UNCHANGED <<swPrev, swStopped, swSkipped, soOverlay, swKept>>

\* handleInviteBot.
InviteBot ==
  /\ InStep("InviteBot")
  /\ SwAnswer
  /\ ToStep("PickGuild") \/ ToStep("WaitForBot")
  /\ UNCHANGED <<swSelected, swPrev, swStopped, swSkipped, soOverlay, swKept, swYes>>

\* handleWaitForBot: the bot is seen within the polls, or the user skips, goes
\* back or tries again; cancelled in a poll it is an error.
WaitForBot ==
  /\ swStep = "WaitForBot"
  /\ \/ ~swStopped /\ ToStep("Done") /\ UNCHANGED swBounds
     \/ ~swStopped /\ SwAnswer /\ ToStep("InviteBot")
     \/ swStopped /\ ToStep("error") /\ UNCHANGED swBounds
  /\ UNCHANGED <<swSelected, swPrev, swStopped, swSkipped, soOverlay, swKept, swYes>>

\* A server is written: the entry, and the current server if there is none.
AddGuild(cfg, g) == [cfg EXCEPT !.guilds = @ \cup {g},
                                !.guild = IF @ = 0 THEN g ELSE @]

\* RunSetup's end: saveConfig of the selected server, if there is one.
Finish ==
  /\ InStep("Done")
  /\ IF swSelected = 0 THEN UNCHANGED swKept
     ELSE swCfg' = AddGuild(swCfg, swSelected) /\ swAdded' = swAdded \cup {swSelected}
  /\ ToStep("returned")
  /\ UNCHANGED <<swSelected, swPrev, swStopped, swSkipped, soOverlay, swYes, swBounds>>

\* ctrl+c; and the loop of RunSetup notices, with the prompt given up.
Interrupt ==
  /\ swStep \in SwSteps /\ ~swStopped
  /\ swStopped' = TRUE
  /\ UNCHANGED <<swStep, swSelected, swPrev, swSkipped, soOverlay, swKept, swYes,
                 swBounds>>

Cancelled ==
  /\ swStopped
  /\ swStep \in SwSteps
  /\ ToStep("cancelled")
  /\ UNCHANGED <<swSelected, swPrev, swStopped, swSkipped, soOverlay, swKept, swYes,
                 swBounds>>

-----------------------------------------------------------------------------
(* The overlay, once the TUI runs.                                         *)

Tui == swStep \in {"cancelled", "returned", "error"}

\* ctrl+s.
OpenSetupWizard ==
  /\ Tui /\ soStep = "idle"
  /\ SwAnswer
  /\ soList' = <<>>
  /\ soIdx' = 1
  /\ IF swCfg.token THEN soStep' = "fetching" /\ soFetches' = soFetches + 1
                    ELSE soStep' = "done" /\ UNCHANGED soFetches
  /\ UNCHANGED <<swWizard, swKept, swYes>>

\* setupGuildsMsg, whatever step the overlay is in by now, closed included.
HandleSetupGuilds ==
  /\ soFetches > 0
  /\ soFetches' = soFetches - 1
  /\ \/ SwFail /\ soStep' = "done" /\ UNCHANGED <<soList, soIdx>>
     \/ /\ UNCHANGED swBounds
        /\ \E list \in [1..2 -> SwGuilds] : soList' = list
        /\ soStep' = "picking"
        /\ soIdx' = 1
  /\ UNCHANGED <<swWizard, swKept, swYes>>

\* handleSetupKey but for the confirmation.
SetupKey ==
  /\ SwAnswer
  /\ \/ soStep # "idle" /\ soStep' = "idle" /\ UNCHANGED soIdx
     \/ /\ soStep = "picking" /\ UNCHANGED soStep
        /\ soIdx' \in {soIdx - 1, soIdx + 1} \cap DOMAIN soList
     \/ soStep = "picking" /\ soIdx \in DOMAIN soList
        /\ soStep' = "confirming" /\ UNCHANGED soIdx
     \/ soStep = "confirming" /\ soStep' = "picking" /\ UNCHANGED soIdx
  /\ UNCHANGED <<swWizard, soList, soFetches, swKept, swYes>>

\* y or enter: confirmSetupGuild of the server that is shown.
ConfirmSetupGuild ==
  /\ soStep = "confirming"
  /\ SwAnswer
  /\ soStep' = "idle"
  /\ swYes' = swYes \cup {soList[soIdx]}
  /\ swCfg' = AddGuild(swCfg, soList[soIdx])
  /\ swAdded' = swAdded \cup {soList[soIdx]}
  /\ UNCHANGED <<swWizard, soList, soIdx, soFetches>>

-----------------------------------------------------------------------------
SwNext ==
  \/ ChooseNetwork
  \/ Connect("matrix", "MatrixConnect") \/ Connect("irc", "IRCConnect")
  \/ PickGuild \/ (\E g \in SwGuilds : ChooseGuild(g)) \/ ConfirmGuild
  \/ InviteBot \/ WaitForBot \/ Finish \/ Interrupt \/ Cancelled
  \/ OpenSetupWizard \/ HandleSetupGuilds \/ SetupKey \/ ConfirmSetupGuild

SwSpec == SwInit /\ [][SwNext]_swVars

-----------------------------------------------------------------------------
(* Properties.                                                             *)

\* A server that is written to the configuration is one the user said yes to,
\* through any going back and choosing again, and with lists of the overlay that
\* arrive late; but for the one server that was selected when the list could not
\* be had a second time and the wizard went on: it is written, declined or not.
AddedWasConfirmed == swAdded \subseteq swYes \cup swSkipped
=============================================================================
