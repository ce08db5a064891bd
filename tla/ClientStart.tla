---------------------------- MODULE ClientStart ----------------------------
(***************************************************************************)
(* A user's starts of the client, one after the other (cmd/marga/main.go,  *)
(* internal/config Load and Save, internal/auth/discord, the credentials   *)
(* in the keyring, /logout): what is in the configuration file and in the  *)
(* keyring when a start is cut short, a keyring call fails or an answer of *)
(* Discord is lost, and what the next start makes of it.                   *)
(*                                                                         *)
(* A user of Discord with a server chosen; the wizard of a first run is    *)
(* SetupWizard.  Discord and the keyring are external.  A pair of tokens   *)
(* is a number, 0 for none; the access token of a pair expires, and its    *)
(* refresh token is good for one use.  Of the file only whether it can be  *)
(* used and whether it has the scope of the tokens are kept; variables of  *)
(* the environment are not set.  Names are prefixed so that the client's   *)
(* parts can be checked side by side.                                      *)
(***************************************************************************)
EXTENDS Naturals

CONSTANTS
  MaxCsPairs,    \* bound: pairs Discord issues
  MaxCsFaults,   \* bound: crashes, failed writes and keyring calls, lost requests
  MaxCsStarts    \* bound: starts of the program

ASSUME ClientStartAssumption == {MaxCsPairs, MaxCsFaults, MaxCsStarts} \subseteq Nat

VARIABLES
  csAt,       \* where main is
  csSave,     \* what Save has to do next, 0 when it does not run
  csThen,     \* where main goes on after Save
  csCfg,      \* cfg: the tokens, and the scope that is noted with them
  csFile,     \* the configuration file, and the scope in it
  csRing,     \* the keyring: the tokens under marga-discord
  csLegacy,   \* the pair under the old service name, 0 for none
  csPairs,    \* the pairs of Discord (external)
  csNew,      \* a pair issued in this start that is not in cfg yet
  csUp,       \* history: in this start, every request was answered and the
              \* user agreed
              \* history, since cfg last took over a new pair:
  csCut,      \* a crash or a failed write came before cfg was in the keyring
  csLost,     \* a pair was issued and given up
  csFailed,   \* a keyring call failed
  csFaults,   \* bounded by MaxCsFaults
  csStarts    \* bounded by MaxCsStarts

csWhere == <<csAt, csSave, csThen, csStarts>>
csDisk  == <<csFile, csRing>>
csWorld == <<csPairs, csNew>>
csPast  == <<csUp, csCut, csLost, csFailed, csFaults>>
csVars  == <<csWhere, csCfg, csDisk, csLegacy, csWorld, csPast>>

CsPair == 1..MaxCsPairs
Tokens == [access : CsPair \cup {0}, refresh : CsPair \cup {0}]
NoTokens == [access |-> 0, refresh |-> 0]

CsStates == {"off", "load", "ensure", "refresh", "login", "profile", "setup",
             "picker", "reload", "run", "prompt", "refused"}

CsTypeOK ==
  /\ csAt \in CsStates /\ csThen \in CsStates
  /\ csSave \in 0..4
  /\ csCfg \in [tokens : Tokens, scope : BOOLEAN]
  /\ csFile \in [whole : BOOLEAN, scope : BOOLEAN]
  /\ csRing \in Tokens
  /\ csLegacy \in CsPair \cup {0}
  /\ csPairs \in [CsPair -> {"none", "fresh", "stale", "spent"}]
  /\ csNew \in CsPair \cup {0}
  /\ {csUp, csCut, csLost, csFailed} \subseteq BOOLEAN
  /\ csFaults \in 0..MaxCsFaults
  /\ csStarts \in 0..MaxCsStarts

\* The file was written by hand, or the user comes from an old version, which
\* had no scope in the file and the tokens under another name.
CsInit ==
  /\ csAt = "off"
  /\ csSave = 0
  /\ csThen = "off"
  /\ csCfg = [tokens |-> NoTokens, scope |-> FALSE]
  /\ csFile = [whole |-> TRUE, scope |-> FALSE]
  /\ csRing = NoTokens
  /\ csLegacy \in {0} \cup (CsPair \cap {1})
  /\ csPairs = [p \in CsPair |-> IF p = csLegacy THEN "fresh" ELSE "none"]
  /\ csNew = 0
  /\ csUp = TRUE
  /\ csCut = FALSE
  /\ csLost = FALSE
  /\ csFailed = FALSE
  /\ csFaults = 0
  /\ csStarts = 0

Fault == csFaults < MaxCsFaults /\ csFaults' = csFaults + 1

At(s) == csAt = s /\ csSave = 0
GoTo(s) == csAt' = s /\ UNCHANGED <<csSave, csThen, csStarts>>

-----------------------------------------------------------------------------
(* Load and Save.                                                          *)

\* A call of the keyring that fails, or none does.
KeyringFails == Fault /\ csFailed' = TRUE
KeyringWorks == UNCHANGED <<csFaults, csFailed>>

\* A cfg that Validate refuses is not returned.
Take(tokens) == csCfg' = IF csFile.whole THEN [tokens |-> tokens, scope |-> csFile.scope]
                                         ELSE csCfg

\* MigrateLegacyDiscord: a token that is not found is copied from the old name.
Migrated == [k \in {"access", "refresh"} |-> IF csRing[k] # 0 THEN csRing[k]
                                                              ELSE csLegacy]

\* Load's reading of the tokens.  Any error is taken for a token that is not
\* there: in the migration the old one overwrites it, after it the cfg has none.
ReadTokens ==
  \/ csRing' = Migrated /\ Take(Migrated) /\ KeyringWorks
  \/ /\ KeyringFails
     /\ \/ UNCHANGED csRing /\ Take(NoTokens)
        \/ \E k \in {"access", "refresh"} :
             \/ csRing' = Migrated /\ Take([Migrated EXCEPT ![k] = 0])
             \/ /\ csLegacy # 0
                /\ csRing' = [Migrated EXCEPT ![k] = csLegacy]
                /\ Take(csRing')

\* Load: a file that was cut short cannot be parsed, or names no relay, which
\* Validate refuses when the keyring has been read.
Load(next, otherwise) ==
  /\ \/ ReadTokens
     \/ ~csFile.whole /\ UNCHANGED <<csCfg, csRing, csFaults, csFailed>>
  /\ GoTo(IF csFile.whole THEN next ELSE otherwise)
  /\ UNCHANGED <<csFile, csLegacy, csWorld, csUp, csCut, csLost>>

\* Save is called, and main goes on at next.
SaveThen(next) == csSave' = 1 /\ csThen' = next

\* The file is truncated, then written in place.
WriteFile ==
  /\ csSave \in {1, 2}
  /\ csFile' = IF csSave = 1 THEN [whole |-> FALSE, scope |-> FALSE]
                             ELSE [whole |-> TRUE, scope |-> csCfg.scope]
  /\ csSave' = csSave + 1
  /\ UNCHANGED <<csAt, csThen, csStarts, csCfg, csRing, csLegacy, csWorld, csPast>>

\* The file cannot be opened, or cannot be written after it was truncated: Save
\* returns the error before the keyring.  EnsureUserConfig hands it on, /logout
\* shows it and goes on without tokens, the others ignore it.
SaveFails ==
  /\ csSave \in {1, 2}
  /\ Fault
  /\ csSave' = 0
  /\ csAt' = CASE csThen = "setup" -> "refused"
               [] csThen = "off"   -> "run"
               [] OTHER            -> csThen
  /\ csCut' = TRUE
  /\ UNCHANGED <<csThen, csStarts, csCfg, csDisk, csLegacy, csWorld, csUp, csLost,
                 csFailed>>

\* [fault] only the access token is brought up to date.
KeepRefresh(ring) == ring

\* The second of the two tokens is set, or deleted when cfg has none.
SetRefresh(ring) == [ring EXCEPT !.refresh = csCfg.tokens.refresh]

\* The access token, then the refresh token; errors are ignored.
WriteKeyring ==
  /\ csSave \in {3, 4}
  /\ \/ /\ csRing' = IF csSave = 3 THEN [csRing EXCEPT !.access = csCfg.tokens.access]
                                   ELSE SetRefresh(csRing)
        /\ KeyringWorks
     \/ UNCHANGED csRing /\ KeyringFails
  /\ IF csSave = 3 THEN csSave' = 4 /\ UNCHANGED csAt
                   ELSE csSave' = 0 /\ csAt' = csThen
  /\ UNCHANGED <<csThen, csStarts, csCfg, csFile, csLegacy, csWorld, csUp, csCut,
                 csLost>>

-----------------------------------------------------------------------------
(* main, up to the TUI.                                                    *)

Start ==
  /\ csAt \in {"off", "refused"}
  /\ csStarts < MaxCsStarts
  /\ csStarts' = csStarts + 1
  /\ csAt' = "load"
  /\ csUp' = TRUE
  /\ UNCHANGED <<csSave, csThen, csCfg, csDisk, csLegacy, csWorld, csCut, csLost,
                 csFailed, csFaults>>

FirstLoad == At("load") /\ Load("ensure", "refused")

\* A request of EnsureUserConfig fails although Discord would have answered, or
\* the user does not log in.
Unanswered == Fault /\ csUp' = FALSE

\* The cases of EnsureUserConfig when the profile could not be had.
Otherwise == IF ~csCfg.scope THEN "login"
             ELSE IF csCfg.tokens.refresh # 0 THEN "refresh" ELSE "login"

\* EnsureUserConfig: the user's profile with the token there is.
EnsureUserConfig ==
  /\ At("ensure")
  /\ IF csCfg.tokens.access # 0 /\ csPairs[csCfg.tokens.access] = "fresh"
     THEN \/ /\ IF csCfg.scope THEN SaveThen("setup") /\ UNCHANGED <<csAt, csStarts>>
                              ELSE GoTo("login")
             /\ UNCHANGED <<csUp, csFaults>>
          \/ GoTo(Otherwise) /\ Unanswered
     ELSE GoTo(Otherwise) /\ UNCHANGED <<csUp, csFaults>>
  /\ UNCHANGED <<csCfg, csDisk, csLegacy, csWorld, csCut, csLost, csFailed>>

Unissued == {p \in CsPair : csPairs[p] = "none"}

\* The pair in cfg has been used up for the one that is given up.
GiveUp == csLost' = (csLost \/ (csCfg.tokens.refresh # 0
                               /\ csPairs'[csCfg.tokens.refresh] = "spent"))

\* A pair is issued; old is the one its refresh token was given for, 0 for none.
\* The answer arrives, or is lost and with it the pair.
Issue(old) ==
  \E p \in Unissued :
    /\ \A q \in Unissued : p <= q
    /\ csPairs' = [q \in CsPair |-> IF q = p THEN "fresh"
                                    ELSE IF q = old THEN "spent" ELSE csPairs[q]]
    /\ \/ csNew' = p /\ GoTo("profile") /\ UNCHANGED <<csUp, csLost, csFaults>>
       \/ GiveUp /\ GoTo("refused") /\ Unanswered /\ UNCHANGED csNew

\* The token request of Refresh: granted, refused, or never sent.
Refresh ==
  /\ At("refresh")
  /\ \/ /\ csPairs[csCfg.tokens.refresh] \in {"fresh", "stale"}
        /\ Issue(csCfg.tokens.refresh)
     \/ /\ csPairs[csCfg.tokens.refresh] = "spent"
        /\ GoTo("refused")
        /\ UNCHANGED <<csWorld, csUp, csLost, csFaults>>
     \/ /\ GoTo("refused") /\ Unanswered
        /\ UNCHANGED <<csWorld, csLost>>
  /\ UNCHANGED <<csCfg, csDisk, csLegacy, csCut, csFailed>>

\* Authenticate: the browser, the callback and the exchange of its code; or the
\* user declines, the callback is not this login's, the port is taken.
Authenticate ==
  /\ At("login")
  /\ \/ Issue(0)
     \/ GoTo("refused") /\ Unanswered /\ UNCHANGED <<csWorld, csLost>>
  /\ UNCHANGED <<csCfg, csDisk, csLegacy, csCut, csFailed>>

\* [fault] the session's refresh token is not taken over.
OldRefresh == [access |-> csNew, refresh |-> csCfg.tokens.refresh]

\* applySession.
SessionTokens == [access |-> csNew, refresh |-> csNew]

\* The profile for the new pair, at the end of Refresh and of Authenticate: then
\* applySession and saveConfigMerged, or an error, and the pair is forgotten.
ApplySession ==
  /\ At("profile")
  /\ csNew' = 0
  /\ UNCHANGED csPairs
  /\ \/ /\ csCfg' = [tokens |-> SessionTokens, scope |-> TRUE]
        /\ SaveThen("setup")
        /\ csCut' = FALSE /\ csLost' = FALSE /\ csFailed' = FALSE
        /\ UNCHANGED <<csAt, csStarts, csUp, csFaults>>
     \/ GiveUp /\ GoTo("refused") /\ Unanswered /\ UNCHANGED <<csCfg, csCut, csFailed>>
  /\ UNCHANGED <<csDisk, csLegacy>>

\* RunSetup returns at once, and the file is loaded again for the picker; an
\* error would leave the cfg there is.
SetupDone == At("setup") /\ Load("picker", "picker")

\* showServerPicker: a server that is chosen is saved.
PickServer ==
  /\ At("picker")
  /\ \/ GoTo("reload")
     \/ SaveThen("reload") /\ UNCHANGED <<csAt, csStarts>>
  /\ UNCHANGED <<csCfg, csDisk, csLegacy, csWorld, csPast>>

LastLoad == At("reload") /\ Load("run", "run")

-----------------------------------------------------------------------------
(* The TUI runs.                                                           *)

\* The first-run overlay, /servers and the overlay for a new server save cfg.
SaveWhileRunning ==
  /\ At("run")
  /\ SaveThen("run")
  /\ UNCHANGED <<csAt, csStarts, csCfg, csDisk, csLegacy, csWorld, csPast>>

\* /logout: no tokens, no scope, Save, and the program ends.
Logout ==
  /\ At("run")
  /\ csCfg' = [tokens |-> NoTokens, scope |-> FALSE]
  /\ SaveThen("off")
  /\ UNCHANGED <<csAt, csStarts, csDisk, csLegacy, csWorld, csPast>>

Quit == At("run") /\ GoTo("off") /\ UNCHANGED <<csCfg, csDisk, csLegacy, csWorld, csPast>>

\* /servers, /global and /setup leave a flag: after the TUI main loads, picks a
\* server as before, and executes itself.
QuitToPrompt == At("run") /\ Load("prompt", "refused")

AtPrompt ==
  /\ At("prompt")
  /\ csStarts < MaxCsStarts
  /\ csStarts' = csStarts + 1
  /\ csUp' = TRUE
  /\ \/ csAt' = "load" /\ UNCHANGED <<csSave, csThen>>
     \/ SaveThen("load") /\ UNCHANGED csAt
  /\ UNCHANGED <<csCfg, csDisk, csLegacy, csWorld, csCut, csLost, csFailed,
                 csFaults>>

\* The program or the machine dies.
Crash ==
  /\ csAt \notin {"off", "refused"}
  /\ Fault
  /\ csAt' = "off"
  /\ csSave' = 0
  /\ csNew' = 0
  /\ csCut' = (csCut \/ csNew # 0 \/ csSave # 0)
  /\ UNCHANGED <<csThen, csStarts, csCfg, csDisk, csLegacy, csPairs, csUp, csLost,
                 csFailed>>

\* Discord: an access token expires.
Expire(p) ==
  /\ csPairs[p] = "fresh"
  /\ csPairs' = [csPairs EXCEPT ![p] = "stale"]
  /\ UNCHANGED <<csWhere, csCfg, csDisk, csLegacy, csNew, csPast>>

-----------------------------------------------------------------------------
CsNext ==
  \/ Start \/ FirstLoad \/ EnsureUserConfig \/ Refresh \/ Authenticate
  \/ ApplySession \/ SetupDone \/ PickServer \/ LastLoad
  \/ WriteFile \/ SaveFails \/ WriteKeyring
  \/ SaveWhileRunning \/ Logout \/ Quit \/ QuitToPrompt \/ AtPrompt
  \/ Crash
  \/ \E p \in CsPair : Expire(p)

CsSpec == CsInit /\ [][CsNext]_csVars

-----------------------------------------------------------------------------
(* Properties.                                                             *)

CsIssued == {p \in CsPair : csPairs[p] # "none"}

\* While the client runs, the keyring has a pair that is whole and whose refresh
\* token has not been used, so that the next start needs no browser: over any
\* number of starts, refreshes, logouts and saves, and again from the next pair
\* on after crashes, lost answers and failed calls of whatever kind.  Excepted is
\* only the time up to that pair when a keyring call failed, or a write or the
\* program did with a pair on its way there: Save has no way back (config.go).
TokensSurvive ==
  At("run") /\ ~csFailed /\ ~csCut
    => /\ csRing.access = csRing.refresh
       /\ csRing.refresh # 0 /\ csPairs[csRing.refresh] # "spent"

\* A start that ends with an error although every request was answered and the
\* user agreed has a cause that came after the last pair was taken over: a Save
\* that was cut short, a pair that was issued and given up because the profile
\* could not be had, a keyring that failed.  No earlier fault is felt again.
RefusedForACause ==
  csAt = "refused" /\ csUp => csCut \/ csLost \/ csFailed
=============================================================================
