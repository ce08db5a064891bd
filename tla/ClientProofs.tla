---------------------------- MODULE ClientProofs ----------------------------
(***************************************************************************)
(* Proofs about the parts of the client program, for every value of their  *)
(* constants: the setup wizard, the Matrix login, the starts of the client *)
(* and writing into a channel.                                             *)
(***************************************************************************)
EXTENDS MCClient, VerificationProofs, WellFoundedInduction

-----------------------------------------------------------------------------
(* SetupWizard: what is added was confirmed.                               *)

\* Past the confirmation the selected server is one the user said yes to, and a
\* network has none; but for the one with which a wizard went on without a list.
WizardInv ==
  /\ swStep \in {"ChooseNetwork", "MatrixConnect", "IRCConnect"} => swSelected = 0
  /\ swStep \in {"InviteBot", "WaitForBot"} => swSelected \in swYes
  /\ swStep = "Done" => swSelected \in swYes \cup swSkipped \cup {0}
  /\ AddedWasConfirmed

LEMMA WizardStep == WizardInv /\ [SwNext]_swVars => WizardInv'
<1> SUFFICES ASSUME WizardInv, [SwNext]_swVars PROVE WizardInv'
  OBVIOUS
<1> USE DEF WizardInv, AddedWasConfirmed, InStep, ToStep, swKept, swBounds, soOverlay,
            swWizard
<1>1. CASE ChooseNetwork
  BY <1>1 DEF ChooseNetwork
<1>2. CASE Connect("matrix", "MatrixConnect") \/ Connect("irc", "IRCConnect")
  <2>1. swSelected' = 0 /\ swAdded' \subseteq swYes' \cup swSkipped'
        /\ swStep' \in {"Done", "error"}
    BY <1>2 DEF Connect
  <2>2. QED
    BY <2>1
<1>3. CASE PickGuild
  BY <1>3 DEF PickGuild
<1>4. ASSUME NEW g \in SwGuilds, ChooseGuild(g) PROVE WizardInv'
  BY <1>4 DEF ChooseGuild
<1>5. CASE ConfirmGuild
  BY <1>5 DEF ConfirmGuild, AfterDecline
<1>6. CASE InviteBot
  BY <1>6 DEF InviteBot
<1>7. CASE WaitForBot
  BY <1>7 DEF WaitForBot
<1>8. CASE Finish
  BY <1>8 DEF Finish
<1>9. CASE Interrupt
  BY <1>9 DEF Interrupt
<1>10. CASE Cancelled
  BY <1>10 DEF Cancelled, SwSteps
<1>11. CASE OpenSetupWizard \/ HandleSetupGuilds \/ SetupKey
  BY <1>11 DEF OpenSetupWizard, HandleSetupGuilds, SetupKey
<1>12. CASE ConfirmSetupGuild
  BY <1>12 DEF ConfirmSetupGuild
<1>13. CASE UNCHANGED swVars
  BY <1>13 DEF swVars
<1>14. QED
  BY <1>1, <1>2, <1>3, <1>4, <1>5, <1>6, <1>7, <1>8, <1>9, <1>10, <1>11, <1>12, <1>13
  DEF SwNext

\* No server is written to the configuration that the user did not say yes to,
\* for any servers and any number of answers, going back and late lists, but for the
\* one with which the wizard went on without a list (internal/setup/wizard.go,
\* RunSetup and its handlers; confirmSetupGuild of internal/tui/setup_wizard.go).
THEOREM AddedConfirmed == SwSpec => []AddedWasConfirmed
<1>1. SwInit => WizardInv
  BY DEF SwInit, WizardInv, AddedWasConfirmed
<1>2. WizardInv => AddedWasConfirmed
  BY DEF WizardInv
<1>3. QED
  BY <1>1, <1>2, WizardStep, PTL DEF SwSpec

-----------------------------------------------------------------------------
(* MatrixLogin: encryption is lost for a cause.                            *)

MlTypes ==
  /\ mlAt \in {"off", "device", "resolve", "login", "setToken", "setDevice", "getKey",
               "setKey", "crypto", "sync"}
  /\ mlClient \in MlKept /\ mlRing \in MlKept
  /\ mlDb \in [device : MlMade, key : MlMade]
  /\ mlMade \in [device : MlMade, key : MlMade]
  /\ mlFaults \in 0..MaxMlFaults
  /\ mlStarts \in 0..MaxMlStarts

MlFlags ==
  /\ mlCrypto \in BOOLEAN
  /\ mlMisread \in BOOLEAN
  /\ mlCut \in BOOLEAN
  /\ mlExcused \in BOOLEAN

LEMMA GotTypes ==
  ASSUME MlTypes, NEW k \in {"token", "device"}, Got(k)
  PROVE  mlClient' \in MlKept /\ mlFaults' \in 0..MaxMlFaults
  BY MatrixLoginAssumption DEF MlTypes, Got, MlKept, MlMade, MlFault

LEMMA NewDevice ==
  ASSUME MlTypes, Login, mlAt' = "setToken"
  PROVE  /\ mlClient' \in MlKept /\ mlMade' \in [device : MlMade, key : MlMade]
         /\ mlClient'.token = mlMade.device + 1 /\ mlClient'.device = mlMade.device + 1
         /\ mlMade.device \in Nat /\ UNCHANGED mlFaults
<1>1. /\ mlMade.device < MaxMlMade
      /\ mlMade' = [mlMade EXCEPT !.device = @ + 1]
      /\ mlClient' = [mlClient EXCEPT !.token = mlMade.device + 1,
                                      !.device = mlMade.device + 1]
      /\ UNCHANGED mlFaults
  BY DEF Login
<1>2. mlMade.device \in Nat /\ mlMade.device + 1 \in MlMade
  BY <1>1, MatrixLoginAssumption DEF MlTypes, MlMade
<1>3. PICK d : d = mlMade.device + 1
  OBVIOUS
<1>4. mlClient' = [mlClient EXCEPT !.token = d, !.device = d] /\ d \in MlMade
  BY <1>1, <1>2, <1>3
<1>5. /\ mlClient' \in MlKept /\ mlClient'.token = d /\ mlClient'.device = d
  BY <1>4 DEF MlTypes, MlKept
<1>6. mlMade' \in [device : MlMade, key : MlMade]
  BY <1>1, <1>2 DEF MlTypes
<1>7. QED
  BY <1>1, <1>2, <1>3, <1>5, <1>6

LEMMA MlTypesStep == MlTypes /\ [MlNext]_mlVars => MlTypes'
<1> SUFFICES ASSUME MlTypes, [MlNext]_mlVars PROVE MlTypes'
  OBVIOUS
<1> USE MatrixLoginAssumption DEF MlTypes, MlFault
<1>1. CASE GetToken
  BY <1>1, GotTypes DEF GetToken
<1>2. CASE GetDevice
  BY <1>2, GotTypes DEF GetDevice
<1>3. CASE ResolveCredentials
  BY <1>3 DEF ResolveCredentials
<1>4. CASE Login
  <2>1. CASE mlMade.device < MaxMlMade /\ mlAt' = "setToken"
    BY <1>4, <2>1, NewDevice DEF Login
  <2>2. CASE mlAt' = "off"
    BY <1>4, <2>2 DEF Login
  <2>3. QED
    BY <1>4, <2>1, <2>2 DEF Login
<1>5. CASE SetOrNot("setToken", "token", "setDevice")
           \/ SetOrNot("setDevice", "device", "getKey")
  BY <1>5 DEF SetOrNot, MlKept
<1>6. CASE GetKey
  BY <1>6 DEF GetKey, MlKept, MlMade
<1>7. CASE SetKey
  BY <1>7 DEF SetKey, AfterKeyUnkept, MlKept
<1>8. CASE SetupCrypto
  BY <1>8 DEF SetupCrypto, Made, MlKept
<1>9. CASE Ends
  BY <1>9 DEF Ends, MlNone, MlKept, MlMade
<1>10. CASE UNCHANGED mlVars
  BY <1>10 DEF mlVars, mlPast
<1>11. QED
  BY <1>1, <1>2, <1>3, <1>4, <1>5, <1>6, <1>7, <1>8, <1>9, <1>10 DEF MlNext

\* The keyring has both halves of a login or none, ...
LoginWhole ==
  /\ mlAt # "setDevice" => (mlRing.token = 0 <=> mlRing.device = 0)
  /\ mlAt = "setDevice" => mlRing.device = 0

\* ... the database is that of the login and the key in it, ...
DatabaseFits ==
  \/ mlDb = [device |-> 0, key |-> 0]
  \/ /\ mlDb = [device |-> mlRing.device, key |-> mlRing.key]
     /\ mlRing.device # 0 /\ mlRing.key # 0

\* ... and Connect has what the keyring has, or is about to put it there.
ConnectKnows ==
  /\ mlAt = "device" => mlClient.token = mlRing.token
  /\ mlAt \in {"resolve", "login", "setToken"} => mlRing.token = 0
  /\ mlAt \in {"setToken", "setDevice"} => mlClient.token # 0 /\ mlClient.device # 0
  /\ mlAt = "setDevice" => mlRing.token # 0
  /\ mlAt \in {"getKey", "setKey", "crypto"} =>
       mlClient.device = mlRing.device /\ mlRing.device # 0
  /\ mlAt = "setKey" => mlRing.key = 0 /\ mlClient.key # 0
  /\ mlAt = "crypto" => mlClient.key = mlRing.key /\ mlRing.key # 0

LoginInv ==
  mlMisread = FALSE /\ mlCut = FALSE =>
    /\ LoginWhole /\ DatabaseFits /\ ConnectKnows
    /\ mlAt = "sync" => mlCrypto = TRUE \/ mlExcused = TRUE

LEMMA MlFlagsStep == MlFlags /\ [MlNext]_mlVars => MlFlags'
<1> SUFFICES ASSUME MlFlags, [MlNext]_mlVars PROVE MlFlags'
  OBVIOUS
<1> USE DEF MlFlags
<1>1. CASE GetToken \/ GetDevice
  BY <1>1, Zenon DEF GetToken, GetDevice, Got
<1>2. CASE ResolveCredentials \/ Login \/ UNCHANGED mlVars
  BY <1>2 DEF ResolveCredentials, Login, mlVars, mlPast
<1>3. CASE SetOrNot("setToken", "token", "setDevice")
           \/ SetOrNot("setDevice", "device", "getKey")
  BY <1>3, Zenon DEF SetOrNot
<1>4. CASE GetKey
  BY <1>4, Zenon DEF GetKey
<1>5. CASE SetKey
  BY <1>5, Zenon DEF SetKey
<1>6. CASE SetupCrypto
  BY <1>6, Zenon DEF SetupCrypto
<1>7. CASE Ends
  BY <1>7, Zenon DEF Ends
<1>8. QED
  BY <1>1, <1>2, <1>3, <1>4, <1>5, <1>6, <1>7 DEF MlNext

\* Once a reading failed, or a login was cut, it stays so.
LEMMA CausesLast ==
  ASSUME MlFlags, [MlNext]_mlVars, mlMisread' = FALSE, mlCut' = FALSE
  PROVE  mlMisread = FALSE /\ mlCut = FALSE
<1>1. CASE mlMisread' = mlMisread /\ mlCut' = mlCut
  BY <1>1
<1>2. CASE GetToken \/ GetDevice
  BY <1>2 DEF GetToken, GetDevice, Got
<1>3. CASE SetOrNot("setToken", "token", "setDevice")
           \/ SetOrNot("setDevice", "device", "getKey")
  BY <1>3 DEF SetOrNot
<1>4. CASE GetKey
  BY <1>4 DEF GetKey
<1>5. CASE Ends
  BY <1>5, Zenon DEF Ends, MlFlags
<1>6. QED
  BY <1>1, <1>2, <1>3, <1>4, <1>5
  DEF MlNext, ResolveCredentials, Login, SetKey, SetupCrypto, mlVars, mlPast

LEMMA LoginStep == MlTypes /\ MlFlags /\ LoginInv /\ [MlNext]_mlVars => LoginInv'
<1> SUFFICES ASSUME MlTypes, MlFlags, LoginInv, [MlNext]_mlVars,
                    mlMisread' = FALSE, mlCut' = FALSE
             PROVE  LoginInv'
  BY DEF LoginInv
<1>1. mlMisread = FALSE /\ mlCut = FALSE
  BY CausesLast
<1>2. LoginWhole /\ DatabaseFits /\ ConnectKnows
  BY <1>1 DEF LoginInv
<1>3. mlAt = "sync" => mlCrypto = TRUE \/ mlExcused = TRUE
  BY <1>1 DEF LoginInv
<1> USE MatrixLoginAssumption
    DEF MlTypes, MlFault, MlKept, MlMade, LoginInv, LoginWhole, DatabaseFits, ConnectKnows
<1>4. CASE GetToken
  BY <1>1, <1>2, <1>3, <1>4 DEF GetToken, Got
<1>5. CASE GetDevice
  BY <1>1, <1>2, <1>3, <1>5 DEF GetDevice, Got
<1>6. CASE ResolveCredentials
  BY <1>1, <1>2, <1>3, <1>6 DEF ResolveCredentials, mlPast
<1>7. CASE Login
  <2>1. CASE mlAt' = "setToken"
    BY <1>2, <1>7, <2>1, NewDevice DEF Login, mlPast
  <2>2. CASE mlAt' = "off"
    BY <1>2, <1>7, <2>2 DEF Login, mlPast
  <2>3. QED
    BY <1>7, <2>1, <2>2 DEF Login
<1>8. CASE SetOrNot("setToken", "token", "setDevice")
  BY <1>1, <1>2, <1>3, <1>8 DEF SetOrNot
<1>9. CASE SetOrNot("setDevice", "device", "getKey")
  BY <1>1, <1>2, <1>3, <1>9 DEF SetOrNot
<1>10. CASE GetKey
  BY <1>1, <1>2, <1>3, <1>10 DEF GetKey
<1>11. CASE SetKey
  BY <1>1, <1>2, <1>3, <1>11 DEF SetKey, AfterKeyUnkept
<1>12. CASE SetupCrypto
  BY <1>1, <1>2, <1>3, <1>12 DEF SetupCrypto, Made, Fits
<1>13. CASE Ends
  BY <1>1, <1>2, <1>3, <1>13 DEF Ends, MlNone
<1>14. CASE UNCHANGED mlVars
  BY <1>1, <1>2, <1>3, <1>14 DEF mlVars, mlPast
<1>15. QED
  BY <1>4, <1>5, <1>6, <1>7, <1>8, <1>9, <1>10, <1>11, <1>12, <1>13, <1>14 DEF MlNext

LEMMA LoginStarts == MlInit => MlTypes /\ MlFlags
<1>1. MlInit => MlTypes
  BY MatrixLoginAssumption DEF MlInit, MlTypes, MlKept, MlMade, MlNone
<1>2. MlInit => MlFlags
  BY Zenon DEF MlInit, MlFlags
<1>3. QED
  BY <1>1, <1>2

\* A client that syncs without encryption has one of the causes: over any number
\* of starts, faults and crashes, devices and keys (Connect, login, setupCrypto
\* and loadOrCreatePickleKey of internal/network/matrix).
THEOREM EncryptionNotLost == MlSpec => []EncryptionKept
<1>1. MlInit => LoginInv
  BY DEF MlInit, LoginInv, LoginWhole, DatabaseFits, ConnectKnows, MlNone
<1>2. MlFlags /\ LoginInv => EncryptionKept
  BY Zenon DEF MlFlags, LoginInv, EncryptionKept
<1>3. QED
  BY <1>1, <1>2, LoginStarts, MlTypesStep, MlFlagsStep, LoginStep, PTL DEF MlSpec

-----------------------------------------------------------------------------
(* MessageView: replies go where they were picked, edits to own messages.  *)

\* The reply chosen in the picker is a copy, not a pointer into the list.
ReplyInv == mvChosen # 0 => mvReply = Copy(mvChosen)

LEMMA DetachedCopy ==
  ASSUME NEW m, mvReply = Copy(m) PROVE Detached = Copy(m)
  BY DEF Detached, Copy

LEMMA ReplyStep == ReplyInv /\ [MvNext]_mvVars => ReplyInv'
<1> SUFFICES ASSUME ReplyInv, [MvNext]_mvVars, mvChosen' # 0 PROVE mvReply' = Copy(mvChosen')
  BY DEF ReplyInv, Copy
<1> USE DEF ReplyInv, mvList, mvPicker, mvAnswer, mvEdit, mvCalls
<1>1. CASE UNCHANGED mvChosen /\ mvReply' \in {mvReply, Detached}
  BY <1>1, DetachedCopy
<1>2. CASE mvChosen' = 0
  BY <1>2
<1>3. CASE ConfirmReply
  BY <1>3 DEF ConfirmReply, PickReply
<1>4. CASE Escape
  BY <1>4 DEF Escape, GiveUpReply
<1>5. ASSUME NEW m \in MvIds, OnMessageHere(m) PROVE mvReply' = Copy(mvChosen')
  <2>1. mvReply = Copy(mvChosen) /\ mvChosen' = mvChosen
    BY <1>5 DEF OnMessageHere
  <2>2. mvReply.at # "slot"
    BY <2>1 DEF Copy
  <2>3. mvReply' = Detached
    BY <1>5, <2>2 DEF OnMessageHere
  <2>4. QED
    BY <2>1, <2>3, DetachedCopy
<1>6. CASE ConfirmEdit \/ EditLastCommand \/ \E m \in MvIds : EditCommand(m)
  BY <1>1, <1>6 DEF ConfirmEdit, EditLastCommand, EditCommand, RefuseWithLine
<1>7. QED
  BY <1>1, <1>2, <1>3, <1>4, <1>5, <1>6
  DEF MvNext, MvUser, MvRest, mvVars, ReplyToNewest, StartReplyPicker, StartEditPicker,
      MovePickUp, MovePickDown, Type, Erase, SubmitEdit, SubmitMessage, StartEditOf,
      ShowChannel, LeaveChannel, OnPage, OnEdited, OnEditFailed, GiveUpReply

\* A message chosen in the reply picker is the one the reply is sent to, for any
\* messages that arrive, are inserted before it or fall off the list meanwhile
\* (the copy that replyTo holds: enter and sendWithEcho, internal/tui).
THEOREM ReplyReachesPicked == MvSpec => PickedReplyKept
<1>1. MvInit => ReplyInv
  BY DEF MvInit, ReplyInv
<1>2. ReplyInv /\ [MvNext]_mvVars
        => [mvCall' # mvCall /\ mvCall'.op = "send" /\ mvChosen # 0
              => mvCall'.target = mvChosen]_mvVars
  <2> SUFFICES ASSUME ReplyInv, MvNext, mvCall' # mvCall, mvCall'.op = "send",
                      mvChosen # 0
               PROVE  mvCall'.target = mvChosen
    BY DEF mvVars, mvCalls
  <2> USE DEF mvList, mvPicker, mvAnswer, mvEdit, mvCalls
  <2>1. CASE SubmitMessage
    <3>1. ReplyId = mvChosen
      BY DEF ReplyInv, ReplyId, Copy
    <3>2. mvCall'.target = ReplyId
      BY <2>1 DEF SubmitMessage
    <3>3. QED
      BY <3>1, <3>2
  <2>2. ASSUME NEW m, NEW draft PROVE ~CallEdit(m, draft)
    BY DEF CallEdit
  <2>3. ~SubmitEdit /\ ~EditLastCommand
    BY <2>2 DEF SubmitEdit, EditLastCommand
  <2>4. ASSUME NEW m \in MvIds PROVE ~EditCommand(m)
    BY <2>2 DEF EditCommand
  <2>5. QED
    BY <2>1, <2>3, <2>4
    DEF MvNext, MvUser, MvRest, ReplyToNewest, StartReplyPicker, StartEditPicker,
        MovePickUp, MovePickDown, ConfirmReply, ConfirmEdit, Type, Erase, Escape,
        StartEditOf, ShowChannel, LeaveChannel, OnMessageHere, OnPage, OnEdited,
        OnEditFailed
<1>3. QED
  BY <1>1, <1>2, ReplyStep, PTL DEF MvSpec, PickedReplyKept

-----------------------------------------------------------------------------
(* ClientStart: what the file and the keyring have from start to start.    *)

CsTypes ==
  /\ csAt \in CsStates /\ csThen \in CsStates
  /\ csSave \in 0..4
  /\ csCfg \in [tokens : Tokens, scope : BOOLEAN]
  /\ csFile \in [whole : BOOLEAN, scope : BOOLEAN]
  /\ csRing \in Tokens
  /\ csLegacy \in CsPair \cup {0}
  /\ csPairs \in [CsPair -> {"none", "fresh", "stale", "spent"}]
  /\ csNew \in CsPair \cup {0}
  /\ csFaults \in 0..MaxCsFaults
  /\ csStarts \in 0..MaxCsStarts

CsFlags == {csUp, csCut, csLost, csFailed} \subseteq BOOLEAN

\* Since the last new pair every call of the keyring worked, and no Save was cut
\* short with the tokens on their way.
Clean == csFailed = FALSE /\ csCut = FALSE

Usable(tokens) == tokens.refresh # 0 /\ csPairs[tokens.refresh] # "spent"

\* Whatever happened before, a start that got as far as the login read a whole file,
\* and a pair that was issued in it is a good one.
Underway ==
  /\ csSave # 0 => csThen \in {"setup", "reload", "run", "load", "off"}
  /\ csSave = 0 =>
       /\ csAt \in {"ensure", "refresh", "login", "profile"} => csFile.whole = TRUE
       /\ csAt = "profile" => csNew # 0 /\ csPairs[csNew] # "spent"

\* The two tokens are of one pair, in cfg always and in the keyring when Save is
\* done.
WholePairs ==
  /\ csCfg.tokens.access = csCfg.tokens.refresh
  /\ csSave = 0 => csRing.access = csRing.refresh
  /\ csSave = 4 => csRing.access = csCfg.tokens.access

\* The file is whole unless Save is writing it, and then has the scope of cfg.
FileWhole ==
  /\ csSave # 2 => csFile.whole = TRUE
  /\ csSave \in {3, 4} => csFile.scope = csCfg.scope

\* Only usable tokens are saved, or those of /logout, which are none.
SavesUsable ==
  csSave # 0 =>
    \/ csThen = "off" /\ csCfg.scope = FALSE
    \/ csThen \in {"setup", "reload", "run", "load"} /\ Usable(csCfg.tokens)

\* Once logged in, cfg has what the keyring has, and it is usable.
LoggedIn ==
  csSave = 0 /\ csAt \in {"setup", "picker", "reload", "run", "prompt"}
    => csRing = csCfg.tokens /\ Usable(csCfg.tokens)

\* On the way there, cfg is what was loaded, and a pair issued is a good one.
LoggingIn ==
  csSave = 0 =>
    /\ csAt \in {"ensure", "refresh", "login", "profile"} =>
         csRing = csCfg.tokens /\ csCfg.scope = csFile.scope
    /\ csAt = "refresh" => csCfg.scope = TRUE
    /\ csAt = "profile" => csNew # 0 /\ csPairs[csNew] # "spent"

\* A file with a scope goes with a pair that Refresh can use, unless the pair it
\* was used up for is being, or has been, given up.
ScopeGoesWithPair ==
  csSave = 0 /\ csFile.scope = TRUE =>
    /\ csRing.refresh # 0
    /\ csLost = FALSE /\ csAt # "profile" => csPairs[csRing.refresh] # "spent"

RefusedWhenLost == csAt = "refused" /\ csUp = TRUE => csLost = TRUE

StartParts ==
  /\ WholePairs /\ FileWhole /\ SavesUsable /\ LoggedIn /\ LoggingIn
  /\ ScopeGoesWithPair /\ RefusedWhenLost

StartInv == Clean => StartParts

LEMMA TokensAre ==
  ASSUME NEW tokens \in Tokens
  PROVE  /\ tokens.access \in CsPair \cup {0} /\ tokens.refresh \in CsPair \cup {0}
         /\ tokens = [access |-> tokens.access, refresh |-> tokens.refresh]
  BY DEF Tokens

LEMMA NoPairIsZero == 0 \notin CsPair
  BY ClientStartAssumption DEF CsPair

\* MigrateLegacyDiscord leaves a keyring, and a whole one if it was whole.
LEMMA MigratedIs ==
  ASSUME csRing \in Tokens, csLegacy \in CsPair \cup {0}
  PROVE  /\ Migrated \in Tokens
         /\ csRing.access = csRing.refresh => Migrated.access = Migrated.refresh
         /\ csRing.refresh # 0 => Migrated.refresh = csRing.refresh
         /\ csRing.access = csRing.refresh /\ csRing.refresh # 0 => Migrated = csRing
<1>1. \A k \in {"access", "refresh"} : Migrated[k] = IF csRing[k] # 0 THEN csRing[k] ELSE csLegacy
  BY DEF Migrated
<1>2. Migrated = [access |-> Migrated.access, refresh |-> Migrated.refresh]
  BY DEF Migrated
<1>3. Migrated.access = IF csRing.access # 0 THEN csRing.access ELSE csLegacy
  BY <1>1
<1>4. Migrated.refresh = IF csRing.refresh # 0 THEN csRing.refresh ELSE csLegacy
  BY <1>1
<1> HIDE DEF Migrated
<1>5. QED
  BY <1>2, <1>3, <1>4, TokensAre DEF Tokens

LEMMA ReadTypes ==
  ASSUME CsTypes, ReadTokens
  PROVE  /\ csRing' \in Tokens
         /\ csCfg' \in [tokens : Tokens, scope : BOOLEAN]
         /\ csFaults' \in 0..MaxCsFaults
<1>1. Migrated \in Tokens
  BY MigratedIs DEF CsTypes
<1>2. ASSUME NEW t \in Tokens, NEW k \in {"access", "refresh"}, NEW p \in CsPair \cup {0}
      PROVE  [t EXCEPT ![k] = p] \in Tokens
  BY DEF Tokens
<1>3. ASSUME NEW t \in Tokens, Take(t) PROVE csCfg' \in [tokens : Tokens, scope : BOOLEAN]
  BY <1>3 DEF Take, CsTypes
<1>4. NoTokens \in Tokens
  BY DEF Tokens, NoTokens
<1>5. csFaults' \in 0..MaxCsFaults
  BY ClientStartAssumption DEF ReadTokens, KeyringFails, KeyringWorks, Fault, CsTypes
<1>6. csRing' \in Tokens /\ csCfg' \in [tokens : Tokens, scope : BOOLEAN]
  <2>1. csRing \in Tokens /\ csLegacy \in CsPair \cup {0} /\ 0 \in CsPair \cup {0}
    BY DEF CsTypes
  <2>2. CASE csRing' = Migrated /\ Take(Migrated)
    BY <1>1, <1>3, <2>2
  <2>3. CASE csRing' = csRing /\ Take(NoTokens)
    BY <1>3, <1>4, <2>1, <2>3
  <2>4. ASSUME NEW k \in {"access", "refresh"}, csRing' = Migrated,
               Take([Migrated EXCEPT ![k] = 0])
        PROVE  csRing' \in Tokens /\ csCfg' \in [tokens : Tokens, scope : BOOLEAN]
    BY <1>1, <1>2, <1>3, <2>1, <2>4
  <2>5. ASSUME NEW k \in {"access", "refresh"}, csRing' = [Migrated EXCEPT ![k] = csLegacy],
               csCfg' = (IF csFile.whole THEN [tokens |-> csRing', scope |-> csFile.scope]
                                         ELSE csCfg)
        PROVE  csRing' \in Tokens /\ csCfg' \in [tokens : Tokens, scope : BOOLEAN]
    <3>1. csRing' \in Tokens
      BY <1>1, <1>2, <2>1, <2>5
    <3>2. QED
      BY <2>5, <3>1 DEF CsTypes
  <2>6. QED
    BY <2>2, <2>3, <2>4, <2>5 DEF ReadTokens, Take
<1>7. QED
  BY <1>5, <1>6

\* What every operation keeps or changes together.
LEMMA LoadTypes ==
  ASSUME CsTypes, NEW next \in CsStates, NEW otherwise \in CsStates, Load(next, otherwise)
  PROVE  CsTypes'
<1>1. csAt' \in CsStates /\ csSave' = csSave /\ csThen' = csThen /\ csStarts' = csStarts
  BY DEF Load, GoTo
<1>2. csFile' = csFile /\ csLegacy' = csLegacy /\ csPairs' = csPairs /\ csNew' = csNew
  BY DEF Load, csWorld
<1>3. csRing' \in Tokens /\ csCfg' \in [tokens : Tokens, scope : BOOLEAN]
      /\ csFaults' \in 0..MaxCsFaults
  BY ReadTypes DEF Load, CsTypes
<1>4. QED
  BY <1>1, <1>2, <1>3 DEF CsTypes

LEMMA IssueTypes ==
  ASSUME CsTypes, NEW old, Issue(old), csCfg' = csCfg, csRing' = csRing, csFile' = csFile,
         csLegacy' = csLegacy
  PROVE  CsTypes'
<1>1. csAt' \in {"profile", "refused"} /\ csSave' = csSave /\ csThen' = csThen
      /\ csStarts' = csStarts
  BY DEF Issue, GoTo
<1>2. csPairs' \in [CsPair -> {"none", "fresh", "stale", "spent"}]
  BY DEF Issue, CsTypes
<1>3. csNew' \in CsPair \cup {0}
  BY DEF Issue, Unissued, CsTypes
<1>4. csFaults' \in 0..MaxCsFaults
  BY ClientStartAssumption DEF Issue, Unanswered, Fault, CsTypes
<1>5. QED
  BY <1>1, <1>2, <1>3, <1>4 DEF CsTypes, CsStates

LEMMA CsTypesStep == CsTypes /\ [CsNext]_csVars => CsTypes'
<1> SUFFICES ASSUME CsTypes, [CsNext]_csVars PROVE CsTypes'
  OBVIOUS
<1> USE DEF csDisk, csWorld, csPast, At, CsStates
<1>1. CASE Start
  BY <1>1, ClientStartAssumption DEF Start, CsTypes
<1>2. CASE FirstLoad \/ SetupDone \/ LastLoad \/ QuitToPrompt
  BY <1>2, LoadTypes DEF FirstLoad, SetupDone, LastLoad, QuitToPrompt
<1>3. CASE EnsureUserConfig
  BY <1>3, ClientStartAssumption
  DEF EnsureUserConfig, Otherwise, GoTo, SaveThen, Unanswered, Fault, CsTypes
<1>4. CASE Refresh
  <2>1. CASE Issue(csCfg.tokens.refresh)
    BY <1>4, <2>1, IssueTypes DEF Refresh
  <2>2. QED
    BY <1>4, <2>1, ClientStartAssumption DEF Refresh, GoTo, Unanswered, Fault, CsTypes
<1>5. CASE Authenticate
  <2>1. CASE Issue(0)
    BY <1>5, <2>1, IssueTypes DEF Authenticate
  <2>2. QED
    BY <1>5, <2>1, ClientStartAssumption DEF Authenticate, GoTo, Unanswered, Fault, CsTypes
<1>6. CASE ApplySession
  <2>1. SessionTokens \in Tokens
    BY DEF SessionTokens, Tokens, CsTypes
  <2>2. [tokens |-> SessionTokens, scope |-> TRUE] \in [tokens : Tokens, scope : BOOLEAN]
    BY <2>1
  <2> HIDE DEF SessionTokens
  <2>3. csCfg' \in [tokens : Tokens, scope : BOOLEAN]
    BY <1>6, <2>2 DEF ApplySession, CsTypes
  <2>4. csAt' \in CsStates /\ csSave' \in 0..4 /\ csThen' \in CsStates /\ csStarts' = csStarts
    BY <1>6 DEF ApplySession, GoTo, SaveThen, CsTypes
  <2>5. csFaults' \in 0..MaxCsFaults
    BY <1>6, ClientStartAssumption DEF ApplySession, Unanswered, Fault, CsTypes
  <2>6. csRing' = csRing /\ csFile' = csFile /\ csLegacy' = csLegacy /\ csPairs' = csPairs
        /\ csNew' = 0
    BY <1>6 DEF ApplySession
  <2>7. QED
    BY <2>3, <2>4, <2>5, <2>6 DEF CsTypes
<1>7. CASE PickServer
  BY <1>7 DEF PickServer, GoTo, SaveThen, CsTypes
<1>8. CASE WriteFile
  BY <1>8 DEF WriteFile, CsTypes
<1>9. CASE SaveFails
  BY <1>9, ClientStartAssumption DEF SaveFails, Fault, CsTypes
<1>10. CASE WriteKeyring
  <2>1. [csRing EXCEPT !.access = csCfg.tokens.access] \in Tokens /\ SetRefresh(csRing) \in Tokens
    BY DEF SetRefresh, Tokens, CsTypes
  <2>2. csRing' \in Tokens
    BY <1>10, <2>1 DEF WriteKeyring, CsTypes
  <2>3. csFaults' \in 0..MaxCsFaults
    BY <1>10, ClientStartAssumption DEF WriteKeyring, KeyringWorks, KeyringFails, Fault, CsTypes
  <2>4. QED
    BY <1>10, <2>2, <2>3 DEF WriteKeyring, CsTypes
<1>11. CASE SaveWhileRunning \/ Quit
  BY <1>11 DEF SaveWhileRunning, Quit, GoTo, SaveThen, CsTypes
<1>12. CASE Logout
  <2>1. [tokens |-> NoTokens, scope |-> FALSE] \in [tokens : Tokens, scope : BOOLEAN]
    BY DEF NoTokens, Tokens
  <2>2. QED
    BY <1>12, <2>1 DEF Logout, SaveThen, CsTypes
<1>13. CASE AtPrompt
  BY <1>13, ClientStartAssumption DEF AtPrompt, SaveThen, CsTypes
<1>14. CASE Crash
  BY <1>14, ClientStartAssumption DEF Crash, Fault, CsTypes
<1>15. CASE \E p \in CsPair : Expire(p)
  BY <1>15 DEF Expire, csWhere, CsTypes
<1>16. CASE UNCHANGED csVars
  BY <1>16 DEF csVars, csWhere, CsTypes
<1>17. QED
  BY <1>1, <1>2, <1>3, <1>4, <1>5, <1>6, <1>7, <1>8, <1>9, <1>10, <1>11, <1>12, <1>13,
     <1>14, <1>15, <1>16 DEF CsNext

LEMMA CsFlagsStep == CsTypes /\ CsFlags /\ [CsNext]_csVars => CsFlags'
<1> SUFFICES ASSUME CsTypes, CsFlags, [CsNext]_csVars PROVE CsFlags'
  OBVIOUS
<1>1. csUp' \in {TRUE, FALSE, csUp}
  BY DEF CsNext, csVars, csPast, Start, FirstLoad, EnsureUserConfig, Refresh, Authenticate,
         ApplySession, SetupDone, PickServer, LastLoad, WriteFile, SaveFails, WriteKeyring,
         SaveWhileRunning, Logout, Quit, QuitToPrompt, AtPrompt, Crash, Expire, Load,
         Issue, Unanswered
<1>2. csCut' \in {FALSE, TRUE, csCut, csCut \/ csNew # 0 \/ csSave # 0}
  BY DEF CsNext, csVars, csPast, Start, FirstLoad, EnsureUserConfig, Refresh, Authenticate,
         ApplySession, SetupDone, PickServer, LastLoad, WriteFile, SaveFails, WriteKeyring,
         SaveWhileRunning, Logout, Quit, QuitToPrompt, AtPrompt, Crash, Expire, Load
<1>3. csLost' = FALSE \/ csLost' = csLost \/ GiveUp
  BY DEF CsNext, csVars, csPast, Start, FirstLoad, EnsureUserConfig, Refresh, Authenticate,
         ApplySession, SetupDone, PickServer, LastLoad, WriteFile, SaveFails, WriteKeyring,
         SaveWhileRunning, Logout, Quit, QuitToPrompt, AtPrompt, Crash, Expire, Load, Issue
<1>4. csFailed' \in {csFailed, TRUE, FALSE}
  BY DEF CsNext, csVars, csPast, Start, FirstLoad, EnsureUserConfig, Refresh, Authenticate,
         ApplySession, SetupDone, PickServer, LastLoad, WriteFile, SaveFails, WriteKeyring,
         SaveWhileRunning, Logout, Quit, QuitToPrompt, AtPrompt, Crash, Expire, Load,
         ReadTokens, KeyringFails, KeyringWorks
<1>5. QED
  BY Zenon, <1>1, <1>2, <1>3, <1>4 DEF CsFlags, GiveUp

LEMMA UnderwayStep == CsTypes /\ Underway /\ [CsNext]_csVars => Underway'
<1> SUFFICES ASSUME CsTypes, Underway, [CsNext]_csVars PROVE Underway'
  OBVIOUS
<1> USE DEF csDisk, csWorld, csPast, At, Underway
<1>1. CASE Start \/ AtPrompt \/ Crash
  BY <1>1 DEF Start, AtPrompt, SaveThen, Crash
<1>2. ASSUME NEW next \in CsStates, NEW otherwise \in CsStates \ {"profile"}, csSave = 0,
             Load(next, otherwise), next # "profile",
             otherwise \notin {"ensure", "refresh", "login"}
      PROVE  Underway'
  BY <1>2 DEF Load, GoTo
<1>3. CASE FirstLoad \/ SetupDone \/ LastLoad \/ QuitToPrompt
  BY <1>2, <1>3 DEF FirstLoad, SetupDone, LastLoad, QuitToPrompt, CsStates
<1>4. CASE EnsureUserConfig
  BY <1>4 DEF EnsureUserConfig, Otherwise, GoTo, SaveThen
<1>5. ASSUME NEW old, Issue(old), csFile' = csFile, csSave = 0,
             csAt \in {"refresh", "login"}
      PROVE  Underway'
  BY <1>5, NoPairIsZero DEF Issue, Unissued, GoTo
<1>6. CASE Refresh
  BY <1>5, <1>6 DEF Refresh, GoTo
<1>7. CASE Authenticate
  BY <1>5, <1>7 DEF Authenticate, GoTo
<1>8. CASE ApplySession
  BY <1>8 DEF ApplySession, GoTo, SaveThen
<1>9. CASE PickServer \/ SaveWhileRunning \/ Quit \/ Logout
  BY <1>9 DEF PickServer, SaveWhileRunning, Quit, Logout, GoTo, SaveThen
<1>10. CASE WriteFile
  BY <1>10 DEF WriteFile
<1>11. CASE SaveFails \/ WriteKeyring
  BY <1>11 DEF SaveFails, WriteKeyring
<1>12. CASE \E p \in CsPair : Expire(p)
  BY <1>12 DEF Expire, csWhere, CsTypes
<1>13. CASE UNCHANGED csVars
  BY <1>13 DEF csVars, csWhere
<1>14. QED
  BY <1>1, <1>3, <1>4, <1>6, <1>7, <1>8, <1>9, <1>10, <1>11, <1>12, <1>13 DEF CsNext

LEMMA CleanBefore ==
  CsTypes /\ CsFlags /\ [CsNext]_csVars /\ Clean' => Clean \/ ApplySession
<1> SUFFICES ASSUME CsTypes, CsFlags, [CsNext]_csVars, Clean', ~ApplySession PROVE Clean
  OBVIOUS
<1>1. csCut' \in {TRUE, csCut, csCut \/ csNew # 0 \/ csSave # 0}
  BY DEF CsNext, csVars, csPast, Start, FirstLoad, EnsureUserConfig, Refresh, Authenticate,
         ApplySession, SetupDone, PickServer, LastLoad, WriteFile, SaveFails, WriteKeyring,
         SaveWhileRunning, Logout, Quit, QuitToPrompt, AtPrompt, Crash, Expire, Load
<1>2. csFailed' \in {csFailed, TRUE}
  BY DEF CsNext, csVars, csPast, Start, FirstLoad, EnsureUserConfig, Refresh, Authenticate,
         ApplySession, SetupDone, PickServer, LastLoad, WriteFile, SaveFails, WriteKeyring,
         SaveWhileRunning, Logout, Quit, QuitToPrompt, AtPrompt, Crash, Expire, Load,
         ReadTokens, KeyringFails, KeyringWorks
<1>3. QED
  BY Zenon, <1>1, <1>2 DEF CsFlags, Clean

\* A Load with a keyring that works, of a file that is whole.
LEMMA LoadIs ==
  ASSUME CsTypes, NEW next \in CsStates, NEW otherwise \in CsStates, Load(next, otherwise),
         csFile.whole = TRUE, csFailed' = FALSE
  PROVE  /\ csRing' = Migrated /\ csCfg' = [tokens |-> Migrated, scope |-> csFile.scope]
         /\ csAt' = next /\ csSave' = csSave /\ csThen' = csThen
         /\ csFile' = csFile /\ csPairs' = csPairs /\ csNew' = csNew
         /\ csLost' = csLost /\ csUp' = csUp
  BY DEF Load, ReadTokens, KeyringFails, KeyringWorks, GoTo, Take, csWorld

\* At the start of main whatever the old version left is taken over.
LEMMA FirstLoadStep ==
  ASSUME CsTypes, StartParts, FirstLoad, csFailed' = FALSE
  PROVE  StartParts'
<1> USE DEF At
<1>1. csAt = "load" /\ csSave = 0 /\ csFile.whole = TRUE /\ csRing.access = csRing.refresh
  BY DEF FirstLoad, StartParts, FileWhole, WholePairs
<1>2. /\ csRing' = Migrated /\ csCfg' = [tokens |-> Migrated, scope |-> csFile.scope]
      /\ csAt' = "ensure" /\ csSave' = csSave /\ csThen' = csThen
      /\ csFile' = csFile /\ csPairs' = csPairs /\ csNew' = csNew
      /\ csLost' = csLost /\ csUp' = csUp
  BY <1>1, LoadIs DEF FirstLoad, CsStates
<1>3. Migrated.access = Migrated.refresh
      /\ (csRing.refresh # 0 => Migrated.refresh = csRing.refresh)
  BY <1>1, MigratedIs DEF CsTypes
<1> HIDE DEF Migrated
<1>4. QED
  BY <1>1, <1>2, <1>3
  DEF StartParts, WholePairs, FileWhole, SavesUsable, LoggedIn, LoggingIn,
      ScopeGoesWithPair, RefusedWhenLost, Usable

\* After that the keyring has the tokens, and is read as it is.
LEMMA LaterLoadStep ==
  ASSUME CsTypes, StartParts, csFailed' = FALSE, csSave = 0,
         csAt \in {"setup", "picker", "reload", "run", "prompt"},
         NEW next \in {"picker", "run", "prompt"}, NEW otherwise \in CsStates,
         Load(next, otherwise)
  PROVE  StartParts'
<1>1. csFile.whole = TRUE /\ csRing.access = csRing.refresh /\ Usable(csRing)
      /\ csRing = csCfg.tokens
  BY DEF StartParts, FileWhole, WholePairs, LoggedIn
<1>2. /\ csRing' = Migrated /\ csCfg' = [tokens |-> Migrated, scope |-> csFile.scope]
      /\ csAt' = next /\ csSave' = csSave /\ csThen' = csThen
      /\ csFile' = csFile /\ csPairs' = csPairs /\ csNew' = csNew
      /\ csLost' = csLost /\ csUp' = csUp
  BY ZenonT(30), <1>1, LoadIs DEF CsStates
<1>3. Migrated = csRing
  BY <1>1, MigratedIs DEF CsTypes, Usable
<1> HIDE DEF Migrated
<1>4. QED
  BY <1>1, <1>2, <1>3
  DEF StartParts, WholePairs, FileWhole, SavesUsable, LoggedIn, LoggingIn,
      ScopeGoesWithPair, RefusedWhenLost, Usable

\* A pair issued for the refresh token of cfg, or with a login.
LEMMA IssueStep ==
  ASSUME CsTypes, CsFlags, StartParts, csSave = 0, csAt \in {"refresh", "login"},
         NEW old \in {0, csCfg.tokens.refresh}, Issue(old),
         csCfg' = csCfg, csRing' = csRing, csFile' = csFile
  PROVE  StartParts'
<1>1. csSave' = 0 /\ csThen' = csThen
  BY DEF Issue, GoTo
<1>2. csRing = csCfg.tokens /\ csCfg.scope = csFile.scope
  BY DEF StartParts, LoggingIn
<1>3. WholePairs' /\ FileWhole' /\ SavesUsable'
  BY <1>1 DEF StartParts, WholePairs, FileWhole, SavesUsable
<1>4. LoggedIn'
  BY DEF Issue, GoTo, LoggedIn
<1>5. csAt' = "profile" => csNew' # 0 /\ csPairs'[csNew'] # "spent"
  BY NoPairIsZero DEF Issue, Unissued, GoTo
<1>6. LoggingIn'
  BY <1>1, <1>2, <1>5 DEF Issue, GoTo, LoggingIn
<1>7. ScopeGoesWithPair'
  <2>1. csFile.scope = TRUE => csRing.refresh # 0
    BY DEF StartParts, ScopeGoesWithPair
  <2>2. csAt' # "profile" => GiveUp
    BY DEF Issue, GoTo
  <2>3. GiveUp /\ csLost' = FALSE /\ csRing.refresh # 0
          => csPairs'[csRing.refresh] # "spent"
    BY <1>2 DEF GiveUp
  <2>4. QED
    BY <2>1, <2>2, <2>3 DEF ScopeGoesWithPair
<1>8. RefusedWhenLost'
  BY DEF Issue, GoTo, Unanswered, RefusedWhenLost
<1>9. QED
  BY <1>3, <1>4, <1>6, <1>7, <1>8 DEF StartParts

\* A new pair, and with it a clean keyring to come whatever there is in it now; or
\* none, and the one that was used up for it is lost.
LEMMA ApplyStep ==
  ASSUME CsTypes, CsFlags, Underway, StartInv, ApplySession, Clean'
  PROVE  StartParts'
<1> USE DEF csDisk, At
<1>1. csSave = 0 /\ csAt = "profile" /\ csRing' = csRing /\ csFile' = csFile
      /\ csPairs' = csPairs
  BY DEF ApplySession
<1>2. ASSUME csCfg' = [tokens |-> SessionTokens, scope |-> TRUE], SaveThen("setup"),
             UNCHANGED csAt
      PROVE  StartParts'
  <2>1. csCfg'.tokens.access = csNew /\ csCfg'.tokens.refresh = csNew /\ csCfg'.scope = TRUE
    BY <1>2 DEF SessionTokens
  <2>2. csNew # 0 /\ csPairs[csNew] # "spent" /\ csFile.whole = TRUE
    BY <1>1 DEF Underway
  <2>3. csSave' = 1 /\ csThen' = "setup" /\ csAt' = "profile"
    BY <1>1, <1>2 DEF SaveThen
  <2>4. QED
    BY <1>1, <2>1, <2>2, <2>3
    DEF StartParts, WholePairs, FileWhole, SavesUsable, LoggedIn, LoggingIn, ScopeGoesWithPair,
        RefusedWhenLost, Usable
<1>3. ASSUME GiveUp, GoTo("refused"), csUp' = FALSE, UNCHANGED <<csCfg, csCut, csFailed>>
      PROVE  StartParts'
  <2>1. StartParts
    BY <1>3 DEF Clean, StartInv
  <2>2. QED
    BY <1>1, <1>3, <2>1
    DEF GoTo, GiveUp, StartParts, WholePairs, FileWhole, SavesUsable, LoggedIn, LoggingIn,
        ScopeGoesWithPair, RefusedWhenLost, Usable
<1>4. QED
  BY <1>2, <1>3 DEF ApplySession, Unanswered

LEMMA StartStep ==
  CsTypes /\ CsFlags /\ Underway /\ StartInv /\ [CsNext]_csVars => StartInv'
<1> SUFFICES ASSUME CsTypes, CsFlags, StartInv, [CsNext]_csVars, Clean', ~ApplySession
             PROVE  StartParts'
  BY ApplyStep DEF StartInv
<1>1. Clean /\ StartParts
  BY CleanBefore DEF StartInv
<1>2. csCut' = FALSE /\ csFailed' = FALSE
  BY DEF Clean
<1> USE DEF csDisk, csWorld, csPast, At
<1>3. CASE Start \/ AtPrompt
  BY <1>1, <1>3
  DEF Start, AtPrompt, SaveThen, StartParts, WholePairs, FileWhole, SavesUsable, LoggedIn,
      LoggingIn, ScopeGoesWithPair, RefusedWhenLost, Usable
<1>4. CASE FirstLoad
  BY <1>1, <1>2, <1>4, FirstLoadStep
<1>5. CASE SetupDone \/ LastLoad \/ QuitToPrompt
  BY <1>1, <1>2, <1>5, LaterLoadStep DEF SetupDone, LastLoad, QuitToPrompt, CsStates
<1>6. CASE EnsureUserConfig
  <2>1. csSave = 0 /\ csAt = "ensure" /\ csRing = csCfg.tokens /\ csCfg.scope = csFile.scope
    BY <1>1, <1>6 DEF EnsureUserConfig, StartParts, LoggingIn
  <2>2. csCfg' = csCfg /\ csRing' = csRing /\ csFile' = csFile /\ csPairs' = csPairs
        /\ csLost' = csLost
    BY <1>6 DEF EnsureUserConfig
  <2>3. \/ csSave' = 0 /\ csAt' = Otherwise
        \/ csSave' = 0 /\ csAt' = "login"
        \/ /\ csSave' = 1 /\ csThen' = "setup" /\ csAt' = csAt
           /\ csCfg.tokens.access # 0 /\ csPairs[csCfg.tokens.access] = "fresh"
    BY <1>6, <2>1 DEF EnsureUserConfig, GoTo, SaveThen
  <2>4. Otherwise \in {"refresh", "login"} /\ (Otherwise = "refresh" => csCfg.scope = TRUE)
    BY DEF Otherwise, CsTypes
  <2>5. WholePairs
    BY <1>1 DEF StartParts
  <2> HIDE DEF Otherwise
  <2>6. QED
    BY <1>1, <2>1, <2>2, <2>3, <2>4, <2>5
    DEF StartParts, WholePairs, FileWhole, SavesUsable, LoggedIn, LoggingIn,
        ScopeGoesWithPair, RefusedWhenLost, Usable
<1>7. CASE Refresh
  <2>1. csSave = 0 /\ csAt = "refresh" /\ csCfg' = csCfg /\ csRing' = csRing /\ csFile' = csFile
    BY <1>7 DEF Refresh
  <2>2. CASE Issue(csCfg.tokens.refresh)
    BY <1>1, <2>1, <2>2, IssueStep
  <2>3. CASE /\ GoTo("refused") /\ UNCHANGED <<csWorld, csLost>>
             /\ csPairs[csCfg.tokens.refresh] = "spent" \/ csUp' = FALSE
    BY <1>1, <2>1, <2>3
    DEF GoTo, StartParts, WholePairs, FileWhole, SavesUsable, LoggedIn, LoggingIn,
        ScopeGoesWithPair, RefusedWhenLost, Usable, CsFlags
  <2>4. QED
    BY <1>7, <2>2, <2>3 DEF Refresh, Unanswered
<1>8. CASE Authenticate
  <2>1. csSave = 0 /\ csAt = "login" /\ csCfg' = csCfg /\ csRing' = csRing /\ csFile' = csFile
    BY <1>8 DEF Authenticate
  <2>2. CASE Issue(0)
    BY <1>1, <2>1, <2>2, IssueStep
  <2>3. CASE GoTo("refused") /\ csUp' = FALSE /\ UNCHANGED <<csWorld, csLost>>
    BY <1>1, <2>1, <2>3
    DEF GoTo, StartParts, WholePairs, FileWhole, SavesUsable, LoggedIn, LoggingIn,
        ScopeGoesWithPair, RefusedWhenLost, Usable
  <2>4. QED
    BY <1>8, <2>2, <2>3 DEF Authenticate, Unanswered
<1>9. CASE PickServer \/ SaveWhileRunning \/ Quit \/ Logout
  BY <1>1, <1>9
  DEF PickServer, SaveWhileRunning, Quit, Logout, GoTo, SaveThen, NoTokens, StartParts,
      WholePairs, FileWhole, SavesUsable, LoggedIn, LoggingIn, ScopeGoesWithPair,
      RefusedWhenLost, Usable
<1>10. CASE WriteFile
  <2>1. csSave = 1 => csFile' = [whole |-> FALSE, scope |-> FALSE]
    BY <1>10 DEF WriteFile
  <2>2. csSave = 2 => csFile'.whole = TRUE /\ csFile'.scope = csCfg.scope
    BY <1>10 DEF WriteFile
  <2>3. csSave \in {1, 2} /\ csSave' = csSave + 1
    BY <1>10 DEF WriteFile
  <2>4. csAt' = csAt /\ csThen' = csThen /\ csCfg' = csCfg /\ csRing' = csRing
        /\ csPairs' = csPairs /\ csLost' = csLost /\ csUp' = csUp
    BY <1>10 DEF WriteFile
  <2>5. QED
    BY <1>1, <2>1, <2>2, <2>3, <2>4
    DEF StartParts, WholePairs, FileWhole, SavesUsable, LoggedIn, LoggingIn, ScopeGoesWithPair,
        RefusedWhenLost, Usable
<1>11. CASE SaveFails
  BY <1>2, <1>11 DEF SaveFails
<1>12. CASE WriteKeyring
  <2>1. csCfg' = csCfg /\ csFile' = csFile /\ csPairs' = csPairs /\ csLost' = csLost
        /\ csUp' = csUp /\ csThen' = csThen
    BY <1>12 DEF WriteKeyring
  <2>2. ~KeyringFails
    BY <1>2 DEF KeyringFails
  <2>3. CASE csSave = 3
    <3>1. csRing'.access = csCfg.tokens.access /\ csSave' = 4 /\ csAt' = csAt
      BY <1>12, <2>2, <2>3 DEF WriteKeyring, CsTypes, Tokens
    <3>2. QED
      BY <1>1, <2>1, <2>3, <3>1
      DEF StartParts, WholePairs, FileWhole, SavesUsable, LoggedIn, LoggingIn, ScopeGoesWithPair,
        RefusedWhenLost, Usable
  <2>4. CASE csSave = 4
    <3>1. csRing' = SetRefresh(csRing) /\ csSave' = 0 /\ csAt' = csThen
      BY <1>12, <2>2, <2>4 DEF WriteKeyring
    <3>2. csRing.access = csCfg.tokens.access /\ csCfg.tokens.access = csCfg.tokens.refresh
      BY <1>1, <2>4 DEF StartParts, WholePairs
    <3>3. csRing' = csCfg.tokens
      BY <3>1, <3>2, TokensAre DEF SetRefresh, CsTypes, Tokens
    <3>4. QED
      BY <1>1, <2>1, <2>4, <3>1, <3>2, <3>3
      DEF StartParts, WholePairs, FileWhole, SavesUsable, LoggedIn, LoggingIn, ScopeGoesWithPair,
        RefusedWhenLost, Usable
  <2>5. QED
    BY <1>12, <2>3, <2>4 DEF WriteKeyring
<1>13. CASE Crash
  BY <1>1, <1>2, <1>13
  DEF Crash, StartParts, WholePairs, FileWhole, SavesUsable, LoggedIn, LoggingIn,
      ScopeGoesWithPair, RefusedWhenLost, Usable
<1>14. CASE \E p \in CsPair : Expire(p)
  BY <1>1, <1>14
  DEF Expire, csWhere, StartParts, WholePairs, FileWhole, SavesUsable, LoggedIn, LoggingIn,
      ScopeGoesWithPair, RefusedWhenLost, Usable
<1>15. CASE UNCHANGED csVars
  BY <1>1, <1>15
  DEF csVars, csWhere, StartParts, WholePairs, FileWhole, SavesUsable, LoggedIn, LoggingIn,
      ScopeGoesWithPair, RefusedWhenLost, Usable
<1>16. QED
  BY <1>3, <1>4, <1>5, <1>6, <1>7, <1>8, <1>9, <1>10, <1>11, <1>12, <1>13, <1>14, <1>15
  DEF CsNext

LEMMA StartsTyped == CsInit => CsTypes /\ CsFlags
<1>1. CsInit => CsTypes
  BY ClientStartAssumption DEF CsInit, CsTypes, CsStates, Tokens, NoTokens
<1>2. CsInit => CsFlags
  BY Zenon DEF CsInit, CsFlags
<1>3. QED
  BY <1>1, <1>2

\* In every behaviour of any number of starts with any number of faults the
\* client's state has its type, and what starts that were clean since the last new pair
\* leave behind is whole.
THEOREM StartInvariance == CsSpec => [](CsTypes /\ CsFlags /\ Underway /\ StartInv)
<1>1. CsInit => Underway /\ StartInv
  BY DEF CsInit, Underway, StartInv, StartParts, WholePairs, FileWhole, SavesUsable, LoggedIn,
         LoggingIn, ScopeGoesWithPair, RefusedWhenLost, NoTokens
<1>2. QED
  BY <1>1, StartsTyped, CsTypesStep, CsFlagsStep, UnderwayStep, StartStep, PTL DEF CsSpec

\* While the client runs the keyring has a whole pair that the next start can use,
\* over any number of starts, refreshes, logouts and saves, unless one was cut short
\* since the last new pair
\* (Save and Load of internal/config, Refresh and applySession of
\* internal/auth/discord).
THEOREM TokensLast == CsSpec => []TokensSurvive
<1>1. CsTypes /\ CsFlags /\ StartInv => TokensSurvive
  <2> SUFFICES ASSUME CsTypes, CsFlags, StartInv, At("run"), ~csFailed, ~csCut
               PROVE  /\ csRing.access = csRing.refresh
                      /\ csRing.refresh # 0 /\ csPairs[csRing.refresh] # "spent"
    BY DEF TokensSurvive
  <2>1. Clean
    BY Zenon DEF CsFlags, Clean
  <2>2. QED
    BY <2>1 DEF StartInv, StartParts, WholePairs, LoggedIn, Usable, At
<1>2. QED
  BY <1>1, StartInvariance, PTL

\* A start that Discord answered and the user agreed to is refused for one of the
\* causes only, whatever happened in the starts before it (EnsureUserConfig,
\* Refresh and Authenticate, Load's Validate); and the causes are not older than the
\* last pair that was taken over.
THEOREM RefusalHasACause == CsSpec => []RefusedForACause
<1>1. CsTypes /\ CsFlags /\ StartInv => RefusedForACause
  <2> SUFFICES ASSUME CsTypes, CsFlags, StartInv, csAt = "refused", csUp, ~csCut, ~csFailed
               PROVE  csLost
    BY Zenon DEF RefusedForACause
  <2>1. Clean /\ csUp = TRUE
    BY Zenon DEF CsFlags, Clean
  <2>2. QED
    BY <2>1 DEF StartInv, StartParts, RefusedWhenLost
<1>2. QED
  BY <1>1, StartInvariance, PTL

-----------------------------------------------------------------------------
(* MessageView: lists, pointers into them, and what is edited.             *)

\* A set of numbers has a least one; of indexes, a greatest as well.
LEMMA LeastIndex ==
  ASSUME NEW K \in SUBSET Nat, K # {}
  PROVE  \E t \in K : \A s \in K : t <= s
<1> DEFINE R == OpToRel(<, Nat)
<1>1. IsWellFoundedOn(R, Nat)
  BY NatLessThanWellFounded
<1>2. \A a, b \in Nat : a < b => <<a, b>> \in R
  BY DEF OpToRel
<1> HIDE DEF R
<1>3. PICK x \in K : \A y \in K : ~(<<y, x>> \in R)
  BY <1>1, WFMin
<1>4. \A s \in K : ~(s < x)
  BY <1>2, <1>3
<1>5. QED
  BY <1>4

LEMMA NewestIsIn ==
  ASSUME NEW n \in Nat, NEW K, K \subseteq 1..n, K # {}
  PROVE  Newest(K) \in K
<1> DEFINE D == {n - k : k \in K}
<1>0. \A k \in K : n - k \in Nat
  OBVIOUS
<1>1. D \in SUBSET Nat /\ D # {}
  BY <1>0
<1> HIDE DEF D
<1>2. PICK d \in D : \A e \in D : d <= e
  BY <1>1, LeastIndex
<1>3. PICK k \in K : d = n - k
  BY <1>2 DEF D
<1>4. \A j \in K : n - j \in D
  BY DEF D
<1>5. \A j \in K : j <= k
  BY <1>2, <1>3, <1>4
<1>6. QED
  BY <1>5 DEF Newest

LEMMA NewestIsIndex ==
  ASSUME NEW n \in Nat, NEW K, K \subseteq 1..n
  PROVE  Newest(K) \in 0..n
<1>1. CASE K = {}
  <2>1. Newest(K) = 0
    BY Zenon, <1>1 DEF Newest
  <2>2. QED
    BY <2>1
<1>2. CASE K # {}
  <2>1. Newest(K) \in K
    BY <1>2, NewestIsIn
  <2>2. \A k \in K : k \in 0..n
    OBVIOUS
  <2>3. QED
    BY <2>1, <2>2
<1>3. QED
  BY <1>1, <1>2

LEMMA InsertIs ==
  ASSUME NEW S, NEW s \in Seq(S), NEW p \in 1..(Len(s) + 1), NEW e \in S
  PROVE  InsertAt(s, p, e) \in Seq(S) /\ Len(InsertAt(s, p, e)) = Len(s) + 1
<1> DEFINE a == SubSeq(s, 1, p - 1)
           b == SubSeq(s, p, Len(s))
           c == <<e>>
<1>1. a \in Seq(S) /\ Len(a) = p - 1
  BY SubSeqProperties
<1>2. b \in Seq(S) /\ Len(b) = Len(s) + 1 - p
  BY SubSeqProperties
<1>3. c \in Seq(S) /\ Len(c) = 1
  OBVIOUS
<1>4. InsertAt(s, p, e) = a \o c \o b
  BY DEF InsertAt
<1> HIDE DEF a, b, c
<1>5. a \o c \in Seq(S) /\ Len(a \o c) = p
  <2>1. a \o c \in Seq(S) /\ Len(a \o c) = Len(a) + Len(c)
    BY <1>1, <1>3, ConcatProperties
  <2>2. p \in Int
    OBVIOUS
  <2>3. QED
    BY <1>1, <1>3, <2>1, <2>2
<1>6. (a \o c) \o b \in Seq(S) /\ Len((a \o c) \o b) = Len(s) + 1
  BY <1>2, <1>5, ConcatProperties
<1>7. QED
  BY <1>4, <1>6

Lines == MvIds \cup {System}

MvReplies == {NoReply} \cup {Slot(i) : i \in DOMAIN mvMsgs} \cup {Copy(m) : m \in Lines}

MvTypes ==
  /\ mvChannel \in MvChannels
  /\ mvMsgs \in Seq(Lines)
  /\ mvPick \in {"none", "reply", "edit"}
  /\ mvIdx \in Nat
  /\ mvReply \in MvReplies
  /\ mvEditing \in MvIds \cup {0}
  /\ mvDraft \in MvIds \cup {Empty, Typed}
  /\ mvEdits \subseteq [target : MvIds, draft : MvIds \cup {Typed}]
  /\ mvCall \in [op : {"none", "send", "edit"}, target : MvIds \cup {0},
                 draft : MvIds \cup {Empty, Typed}, listed : BOOLEAN]
  /\ mvChosen \in MvIds \cup {0}
  /\ mvMixed \subseteq MvIds /\ mvLive \subseteq MvIds
  /\ mvKeys \in 0..MaxMvKeys

MvFlags == mvCrashed \in BOOLEAN

LEMMA MessagesAre ==
  ASSUME MvTypes
  PROVE  /\ Len(mvMsgs) \in Nat /\ DOMAIN mvMsgs = 1..Len(mvMsgs)
         /\ \A i \in Messages : i \in DOMAIN mvMsgs /\ mvMsgs[i] \in MvIds
         /\ OwnMessages \subseteq Messages /\ MayEditAt \subseteq OwnMessages
         /\ Messages \subseteq 1..Len(mvMsgs)
  BY DEF MvTypes, Lines, Messages, OwnMessages, MayEditAt

\* The reply is to a line of the list, or to the copy of one.
LEMMA RepliesAre ==
  ASSUME MvTypes
  PROVE  ReplyId \in Lines /\ (Detached = mvReply \/ Detached = Copy(ReplyId))
         /\ (mvReply.at = "slot" => mvReply = Slot(mvReply.slot)
                                    /\ mvReply.slot \in DOMAIN mvMsgs)
<1>1. CASE mvReply = NoReply
  BY <1>1 DEF ReplyId, Detached, NoReply, Lines, System
<1>2. ASSUME NEW i \in DOMAIN mvMsgs, mvReply = Slot(i)
      PROVE  mvReply.at = "slot" /\ mvReply.slot = i /\ mvMsgs[i] \in Lines
  BY <1>2 DEF Slot, MvTypes
<1>3. ASSUME NEW m \in Lines, mvReply = Copy(m)
      PROVE  mvReply.at = "copy" /\ mvReply.id = m
  BY <1>3 DEF Copy
<1>4. QED
  BY <1>1, <1>2, <1>3 DEF MvTypes, MvReplies, ReplyId, Detached

\* A line of the client's own at the end leaves every pointer where it is.
LEMMA LineIs ==
  ASSUME MvTypes, AddLine
  PROVE  mvMsgs' \in Seq(Lines) /\ Len(mvMsgs') = Len(mvMsgs) + 1
         /\ DOMAIN mvMsgs' = 1..(Len(mvMsgs) + 1)
<1>1. mvMsgs \in Seq(Lines) /\ System \in Lines
  BY DEF MvTypes, Lines
<1>2. mvMsgs' = Append(mvMsgs, System)
  BY DEF AddLine
<1>3. QED
  BY <1>1, <1>2, AppendProperties

LEMMA RefusalIs ==
  ASSUME MvTypes, AddLine, mvReply' \in {mvReply, Detached, NoReply}
  PROVE  mvMsgs' \in Seq(Lines) /\ mvReply' \in MvReplies'
<1>1. mvMsgs' \in Seq(Lines) /\ DOMAIN mvMsgs \subseteq DOMAIN mvMsgs'
  BY LineIs, MessagesAre
<1>2. mvReply' \in MvReplies
  BY RepliesAre DEF MvTypes, MvReplies
<1>3. QED
  BY <1>1, <1>2 DEF MvReplies

\* A live message: the list is cut at the front, and the slot moves with it.
LEMMA LiveIs ==
  ASSUME MvTypes, NEW m \in MvIds, OnMessageHere(m)
  PROVE  mvMsgs' \in Seq(Lines) /\ mvReply' \in MvReplies'
<1>1. PICK p \in Places(m), inPlace \in BOOLEAN :
        LET all == InsertAt(mvMsgs, p, m)
            cut == IF Len(all) > MvShown THEN Len(all) - MvShown ELSE 0
        IN /\ mvMsgs' = SubSeq(all, cut + 1, Len(all))
           /\ mvReply' = IF mvReply.at # "slot" \/ ~inPlace THEN Detached
                         ELSE IF mvReply.slot > cut THEN Slot(mvReply.slot - cut)
                         ELSE Copy(all[mvReply.slot])
  BY DEF OnMessageHere
<1> DEFINE all == InsertAt(mvMsgs, p, m)
           cut == IF Len(all) > MvShown THEN Len(all) - MvShown ELSE 0
<1>2. all \in Seq(Lines) /\ Len(all) = Len(mvMsgs) + 1 /\ Len(mvMsgs) \in Nat
  BY InsertIs, MessagesAre DEF MvTypes, Places, Lines
<1>3. mvMsgs' = SubSeq(all, cut + 1, Len(all))
  BY <1>1
<1>4. mvReply' = IF mvReply.at # "slot" \/ ~inPlace THEN Detached
                 ELSE IF mvReply.slot > cut THEN Slot(mvReply.slot - cut)
                 ELSE Copy(all[mvReply.slot])
  BY <1>1
<1> HIDE DEF all
<1>5. cut \in 0..Len(mvMsgs)
  BY <1>2, MessageViewAssumption
<1> HIDE DEF cut
<1>6. \A i \in (cut + 1)..Len(all) : all[i] \in Lines
  BY <1>2, <1>5
<1>7. mvMsgs' \in Seq(Lines) /\ Len(mvMsgs') = Len(all) - cut
  BY <1>2, <1>3, <1>5, <1>6, SubSeqProperties
<1>8. ReplyId \in Lines
  BY RepliesAre
<1>9. CASE mvReply.at # "slot" \/ ~inPlace
  <2>1. mvReply' = Detached
    BY <1>4, <1>9
  <2>2. mvReply' = Copy(ReplyId) \/ (mvReply.at # "slot" /\ mvReply' = mvReply)
    BY <2>1 DEF Detached
  <2>3. mvReply.at # "slot" => mvReply = NoReply \/ \E l \in Lines : mvReply = Copy(l)
    BY DEF MvTypes, MvReplies, Slot
  <2>4. QED
    BY <1>7, <1>8, <2>2, <2>3 DEF MvReplies
<1>10. CASE ~(mvReply.at # "slot" \/ ~inPlace)
  <2>1. mvReply.slot \in 1..Len(mvMsgs)
    BY <1>10, RepliesAre, MessagesAre
  <2>2. CASE mvReply.slot > cut
    <3>1. mvReply.slot - cut \in DOMAIN mvMsgs'
      BY <1>2, <1>5, <1>7, <2>1, <2>2
    <3>2. mvReply' = Slot(mvReply.slot - cut)
      BY <1>4, <1>10, <2>2
    <3>3. QED
      BY <1>7, <3>1, <3>2 DEF MvReplies
  <2>3. CASE ~(mvReply.slot > cut)
    <3>1. all[mvReply.slot] \in Lines
      BY <1>2, <2>1
    <3>2. mvReply' = Copy(all[mvReply.slot])
      BY <1>4, <1>10, <2>3
    <3>3. QED
      BY <1>7, <3>1, <3>2 DEF MvReplies
  <2>4. QED
    BY <2>2, <2>3
<1>11. QED
  BY <1>9, <1>10

LEMMA PageIs ==
  ASSUME MvTypes, NEW m \in MvIds, OnPage(m)
  PROVE  mvMsgs' \in Seq(Lines) /\ mvReply' \in MvReplies'
<1>1. PICK p \in Places(m) : mvMsgs' = InsertAt(mvMsgs, p, m)
  BY DEF OnPage
<1>2. mvMsgs' \in Seq(Lines) /\ Len(mvMsgs') = Len(mvMsgs) + 1
  BY <1>1, InsertIs DEF MvTypes, Places, Lines
<1>3. DOMAIN mvMsgs \subseteq DOMAIN mvMsgs'
  BY <1>2, MessagesAre
<1>4. mvReply' \in MvReplies
  BY RepliesAre DEF OnPage, MvTypes, MvReplies
<1>5. QED
  BY <1>2, <1>3, <1>4 DEF MvReplies

LEMMA StopsAre ==
  ASSUME MvTypes
  PROVE  /\ \A i \in Stops : i \in Nat
         /\ \A K : K \subseteq Stops => Newest(K) \in Nat
         /\ Newest(Messages) \in Nat /\ Newest(MayEditAt) \in Nat
<1>1. Stops \subseteq 1..Len(mvMsgs) /\ Len(mvMsgs) \in Nat
  BY MessagesAre DEF Stops
<1>2. MayEditAt \subseteq 1..Len(mvMsgs) /\ Messages \subseteq 1..Len(mvMsgs)
  BY MessagesAre
<1>3. \A K : K \subseteq 1..Len(mvMsgs) => Newest(K) \in 0..Len(mvMsgs)
  BY <1>1, NewestIsIndex
<1>4. \A i \in 0..Len(mvMsgs) : i \in Nat
  BY <1>1
<1>5. \A K : K \subseteq Stops => Newest(K) \in Nat
  BY <1>1, <1>3, <1>4
<1>6. Newest(Messages) \in Nat /\ Newest(MayEditAt) \in Nat
  BY <1>2, <1>3, <1>4
<1>7. \A i \in Stops : i \in Nat
  BY <1>1
<1>8. QED
  BY <1>5, <1>6, <1>7

LEMMA LeastIsIn == ASSUME NEW K \in SUBSET Nat, K # {} PROVE Min(K) \in K
<1>1. \E t \in K : \A s \in K : t <= s
  BY LeastIndex
<1>2. QED
  BY <1>1, Zenon DEF Min

\* What a call for a message of the list, or of the user's choice, is made of.
LEMMA CallIs ==
  ASSUME MvTypes, NEW m \in MvIds, NEW draft \in MvIds \cup {Typed}, CallEdit(m, draft)
  PROVE  /\ mvEdits' \subseteq [target : MvIds, draft : MvIds \cup {Typed}]
         /\ mvCall' \in [op : {"none", "send", "edit"}, target : MvIds \cup {0},
                         draft : MvIds \cup {Empty, Typed}, listed : BOOLEAN]
<1>1. [target |-> m, draft |-> draft] \in [target : MvIds, draft : MvIds \cup {Typed}]
  OBVIOUS
<1>2. mvCall' = [op |-> "edit", target |-> m, draft |-> draft, listed |-> m \in Range(mvMsgs)]
  BY DEF CallEdit
<1>3. (m \in Range(mvMsgs)) \in BOOLEAN
  OBVIOUS
<1>4. mvEdits' = mvEdits \cup {[target |-> m, draft |-> draft]}
  BY DEF CallEdit
<1>5. QED
  BY <1>1, <1>2, <1>3, <1>4 DEF MvTypes

\* The parts of the type that a step leaves alone or changes within their bounds.
MvAsideOK ==
  /\ mvPick \in {"none", "reply", "edit"}
  /\ mvEditing \in MvIds \cup {0}
  /\ mvDraft \in MvIds \cup {Empty, Typed}
  /\ mvEdits \subseteq [target : MvIds, draft : MvIds \cup {Typed}]
  /\ mvCall \in [op : {"none", "send", "edit"}, target : MvIds \cup {0},
                 draft : MvIds \cup {Empty, Typed}, listed : BOOLEAN]
  /\ mvChosen \in MvIds \cup {0}
  /\ mvMixed \subseteq MvIds /\ mvLive \subseteq MvIds
  /\ mvKeys \in 0..MaxMvKeys

LEMMA MvAsideStep == MvTypes /\ [MvNext]_mvVars => MvAsideOK'
<1> SUFFICES ASSUME MvTypes, [MvNext]_mvVars PROVE MvAsideOK'
  OBVIOUS
<1>0. MvAsideOK
  BY DEF MvTypes, MvAsideOK
<1>1. Press => mvKeys' \in 0..MaxMvKeys
  BY <1>0, MessageViewAssumption DEF Press, MvAsideOK
<1> HIDE DEF Press
<1> USE <1>0, <1>1 DEF mvList, mvPicker, mvAnswer, mvEdit, mvCalls, ClosePicker, GiveUpReply
<1>2. CASE ReplyToNewest \/ StartReplyPicker \/ StartEditPicker \/ MovePickUp \/ MovePickDown
  BY <1>2 DEF ReplyToNewest, StartReplyPicker, StartEditPicker, MovePickUp, MovePickDown,
              MvAsideOK
<1>3. CASE ConfirmReply
  BY <1>3, MessagesAre DEF ConfirmReply, MvAsideOK
<1>4. CASE ConfirmEdit
  BY <1>4, MessagesAre DEF ConfirmEdit, PrefillIndex, BeginEdit, MvAsideOK
<1>5. CASE Type \/ Erase \/ Escape
  BY <1>5 DEF Type, Erase, Escape, MvAsideOK
<1>6. CASE SubmitEdit
  <2>1. mvEditing \in MvIds /\ mvDraft \in MvIds \cup {Typed} /\ CallEdit(mvEditing, mvDraft)
    BY <1>6 DEF SubmitEdit, MvAsideOK
  <2>2. /\ mvEdits' \subseteq [target : MvIds, draft : MvIds \cup {Typed}]
        /\ mvCall' \in [op : {"none", "send", "edit"}, target : MvIds \cup {0},
                        draft : MvIds \cup {Empty, Typed}, listed : BOOLEAN]
    BY <2>1, CallIs
  <2>3. QED
    BY <1>6, <2>2 DEF SubmitEdit, MvAsideOK
<1>7. CASE SubmitMessage
  <2>1. mvCall' \in [op : {"none", "send", "edit"}, target : MvIds \cup {0},
                     draft : MvIds \cup {Empty, Typed}, listed : BOOLEAN]
    BY <1>7, RepliesAre DEF SubmitMessage, Lines, System, MvAsideOK
  <2>2. QED
    BY <1>7, <2>1 DEF SubmitMessage, MvAsideOK
<1>8. CASE EditLastCommand
  <2>1. ASSUME OwnMessages # {} PROVE mvMsgs[Newest(OwnMessages)] \in MvIds
    BY <2>1, MessagesAre, NewestIsIn
  <2>2. CASE OwnMessages = {}
    BY <1>8, <2>2 DEF EditLastCommand, MvAsideOK
  <2>3. CASE OwnMessages # {}
    <3>1. CallEdit(mvMsgs[Newest(OwnMessages)], Typed)
      BY <1>8, <2>3 DEF EditLastCommand
    <3>2. /\ mvEdits' \subseteq [target : MvIds, draft : MvIds \cup {Typed}]
          /\ mvCall' \in [op : {"none", "send", "edit"}, target : MvIds \cup {0},
                          draft : MvIds \cup {Empty, Typed}, listed : BOOLEAN]
      BY <2>1, <2>3, <3>1, CallIs
    <3>3. QED
      BY <1>8, <2>3, <3>2 DEF EditLastCommand, MvAsideOK
  <2>4. QED
    BY <2>2, <2>3
<1>9. ASSUME NEW m \in MvIds, EditCommand(m) PROVE MvAsideOK'
  <2>1. CASE m \in Range(mvMsgs) /\ ~(IsOwn(m) /\ Editable(m))
    BY <1>9, <2>1 DEF EditCommand, MvAsideOK
  <2>2. CASE ~(m \in Range(mvMsgs) /\ ~(IsOwn(m) /\ Editable(m)))
    <3>1. CallEdit(m, Typed)
      BY <1>9, <2>2 DEF EditCommand
    <3>2. /\ mvEdits' \subseteq [target : MvIds, draft : MvIds \cup {Typed}]
          /\ mvCall' \in [op : {"none", "send", "edit"}, target : MvIds \cup {0},
                          draft : MvIds \cup {Empty, Typed}, listed : BOOLEAN]
      BY <3>1, CallIs
    <3>3. QED
      BY <1>9, <3>2 DEF EditCommand, MvAsideOK
  <2>3. QED
    BY <2>1, <2>2
<1>10. ASSUME NEW m \in MvIds, StartEditOf(m) PROVE MvAsideOK'
  BY <1>10 DEF StartEditOf, BeginEdit, MvAsideOK
<1>11. ASSUME NEW c \in MvChannels, ShowChannel(c) \/ LeaveChannel(c) PROVE MvAsideOK'
  BY <1>11 DEF ShowChannel, LeaveChannel, MvAsideOK
<1>12. ASSUME NEW m \in MvIds, OnMessageHere(m) \/ OnPage(m) PROVE MvAsideOK'
  BY <1>12 DEF OnMessageHere, OnPage, MvAsideOK
<1>13. ASSUME NEW call \in mvEdits, OnEdited(call) PROVE MvAsideOK'
  BY <1>13 DEF OnEdited, MvAsideOK
<1>14. ASSUME NEW call \in mvEdits, OnEditFailed(call) PROVE MvAsideOK'
  <2>1. call.draft \in MvIds \cup {Typed}
    BY DEF MvAsideOK
  <2>2. QED
    BY <1>14, <2>1 DEF OnEditFailed, MvAsideOK
<1>15. CASE UNCHANGED mvVars
  BY <1>15 DEF mvVars, MvAsideOK
<1>16. QED
  BY <1>2, <1>3, <1>4, <1>5, <1>6, <1>7, <1>8, <1>9, <1>10, <1>11, <1>12, <1>13, <1>14,
     <1>15 DEF MvNext, MvUser, MvRest

LEMMA MvTypesStep == MvTypes /\ [MvNext]_mvVars => MvTypes'
<1> SUFFICES ASSUME MvTypes, [MvNext]_mvVars
             PROVE  /\ mvMsgs' \in Seq(Lines) /\ mvReply' \in MvReplies'
                    /\ mvIdx' \in Nat /\ mvChannel' \in MvChannels
  BY MvAsideStep DEF MvTypes, MvAsideOK
<1> USE DEF mvList, mvPicker, mvAnswer, mvEdit, mvCalls, ClosePicker, GiveUpReply
<1>1. mvMsgs \in Seq(Lines) /\ mvReply \in MvReplies /\ mvIdx \in Nat /\ mvChannel \in MvChannels
  BY DEF MvTypes
<1>2. ASSUME UNCHANGED mvMsgs PROVE UNCHANGED mvReply \/ mvReply' = NoReply => mvReply' \in MvReplies'
  BY <1>1, <1>2 DEF MvReplies
<1>3. <<System>> \in Seq(Lines)
  BY DEF Lines
<1>4. CASE ReplyToNewest
  <2>1. Newest(Messages) \in DOMAIN mvMsgs
    BY <1>4, MessagesAre, NewestIsIn DEF ReplyToNewest
  <2>2. QED
    BY <1>1, <1>4, <2>1 DEF ReplyToNewest, MvReplies
<1>5. CASE StartReplyPicker
  BY <1>1, <1>2, <1>5, StopsAre DEF StartReplyPicker
<1>6. CASE StartEditPicker
  <2>1. mvIdx' \in Nat /\ mvChannel' = mvChannel /\ mvReply' = NoReply
    BY <1>6, StopsAre DEF StartEditPicker
  <2>2. UNCHANGED mvMsgs \/ AddLine
    BY <1>6 DEF StartEditPicker
  <2>3. QED
    BY <1>1, <1>2, <2>1, <2>2, RefusalIs
<1>7. CASE MovePickUp
  <2>1. {i \in Stops : i < mvIdx} \subseteq Stops
    OBVIOUS
  <2>2. Newest({i \in Stops : i < mvIdx}) \in Nat
    BY <2>1, StopsAre
  <2>3. QED
    BY <1>1, <1>2, <1>7, <2>2 DEF MovePickUp
<1>8. CASE MovePickDown
  <2>1. {i \in Stops : i > mvIdx} \in SUBSET Nat
    BY StopsAre
  <2>2. {i \in Stops : i > mvIdx} # {}
    BY <1>8 DEF MovePickDown
  <2>3. Min({i \in Stops : i > mvIdx}) \in Nat
    BY <2>1, <2>2, LeastIsIn
  <2>4. QED
    BY <1>1, <1>2, <1>8, <2>3 DEF MovePickDown
<1>9. CASE ConfirmReply
  <2>1. mvIdx \in Messages => PickReply(mvIdx) \in MvReplies
    BY MessagesAre DEF PickReply, MvReplies, Lines
  <2>2. mvMsgs' = mvMsgs /\ mvReply' \in MvReplies
    BY <1>1, <1>9, <2>1 DEF ConfirmReply
  <2>3. QED
    BY <1>1, <1>9, <2>2 DEF ConfirmReply, MvReplies
<1>10. CASE ConfirmEdit
  <2>1. mvIdx' \in Nat /\ mvChannel' = mvChannel
    BY <1>1, <1>10 DEF ConfirmEdit
  <2>2. UNCHANGED <<mvMsgs, mvReply>> \/ RefuseWithLine
    BY <1>10 DEF ConfirmEdit
  <2>3. QED
    BY <1>1, <1>2, <2>1, <2>2, RefusalIs DEF RefuseWithLine
<1>11. CASE Type \/ Erase \/ SubmitEdit
  BY <1>1, <1>2, <1>11 DEF Type, Erase, SubmitEdit
<1>12. CASE Escape \/ SubmitMessage
  BY <1>1, <1>2, <1>12 DEF Escape, SubmitMessage
<1>13. CASE EditLastCommand
  <2>1. UNCHANGED <<mvMsgs, mvReply>> \/ RefuseWithLine
    BY <1>13 DEF EditLastCommand
  <2>2. QED
    BY <1>1, <1>2, <1>13, <2>1, RefusalIs DEF RefuseWithLine, EditLastCommand
<1>14. ASSUME NEW m \in MvIds, EditCommand(m)
       PROVE  /\ mvMsgs' \in Seq(Lines) /\ mvReply' \in MvReplies'
              /\ mvIdx' \in Nat /\ mvChannel' \in MvChannels
  <2>1. UNCHANGED <<mvMsgs, mvReply>> \/ RefuseWithLine
    BY <1>14 DEF EditCommand
  <2>2. QED
    BY <1>1, <1>2, <1>14, <2>1, RefusalIs DEF RefuseWithLine, EditCommand
<1>15. ASSUME NEW m \in MvIds, StartEditOf(m)
       PROVE  /\ mvMsgs' \in Seq(Lines) /\ mvReply' \in MvReplies'
              /\ mvIdx' \in Nat /\ mvChannel' \in MvChannels
  <2>1. UNCHANGED mvMsgs \/ AddLine
    BY <1>15 DEF StartEditOf
  <2>2. mvReply' = NoReply /\ mvIdx' \in Nat /\ mvChannel' = mvChannel
    BY <1>1, <1>15 DEF StartEditOf
  <2>3. QED
    BY <1>1, <1>2, <2>1, <2>2, RefusalIs
<1>16. ASSUME NEW c \in MvChannels, ShowChannel(c)
       PROVE  /\ mvMsgs' \in Seq(Lines) /\ mvReply' \in MvReplies'
              /\ mvIdx' \in Nat /\ mvChannel' \in MvChannels
  BY <1>1, <1>3, <1>16 DEF ShowChannel, MvReplies
<1>17. ASSUME NEW c \in MvChannels, LeaveChannel(c)
       PROVE  /\ mvMsgs' \in Seq(Lines) /\ mvReply' \in MvReplies'
              /\ mvIdx' \in Nat /\ mvChannel' \in MvChannels
  <2>1. mvReply' = NoReply \/ \E l \in Lines : mvReply' = Copy(l)
    BY <1>17, RepliesAre DEF LeaveChannel, Detached, MvTypes, MvReplies, Slot
  <2>2. QED
    BY <1>1, <1>3, <1>17, <2>1 DEF LeaveChannel, MvReplies
<1>18. ASSUME NEW m \in MvIds, OnMessageHere(m)
       PROVE  /\ mvMsgs' \in Seq(Lines) /\ mvReply' \in MvReplies'
              /\ mvIdx' \in Nat /\ mvChannel' \in MvChannels
  <2>1. mvIdx' = mvIdx /\ mvChannel' = mvChannel
    BY <1>18 DEF OnMessageHere
  <2>2. QED
    BY <1>1, <1>18, <2>1, LiveIs
<1>19. ASSUME NEW m \in MvIds, OnPage(m)
       PROVE  /\ mvMsgs' \in Seq(Lines) /\ mvReply' \in MvReplies'
              /\ mvIdx' \in Nat /\ mvChannel' \in MvChannels
  <2>1. mvIdx' = mvIdx /\ mvChannel' = mvChannel
    BY <1>19 DEF OnPage
  <2>2. QED
    BY <1>1, <1>19, <2>1, PageIs
<1>20. CASE \E call \in mvEdits : OnEdited(call) \/ OnEditFailed(call)
  BY <1>1, <1>2, <1>20 DEF OnEdited, OnEditFailed
<1>21. CASE UNCHANGED mvVars
  BY <1>1, <1>2, <1>21 DEF mvVars
<1>22. QED
  BY <1>4, <1>5, <1>6, <1>7, <1>8, <1>9, <1>10, <1>11, <1>12, <1>13, <1>14, <1>15, <1>16,
     <1>17, <1>18, <1>19, <1>20, <1>21 DEF MvNext, MvUser, MvRest

LEMMA MvFlagsStep == MvFlags /\ [MvNext]_mvVars => MvFlags'
<1> SUFFICES ASSUME MvFlags, [MvNext]_mvVars PROVE MvFlags'
  OBVIOUS
<1>1. mvCrashed' \in {mvCrashed, TRUE}
  BY DEF MvNext, MvUser, MvRest, mvVars, mvEdit, ReplyToNewest, StartReplyPicker,
         StartEditPicker, MovePickUp, MovePickDown, ConfirmReply, ConfirmEdit, Type, Erase,
         Escape, SubmitEdit, SubmitMessage, StartEditOf, EditCommand, EditLastCommand,
         ShowChannel, LeaveChannel, OnMessageHere, OnPage, OnEdited, OnEditFailed, BeginEdit
<1>2. QED
  BY Zenon, <1>1 DEF MvFlags

\* A message taken into the input was the user's own and could be edited, and what
\* is in the input while one is edited, or was sent for it, is its text, or that of
\* another message was put back.
EditInv ==
  /\ mvEditing # 0 => MvKind[mvEditing] = "own"
  /\ mvCall.op = "edit" /\ mvCall.listed = TRUE => MvKind[mvCall.target] # "other"
  /\ mvEditing # 0 /\ mvDraft \in MvIds => mvDraft = mvEditing \/ mvEditing \in mvMixed
  /\ \A call \in mvEdits :
       call.draft \in MvIds => call.draft = call.target \/ call.target \in mvMixed

LEMMA EditStep == MvTypes /\ EditInv /\ [MvNext]_mvVars => EditInv'
<1> SUFFICES ASSUME MvTypes, EditInv, [MvNext]_mvVars PROVE EditInv'
  OBVIOUS
<1>0. Empty \notin MvIds /\ Typed \notin MvIds
  BY MessageViewAssumption DEF Empty, Typed, System
<1> USE <1>0 DEF mvList, mvPicker, mvAnswer, mvEdit, mvCalls
<1>1. CASE UNCHANGED <<mvEdit, mvEdits, mvCall>>
  BY <1>1 DEF EditInv
<1>2. CASE UNCHANGED <<mvMixed, mvEdits, mvCall>> /\ mvEditing' = 0
  BY <1>2 DEF EditInv
<1>3. ASSUME NEW m, BeginEdit(m), MvKind[m] = "own", UNCHANGED <<mvEdits, mvCall>>
      PROVE  EditInv'
  BY <1>3 DEF BeginEdit, BeingEdited, EditInv
<1>4. CASE ConfirmEdit
  <2>1. \A i \in PrefillIndex : MvKind[mvMsgs[i]] = "own"
    BY DEF PrefillIndex, MayEditAt, Editable
  <2>2. QED
    BY <1>1, <1>3, <1>4, <2>1 DEF ConfirmEdit
<1>5. ASSUME NEW m \in MvIds, StartEditOf(m) PROVE EditInv'
  <2>1. (\E i \in PrefillIndex : mvMsgs[i] = m) => MvKind[m] = "own"
    BY DEF PrefillIndex, MayEditAt, Editable
  <2>2. QED
    BY <1>1, <1>3, <1>5, <2>1 DEF StartEditOf
<1>6. CASE Type \/ Erase
  BY <1>6 DEF Type, Erase, EditInv
<1>7. CASE SubmitEdit
  BY <1>7 DEF SubmitEdit, CallEdit, EditInv
<1>8. CASE SubmitMessage
  BY <1>8 DEF SubmitMessage, EditInv
<1>9. CASE EditLastCommand
  <2>1. CASE OwnMessages = {}
    BY <1>1, <1>9, <2>1 DEF EditLastCommand
  <2>2. CASE OwnMessages # {}
    <3>1. Newest(OwnMessages) \in OwnMessages
      BY <2>2, MessagesAre, NewestIsIn
    <3>2. MvKind[mvMsgs[Newest(OwnMessages)]] # "other"
      BY <3>1 DEF OwnMessages, IsOwn
    <3>3. /\ mvCall'.target = mvMsgs[Newest(OwnMessages)] /\ UNCHANGED mvEdit
          /\ mvEdits' = mvEdits \cup {[target |-> mvMsgs[Newest(OwnMessages)],
                                      draft |-> Typed]}
      BY <1>9, <2>2 DEF EditLastCommand, CallEdit
    <3>4. QED
      BY <3>2, <3>3 DEF EditInv
  <2>3. QED
    BY <2>1, <2>2
<1>10. ASSUME NEW m \in MvIds, EditCommand(m) PROVE EditInv'
  <2>1. CASE m \in Range(mvMsgs) /\ ~(IsOwn(m) /\ Editable(m))
    BY <1>1, <1>10, <2>1 DEF EditCommand
  <2>2. CASE m \notin Range(mvMsgs) \/ (IsOwn(m) /\ Editable(m))
    <3>1. mvCall' = [op |-> "edit", target |-> m, draft |-> Typed,
                     listed |-> m \in Range(mvMsgs)]
          /\ mvEdits' = mvEdits \cup {[target |-> m, draft |-> Typed]}
          /\ UNCHANGED mvEdit
      BY <1>10, <2>2 DEF EditCommand, CallEdit
    <3>2. mvCall'.listed = TRUE => IsOwn(m)
      BY <2>2, <3>1
    <3>3. QED
      BY <3>1, <3>2 DEF EditInv, IsOwn
  <2>3. QED
    BY <2>1, <2>2
<1>11. ASSUME NEW call \in mvEdits, OnEdited(call) \/ OnEditFailed(call) PROVE EditInv'
  <2>1. CASE OnEdited(call)
    BY <2>1 DEF OnEdited, EditInv
  <2>2. CASE OnEditFailed(call)
    <3>1. mvMixed \subseteq mvMixed' /\ mvEdits' \subseteq mvEdits
          /\ UNCHANGED <<mvEditing, mvCall>>
      BY <2>2 DEF OnEditFailed
    <3>2. CASE mvEditing = 0
      BY <3>1, <3>2 DEF EditInv
    <3>3. CASE mvEditing # 0
      <4>1. mvDraft' = call.draft
            /\ (call.target # mvEditing => mvEditing \in mvMixed')
        BY <2>2, <3>3 DEF OnEditFailed
      <4>2. QED
        BY <3>1, <3>3, <4>1 DEF EditInv
    <3>4. QED
      BY <3>2, <3>3
  <2>3. QED
    BY <1>11, <2>1, <2>2
<1>12. QED
  BY <1>1, <1>2, <1>4, <1>5, <1>6, <1>7, <1>8, <1>9, <1>10, <1>11
  DEF MvNext, MvUser, MvRest, mvVars, ReplyToNewest, StartReplyPicker, StartEditPicker,
      MovePickUp, MovePickDown, ConfirmReply, Escape, ShowChannel, LeaveChannel,
      OnMessageHere, OnPage

LEMMA WritingStarts == MvInit => MvTypes /\ MvFlags
<1>1. MvInit => MvTypes
  BY MessageViewAssumption DEF MvInit, MvTypes, MvReplies, Lines, NoCall, Empty
<1>2. MvInit => MvFlags
  BY Zenon DEF MvInit, MvFlags
<1>3. QED
  BY <1>1, <1>2

\* For any messages, kinds and channels: the list, the pointer into it and what is
\* edited fit together.
THEOREM WritingInvariance == MvSpec => [](MvTypes /\ MvFlags /\ EditInv)
<1>1. MvInit => EditInv
  BY DEF MvInit, EditInv, NoCall
<1>2. QED
  BY <1>1, WritingStarts, MvTypesStep, MvFlagsStep, EditStep, PTL DEF MvSpec

\* No edit is called for another user's message that is in the list, and with no
\* text but its own or a typed one, however the list moves under the picker's index
\* (prefillEditFromIndex, editTarget and handleEditCommand of internal/tui).
THEOREM OwnMessagesEdited == MvSpec => []EditsAreOwn
<1>1. MvTypes /\ MvFlags /\ EditInv => EditsAreOwn
  BY Zenon DEF MvFlags, EditInv, EditsAreOwn
<1>2. QED
  BY <1>1, WritingInvariance, PTL

-----------------------------------------------------------------------------
(* Types: the wizard's, and those of the client's parts side by side.      *)

SwConfig == [networks : SUBSET {"matrix", "irc"}, guilds : SUBSET SwGuilds,
             guild : SwGuilds \cup {0}, auth : BOOLEAN, app : BOOLEAN, token : BOOLEAN]

\* A server is asked about only if one was chosen, and the overlay asks about one
\* of its list; a request of the overlay is an answer of the user.
SwTypes ==
  /\ swStep \in SwSteps \cup SwEnds
  /\ swSelected \in SwGuilds \cup {0} /\ swPrev \in SwGuilds \cup {0}
  /\ swStep = "ConfirmGuild" => swSelected # 0
  /\ swCfg \in SwConfig
  /\ soStep \in {"idle", "fetching", "picking", "confirming", "done"}
  /\ soList \in Seq(SwGuilds)
  /\ soIdx \in Nat
  /\ soStep = "confirming" => soIdx \in DOMAIN soList
  /\ soFetches \in Nat /\ soFetches <= swLines
  /\ swYes \subseteq SwGuilds /\ swSkipped \subseteq SwGuilds /\ swAdded \subseteq SwGuilds
  /\ swLines \in 0..MaxSwLines
  /\ swFails \in 0..MaxSwFails

SwFlags == swStopped \in BOOLEAN

LEMMA AddedType ==
  ASSUME NEW cfg \in SwConfig, NEW g \in SwGuilds
  PROVE  AddGuild(cfg, g) \in SwConfig
  BY DEF AddGuild, SwConfig

LEMMA AnswersBounded ==
  ASSUME SwTypes, SwAnswer \/ SwFail \/ UNCHANGED swBounds
  PROVE  /\ swLines' \in 0..MaxSwLines /\ swFails' \in 0..MaxSwFails
         /\ swLines <= swLines'
  BY SetupWizardAssumption DEF SwAnswer, SwFail, swBounds, SwTypes

LEMMA SwTypesStep == SwTypes /\ [SwNext]_swVars => SwTypes'
<1> SUFFICES ASSUME SwTypes, [SwNext]_swVars PROVE SwTypes'
  OBVIOUS
<1> USE DEF InStep, ToStep, swKept, soOverlay, swWizard, SwSteps, SwEnds
<1>0. swSkipped' \subseteq SwGuilds
  <2>1. swSkipped' \in {swSkipped, swSkipped \cup ({swSelected} \ {0})}
    BY DEF SwNext, swVars, ChooseNetwork, Connect, PickGuild, ChooseGuild, ConfirmGuild,
           InviteBot, WaitForBot, Finish, Interrupt, Cancelled, OpenSetupWizard,
           HandleSetupGuilds, SetupKey, ConfirmSetupGuild
  <2>2. QED
    BY <2>1 DEF SwTypes
<1> USE <1>0
<1>1. ASSUME UNCHANGED <<soOverlay, swAdded, swYes, swSelected, swPrev>>,
             SwAnswer \/ SwFail \/ UNCHANGED swBounds,
             swCfg' \in SwConfig, swStep' \in SwSteps \cup SwEnds,
             swStep' # "ConfirmGuild" \/ UNCHANGED swStep
      PROVE  SwTypes'
  BY <1>1, AnswersBounded DEF SwTypes
<1>2. swCfg \in SwConfig /\ swStep \in SwSteps \cup SwEnds
  BY DEF SwTypes
<1>3. CASE ChooseNetwork
  <2>1. swCfg' \in SwConfig
    BY <1>2, <1>3 DEF ChooseNetwork, SwConfig
  <2>2. SwAnswer \/ SwFail
    BY <1>3 DEF ChooseNetwork
  <2>3. swStep' \in {"MatrixConnect", "IRCConnect", "PickGuild", "ChooseNetwork"}
    BY <1>3 DEF ChooseNetwork
  <2>4. QED
    BY <1>1, <1>3, <2>1, <2>2, <2>3 DEF ChooseNetwork
<1>4. ASSUME NEW network \in {"matrix", "irc"}, NEW step, Connect(network, step)
      PROVE  SwTypes'
  <2>1. swCfg' \in SwConfig
    BY <1>2, <1>4 DEF Connect, SwConfig
  <2>2. QED
    BY <1>1, <1>4, <2>1 DEF Connect
<1>5. CASE PickGuild
  BY <1>1, <1>2, <1>5 DEF PickGuild
<1>6. ASSUME NEW g \in SwGuilds, ChooseGuild(g) PROVE SwTypes'
  BY <1>6, AnswersBounded, SetupWizardAssumption DEF ChooseGuild, SwTypes
<1>7. CASE ConfirmGuild
  BY <1>7, AnswersBounded DEF ConfirmGuild, AfterDecline, SwTypes
<1>8. CASE InviteBot
  BY <1>1, <1>2, <1>8 DEF InviteBot
<1>9. CASE WaitForBot
  BY <1>1, <1>2, <1>9 DEF WaitForBot
<1>10. CASE Finish
  <2>1. swSelected # 0 => AddGuild(swCfg, swSelected) \in SwConfig /\ swSelected \in SwGuilds
    BY <1>2, AddedType DEF SwTypes
  <2>2. QED
    BY <1>10, <2>1, AnswersBounded DEF Finish, SwTypes
<1>11. CASE Interrupt \/ Cancelled
  BY <1>1, <1>2, <1>11 DEF Interrupt, Cancelled
<1>12. CASE OpenSetupWizard
  <2>1. <<>> \in Seq(SwGuilds)
    OBVIOUS
  <2>2. soFetches' \in {soFetches, soFetches + 1} /\ swLines' = swLines + 1
        /\ swLines' \in 0..MaxSwLines /\ swFails' \in 0..MaxSwFails
    BY <1>12, AnswersBounded DEF OpenSetupWizard, SwAnswer
  <2>3. soFetches' \in Nat /\ soFetches' <= swLines'
    BY <2>2 DEF SwTypes
  <2>4. QED
    BY <1>12, <2>1, <2>2, <2>3 DEF OpenSetupWizard, SwTypes
<1>13. CASE HandleSetupGuilds
  <2>1. \A list \in [1..2 -> SwGuilds] : list \in Seq(SwGuilds)
    <3>1. \A n \in Nat : \A list \in [1..n -> SwGuilds] : list \in Seq(SwGuilds)
      BY SeqDef
    <3>2. QED
      BY <3>1
  <2>2. soList' \in Seq(SwGuilds) /\ soStep' \in {"done", "picking"} /\ soIdx' \in {soIdx, 1}
    BY <1>13, <2>1 DEF HandleSetupGuilds, SwTypes
  <2>3. swLines' \in 0..MaxSwLines /\ swFails' \in 0..MaxSwFails /\ swLines <= swLines'
    BY <1>13, AnswersBounded DEF HandleSetupGuilds
  <2>4. soFetches' \in Nat /\ soFetches' <= swLines'
    BY <1>13, <2>3 DEF HandleSetupGuilds, SwTypes
  <2>5. QED
    BY <1>13, <2>2, <2>3, <2>4 DEF HandleSetupGuilds, SwTypes
<1>14. CASE SetupKey
  <2>1. swLines' \in 0..MaxSwLines /\ swFails' \in 0..MaxSwFails /\ swLines <= swLines'
    BY <1>14, AnswersBounded DEF SetupKey
  <2>2. soFetches' = soFetches /\ soFetches' <= swLines'
    BY <1>14, <2>1 DEF SetupKey, SwTypes
  <2>3. DOMAIN soList \subseteq Nat
    BY DEF SwTypes
  <2>4. soIdx' \in Nat /\ soStep' \in {"idle", "picking", "confirming"}
        /\ (soStep' = "confirming" => soIdx' \in DOMAIN soList)
    BY <1>14, <2>3 DEF SetupKey, SwTypes
  <2>5. QED
    BY <1>14, <2>1, <2>2, <2>4 DEF SetupKey, SwTypes
<1>15. CASE ConfirmSetupGuild
  <2>1. soList[soIdx] \in SwGuilds
    BY <1>15 DEF ConfirmSetupGuild, SwTypes
  <2>2. swCfg' \in SwConfig
    BY <1>2, <1>15, <2>1, AddedType DEF ConfirmSetupGuild
  <2>3. swLines' \in 0..MaxSwLines /\ swFails' \in 0..MaxSwFails /\ swLines <= swLines'
    BY <1>15, AnswersBounded DEF ConfirmSetupGuild
  <2>4. QED
    BY <1>15, <2>1, <2>2, <2>3 DEF ConfirmSetupGuild, SwTypes
<1>16. CASE UNCHANGED swVars
  BY <1>1, <1>2, <1>16 DEF swVars
<1>17. QED
  BY <1>3, <1>4, <1>5, <1>6, <1>7, <1>8, <1>9, <1>10, <1>11, <1>12, <1>13, <1>14, <1>15,
     <1>16 DEF SwNext

LEMMA SwFlagsStep == SwFlags /\ [SwNext]_swVars => SwFlags'
<1> SUFFICES ASSUME SwFlags, [SwNext]_swVars PROVE SwFlags'
  OBVIOUS
<1>1. swStopped' \in {swStopped, TRUE}
  BY DEF SwNext, swVars, swWizard, ChooseNetwork, Connect, PickGuild, ChooseGuild,
         ConfirmGuild, InviteBot, WaitForBot, Finish, Interrupt, Cancelled, OpenSetupWizard,
         HandleSetupGuilds, SetupKey, ConfirmSetupGuild
<1>2. QED
  BY Zenon, <1>1 DEF SwFlags

LEMMA SwStarts == SwInit => SwTypes /\ SwFlags
<1> SUFFICES ASSUME SwInit PROVE SwTypes /\ SwFlags
  OBVIOUS
<1>1. \A configured \in SUBSET SwGuilds :
        configured # {} => (CHOOSE g \in configured : TRUE) \in SwGuilds
  OBVIOUS
<1>2. \A configured \in SUBSET SwGuilds :
        (IF configured = {} THEN 0 ELSE CHOOSE g \in configured : TRUE) \in SwGuilds \cup {0}
  BY <1>1
<1>3. PICK app \in BOOLEAN, token \in BOOLEAN, configured \in SUBSET SwGuilds :
        swCfg = [networks |-> {}, guilds |-> configured, auth |-> TRUE, app |-> app,
                 guild |-> IF configured = {} THEN 0 ELSE CHOOSE g \in configured : TRUE,
                 token |-> token]
  BY DEF SwInit
<1>4. PICK guild \in SwGuilds \cup {0} :
        swCfg = [networks |-> {}, guilds |-> configured, auth |-> TRUE, app |-> app,
                 guild |-> guild, token |-> token]
  BY <1>2, <1>3
<1>5. swCfg \in SwConfig
  BY <1>4 DEF SwConfig
<1>6. <<>> \in Seq(SwGuilds)
  OBVIOUS
<1>7. SwTypes
  BY <1>5, <1>6, SetupWizardAssumption DEF SwInit, SwTypes, SwSteps, SwEnds
<1>8. SwFlags
  BY Zenon DEF SwInit, SwFlags
<1>9. QED
  BY <1>7, <1>8

ClientTypes ==
  /\ part \in Parts
  /\ IInv /\ PromptTypes /\ Switches
  /\ MvTypes /\ MvFlags
  /\ CsTypes /\ CsFlags
  /\ SwTypes /\ SwFlags
  /\ MlTypes /\ MlFlags

\* A step of the client is one of a part, and the others stay as they are.
LEMMA PartSteps ==
  ASSUME [ClientNext]_<<part, vars, mvVars, csVars, swVars, mlVars>>
  PROVE  /\ part' = part
         /\ [Next]_vars /\ [MvNext]_mvVars /\ [CsNext]_csVars /\ [SwNext]_swVars
         /\ [MlNext]_mlVars
  BY Zenon DEF ClientNext

LEMMA ClientTypesStep ==
  ClientTypes /\ [ClientNext]_<<part, vars, mvVars, csVars, swVars, mlVars>> => ClientTypes'
<1> SUFFICES ASSUME ClientTypes, [ClientNext]_<<part, vars, mvVars, csVars, swVars, mlVars>>
             PROVE  ClientTypes'
  OBVIOUS
<1>1. /\ part' = part
      /\ [Next]_vars /\ [MvNext]_mvVars /\ [CsNext]_csVars /\ [SwNext]_swVars
      /\ [MlNext]_mlVars
  BY PartSteps
<1>2. IInv' /\ PromptTypes' /\ Switches'
  BY <1>1, StepInv, PromptTypesStep, SwitchesStep DEF ClientTypes
<1>3. MvTypes' /\ MvFlags' /\ CsTypes' /\ CsFlags'
  BY <1>1, MvTypesStep, MvFlagsStep, CsTypesStep, CsFlagsStep DEF ClientTypes
<1>4. SwTypes' /\ SwFlags' /\ MlTypes' /\ MlFlags'
  BY <1>1, SwTypesStep, SwFlagsStep, MlTypesStep, MlFlagsStep DEF ClientTypes
<1>5. QED
  BY <1>1, <1>2, <1>3, <1>4 DEF ClientTypes

\* The states of all five parts have their types in every behaviour: of an open
\* picker's reply, a slot that is still in the list (replyTo, tui.go); of the
\* overlay's confirmation, a server that is still on its list (setup_wizard.go).
THEOREM ClientTypeCorrect == ClientSpec => []ClientTypeOK
<1>1. ClientInit => ClientTypes
  <2> SUFFICES ASSUME ClientInit PROVE ClientTypes
    OBVIOUS
  <2>1. Init \/ VerifyAbsent
    BY DEF ClientInit
  <2>2. VerifyAbsent => IInv /\ PromptTypes
    <3>1. <<>> \in Seq(Prompt) /\ Len(<<>>) <= EventBuffer
      BY VerificationAssumption
    <3>2. QED
      BY <3>1 DEF VerifyAbsent, IInv, DeviceTypes, AnswerInv, PromptTypes, Stages
  <2>3. VerifyAbsent => Switches
    BY Zenon DEF VerifyAbsent, Switches
  <2>4. IInv /\ PromptTypes /\ Switches
    BY <2>1, <2>2, <2>3, InitInv, StartTypes, StartSwitches
  <2>5. MvTypes /\ MvFlags
    BY WritingStarts DEF ClientInit
  <2>6. CsTypes /\ CsFlags
    BY StartsTyped DEF ClientInit
  <2>7. MlTypes /\ MlFlags
    BY LoginStarts DEF ClientInit
  <2>8. QED
    BY <2>4, <2>5, <2>6, <2>7, SwStarts DEF ClientInit, ClientTypes
<1>2. ClientTypes => ClientTypeOK
  <2> SUFFICES ASSUME ClientTypes PROVE ClientTypeOK
    OBVIOUS
  <2>1. TypeOK
    BY Zenon DEF ClientTypes, IInv, DeviceTypes, PromptTypes, Switches, TypeOK
  <2>2. MvTypeOK
    BY Zenon DEF ClientTypes, MvTypes, MvFlags, MvTypeOK, MvReplies, Lines
  <2>3. CsTypeOK
    BY Zenon DEF ClientTypes, CsTypes, CsFlags, CsTypeOK
  <2>4. SwTypeOK
    <3>1. soFetches \in 0..MaxSwLines
      BY SetupWizardAssumption DEF ClientTypes, SwTypes
    <3>2. QED
      BY Zenon, <3>1 DEF ClientTypes, SwTypes, SwFlags, SwTypeOK, SwConfig
  <2>5. MlTypeOK
    BY Zenon DEF ClientTypes, MlTypes, MlFlags, MlTypeOK
  <2>6. QED
    BY <2>1, <2>2, <2>3, <2>4, <2>5 DEF ClientTypes, ClientTypeOK
<1>3. QED
  BY <1>1, <1>2, ClientTypesStep, PTL DEF ClientSpec
=============================================================================
