----------------------------- MODULE SidePanels -----------------------------
(***************************************************************************)
(* The panels beside the chat (internal/tui/panels, internal/tui/panel.go  *)
(* and its case of Update; config.EnabledPanels).  Every panel is fetched  *)
(* at the start and then, by a command that waits for the interval, again  *)
(* and again: the handler of an answer starts the next wait.  Results are  *)
(* kept by the panel's id, its type and source, which two entries of the   *)
(* configuration may share.                                                *)
(*                                                                         *)
(* What a source has to say is a number that it counts up.                 *)
(***************************************************************************)
EXTENDS Naturals, FiniteSets, Sequences, SequencesExt

CONSTANTS
  SpConfigs,     \* what the configuration may list as [[panels]]
  SpLegacy,      \* the sources that the [github] block may name
  MaxSpVersions, \* bound: versions of a source
  MaxSpFetches   \* bound: fetches

SpSources == SpLegacy \cup UNION {{cfg[k].source : k \in DOMAIN cfg} : cfg \in SpConfigs}
SpIds == {"github", "ci", "rss", "unknown"} \X SpSources
SpEntry == [type : {"github", "ci", "rss", "unknown"}, source : SpSources,
            enabled : {"yes", "no", "omitted"}, refresh : {"good", "bad"}]

ASSUME SidePanelsAssumption ==
  /\ SpConfigs \subseteq Seq(SpEntry)
  /\ {MaxSpVersions, MaxSpFetches} \subseteq Nat

VARIABLES
  spPanels,  \* m.panels, by their ids
  spData,    \* m.panelData
  spLoops,   \* the command of each chain of fetches
  spWorld,   \* the version each source has
  spBrought, \* history: the newest version of a source that was handled
  spFetches  \* bounded by MaxSpFetches

spVars == <<spPanels, spData, spLoops, spWorld, spBrought, spFetches>>

SpVersions == 0..MaxSpVersions
SpResult == [items : SpVersions, err : BOOLEAN]
Nothing == [items |-> 0, err |-> FALSE]

SpTypeOK ==
  /\ spPanels \in Seq(SpIds)
  /\ DOMAIN spData \subseteq SpIds
  /\ \A id \in DOMAIN spData : spData[id] \in SpResult
  /\ \A k \in DOMAIN spLoops :
       /\ spLoops[k].id \in SpIds
       /\ spLoops[k].at \in {"wait", "fetch", "answer", "ended"}
       /\ spLoops[k].result \in SpResult
  /\ spWorld \in [SpIds -> SpVersions]
  /\ spBrought \in [SpIds -> SpVersions]
  /\ spFetches \in 0..MaxSpFetches

-----------------------------------------------------------------------------
(* The start.                                                              *)

\* The loop that appends the entries at these places to a new list.
Picked(s, places) ==
  LET rank(i) == Cardinality({j \in places : j <= i})
  IN  [k \in 1..Cardinality(places) |-> s[CHOOSE i \in places : rank(i) = k]]

\* EnabledPanels: the [github] block stands in for a github panel that is missing.
EnabledPanels(cfg, legacy) ==
  LET out == Picked(cfg, {k \in DOMAIN cfg : cfg[k].enabled # "no"})
  IN  IF legacy # {} /\ \A k \in DOMAIN out : out[k].type # "github"
      THEN <<[type |-> "github", source |-> CHOOSE s \in legacy : TRUE,
              enabled |-> "omitted", refresh |-> "good"]>> \o out
      ELSE out

\* New: an unknown type and a bad interval are errors.
Builds(e) == e.type # "unknown" /\ e.refresh = "good"

\* WithPanels: what cannot be built is reported and skipped.
WithPanels(cfg, legacy) ==
  LET cfgs  == EnabledPanels(cfg, legacy)
      built == Picked(cfgs, {k \in DOMAIN cfgs : Builds(cfgs[k])})
  IN  [k \in DOMAIN built |-> <<built[k].type, built[k].source>>]

SpLoop(id, at) == [id |-> id, at |-> at, result |-> Nothing]

\* Init of the program: no panel is blank until its first interval is over.
SpInit ==
  /\ \E cfg \in SpConfigs, legacy \in {{}} \cup {{s} : s \in SpLegacy} :
       spPanels = WithPanels(cfg, legacy)
  /\ spData = [id \in {} |-> Nothing]
  /\ spLoops = [k \in DOMAIN spPanels |-> SpLoop(spPanels[k], "fetch")]
  /\ spWorld = [id \in SpIds |-> 0]
  /\ spBrought = [id \in SpIds |-> 0]
  /\ spFetches = 0

-----------------------------------------------------------------------------
(* Fetches.                                                                *)

\* A push, a run, an article (external).
SourceMoves(id) ==
  /\ spWorld[id] < MaxSpVersions
  /\ spWorld' = [spWorld EXCEPT ![id] = @ + 1]
  /\ UNCHANGED <<spPanels, spData, spLoops, spBrought, spFetches>>

IntervalOver(k) ==
  /\ spLoops[k].at = "wait"
  /\ spLoops' = [spLoops EXCEPT ![k].at = "fetch"]
  /\ UNCHANGED <<spPanels, spData, spWorld, spBrought, spFetches>>

\* Fetch of the three sources: what there is now, or nothing and an error, after a
\* timeout, for any status but 200 and for what cannot be parsed.
Fetched(id) == {[items |-> spWorld[id], err |-> FALSE], [items |-> 0, err |-> TRUE]}

Fetch(k) ==
  /\ spLoops[k].at = "fetch"
  /\ spFetches < MaxSpFetches
  /\ spFetches' = spFetches + 1
  /\ \E result \in Fetched(spLoops[k].id) :
       spLoops' = [spLoops EXCEPT ![k].at = "answer", ![k].result = result]
  /\ UNCHANGED <<spPanels, spData, spWorld, spBrought>>

\* [fault] an error is shown instead of the items.
TakeAll(id, result) == result

\* panelDataMsg: an error leaves the last items in place.
Kept(id, result) ==
  IF result.err /\ id \in DOMAIN spData /\ result.items = 0
  THEN [result EXCEPT !.items = spData[id].items] ELSE result

\* panelIndex: the first panel of that id; 0 stands for none.
PanelIndex(id) ==
  IF \E k \in DOMAIN spPanels : spPanels[k] = id
  THEN CHOOSE k \in DOMAIN spPanels :
         spPanels[k] = id /\ \A j \in 1..(k - 1) : spPanels[j] # id
  ELSE 0

\* panelPollCmd: the chain goes on with the panel that was found, if any.
NextPoll(id) ==
  IF PanelIndex(id) = 0 THEN SpLoop(id, "ended")
                        ELSE SpLoop(spPanels[PanelIndex(id)], "wait")

OnPanelData(k) ==
  /\ spLoops[k].at = "answer"
  /\ LET id == spLoops[k].id
         result == spLoops[k].result
     IN  /\ spData' = [i \in DOMAIN spData \cup {id} |->
                         IF i = id THEN Kept(id, result) ELSE spData[i]]
         /\ spLoops' = [spLoops EXCEPT ![k] = NextPoll(id)]
         /\ spBrought' = IF result.err \/ result.items < spBrought[id] THEN spBrought
                         ELSE [spBrought EXCEPT ![id] = result.items]
  /\ UNCHANGED <<spPanels, spWorld, spFetches>>

-----------------------------------------------------------------------------
SpNext ==
  \/ \E k \in DOMAIN spPanels : SourceMoves(spPanels[k])
  \/ \E k \in DOMAIN spLoops : IntervalOver(k) \/ Fetch(k) \/ OnPanelData(k)

SpSpec == SpInit /\ [][SpNext]_spVars

-----------------------------------------------------------------------------
(* Properties.                                                             *)

PanelsWith(id) == {k \in DOMAIN spPanels : spPanels[k] = id}
Shown(id) == IF id \in DOMAIN spData THEN spData[id].items ELSE 0

\* A panel shows the newest of what its own source has brought, whatever failed
\* since, and goes on being fetched by as many chains as it has entries; only where
\* two entries share a source can an older answer come last.
PanelsFollow ==
  \A id \in Range(spPanels) :
    /\ Cardinality({k \in DOMAIN spLoops : spLoops[k].id = id /\ spLoops[k].at # "ended"})
         = Cardinality(PanelsWith(id))
    /\ Cardinality(PanelsWith(id)) = 1 => Shown(id) = spBrought[id]
=============================================================================
