----------------------------- MODULE PluginHost -----------------------------
(***************************************************************************)
(* Lua plugins (internal/plugin): each has one interpreter, owned by the   *)
(* goroutine loop(), which takes the invocations one at a time from a      *)
(* channel without buffer.  A command, a bound key or an incoming message  *)
(* makes the TUI start a goroutine (a tea.Cmd) that asks one plugin or     *)
(* several, collects the effects their handlers queued, and hands them to  *)
(* the Update loop.  A signal closes the plugins while the TUI runs.       *)
(*                                                                         *)
(* The interpreter is external: a handler queues effects until it returns, *)
(* fails, panics or is cancelled by its timeout.  An effect is the call,   *)
(* the handler's place in it and a number.  Scripts register at top level, *)
(* as docs/PLUGINS.md has them do; what they print, and what each kind of  *)
(* effect does to the TUI, is left out.                                    *)
(***************************************************************************)
EXTENDS Naturals, Sequences, FiniteSetsExt, SequencesExt

CONSTANTS
  PlPlugins,     \* the plugins, in the order of the configuration
  PlScripts,     \* bound: what the scripts that load register
  MaxPlCalls,    \* bound: commands, keys and messages that reach a plugin
  MaxPlEffects   \* bound: effects of one handler

Registered == [command : BOOLEAN, key : BOOLEAN, hooks : 0..2]

ASSUME PluginHostAssumption ==
  /\ PlPlugins \subseteq Nat \ {0} /\ IsFiniteSet(PlPlugins)
  /\ PlScripts # {}
  /\ PlScripts \subseteq UNION {[loaded -> Registered] : loaded \in SUBSET PlPlugins}
  /\ {MaxPlCalls, MaxPlEffects} \subseteq Nat

VARIABLES
  plScripts,   \* the scripts that load, and what each of them registers
  plRuns,      \* the call a loop() runs a handler of, and its place; PlIdle
  plQueued,    \* p.effects
  plEnded,     \* plugins whose loop() has returned
  plDone,      \* plugins whose p.done is closed
  plCalls,     \* the goroutines: where they are, whom they ask, what they got
  plAnswer,    \* respCh of the handler a call waits for
  plPending,   \* effects on their way to the Update loop
  plAsked      \* history: how many effects each handler of a call queued

plLoops == <<plRuns, plQueued, plEnded>>
plVars == <<plScripts, plLoops, plDone, plCalls, plAnswer, plPending, plAsked>>

PlIdle    == <<0, 0>>
NoAnswer == [ready |-> FALSE, effects |-> <<>>]
PlCalls == 1..MaxPlCalls
\* An effect queued when the script was loaded belongs to no call.
Effects == {<<0, 0, 1>>} \cup PlCalls \X (Nat \ {0}) \X (1..MaxPlEffects)

PlTypeOK ==
  /\ plScripts \in PlScripts
  /\ plRuns \in [PlPlugins -> {PlIdle} \cup PlCalls \X (Nat \ {0})]
  /\ plQueued \in [PlPlugins -> Seq(Effects)]
  /\ {plEnded, plDone} \subseteq SUBSET PlPlugins
  /\ \A c \in PlCalls :
       /\ plCalls[c] \in [at : {"none", "asking", "waiting", "returned"},
                          refs : Seq(PlPlugins), i : Nat, got : Seq(Effects)]
       /\ plAnswer[c] \in [ready : BOOLEAN, effects : Seq(Effects)]
       /\ plAsked[c] \in Seq(0..MaxPlEffects)
  /\ plPending \subseteq Effects

\* New has run: a script that fails to load is skipped.
PlInit ==
  /\ plScripts \in PlScripts
  /\ plQueued \in [PlPlugins -> {<<>>, <<<<0, 0, 1>>>>}]
  /\ \A p \in PlPlugins \ DOMAIN plScripts : plQueued[p] = <<>>
  /\ plRuns = [p \in PlPlugins |-> PlIdle]
  /\ plEnded = {}
  /\ plDone = {}
  /\ plCalls = [c \in PlCalls |-> [at |-> "none", refs |-> <<>>, i |-> 0, got |-> <<>>]]
  /\ plAnswer = [c \in PlCalls |-> NoAnswer]
  /\ plPending = {}
  /\ plAsked = [c \in PlCalls |-> <<>>]

-----------------------------------------------------------------------------
(* The Update loop starts a call.                                          *)

\* RegisterCommands and Keybindings: of two plugins with one name or key the
\* later wins.
Owner(kind) ==
  LET owners == {p \in DOMAIN plScripts : plScripts[p][kind]}
  IN  IF owners = {} THEN <<>> ELSE <<Max(owners)>>

\* RunMessageHooks: every hook of every plugin, in order.
Hooks ==
  FlattenSeq([k \in 1..Max(PlPlugins \cup {0}) |->
               IF k \in DOMAIN plScripts THEN [j \in 1..plScripts[k].hooks |-> k]
                                         ELSE <<>>])

\* A command, a bound key, or a message of another user.
StartCall(c) ==
  /\ plCalls[c].at = "none"
  /\ \A d \in 1..(c - 1) : plCalls[d].at # "none"
  /\ \E refs \in {Owner("command"), Owner("key"), Hooks} :
       /\ refs # <<>>
       /\ plCalls' = [plCalls EXCEPT ![c] = [at |-> "asking", refs |-> refs, i |-> 1,
                                             got |-> <<>>]]
       /\ plAsked' = [plAsked EXCEPT ![c] = [i \in DOMAIN refs |-> 0]]
  /\ UNCHANGED <<plScripts, plLoops, plDone, plAnswer, plPending>>

-----------------------------------------------------------------------------
(* run() and loop().                                                       *)

Asked(c) == plCalls[c].refs[plCalls[c].i]

\* One handler is over with these effects: the next, or effectsMsg of them all.
GoOn(c, effects) ==
  LET call == plCalls[c]
      got  == call.got \o effects
      last == call.i = Len(call.refs)
  IN  /\ plCalls' = [plCalls EXCEPT
                       ![c] = [call EXCEPT !.at = IF last THEN "returned" ELSE "asking",
                                           !.i = IF last THEN call.i ELSE call.i + 1,
                                           !.got = got]]
      /\ plAnswer' = [plAnswer EXCEPT ![c] = NoAnswer]
      /\ plPending' = IF last THEN plPending \cup Range(got) ELSE plPending

\* [fault] what is left of the last handler, or of the script, stays.
Kept(p) == plQueued[p]

\* invoke starts: p.effects = nil.
Cleared(p) == <<>>

\* loop() takes the invocation, also when p.done is closed and not noticed yet.
Ask(c) ==
  /\ plCalls[c].at = "asking"
  /\ LET p == Asked(c)
     IN  /\ plRuns[p] = PlIdle /\ p \notin plEnded
         /\ plRuns' = [plRuns EXCEPT ![p] = <<c, plCalls[c].i>>]
         /\ plQueued' = [plQueued EXCEPT ![p] = Cleared(p)]
  /\ plCalls' = [plCalls EXCEPT ![c].at = "waiting"]
  /\ UNCHANGED <<plScripts, plEnded, plDone, plAnswer, plPending, plAsked>>

\* [fault] only a caller that has been taken looks at p.done.
GiveUpWaiting(c) == plCalls[c].at = "waiting"

\* Both selects look at p.done.
MayGiveUp(c) == plCalls[c].at \in {"asking", "waiting"}

PluginClosed(c) ==
  /\ MayGiveUp(c)
  /\ Asked(c) \in plDone
  /\ GoOn(c, <<>>)
  /\ UNCHANGED <<plScripts, plLoops, plDone, plAsked>>

Answered(c) ==
  /\ plCalls[c].at = "waiting"
  /\ plAnswer[c].ready
  /\ GoOn(c, plAnswer[c].effects)
  /\ UNCHANGED <<plScripts, plLoops, plDone, plAsked>>

\* marga.reply, send, set_input or notify in a handler.
QueueEffect(p) ==
  /\ plRuns[p] # PlIdle
  /\ LET c == plRuns[p][1]
         i == plRuns[p][2]
         n == plAsked[c][i] + 1
     IN  /\ n <= MaxPlEffects
         /\ plQueued' = [plQueued EXCEPT ![p] = Append(@, <<c, i, n>>)]
         /\ plAsked' = [plAsked EXCEPT ![c][i] = n]
  /\ UNCHANGED <<plScripts, plRuns, plEnded, plDone, plCalls, plAnswer, plPending>>

\* The handler ends, in whatever way; the answer does not wait for its reader,
\* who may have given up.
HandlerEnds(p) ==
  /\ plRuns[p] # PlIdle
  /\ LET c == plRuns[p][1]
     IN  plAnswer' =
           IF plCalls[c].at = "waiting" /\ plCalls[c].i = plRuns[p][2]
           THEN [plAnswer EXCEPT ![c] = [ready |-> TRUE, effects |-> plQueued[p]]]
           ELSE plAnswer
  /\ plQueued' = [plQueued EXCEPT ![p] = <<>>]
  /\ plRuns' = [plRuns EXCEPT ![p] = PlIdle]
  /\ UNCHANGED <<plScripts, plEnded, plDone, plCalls, plPending, plAsked>>

\* loop() notices p.done, and closes the interpreter.
LoopEnds(p) ==
  /\ p \in plDone \ plEnded
  /\ plRuns[p] = PlIdle
  /\ plEnded' = plEnded \cup {p}
  /\ UNCHANGED <<plScripts, plRuns, plQueued, plDone, plCalls, plAnswer, plPending,
                 plAsked>>

-----------------------------------------------------------------------------
\* One command of the batch: bubbletea runs them concurrently, so the messages
\* of one handler come in any order.
ApplyEffect(e) ==
  /\ e \in plPending
  /\ plPending' = plPending \ {e}
  /\ UNCHANGED <<plScripts, plLoops, plDone, plCalls, plAnswer, plAsked>>

\* Manager.Close: by the signal's goroutine, and by main when the TUI has ended;
\* a sync.Once makes the second harmless.
ClosePlugin(p) ==
  /\ p \in DOMAIN plScripts \ plDone
  /\ \A q \in DOMAIN plScripts : q < p => q \in plDone
  /\ plDone' = plDone \cup {p}
  /\ UNCHANGED <<plScripts, plLoops, plCalls, plAnswer, plPending, plAsked>>

-----------------------------------------------------------------------------
PlNext ==
  \/ \E c \in PlCalls :
       StartCall(c) \/ Ask(c) \/ PluginClosed(c) \/ Answered(c)
  \/ \E p \in PlPlugins :
       QueueEffect(p) \/ HandlerEnds(p) \/ LoopEnds(p) \/ ClosePlugin(p)
  \/ \E e \in plPending : ApplyEffect(e)

\* Goroutines run, and a handler ends, by its timeout if not before.  A caller
\* may always be the one that is not chosen of several at one plugin.
PlFairness ==
  /\ \A c \in PlCalls : SF_plVars(Ask(c))
  /\ \A c \in PlCalls : WF_plVars(PluginClosed(c) \/ Answered(c))
  /\ \A p \in PlPlugins : WF_plVars(HandlerEnds(p))
  /\ \A p \in PlPlugins : WF_plVars(LoopEnds(p))

PlSpec == PlInit /\ [][PlNext]_plVars /\ PlFairness

-----------------------------------------------------------------------------
(* Properties.                                                             *)

\* One effect was queued before another of the same call.
QueuedBefore(e, f) == e[2] < f[2] \/ (e[2] = f[2] /\ e[3] < f[3])

\* A call that is over has what its own handlers queued, all of it and in the order
\* of the handlers and of their calls: nothing of another call that used the same
\* interpreter or of the loading of the script, and nothing missing but the
\* handlers of plugins that were closed.
EffectsOfTheCall ==
  \A c \in PlCalls :
    LET call == plCalls[c]
        Of(i) == {e \in Range(call.got) : e[2] = i}
    IN  call.at = "returned"
          => /\ \A k \in DOMAIN call.got : call.got[k][1] = c
             /\ \A k, l \in DOMAIN call.got :
                  k < l => QueuedBefore(call.got[k], call.got[l])
             /\ \A i \in DOMAIN call.refs :
                  \/ Of(i) = {<<c, i, n>> : n \in 1..plAsked[c][i]}
                  \/ call.refs[i] \in plDone /\ Of(i) = {}

CallsOpen == \E c \in PlCalls : plCalls[c].at \in {"asking", "waiting"}

\* Every call comes back, also one that asks or waits for a plugin that is closed
\* meanwhile, so that a handler's goroutine is never left behind: there are only
\* so many calls, and in the end none is open.
CallsReturn == CallsOpen ~> ~CallsOpen
=============================================================================
