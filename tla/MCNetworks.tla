----------------------------- MODULE MCNetworks -----------------------------
(* The networks that need no relay and the plugins' host, checked side by   *)
(* side: they share no state, so a behaviour has one of them configured     *)
(* and the others absent, as cmd/marga builds an adapter or a host only     *)
(* for what is enabled.                                                     *)
EXTENDS IrcAdapter, MatrixAdapter, DemoAdapter, PluginHost,
        MatrixHistory

\* Two calls around a session and a reconnect, or lines of two sessions with
\* one channel subscribed.
MCIrcBudgets == {[sessions |-> 2, calls |-> 2, lines |-> 0],
                 [sessions |-> 2, calls |-> 1, lines |-> 2]}

MCOpening == <<"connected", "users", "presence">>
MCScript  == <<"message", "typing", "message">>

\* Two plugins that both watch the messages, one of them with a command; or only
\* the second loaded, with two hooks, a command and a key.
MCScripts ==
  {<<[command |-> TRUE, key |-> FALSE, hooks |-> 1],
     [command |-> FALSE, key |-> FALSE, hooks |-> 1]>>,
   (2 :> [command |-> TRUE, key |-> TRUE, hooks |-> 2])}

\* An adapter that was never built: nothing of it runs.
IrcAbsent ==
  /\ ircLoop = "ended" /\ ircBackoff = 0 /\ ircConnected = FALSE
  /\ ircHandler = IrcIdle /\ ircSubs = {} /\ ircMembers = NoMembers
  /\ ircEvents = <<>> /\ ircOpen = FALSE /\ ircCancelled = TRUE
  /\ ircCloser = "returned" /\ ircCalls = {} /\ ircSession = "none"
  /\ ircJoined = {} /\ ircHeard = {} /\ ircRaced = {} /\ ircMissed = FALSE
  /\ ircBudget = [sessions |-> 0, calls |-> 0, lines |-> 0]

MxAbsent ==
  /\ mxLoop = "ended" /\ mxSending = "none" /\ mxEvents = <<>>
  /\ mxOpen = FALSE /\ mxCancelled = TRUE
  /\ mxSeen = MaxMxEvents /\ mxFails = MaxMxFails

DemoAbsent ==
  /\ demoNext = 1 /\ demoSending = "none" /\ demoRuns = FALSE
  /\ demoEvents = <<>> /\ demoCancelled = TRUE

\* Plugins that are closed, and every call over.
PlAbsent ==
  /\ plScripts = CHOOSE s \in PlScripts : TRUE
  /\ plRuns = [p \in PlPlugins |-> PlIdle]
  /\ plQueued = [p \in PlPlugins |-> <<>>]
  /\ plDone = DOMAIN plScripts /\ plEnded = plDone
  /\ plCalls = [c \in PlCalls |-> [at |-> "returned", refs |-> <<>>, i |-> 0,
                                   got |-> <<>>]]
  /\ plAnswer = [c \in PlCalls |-> NoAnswer]
  /\ plPending = {}
  /\ plAsked = [c \in PlCalls |-> <<>>]

\* A room that is never opened again, and gets no more messages.
MhAbsent ==
  /\ mhRoom = [i \in 1..MaxEvents |-> "text"] /\ mhToken = 0
  /\ mhCalls = {} /\ mhAnswers = {} /\ mhShown = FALSE
  /\ mhScreen = {} /\ mhDisk = {} /\ mhLoading = FALSE /\ mhAllLoaded = FALSE
  /\ mhLoaded = FALSE /\ mhStray = {}
  /\ mhOpens = MaxOpens

NetInit ==
  \/ IrcInit /\ MxAbsent /\ DemoAbsent /\ PlAbsent /\ MhAbsent
  \/ MxInit /\ IrcAbsent /\ DemoAbsent /\ PlAbsent /\ MhAbsent
  \/ DemoInit /\ IrcAbsent /\ MxAbsent /\ PlAbsent /\ MhAbsent
  \/ PlInit /\ IrcAbsent /\ MxAbsent /\ DemoAbsent /\ MhAbsent
  \/ MhInit /\ IrcAbsent /\ MxAbsent /\ DemoAbsent /\ PlAbsent

NetNext ==
  \/ IrcNext /\ UNCHANGED <<mxVars, demoVars, plVars, mhVars>>
  \/ MxNext /\ UNCHANGED <<ircVars, demoVars, plVars, mhVars>>
  \/ DemoNext /\ UNCHANGED <<ircVars, mxVars, plVars, mhVars>>
  \/ PlNext /\ UNCHANGED <<ircVars, mxVars, demoVars, mhVars>>
  \/ MhNext /\ UNCHANGED <<ircVars, mxVars, demoVars, plVars>>

NetSpec ==
  /\ NetInit /\ [][NetNext]_<<ircVars, mxVars, demoVars, plVars, mhVars>>
  /\ IrcFairness /\ MxFairness /\ DemoFairness /\ PlFairness

NetTypeOK == IrcTypeOK /\ MxTypeOK /\ DemoTypeOK /\ PlTypeOK /\ MhTypeOK

\* The Matrix adapter and the demo network are event streams: what they have begun
\* to send arrives in order, and only a request to stop ends or shortens it.
OthersAreStreams == MatrixIsStream /\ DemoIsStream

\* An adapter that was asked to stop comes to an end, IrcCloses, MatrixCloses and
\* DemoCloses at once, for the absent ones have: its Events are closed, so that
\* the TUI's listener ends, and no goroutine of it waits in a send for good; the
\* demo's is closed by its goroutine as it ends.
NetworksClose ==
  ircCancelled /\ mxCancelled /\ demoCancelled
    ~> (~ircOpen \/ ircMissed) /\ ~mxOpen /\ ~demoRuns
=============================================================================
