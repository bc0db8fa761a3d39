--------------------------------- MODULE AcpRun ---------------------------------
(***************************************************************************)
(* Wrapper.Run on an ACP adapter (wrapper/acp_lifecycle.go), composed with *)
(* the managed session it drives (AcpSession).  Beside Run there are the   *)
(* goroutine that forwards the session's events to the activity bridge,    *)
(* the one that watches the context, and the host's SendInput, Stop and    *)
(* CancelTurn calls; a host that shares the Manager may also close the     *)
(* session behind the wrapper's back.                                      *)
(*                                                                         *)
(* What Run checks before it launches anything is in LaunchPlan; here it   *)
(* may just fail.  The bridge's sink takes every event.  Heartbeats are    *)
(* left out.  Two Prompt calls do not overlap inside the client.           *)
(***************************************************************************)
EXTENDS AcpSession, SequencesExt

CONSTANTS
  Inputs,     \* the SendInput calls
  EventsCap,  \* capacity of the session's event channel (128)
  AutoFires   \* the values of Config.AutoFireFirstTurn

ASSUME RunConstants ==
  /\ \E s \in Sessions : Sessions = {s}
  /\ EventsCap \in Nat \ {0} /\ AutoFires \subseteq BOOLEAN
  /\ {None, "run"} \cap Inputs = {} /\ None # "run"
  /\ Cardinality(Inputs) < MaxPrompts

VARIABLES
  run,          \* where Run is
  autoFire,     \* Config.AutoFireFirstTurn
  ctxDone,      \* Run's context is canceled
  acpSession,   \* whether w.acpSession is set
  inputsClosed, \* w.inputsClosed
  input,        \* the SendInput calls; the counted ones hold inputWG
  prompter,     \* who is inside Session.Prompt
  interrupt,    \* requestACPInterrupt by reason
  watcher,      \* the stopWatcher goroutine
  forwarder,    \* the goroutine that ranges over session.Events
  events,       \* the session's event channel
  sawExit,      \* sawProcessExit
  emitted,      \* what the session's stream became on the bridge
  sent,         \* history: every event the client sent
  dropped       \* history: publish met a full channel

callerVars == <<inputsClosed, input, prompter, interrupt>>
streamVars == <<forwarder, events, sawExit, emitted, sent, dropped>>
runVars == <<run, autoFire, ctxDone, acpSession, callerVars, watcher, streamVars>>
allVars == <<vars, runVars>>

S == CHOOSE s \in Sessions : TRUE
Reasons == {"ctx_cancel", "user_stop", "turn_cancel"}

RunInit ==
  /\ Init
  /\ run = "preparing" /\ autoFire \in AutoFires /\ ctxDone = FALSE
  /\ acpSession = FALSE /\ inputsClosed = FALSE
  /\ input = [i \in Inputs |-> "idle"] /\ prompter = None
  /\ interrupt = [r \in Reasons |-> "idle"]
  /\ watcher = "off" /\ forwarder = "off"
  /\ events = <<>> /\ sawExit = FALSE /\ emitted = <<>>
  /\ sent = <<>> /\ dropped = FALSE

--------------------------------------------------------------------------------
(***************************************************************************)
(* The session's own steps, which leave the wrapper alone.                 *)
(***************************************************************************)

\* The client's channel grew: what it sent.
Sent == IF Len(chan'[S]) > Len(chan[S]) THEN Append(sent, Last(chan'[S])) ELSE sent

SessionAlone ==
  /\ \/ LaunchDone(S) \/ LaunchFailed(S)
     \/ launching[S] = "launchFailed" /\ LaunchAbort(S)
     \/ acpSession /\ LaunchCommit(S)
     \/ DrainObserve(S) \/ DrainReady(S) \/ DrainEnd(S)
     \/ FinishStep(S) \/ DiagnosticStep(S)
     \/ ClientStep(S)
  /\ sent' = Sent
  /\ UNCHANGED <<run, autoFire, ctxDone, acpSession, callerVars, watcher, forwarder, events,
                 sawExit, emitted, dropped>>

\* publish on the session's bounded channel.
RunPublish ==
  LET full == Len(events) >= EventsCap
      skip == channels[S].eventsClosed
  IN  /\ Publish(S, full)
      /\ events' = IF full \/ skip THEN events ELSE Append(events, drain[S].event)
      /\ dropped' = (dropped \/ (full /\ ~skip))
      /\ UNCHANGED <<run, autoFire, ctxDone, acpSession, callerVars, watcher, forwarder,
                     sawExit, emitted, sent>>

\* A host that shares Config.ACPManager closes the session through it.
ManagerClose ==
  Close(S) /\ UNCHANGED runVars

\* Session.Close by one more caller: the first one's effect, and nothing after.
SessionClose == IF hostClose[S] = "idle" THEN Close(S) ELSE UNCHANGED vars

--------------------------------------------------------------------------------
(***************************************************************************)
(* runACP.                                                                 *)
(***************************************************************************)

\* One of the checks before the launch refuses.
RunRefused ==
  /\ run = "preparing"
  /\ run' = "refused"
  /\ UNCHANGED <<vars, autoFire, ctxDone, acpSession, callerVars, watcher, streamVars>>

RunLaunch ==
  /\ run = "preparing"
  /\ Register(S)
  /\ run' = "launching"
  /\ UNCHANGED <<autoFire, ctxDone, acpSession, callerVars, watcher, streamVars>>

\* The Commit callback: from here the host's calls find the session.
RunCommit ==
  /\ run = "launching" /\ launching[S] = "committing" /\ ~acpSession
  /\ acpSession' = TRUE
  /\ UNCHANGED <<vars, run, autoFire, ctxDone, callerVars, watcher, streamVars>>

\* manager.Launch returned.
RunLaunched ==
  /\ run = "launching"
  /\ \/ launching[S] = "failed" /\ run' = "refused"
     \/ launching[S] = "returned" /\ run' = IF autoFire THEN "firing" ELSE "serving"
  /\ UNCHANGED <<vars, autoFire, ctxDone, acpSession, callerVars, watcher, streamVars>>

\* The first prompt: refused by a session that is not ready ...
FirstPromptNotLive ==
  /\ run = "firing" /\ sess[S].state # "ready"
  /\ run' = "giveUp"
  /\ UNCHANGED <<vars, autoFire, ctxDone, acpSession, callerVars, watcher, streamVars>>

\* ... or handed to the client.
FirstPrompt ==
  /\ run = "firing" /\ prompter = None
  /\ Prompt(S)
  /\ run' = "fired" /\ prompter' = "run"
  /\ UNCHANGED <<autoFire, ctxDone, acpSession, inputsClosed, input, interrupt, watcher,
                 streamVars>>

FirstPromptReturn ==
  /\ prompter = "run"
  /\ PromptReturn(S)
  /\ run' = IF prompting[S] = "refused" THEN "giveUp" ELSE "serving"
  /\ prompter' = None
  /\ UNCHANGED <<autoFire, ctxDone, acpSession, inputsClosed, input, interrupt, watcher,
                 streamVars>>

\* A failed first prompt: Close, then return; nobody reads the events.
GiveUp ==
  /\ run = "giveUp"
  /\ SessionClose
  /\ run' = "givingUp"
  /\ UNCHANGED <<autoFire, ctxDone, acpSession, callerVars, watcher, streamVars>>

GaveUp ==
  /\ run = "givingUp" /\ clientClose[S] = "done" /\ channels[S].done
  /\ run' = "gaveUp" /\ acpSession' = FALSE
  /\ UNCHANGED <<vars, autoFire, ctxDone, callerVars, watcher, streamVars>>

\* The two goroutines start; Run waits for the session.
RunServe ==
  /\ run = "serving"
  /\ run' = "waiting" /\ forwarder' = "ranging" /\ watcher' = "waiting"
  /\ UNCHANGED <<vars, autoFire, ctxDone, acpSession, callerVars, events, sawExit, emitted,
                 sent, dropped>>

\* session.Wait returned; close(stopWatcher).
RunWaited ==
  /\ run = "waiting" /\ channels[S].done
  /\ run' = "waited"
  /\ UNCHANGED <<vars, autoFire, ctxDone, acpSession, callerVars, watcher, streamVars>>

\* <-stopWatcherDone, closeInputAdmission.
RunSealed ==
  /\ run = "waited" /\ watcher = "done"
  /\ run' = "sealed" /\ inputsClosed' = TRUE
  /\ UNCHANGED <<vars, autoFire, ctxDone, acpSession, input, prompter, interrupt, watcher,
                 streamVars>>

\* The inputs inputWG counts.
inputWG == {i \in Inputs : input[i] \in {"admitted", "prompting"}}

\* inputWG.Wait.
RunJoined ==
  /\ run = "sealed" /\ inputWG = {}
  /\ run' = "joined"
  /\ UNCHANGED <<vars, autoFire, ctxDone, acpSession, callerVars, watcher, streamVars>>

\* MUTANT: does not wait for the forwarder.
RunReturnAtOnce ==
  /\ run = "joined"
  /\ emitted' = IF sawExit THEN emitted
                ELSE Append(emitted, [kind |-> "process.exited", from |-> "run"])
  /\ run' = "returned" /\ acpSession' = FALSE
  /\ UNCHANGED <<vars, autoFire, ctxDone, callerVars, watcher, forwarder, events, sawExit,
                 sent, dropped>>

\* <-eventsDone; process.exited if the stream had none; clearACPSession.
RunReturn ==
  /\ run = "joined" /\ forwarder = "done"
  /\ emitted' = IF sawExit THEN emitted
                ELSE Append(emitted, [kind |-> "process.exited", from |-> "run"])
  /\ run' = "returned" /\ acpSession' = FALSE
  /\ UNCHANGED <<vars, autoFire, ctxDone, callerVars, watcher, forwarder, events, sawExit,
                 sent, dropped>>

--------------------------------------------------------------------------------
(***************************************************************************)
(* The events goroutine.                                                   *)
(***************************************************************************)

\* The bridge's kind of a session event, and what follows it.
Kind(e) == IF e \in {"exit", "exitError"} THEN "process.exited" ELSE e
FollowUp(e) ==
  CASE e = "started" -> <<[kind |-> "processing", from |-> "run"]>>
    [] e \in {"completed", "failed"} -> <<[kind |-> "idle", from |-> "run"]>>
    [] OTHER -> <<>>

\* MUTANT: process.exited ends the loop.
ForwardUntilExit ==
  /\ forwarder = "ranging" /\ events # <<>>
  /\ LET e == Head(events)
     IN  /\ emitted' = emitted \o <<[kind |-> Kind(e), from |-> "session"]>> \o FollowUp(e)
         /\ sawExit' = (sawExit \/ Kind(e) = "process.exited")
         /\ forwarder' = IF sawExit' THEN "done" ELSE forwarder
  /\ events' = Tail(events)
  /\ UNCHANGED <<vars, run, autoFire, ctxDone, acpSession, callerVars, watcher, sent, dropped>>

Forward ==
  /\ forwarder = "ranging" /\ events # <<>>
  /\ LET e == Head(events)
     IN  /\ emitted' = emitted \o <<[kind |-> Kind(e), from |-> "session"]>> \o FollowUp(e)
         /\ sawExit' = (sawExit \/ Kind(e) = "process.exited")
  /\ events' = Tail(events)
  /\ UNCHANGED <<vars, run, autoFire, ctxDone, acpSession, callerVars, watcher, forwarder,
                 sent, dropped>>

ForwardEnd ==
  /\ forwarder = "ranging" /\ events = <<>> /\ channels[S].eventsClosed
  /\ forwarder' = "done"
  /\ UNCHANGED <<vars, run, autoFire, ctxDone, acpSession, callerVars, watcher, events,
                 sawExit, emitted, sent, dropped>>

--------------------------------------------------------------------------------
(***************************************************************************)
(* requestACPInterrupt: the context's watcher, Stop and CancelTurn.        *)
(***************************************************************************)

CancelContext ==
  /\ ~ctxDone /\ run \notin {"returned", "refused", "gaveUp"}
  /\ ctxDone' = TRUE
  /\ UNCHANGED <<vars, run, autoFire, acpSession, callerVars, watcher, streamVars>>

\* MUTANT: the interrupt only cancels the turn.
WatcherCancels ==
  /\ watcher = "waiting" /\ ctxDone /\ interrupt["ctx_cancel"] = "idle"
  /\ interrupt' = [interrupt EXCEPT !["ctx_cancel"] = "requested"]
  /\ UNCHANGED <<vars, run, autoFire, ctxDone, acpSession, inputsClosed, input, prompter,
                 watcher, streamVars>>

WatcherInterrupts ==
  /\ watcher = "waiting" /\ ctxDone /\ interrupt["ctx_cancel"] = "idle"
  /\ SessionClose
  /\ interrupt' = [interrupt EXCEPT !["ctx_cancel"] = "requested"]
  /\ UNCHANGED <<run, autoFire, ctxDone, acpSession, inputsClosed, input, prompter,
                 watcher, streamVars>>

\* The watcher ends: acknowledged, or told that the session is over.
WatcherDone ==
  /\ watcher = "waiting"
  /\ \/ /\ interrupt["ctx_cancel"] = "requested"
        /\ clientClose[S] = "done" /\ channels[S].done
        /\ interrupt' = [interrupt EXCEPT !["ctx_cancel"] = "acknowledged"]
     \/ /\ interrupt["ctx_cancel"] = "idle" /\ run = "waited"
        /\ UNCHANGED interrupt
  /\ watcher' = "done"
  /\ UNCHANGED <<vars, run, autoFire, ctxDone, acpSession, inputsClosed, input, prompter,
                 streamVars>>

Stop ==
  /\ acpSession /\ interrupt["user_stop"] = "idle"
  /\ SessionClose
  /\ interrupt' = [interrupt EXCEPT !["user_stop"] = "requested"]
  /\ UNCHANGED <<run, autoFire, ctxDone, acpSession, inputsClosed, input, prompter, watcher,
                 streamVars>>

\* Session.Close waits for client.Close, then for done or Stop's own context.
StopReturn ==
  /\ interrupt["user_stop"] = "requested" /\ clientClose[S] = "done"
  /\ interrupt' = [interrupt EXCEPT !["user_stop"] = "acknowledged"]
  /\ UNCHANGED <<vars, run, autoFire, ctxDone, acpSession, inputsClosed, input, prompter,
                 watcher, streamVars>>

CancelTurn ==
  /\ acpSession /\ interrupt["turn_cancel"] = "idle"
  /\ Cancel(S)
  /\ interrupt' = [interrupt EXCEPT !["turn_cancel"] = "acknowledged"]
  /\ UNCHANGED <<run, autoFire, ctxDone, acpSession, inputsClosed, input, prompter, watcher,
                 streamVars>>

--------------------------------------------------------------------------------
(***************************************************************************)
(* SendInput.                                                              *)
(***************************************************************************)

\* MUTANT: takes no notice of closeInputAdmission.
SendInputAlways(i) ==
  /\ input[i] = "idle"
  /\ input' = [input EXCEPT ![i] = IF ~acpSession THEN "refused" ELSE "admitted"]
  /\ UNCHANGED <<vars, run, autoFire, ctxDone, acpSession, inputsClosed, prompter, interrupt,
                 watcher, streamVars>>

\* Admitted under inputMu, or ErrSessionNotStarted.
SendInput(i) ==
  /\ input[i] = "idle"
  /\ input' = [input EXCEPT ![i] = IF inputsClosed \/ ~acpSession THEN "refused" ELSE "admitted"]
  /\ UNCHANGED <<vars, run, autoFire, ctxDone, acpSession, inputsClosed, prompter, interrupt,
                 watcher, streamVars>>

\* stdin.write is emitted, then the session refuses the prompt ...
InputNotLive(i) ==
  /\ input[i] = "admitted" /\ sess[S].state # "ready"
  /\ input' = [input EXCEPT ![i] = "returned"]
  /\ UNCHANGED <<vars, run, autoFire, ctxDone, acpSession, inputsClosed, prompter, interrupt,
                 watcher, streamVars>>

\* ... or takes it.
InputPrompts(i) ==
  /\ input[i] = "admitted" /\ prompter = None
  /\ Prompt(S)
  /\ input' = [input EXCEPT ![i] = "prompting"] /\ prompter' = i
  /\ UNCHANGED <<run, autoFire, ctxDone, acpSession, inputsClosed, interrupt, watcher,
                 streamVars>>

InputReturns(i) ==
  /\ prompter = i
  /\ PromptReturn(S)
  /\ input' = [input EXCEPT ![i] = "returned"] /\ prompter' = None
  /\ UNCHANGED <<run, autoFire, ctxDone, acpSession, inputsClosed, interrupt, watcher,
                 streamVars>>

--------------------------------------------------------------------------------
RunStep ==
  \/ RunRefused \/ RunLaunch \/ RunCommit \/ RunLaunched \/ FirstPromptNotLive \/ FirstPrompt
  \/ FirstPromptReturn \/ GiveUp \/ GaveUp \/ RunServe \/ RunWaited \/ RunSealed \/ RunJoined
  \/ RunReturn

WatcherStep == WatcherInterrupts \/ WatcherDone
ForwarderStep == Forward \/ ForwardEnd
InputStep(i) == InputNotLive(i) \/ InputPrompts(i) \/ InputReturns(i)

RunNext ==
  \/ SessionAlone \/ RunPublish \/ ManagerClose \/ RunStep \/ WatcherStep \/ ForwarderStep
  \/ CancelContext \/ Stop \/ StopReturn \/ CancelTurn
  \/ \E i \in Inputs : SendInput(i) \/ InputStep(i)

RunSpec == RunInit /\ [][RunNext]_allVars

\* What the wrapper's and the session's goroutines do by themselves, and a closed
\* client's child: neither the agent nor the host need do anything.
SessionProgress ==
  /\ SessionAlone
  /\ \/ LaunchCommit(S) \/ LaunchAbort(S) \/ LaunchDone(S) \/ LaunchFailed(S)
     \/ DrainObserve(S) \/ DrainReady(S) \/ DrainEnd(S) \/ FinishStep(S)
     \/ CloseClient(S) \/ ClientClosed(S) \/ ClientLaunch(S)
     \/ ClientAdmits(S) \/ ClientWrites(S) \/ ClientRefuses(S)
     \/ \E e \in {"completed", "failed"} : ClientReports(S, e)
     \/ clientClose[S] # "idle" /\ (ClientTurnEnds(S) \/ \E e \in ChildFates : ClientExits(S, e))
     \/ Gone(S) /\ (ClientTurnEnds(S) \/ ClientCloses(S))

Progress ==
  \/ SessionProgress \/ RunPublish \/ RunStep \/ WatcherStep \/ ForwarderStep \/ StopReturn
  \/ \E i \in Inputs : InputStep(i)

--------------------------------------------------------------------------------
(***************************************************************************)
(* Properties.                                                             *)
(***************************************************************************)

BridgeKinds == {"ready", "started", "completed", "failed", "process.exited", "processing", "idle"}

BridgeEvents == [kind: BridgeKinds, from: {"session", "run"}]

\* Every variable of the wrapper has its type.
WrapperTypes ==
  /\ run \in {"preparing", "refused", "launching", "firing", "fired", "giveUp", "givingUp",
              "gaveUp", "serving", "waiting", "waited", "sealed", "joined", "returned"}
  /\ {autoFire, ctxDone, acpSession, inputsClosed, sawExit, dropped} \subseteq BOOLEAN
  /\ input \in [Inputs -> {"idle", "refused", "admitted", "prompting", "returned"}]
  /\ prompter \in Inputs \cup {None, "run"}
  /\ interrupt \in [Reasons -> {"idle", "requested", "acknowledged"}]
  /\ watcher \in {"off", "waiting", "done"} /\ forwarder \in {"off", "ranging", "done"}
  /\ events \in Seq(EventKinds) /\ Len(events) <= EventsCap
  /\ emitted \in Seq(BridgeEvents) /\ sent \in Seq(EventKinds)

\* The bridge's entries that are the session's own events, how many there are, and
\* the place of each.
FromSession == {k \in 1..Len(emitted) : emitted[k].from = "session"}
Forwarded == Cardinality(FromSession)
Place(k) == Cardinality(FromSession \cap (1..k))

\* The bridge sees the session's events in the order the client sent them, and
\* when Run returns, all of them, although the session's end, Stop and the
\* context race the forwarding.  Only a full channel makes a gap.
StreamIntact ==
  ~dropped =>
    /\ Forwarded <= Len(sent)
    /\ \A k \in FromSession : emitted[k].kind = Kind(sent[Place(k)])
    /\ run = "returned" => Forwarded = Len(sent)

\* What is on its way from the client to the forwarder.
Hand == IF drain[S].at \in {"holding", "publishing"} THEN <<drain[S].event>> ELSE <<>>
InTransit == events \o Hand \o chan[S]
LaunchGaveUp == launching[S] \in {"aborting", "finishing", "failed"}

\* q goes on with t behind its first n.
GoesOn(q, n, t) == Len(q) = n + Len(t) /\ \A k \in 1..Len(t) : t[k] = q[n + k]

\* What was sent is on the bridge or, behind that, in transit; only an aborted
\* launch swallows a session.ready, and nobody forwards for one.  The forwarder
\* ends when nothing is left and nothing can come.
StreamInOrder ==
  /\ ~dropped /\ ~LaunchGaveUp => GoesOn(sent, Forwarded, InTransit)
  /\ run = "preparing" => drain[S].at = "idle"
  /\ run \notin {"preparing", "launching", "refused"} => launching[S] = "returned"
  /\ forwarder = "off" => FromSession = {}
  /\ forwarder # "off" => run \in {"waiting", "waited", "sealed", "joined", "returned"}
  /\ forwarder = "done" => events = <<>> /\ channels[S].eventsClosed

\* How far Run has come: it waits for the session before it stops the watcher,
\* for the watcher before it closes the admission of inputs, and for the admitted
\* inputs before it returns; a prompt is its caller's until it returns.
RunInOrder ==
  /\ run \in {"waited", "sealed", "joined", "returned"} => channels[S].done
  /\ run \in {"sealed", "joined", "returned"} => watcher = "done"
  /\ inputsClosed <=> run \in {"sealed", "joined", "returned"}
  /\ run \in {"joined", "returned"} => inputWG = {}
  /\ run = "returned" => ~acpSession /\ forwarder = "done"
  /\ watcher = "done" => interrupt["ctx_cancel"] # "requested"
  /\ prompter = "run" => run = "fired"
  /\ prompter \in Inputs => input[prompter] = "prompting"

\* The child's exit is told once: it is in the client's channel, in drain's hand,
\* in the session's channel or forwarded, and never in two of them.
Exits(q) == {i \in 1..Len(q) : q[i] \in {"exit", "exitError"}}
InHand == drain[S].at = "publishing" /\ drain[S].event \in {"exit", "exitError"}

ExitToldOnce ==
  /\ drain[S].at = "holding" => drain[S].event = "ready"
  /\ \A i, j \in Exits(chan[S]) : i = j
  /\ \A i, j \in Exits(events) : i = j
  /\ Exits(chan[S]) # {} => ~InHand /\ Exits(events) = {} /\ ~sawExit
  /\ InHand => Exits(events) = {} /\ ~sawExit
  /\ Exits(events) # {} => ~sawExit
  /\ client[S].child \notin {"exit", "exitError"} =>
       Exits(chan[S]) = {} /\ ~InHand /\ Exits(events) = {} /\ ~sawExit
  /\ run # "returned" =>
       (sawExit <=> \E k \in 1..Len(emitted) : emitted[k].kind = "process.exited")

\* The stream and the types, and the order in which Run joins what it started.
RunInv ==
  TypeOK /\ WrapperTypes /\ StreamIntact /\ StreamInOrder /\ RunInOrder /\ ExitToldOnce

\* A Run that served its session reports exactly one process.exited by the time
\* it returns: the client's own, or, when that was dropped or never sent, the
\* one Run makes up.
OneExit ==
  LET exits == {k \in 1..Len(emitted) : emitted[k].kind = "process.exited"}
  IN  /\ \A j, k \in exits : j = k
      /\ run = "returned" => exits # {}

\* When Run has returned nothing of it goes on: the session is over, no accepted
\* SendInput is still under way, the watcher's interrupt is acknowledged and
\* the wrapper has let go of the session.
ReturnedMeansQuiet ==
  run = "returned" =>
    /\ ~acpSession /\ channels[S].done /\ clientClose[S] = "done"
    /\ inputWG = {} /\ prompter = None
    /\ interrupt["ctx_cancel"] # "requested" /\ watcher = "done"

\* Once its context is canceled, its session told to close or its agent gone, Run
\* is over or something still moves it on without the agent or the host: nobody
\* waits for everybody.  Every step of the model is taken a bounded number of
\* times, so Run returns.
RunNeverStuck ==
  (ctxDone \/ hostClose[S] # "idle" \/ client[S].eof)
  /\ run \notin {"returned", "refused", "gaveUp"} => ENABLED Progress
================================================================================
