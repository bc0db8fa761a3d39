------------------------------ MODULE AcpRunProofs ------------------------------
(***************************************************************************)
(* Proofs about Wrapper.Run on an ACP adapter, for any inputs, prompts,    *)
(* channel capacities and host.  The session below it keeps its own        *)
(* invariant, because every step of the wrapper is a step of AcpSession or *)
(* leaves the session alone; the wrapper's invariant is proved on top.     *)
(***************************************************************************)
EXTENDS AcpRun, AcpSessionProofs, FiniteSetTheorems

--------------------------------------------------------------------------------
(***************************************************************************)
(* The wrapper uses its session as AcpSession allows.                      *)
(***************************************************************************)

\* There is one session.
LEMMA OneSession == S \in Sessions
  BY RunConstants DEF S

\* Every step of the composition is a step of the session, or leaves it alone.
LEMMA RunStepMaps == RunNext => [Next]_vars
<1>1. SessionAlone => Next
  BY OneSession DEF SessionAlone, Next, LaunchStep, DrainStep
<1>2. RunPublish => Next
  <2> SUFFICES ASSUME RunPublish PROVE Next
    OBVIOUS
  <2>1. CASE Len(events) >= EventsCap
    <3>1. Publish(S, TRUE)
      BY <2>1 DEF RunPublish, Publish
    <3> QED
      BY <3>1, OneSession DEF Next, DrainStep
  <2>2. CASE ~(Len(events) >= EventsCap)
    <3>1. Publish(S, FALSE)
      BY <2>2 DEF RunPublish, Publish
    <3> QED
      BY <3>1, OneSession DEF Next, DrainStep
  <2> QED
    BY <2>1, <2>2
<1>3. Close(S) \/ Cancel(S) \/ Prompt(S) \/ PromptReturn(S) \/ Register(S) => Next
  BY OneSession DEF Next, HostStep, LaunchStep
<1>4. SessionClose => [Next]_vars
  BY <1>3 DEF SessionClose
<1>5. RunStep => [Next]_vars
  BY <1>3, <1>4 DEF RunStep, RunRefused, RunLaunch, RunCommit, RunLaunched, FirstPromptNotLive,
     FirstPrompt, FirstPromptReturn, GiveUp, GaveUp, RunServe, RunWaited, RunSealed, RunJoined,
     RunReturn
<1>6. ManagerClose \/ WatcherStep \/ ForwarderStep \/ CancelContext \/ Stop \/ StopReturn
        \/ CancelTurn => [Next]_vars
  BY <1>3, <1>4 DEF ManagerClose, WatcherStep, WatcherInterrupts, WatcherDone, ForwarderStep,
     Forward, ForwardEnd, CancelContext, Stop, StopReturn, CancelTurn
<1>7. ASSUME NEW i \in Inputs, SendInput(i) \/ InputStep(i) PROVE [Next]_vars
  BY <1>3, <1>7 DEF SendInput, InputStep, InputNotLive, InputPrompts, InputReturns
<1> QED
  BY <1>1, <1>2, <1>5, <1>6, <1>7 DEF RunNext

\* Every behaviour of Wrapper.Run is, of its session, a behaviour of AcpSession:
\* Run, SendInput, Stop, CancelTurn and the Manager call it within its rules.
THEOREM RunUsesSession == RunSpec => Spec
<1>1. RunInit => Init
  BY DEF RunInit
<1>2. [RunNext]_allVars => [Next]_vars
  BY RunStepMaps DEF allVars
<1> QED
  BY <1>1, <1>2, PTL DEF RunSpec, Spec

\* So the session is as consistent under the wrapper as it is by itself.
THEOREM RunKeepsSession == RunSpec => [](SessionInv /\ OneClientPerId)
  BY RunUsesSession, SessionSafety, IdHasOneClient, PTL

--------------------------------------------------------------------------------
(***************************************************************************)
(* What a step of the session means for the wrapper.                       *)
(***************************************************************************)

\* Nothing reopens done, or the session's event channel.
LEMMA LatchesStay ==
  ASSUME TypeOK, [Next]_vars
  PROVE  /\ channels[S].done => channels'[S].done
         /\ channels[S].eventsClosed => channels'[S].eventsClosed
<1> DEFINE Stay(c, d) == (c.done => d.done) /\ (c.eventsClosed => d.eventsClosed)
<1>0. channels \in [Sessions -> Latches]
  BY DEF TypeOK
<1>1. CASE UNCHANGED vars
  BY <1>1 DEF vars
<1>2. CASE Next
  <2> SUFFICES Stay(channels[S], channels'[S])
    OBVIOUS
  <2>1. PICK s \in Sessions :
          LaunchStep(s) \/ DrainStep(s) \/ FinishStep(s) \/ HostStep(s) \/ DiagnosticStep(s)
            \/ ClientStep(s)
    BY <1>2 DEF Next
  <2>2. UNCHANGED channels => Stay(channels[S], channels'[S])
    OBVIOUS
  <2>3. ASSUME NEW c \in Latches, Stay(channels[s], c), channels' = [channels EXCEPT ![s] = c]
        PROVE  Stay(channels[S], channels'[S])
    <3>1. channels'[S] = IF S = s THEN c ELSE channels[S]
      BY <1>0, <2>3, OneSession
    <3> QED
      BY <2>3, <3>1
  <2>4. CASE LaunchDone(s)
    <3> DEFINE c == [channels[s] EXCEPT !.launchDone = TRUE]
    <3>1. channels' = [channels EXCEPT ![s] = c]
      BY <2>4 DEF LaunchDone
    <3>2. c \in Latches /\ Stay(channels[s], c)
      BY <1>0 DEF Latches
    <3> QED
      BY <2>3, <3>1, <3>2
  <2>5. CASE FinishEvents(s)
    <3> DEFINE c == [channels[s] EXCEPT !.eventsClosed = TRUE]
    <3>1. channels' = [channels EXCEPT ![s] = c]
      BY <2>5 DEF FinishEvents
    <3>2. c \in Latches /\ Stay(channels[s], c)
      BY <1>0 DEF Latches
    <3> QED
      BY <2>3, <3>1, <3>2
  <2>6. CASE FinishDiagnostics(s)
    <3> DEFINE c == [channels[s] EXCEPT !.diagnosticsClosed = TRUE]
    <3>1. channels' = [channels EXCEPT ![s] = c]
      BY <2>6 DEF FinishDiagnostics
    <3>2. c \in Latches /\ Stay(channels[s], c)
      BY <1>0 DEF Latches
    <3> QED
      BY <2>3, <3>1, <3>2
  <2>7. CASE FinishDone(s)
    <3> DEFINE c == [channels[s] EXCEPT !.done = TRUE]
    <3>1. channels' = [channels EXCEPT ![s] = c]
      BY <2>7 DEF FinishDone
    <3>2. c \in Latches /\ Stay(channels[s], c)
      BY <1>0 DEF Latches
    <3> QED
      BY <2>3, <3>1, <3>2
  <2> HIDE DEF Stay
  <2>8. CASE LaunchStep(s)
    BY <2>2, <2>4, <2>8
       DEF LaunchStep, Register, LaunchCommit, LaunchAbort, LaunchFailed
  <2>9. CASE DrainStep(s)
    BY <2>2, <2>9 DEF DrainStep, DrainObserve, DrainReady, Publish, DrainEnd
  <2>10. CASE FinishStep(s)
    BY <2>2, <2>5, <2>6, <2>7, <2>10
       DEF FinishStep, FinishBegin, FinishClassify, FinishUnregister
  <2>11. CASE HostStep(s)
    BY <2>2, <2>11 DEF HostStep, Prompt, PromptReturn, Cancel, Close, CloseReturn
  <2>12. CASE DiagnosticStep(s)
    BY <2>2, <2>12 DEF DiagnosticStep, DiagnosticBegin, DiagnosticSend, DiagnosticEnd
  <2>13. CASE ClientStep(s)
    BY <2>2, <2>13 DEF ClientStep, CloseClient, ClientClosed, ClientLaunch, ClientAdmits,
       ClientWrites, ClientRefuses, ClientTurnEnds, ClientReports, ClientExits, ClientCloses
  <2> QED
    BY <2>1, <2>8, <2>9, <2>10, <2>11, <2>12, <2>13
<1> QED
  BY <1>1, <1>2

--------------------------------------------------------------------------------
(***************************************************************************)
(* The order in which Run joins what it started.                           *)
(***************************************************************************)

\* A step that leaves Run, its watcher, its forwarder and its callers where they are.
LEMMA OrderUntouched ==
  ASSUME RunInOrder, channels[S].done => channels'[S].done,
         UNCHANGED <<run, acpSession, inputsClosed, input, prompter, interrupt, watcher, forwarder>>
  PROVE  RunInOrder'
  BY DEF RunInOrder, inputWG

\* Every step of the composition keeps that order.
LEMMA OrderKept ==
  ASSUME WrapperTypes, TypeOK, RunInOrder, RunNext
  PROVE  RunInOrder'
<1>1. channels[S].done => channels'[S].done
  BY LatchesStay, RunStepMaps
<1>2. {None, "run"} \cap Inputs = {} /\ None # "run"
  BY RunConstants
<1>3. CASE SessionAlone \/ RunPublish \/ ManagerClose \/ ForwarderStep \/ CancelContext
           \/ Stop \/ StopReturn \/ CancelTurn
  <2>1. CASE SessionAlone \/ RunPublish \/ ManagerClose \/ Forward \/ CancelContext
    BY <1>1, <2>1, OrderUntouched DEF SessionAlone, RunPublish, ManagerClose, Forward, CancelContext,
       runVars, callerVars, streamVars
  <2>2. CASE ForwardEnd
    BY <1>1, <2>2 DEF ForwardEnd, RunInOrder, inputWG, callerVars
  <2>3. CASE Stop \/ StopReturn \/ CancelTurn
    <3>1. /\ UNCHANGED <<run, acpSession, inputsClosed, input, prompter, watcher, forwarder>>
          /\ \E r \in {"user_stop", "turn_cancel"}, x \in {"requested", "acknowledged"} :
               interrupt' = [interrupt EXCEPT ![r] = x]
      BY <2>3 DEF Stop, StopReturn, CancelTurn, streamVars
    <3>2. interrupt'["ctx_cancel"] = interrupt["ctx_cancel"]
      BY <3>1 DEF WrapperTypes, Reasons
    <3> QED
      BY <1>1, <3>1, <3>2 DEF RunInOrder, inputWG
  <2> QED
    BY <1>3, <2>1, <2>2, <2>3 DEF ForwarderStep
<1>4. CASE RunStep
  <2>1. CASE RunRefused \/ RunLaunch \/ RunCommit \/ RunLaunched \/ FirstPromptNotLive
             \/ FirstPrompt \/ FirstPromptReturn
    BY <1>1, <1>2, <2>1 DEF RunRefused, RunLaunch, RunCommit, RunLaunched, FirstPromptNotLive,
       FirstPrompt, FirstPromptReturn, RunInOrder, inputWG, callerVars, streamVars
  <2>2. CASE GiveUp \/ GaveUp \/ RunServe \/ RunWaited
    BY <1>1, <1>2, <2>2 DEF GiveUp, GaveUp, RunServe, RunWaited, RunInOrder, inputWG,
       callerVars, streamVars
  <2>3. CASE RunSealed \/ RunJoined \/ RunReturn
    BY <1>1, <1>2, <2>3 DEF RunSealed, RunJoined, RunReturn, RunInOrder, inputWG,
       callerVars, streamVars
  <2> QED
    BY <1>4, <2>1, <2>2, <2>3 DEF RunStep
<1>5. CASE WatcherStep
  <2>1. CASE WatcherInterrupts
    BY <1>1, <2>1 DEF WatcherInterrupts, RunInOrder, inputWG, streamVars
  <2>2. CASE WatcherDone
    <3>1. interrupt'["ctx_cancel"] # "requested"
      BY <2>2 DEF WatcherDone, WrapperTypes, Reasons
    <3> QED
      BY <1>1, <2>2, <3>1 DEF WatcherDone, RunInOrder, inputWG, streamVars
  <2> QED
    BY <1>5, <2>1, <2>2 DEF WatcherStep
<1>6. ASSUME NEW i \in Inputs, SendInput(i) \/ InputStep(i) PROVE RunInOrder'
  <2>1. input \in [Inputs -> {"idle", "refused", "admitted", "prompting", "returned"}]
    BY DEF WrapperTypes
  <2>2. CASE SendInput(i)
    <3>1. PICK x \in {"refused", "admitted"} :
             /\ input' = [input EXCEPT ![i] = x]
             /\ inputsClosed => x = "refused"
      BY <2>2 DEF SendInput
    <3>2. /\ input[i] = "idle"
          /\ UNCHANGED <<run, acpSession, inputsClosed, prompter, interrupt, watcher, forwarder>>
      BY <2>2 DEF SendInput, streamVars
    <3>3. inputsClosed /\ inputWG = {} => inputWG' = {}
      BY <2>1, <3>1, <3>2 DEF inputWG
    <3>4. prompter \in Inputs => prompter # i /\ input'[prompter] = "prompting"
      BY <2>1, <3>1, <3>2 DEF RunInOrder
    <3> QED
      BY <1>1, <3>2, <3>3, <3>4 DEF RunInOrder
  <2>3. CASE InputNotLive(i)
    <3>1. /\ input[i] = "admitted" /\ input' = [input EXCEPT ![i] = "returned"]
          /\ UNCHANGED <<run, acpSession, inputsClosed, prompter, interrupt, watcher, forwarder>>
      BY <2>3 DEF InputNotLive, streamVars
    <3>2. inputWG = {} => inputWG' = {}
      BY <2>1, <3>1 DEF inputWG
    <3>3. prompter \in Inputs => prompter # i /\ input'[prompter] = "prompting"
      BY <2>1, <3>1 DEF RunInOrder
    <3> QED
      BY <1>1, <3>1, <3>2, <3>3 DEF RunInOrder
  <2>4. CASE InputPrompts(i)
    <3>1. /\ input[i] = "admitted" /\ input' = [input EXCEPT ![i] = "prompting"]
          /\ prompter' = i
          /\ UNCHANGED <<run, acpSession, inputsClosed, interrupt, watcher, forwarder>>
      BY <2>4 DEF InputPrompts, streamVars
    <3>2. inputWG # {} /\ i # "run" /\ input'[i] = "prompting"
      BY <1>2, <2>1, <3>1 DEF inputWG
    <3> QED
      BY <1>1, <3>1, <3>2 DEF RunInOrder
  <2>5. CASE InputReturns(i)
    <3>1. /\ prompter = i /\ input' = [input EXCEPT ![i] = "returned"] /\ prompter' = None
          /\ UNCHANGED <<run, acpSession, inputsClosed, interrupt, watcher, forwarder>>
      BY <2>5 DEF InputReturns, streamVars
    <3>2. inputWG = {} => inputWG' = {}
      BY <2>1, <3>1 DEF inputWG
    <3> QED
      BY <1>1, <1>2, <3>1, <3>2 DEF RunInOrder
  <2> QED
    BY <1>6, <2>2, <2>3, <2>4, <2>5 DEF InputStep
<1> QED
  BY <1>3, <1>4, <1>5, <1>6 DEF RunNext

--------------------------------------------------------------------------------
(***************************************************************************)
(* The types of the wrapper.                                               *)
(***************************************************************************)

\* What the forwarder makes of an event.
LEMMA BridgedTypes ==
  ASSUME NEW e \in EventKinds
  PROVE  /\ Kind(e) \in BridgeKinds
         /\ Kind(e) = "process.exited" <=> e \in {"exit", "exitError"}
         /\ FollowUp(e) \in Seq(BridgeEvents)
         /\ \A k \in 1..Len(FollowUp(e)) :
              FollowUp(e)[k].kind # "process.exited" /\ FollowUp(e)[k].from = "run"
<1>1. Kind(e) \in BridgeKinds /\ (Kind(e) = "process.exited" <=> e \in {"exit", "exitError"})
  BY DEF Kind, BridgeKinds, EventKinds
<1>2. CASE e = "started"
  <2>1. FollowUp(e) = <<[kind |-> "processing", from |-> "run"]>>
    BY <1>2 DEF FollowUp
  <2> QED
    BY <1>1, <2>1 DEF BridgeKinds, BridgeEvents
<1>3. CASE e \in {"completed", "failed"}
  <2>1. FollowUp(e) = <<[kind |-> "idle", from |-> "run"]>>
    BY <1>3 DEF FollowUp
  <2> QED
    BY <1>1, <2>1 DEF BridgeKinds, BridgeEvents
<1>4. CASE e \notin {"started", "completed", "failed"}
  <2>1. FollowUp(e) = <<>>
    BY <1>4 DEF FollowUp
  <2> QED
    BY <1>1, <2>1
<1> QED
  BY <1>2, <1>3, <1>4

\* What was sent is the last of what the channel holds.
LEMMA SentTyped ==
  ASSUME TypeOK, TypeOK', sent \in Seq(EventKinds), sent' = Sent
  PROVE  sent' \in Seq(EventKinds)
<1>1. chan[S] \in Seq(EventKinds) /\ chan'[S] \in Seq(EventKinds)
  BY OneSession DEF TypeOK
<1>2. CASE Len(chan'[S]) > Len(chan[S])
  <2>1. chan'[S][Len(chan'[S])] \in EventKinds
    BY <1>1, <1>2
  <2> QED
    BY <1>2, <2>1 DEF Sent, Last
<1>3. CASE ~(Len(chan'[S]) > Len(chan[S]))
  BY <1>3 DEF Sent
<1> QED
  BY <1>2, <1>3

\* Every step of the composition keeps the types of the wrapper's variables.
LEMMA WrapperTypesKept ==
  ASSUME WrapperTypes, TypeOK, TypeOK', RunInOrder, RunNext
  PROVE  WrapperTypes'
<1>1. CASE SessionAlone \/ ManagerClose \/ CancelContext \/ ForwardEnd
  <2>1. CASE SessionAlone
    <3>1. sent' \in Seq(EventKinds)
      BY <2>1, SentTyped DEF SessionAlone, WrapperTypes
    <3> QED
      BY <2>1, <3>1 DEF SessionAlone, WrapperTypes, callerVars
  <2>2. CASE ManagerClose \/ CancelContext \/ ForwardEnd
    BY <2>2 DEF WrapperTypes, ManagerClose, CancelContext, ForwardEnd, runVars, callerVars, streamVars
  <2> QED
    BY <1>1, <2>1, <2>2
<1>2. CASE RunPublish
  <2>1. drain[S].event \in EventKinds
    BY OneSession DEF TypeOK, DrainStates
  <2>2. events' = events \/ (Len(events) < EventsCap /\ events' = Append(events, drain[S].event))
    <3>1. Len(events) \in Nat /\ EventsCap \in Nat
      BY RunConstants DEF WrapperTypes
    <3> QED
      BY <1>2, <3>1 DEF RunPublish
  <2>3. events' \in Seq(EventKinds) /\ Len(events') <= EventsCap
    <3>1. events \in Seq(EventKinds) /\ Len(events) <= EventsCap /\ EventsCap \in Nat
      BY RunConstants DEF WrapperTypes
    <3> DEFINE e == drain[S].event
    <3>2. events' = events \/ (Len(events) < EventsCap /\ events' = Append(events, e))
      BY <2>2
    <3>3. e \in EventKinds
      BY <2>1
    <3> HIDE DEF e
    <3>4. CASE events' = events
      BY <3>1, <3>4
    <3>5. CASE Len(events) < EventsCap /\ events' = Append(events, e)
      <4>1. Append(events, e) \in Seq(EventKinds) /\ Len(Append(events, e)) = Len(events) + 1
        BY <3>1, <3>3
      <4>2. Len(events) \in Nat
        BY <3>1
      <4> HIDE DEF WrapperTypes
      <4> QED
        BY <3>1, <3>5, <4>1, <4>2
    <3> QED
      BY <3>2, <3>4, <3>5
  <2>4. dropped' \in BOOLEAN
    BY <1>2 DEF RunPublish
  <2>5. UNCHANGED <<run, autoFire, ctxDone, acpSession, callerVars, watcher, forwarder,
                     sawExit, emitted, sent>>
    BY <1>2 DEF RunPublish
  <2> QED
    BY <2>3, <2>4, <2>5 DEF WrapperTypes, callerVars
<1>3. CASE Forward
  <2>1. events # <<>> /\ events \in Seq(EventKinds) /\ Len(events) <= EventsCap
    BY <1>3 DEF Forward, WrapperTypes
  <2>2. /\ Head(events) \in EventKinds /\ Tail(events) \in Seq(EventKinds)
        /\ Len(Tail(events)) <= EventsCap
    BY <2>1, RunConstants
  <2>3. emitted' \in Seq(BridgeEvents)
    <3> DEFINE x == <<[kind |-> Kind(Head(events)), from |-> "session"]>>
               y == FollowUp(Head(events))
    <3>1. x \in Seq(BridgeEvents) /\ y \in Seq(BridgeEvents) /\ emitted \in Seq(BridgeEvents)
      <4>1. [kind |-> Kind(Head(events)), from |-> "session"] \in BridgeEvents
        BY <2>2, BridgedTypes DEF BridgeEvents
      <4>2. y \in Seq(BridgeEvents)
        BY <2>2, BridgedTypes
      <4>3. emitted \in Seq(BridgeEvents)
        BY DEF WrapperTypes
      <4> QED
        BY <4>1, <4>2, <4>3
    <3>2. emitted' = emitted \o x \o y
      BY <1>3 DEF Forward
    <3> HIDE DEF x, y
    <3> QED
      BY <3>1, <3>2
  <2>4. sawExit' \in BOOLEAN
    BY <1>3 DEF Forward
  <2> QED
    BY <1>3, <2>2, <2>3, <2>4 DEF Forward, WrapperTypes, callerVars
<1>4. CASE RunStep
  <2>1. CASE RunRefused \/ RunLaunch \/ RunCommit \/ RunLaunched \/ FirstPromptNotLive
             \/ FirstPrompt \/ FirstPromptReturn
    BY <2>1 DEF RunRefused, RunLaunch, RunCommit, RunLaunched, FirstPromptNotLive,
       FirstPrompt, FirstPromptReturn, WrapperTypes, callerVars, streamVars
  <2>2. CASE GiveUp \/ GaveUp \/ RunServe \/ RunWaited \/ RunSealed \/ RunJoined
    BY <2>2 DEF GiveUp, GaveUp, RunServe, RunWaited, RunSealed, RunJoined, WrapperTypes,
       callerVars, streamVars
  <2>3. CASE RunReturn
    <3>1. emitted' \in Seq(BridgeEvents)
      <4>1. [kind |-> "process.exited", from |-> "run"] \in BridgeEvents
        BY DEF BridgeKinds, BridgeEvents
      <4>2. emitted \in Seq(BridgeEvents)
        BY DEF WrapperTypes
      <4>3. emitted' = emitted \/ emitted' = Append(emitted, [kind |-> "process.exited", from |-> "run"])
        BY <2>3 DEF RunReturn
      <4> QED
        BY <4>1, <4>2, <4>3
    <3> QED
      BY <2>3, <3>1 DEF RunReturn, WrapperTypes, callerVars
  <2> QED
    BY <1>4, <2>1, <2>2, <2>3 DEF RunStep
<1>5. CASE WatcherStep \/ Stop \/ StopReturn \/ CancelTurn
  <2>1. /\ UNCHANGED <<run, autoFire, ctxDone, acpSession, inputsClosed, input, prompter, streamVars>>
        /\ watcher' \in {watcher, "done"}
        /\ \/ \E r \in Reasons, x \in {"requested", "acknowledged"} :
                interrupt' = [interrupt EXCEPT ![r] = x]
           \/ interrupt' = interrupt
    BY <1>5 DEF WatcherStep, WatcherInterrupts, WatcherDone, Stop, StopReturn, CancelTurn, Reasons
  <2>2. interrupt' \in [Reasons -> {"idle", "requested", "acknowledged"}]
    BY <2>1 DEF WrapperTypes
  <2> QED
    BY <2>1, <2>2 DEF WrapperTypes, streamVars
<1>6. ASSUME NEW i \in Inputs, SendInput(i) \/ InputStep(i) PROVE WrapperTypes'
  <2>1. /\ UNCHANGED <<run, autoFire, ctxDone, acpSession, inputsClosed, interrupt, watcher,
                       streamVars>>
        /\ prompter' \in {prompter, i, None}
        /\ \E x \in {"refused", "admitted", "prompting", "returned"} :
             input' = [input EXCEPT ![i] = x]
    BY <1>6 DEF SendInput, InputStep, InputNotLive, InputPrompts, InputReturns
  <2>2. input' \in [Inputs -> {"idle", "refused", "admitted", "prompting", "returned"}]
    BY <2>1 DEF WrapperTypes
  <2> QED
    BY <2>1, <2>2 DEF WrapperTypes, streamVars
<1> QED
  BY <1>1, <1>2, <1>3, <1>4, <1>5, <1>6 DEF RunNext, ForwarderStep

--------------------------------------------------------------------------------
(***************************************************************************)
(* The exits in a channel.                                                 *)
(***************************************************************************)

\* What an append adds.
LEMMA ExitsAppend ==
  ASSUME NEW q \in Seq(EventKinds), NEW e \in EventKinds
  PROVE  /\ e \notin {"exit", "exitError"} => Exits(Append(q, e)) = Exits(q)
         /\ Exits(q) = {} => \A i, j \in Exits(Append(q, e)) : i = j
<1>1. Len(Append(q, e)) = Len(q) + 1 /\ Len(q) \in Nat
  OBVIOUS
<1>2. \A i \in 1..Len(q) + 1 : Append(q, e)[i] = IF i = Len(q) + 1 THEN e ELSE q[i]
  OBVIOUS
<1>3. \A i : i \in Exits(Append(q, e)) <=>
             \/ i \in Exits(q)
             \/ i = Len(q) + 1 /\ e \in {"exit", "exitError"}
  BY <1>1, <1>2 DEF Exits
<1>4. ASSUME e \notin {"exit", "exitError"} PROVE Exits(Append(q, e)) = Exits(q)
  <2>1. \A i : i \in Exits(Append(q, e)) <=> i \in Exits(q)
    BY <1>3, <1>4
  <2> QED
    BY <2>1
<1>5. ASSUME Exits(q) = {} PROVE \A i, j \in Exits(Append(q, e)) : i = j
  BY <1>3, <1>5
<1> QED
  BY <1>4, <1>5

\* What a receive takes away.
LEMMA ExitsTail ==
  ASSUME NEW q \in Seq(EventKinds), q # <<>>, \A i, j \in Exits(q) : i = j
  PROVE  /\ \A i, j \in Exits(Tail(q)) : i = j
         /\ Head(q) \in {"exit", "exitError"} => Exits(Tail(q)) = {} /\ Exits(q) # {}
         /\ Exits(q) = {} => Exits(Tail(q)) = {}
<1>1. Len(Tail(q)) = Len(q) - 1 /\ Len(q) \in Nat \ {0} /\ Head(q) = q[1]
  OBVIOUS
<1>2. \A i \in 1..Len(q) - 1 : Tail(q)[i] = q[i + 1]
  OBVIOUS
<1>3. \A i \in Exits(Tail(q)) : i \in Nat \ {0} /\ i + 1 \in Exits(q)
  BY <1>1, <1>2 DEF Exits
<1>4. Head(q) \in {"exit", "exitError"} => 1 \in Exits(q)
  BY <1>1 DEF Exits
<1>5. ASSUME NEW i \in Exits(Tail(q)), NEW j \in Exits(Tail(q)) PROVE i = j
  <2>1. i + 1 = j + 1 /\ i \in Nat /\ j \in Nat
    BY <1>3
  <2> QED
    BY <2>1
<1>6. ASSUME 1 \in Exits(q), NEW i \in Exits(Tail(q)) PROVE FALSE
  <2>1. i + 1 = 1 /\ i \in Nat \ {0}
    BY <1>3, <1>6
  <2> QED
    BY <2>1
<1> QED
  BY <1>3, <1>4, <1>5, <1>6

--------------------------------------------------------------------------------
(***************************************************************************)
(* Where the exit is.                                                      *)
(***************************************************************************)

\* The exits on the bridge.
Told == {k \in 1..Len(emitted) : emitted[k].kind = "process.exited"}

ExitInv == ExitToldOnce /\ OneExit

\* A step of the session that has nothing to do with the exit.
Untold ==
  /\ Exits(chan'[S]) = Exits(chan[S]) /\ drain'[S] = drain[S]
  /\ client'[S].child = client[S].child

\* A message that is not an exit changes nothing here.
LEMMA ChatterUntold ==
  ASSUME TypeOK, NEW e \in EventKinds \ {"exit", "exitError"}, Send(S, e)
  PROVE  Exits(chan'[S]) = Exits(chan[S])
<1>1. chan[S] \in Seq(EventKinds) /\ chan \in [Sessions -> Seq(EventKinds)]
  BY OneSession DEF TypeOK
<1>2. chan'[S] = chan[S] \/ chan'[S] = Append(chan[S], e)
  BY <1>1, OneSession DEF Send
<1> QED
  BY <1>1, <1>2, ExitsAppend

\* The steps that matter are drain's and the child's.
LEMMA SessionStepTold ==
  ASSUME TypeOK,
         LaunchStep(S) \/ FinishStep(S) \/ HostStep(S) \/ DiagnosticStep(S) \/ ClientStep(S)
  PROVE  Untold \/ Register(S) \/ \E e \in ChildFates : ClientExits(S, e)
<1>1. ASSUME LaunchStep(S) \/ FinishStep(S) \/ HostStep(S) \/ DiagnosticStep(S), ~Register(S) PROVE Untold
  <2>1. UNCHANGED <<chan, drain, client>>
    BY <1>1 DEF LaunchStep, LaunchCommit, LaunchAbort, LaunchDone, LaunchFailed,
       FinishStep, FinishBegin, FinishClassify, FinishUnregister, FinishEvents,
       FinishDiagnostics, FinishDone, HostStep, Prompt, PromptReturn, Cancel, Close, CloseReturn,
       DiagnosticStep, DiagnosticBegin, DiagnosticSend, DiagnosticEnd
  <2> QED
    BY <2>1 DEF Untold
<1>2. client \in [Sessions -> ClientStates] /\ S \in Sessions
  BY OneSession DEF TypeOK
<1>3. CASE CloseClient(S) \/ ClientClosed(S) \/ ClientRefuses(S)
  BY <1>3 DEF Untold, CloseClient, ClientClosed, ClientRefuses
<1>4. CASE ClientLaunch(S)
  <2>1. Exits(chan'[S]) = Exits(chan[S])
    BY <1>4, ChatterUntold DEF ClientLaunch, EventKinds
  <2> QED
    BY <1>4, <2>1 DEF ClientLaunch, Untold
<1>5. CASE ClientAdmits(S)
  <2>1. Exits(chan'[S]) = Exits(chan[S])
    BY <1>5, ChatterUntold DEF ClientAdmits, EventKinds
  <2>2. client'[S].child = client[S].child
    BY <1>2, <1>5 DEF ClientAdmits, ClientStates
  <2> QED
    BY <1>5, <2>1, <2>2 DEF ClientAdmits, Untold
<1>6. CASE ClientWrites(S)
  <2>1. Exits(chan'[S]) = Exits(chan[S])
    BY <1>6, ChatterUntold DEF ClientWrites, EventKinds
  <2>2. client'[S].child = client[S].child
    BY <1>2, <1>6 DEF ClientWrites, ClientStates
  <2> QED
    BY <1>6, <2>1, <2>2 DEF ClientWrites, Untold
<1>7. CASE ClientTurnEnds(S) \/ ClientCloses(S)
  <2>1. client'[S].child = client[S].child
    BY <1>2, <1>7 DEF ClientTurnEnds, ClientCloses, ClientStates
  <2> QED
    BY <1>7, <2>1 DEF ClientTurnEnds, ClientCloses, Untold
<1>8. ASSUME NEW e \in {"completed", "failed"}, ClientReports(S, e) PROVE Untold
  <2>1. Exits(chan'[S]) = Exits(chan[S])
    BY <1>8, ChatterUntold DEF ClientReports, EventKinds
  <2>2. client'[S].child = client[S].child
    BY <1>2, <1>8 DEF ClientReports, ClientStates
  <2> QED
    BY <1>8, <2>1, <2>2 DEF ClientReports, Untold
<1> QED
  BY <1>1, <1>3, <1>4, <1>5, <1>6, <1>7, <1>8 DEF ClientStep

--------------------------------------------------------------------------------
\* What ExitToldOnce says of the session's end of the stream.
StreamOnce ==
  /\ drain[S].at = "holding" => drain[S].event = "ready"
  /\ \A i, j \in Exits(chan[S]) : i = j
  /\ Exits(chan[S]) # {} => ~InHand /\ Exits(events) = {} /\ ~sawExit
  /\ InHand => Exits(events) = {} /\ ~sawExit
  /\ client[S].child \notin {"exit", "exitError"} =>
       Exits(chan[S]) = {} /\ ~InHand /\ Exits(events) = {} /\ ~sawExit

\* Steps of the session that leave the wrapper's end alone.
LEMMA StreamKept ==
  ASSUME TypeOK, Consistent(S), StreamOnce, UNCHANGED <<events, sawExit>>,
         \/ Untold \/ Register(S) \/ DrainObserve(S) \/ DrainReady(S) \/ DrainEnd(S)
         \/ \E e \in ChildFates : ClientExits(S, e)
  PROVE  StreamOnce'
<1>0. /\ S \in Sessions /\ drain \in [Sessions -> DrainStates] /\ client \in [Sessions -> ClientStates]
      /\ chan \in [Sessions -> Seq(EventKinds)] /\ chan[S] \in Seq(EventKinds)
  BY OneSession DEF TypeOK
<1>1. CASE Untold
  BY <1>1 DEF Untold, StreamOnce, InHand
<1>2. CASE Register(S)
  <2>1. CASE registered = None
    <3>1. chan' = chan /\ drain'[S].at = "reading" /\ client'[S].child = "live"
      BY <1>0, <1>2, <2>1 DEF Register, DrainStates, ClientStates
    <3>2. client[S].child = "none"
      BY <1>2 DEF Register, Consistent, ClientEndsInOrder, Known
    <3> QED
      BY <3>1, <3>2 DEF StreamOnce, InHand
  <2>2. CASE registered # None
    BY <1>2, <2>2 DEF Register, StreamOnce, InHand
  <2> QED
    BY <2>1, <2>2
<1>3. CASE DrainObserve(S)
  <2> DEFINE e == Head(chan[S])
  <2>1. /\ drain[S].at = "reading" /\ chan[S] # <<>> /\ client' = client
        /\ drain'[S] = [at |-> IF e = "ready" THEN "holding" ELSE "publishing", event |-> e]
        /\ chan'[S] = Tail(chan[S])
    BY <1>0, <1>3 DEF DrainObserve
  <2>2. \A i, j \in Exits(chan[S]) : i = j
    BY DEF StreamOnce
  <2>3. /\ \A i, j \in Exits(Tail(chan[S])) : i = j
        /\ e \in {"exit", "exitError"} => Exits(Tail(chan[S])) = {} /\ Exits(chan[S]) # {}
        /\ Exits(chan[S]) = {} => Exits(Tail(chan[S])) = {}
    BY <1>0, <2>1, <2>2, ExitsTail
  <2>4. /\ drain'[S].event = e /\ (drain'[S].at = "publishing" <=> e # "ready")
        /\ drain'[S].at = "holding" => e = "ready"
    BY <2>1
  <2>5. InHand' <=> e \in {"exit", "exitError"}
    BY <2>4 DEF InHand
  <2> HIDE DEF e
  <2> QED
    BY <2>1, <2>3, <2>4, <2>5 DEF StreamOnce
<1>4. CASE DrainReady(S)
  <2>1. /\ drain[S].at = "holding" /\ client' = client /\ chan' = chan
        /\ drain'[S].event = drain[S].event /\ drain'[S].at \in {"publishing", "reading"}
    BY <1>0, <1>4 DEF DrainReady, DrainStates
  <2>2. ~InHand' /\ ~InHand
    BY <2>1 DEF StreamOnce, InHand
  <2> QED
    BY <2>1, <2>2 DEF StreamOnce
<1>5. CASE DrainEnd(S)
  <2>1. /\ client' = client /\ chan' = chan /\ drain'[S].at = "ended"
    BY <1>0, <1>5 DEF DrainEnd, DrainStates
  <2>2. ~InHand'
    BY <2>1 DEF InHand
  <2> QED
    BY <2>1, <2>2 DEF StreamOnce
<1>6. ASSUME NEW e \in ChildFates, ClientExits(S, e) PROVE StreamOnce'
  <2>1. /\ client[S].child = "live" /\ drain' = drain /\ client'[S].child = e
    BY <1>0, <1>6 DEF ClientExits, ClientStates
  <2>2. /\ Exits(chan[S]) = {} /\ ~InHand /\ Exits(events) = {} /\ ~sawExit
    BY <2>1 DEF StreamOnce
  <2>3. e = "disconnect" \/ e \in {"exit", "exitError"}
    BY SessionConstants
  <2>4. /\ \A i, j \in Exits(chan'[S]) : i = j
        /\ e = "disconnect" => Exits(chan'[S]) = {}
    <3>1. CASE chan'[S] = chan[S]
      BY <2>2, <3>1
    <3>2. CASE chan'[S] = Append(chan[S], e) /\ e # "disconnect"
      BY <1>0, <2>2, <2>3, <3>2, ExitsAppend DEF EventKinds
    <3> QED
      BY <1>0, <1>6, <3>1, <3>2 DEF ClientExits, Send
  <2>5. ~InHand' /\ Exits(events') = {} /\ ~sawExit'
    BY <2>1, <2>2 DEF InHand
  <2> QED
    BY <2>1, <2>2, <2>3, <2>4, <2>5 DEF StreamOnce
<1> QED
  BY <1>1, <1>2, <1>3, <1>4, <1>5, <1>6

--------------------------------------------------------------------------------
\* What it says of the wrapper's end, with the exits on the bridge.
BridgeOnce ==
  /\ \A i, j \in Exits(events) : i = j
  /\ Exits(events) # {} => ~sawExit
  /\ \A j, k \in Told : j = k
  /\ run # "returned" => (sawExit <=> Told # {})
  /\ run = "returned" => Told # {}

\* The two ends together are ExitToldOnce and OneExit.
LEMMA ExitInvParts == ExitInv <=> StreamOnce /\ BridgeOnce
<1>1. Told # {} <=> \E k \in 1..Len(emitted) : emitted[k].kind = "process.exited"
  BY DEF Told
<1>2. OneExit <=> (\A j, k \in Told : j = k) /\ (run = "returned" => Told # {})
  BY DEF OneExit, Told
<1> QED
  BY <1>1, <1>2 DEF ExitInv, ExitToldOnce, StreamOnce, BridgeOnce

\* Steps that touch neither the channel nor the bridge.
LEMMA BridgeUntouched ==
  ASSUME BridgeOnce, UNCHANGED <<events, sawExit, emitted>>,
         run' = "returned" <=> run = "returned"
  PROVE  BridgeOnce'
<1>1. Told' = Told
  BY DEF Told
<1> QED
  BY <1>1 DEF BridgeOnce

\* publish puts drain's event into the channel, or drops it.
LEMMA PublishTold ==
  ASSUME TypeOK, WrapperTypes, StreamOnce, BridgeOnce, RunPublish
  PROVE  StreamOnce' /\ BridgeOnce'
<1>0. /\ S \in Sessions /\ drain \in [Sessions -> DrainStates] /\ events \in Seq(EventKinds)
      /\ drain[S].event \in EventKinds
  BY OneSession DEF TypeOK, WrapperTypes, DrainStates
<1>1. /\ drain[S].at = "publishing" /\ drain'[S].at = "reading" /\ client' = client /\ chan' = chan
      /\ UNCHANGED <<run, sawExit, emitted>>
      /\ events' = events \/ events' = Append(events, drain[S].event)
  BY <1>0 DEF RunPublish, Publish, DrainStates
<1>2. ~InHand' /\ Told' = Told
  BY <1>1 DEF InHand, Told
<1>3. CASE InHand
  <2>1. \A i, j \in Exits(events') : i = j
    BY <1>0, <1>1, <1>3, ExitsAppend DEF StreamOnce
  <2>2. ~sawExit' /\ Exits(chan'[S]) = {} /\ client'[S].child \in {"exit", "exitError"}
    BY <1>1, <1>3 DEF StreamOnce
  <2> QED
    BY <1>1, <1>2, <2>1, <2>2 DEF StreamOnce, BridgeOnce
<1>4. CASE ~InHand
  <2>1. Exits(events') = Exits(events)
    BY <1>0, <1>1, <1>4, ExitsAppend DEF InHand
  <2> QED
    BY <1>1, <1>2, <2>1 DEF StreamOnce, BridgeOnce
<1> QED
  BY <1>3, <1>4

\* What one more event tells on the bridge.
LEMMA ToldAppend ==
  ASSUME NEW q \in Seq(BridgeEvents), NEW x \in BridgeEvents, NEW y \in Seq(BridgeEvents),
         \A k \in 1..Len(y) : y[k].kind # "process.exited"
  PROVE  LET T(z) == {k \in 1..Len(z) : z[k].kind = "process.exited"}
         IN  \A k : k \in T(q \o <<x>> \o y) <=>
                    k \in T(q) \/ (k = Len(q) + 1 /\ x.kind = "process.exited")
<1> DEFINE z == q \o <<x>> \o y
<1>1. /\ Len(q) \in Nat /\ Len(y) \in Nat /\ Len(z) = Len(q) + 1 + Len(y)
      /\ \A k \in 1..Len(z) : z[k] = IF k <= Len(q) THEN q[k]
                                     ELSE IF k = Len(q) + 1 THEN x ELSE y[k - Len(q) - 1]
  OBVIOUS
<1> HIDE DEF z
<1>2. \A k \in 1..Len(z) : z[k].kind = "process.exited" <=>
          (k \in 1..Len(q) /\ q[k].kind = "process.exited")
          \/ (k = Len(q) + 1 /\ x.kind = "process.exited")
  BY <1>1
<1>3. 1..Len(q) \subseteq 1..Len(z) /\ Len(q) + 1 \in 1..Len(z)
  BY <1>1
<1> QED
  BY <1>2, <1>3 DEF z

\* The forwarder tells the exit, once.
LEMMA ForwardTold ==
  ASSUME TypeOK, WrapperTypes, RunInOrder, StreamOnce, BridgeOnce, Forward
  PROVE  StreamOnce' /\ BridgeOnce'
<1> DEFINE e == Head(events)
           x == [kind |-> Kind(e), from |-> "session"]
           y == FollowUp(e)
<1>1. /\ events # <<>> /\ events \in Seq(EventKinds) /\ events' = Tail(events) /\ e \in EventKinds
      /\ emitted \in Seq(BridgeEvents)
  BY DEF Forward, WrapperTypes
<1>2. /\ x \in BridgeEvents /\ y \in Seq(BridgeEvents)
      /\ \A k \in 1..Len(y) : y[k].kind # "process.exited"
      /\ x.kind = "process.exited" <=> e \in {"exit", "exitError"}
      /\ x.kind = Kind(e)
  <2>1. y \in Seq(BridgeEvents) /\ \A k \in 1..Len(y) : y[k].kind # "process.exited"
    BY <1>1, BridgedTypes
  <2>2. Kind(e) \in BridgeKinds /\ (Kind(e) = "process.exited" <=> e \in {"exit", "exitError"})
    BY <1>1, BridgedTypes
  <2> QED
    BY <2>1, <2>2 DEF BridgeEvents
<1>3. /\ emitted' = emitted \o <<x>> \o y
      /\ sawExit' = (sawExit \/ Kind(e) = "process.exited")
      /\ UNCHANGED <<run, drain, chan, client>>
      /\ forwarder = "ranging"
  BY DEF Forward, vars
<1>4. /\ \A i, j \in Exits(Tail(events)) : i = j
      /\ e \in {"exit", "exitError"} => Exits(Tail(events)) = {} /\ Exits(events) # {}
      /\ Exits(events) = {} => Exits(Tail(events)) = {}
  BY <1>1, ExitsTail DEF BridgeOnce
<1> HIDE DEF e, x, y
<1>5. \A k : k \in Told' <=> k \in Told \/ (k = Len(emitted) + 1 /\ e \in {"exit", "exitError"})
  BY <1>1, <1>2, <1>3, ToldAppend DEF Told
<1>6. run # "returned" /\ run' # "returned"
  BY <1>3 DEF RunInOrder
<1>7. sawExit \in BOOLEAN /\ (sawExit' <=> sawExit \/ e \in {"exit", "exitError"})
  BY <1>2, <1>3 DEF WrapperTypes
<1>8. InHand' <=> InHand
  BY <1>3 DEF InHand
<1>9. CASE e \in {"exit", "exitError"}
  <2>1. ~sawExit /\ Told = {} /\ Exits(events') = {} /\ sawExit'
    BY <1>1, <1>4, <1>6, <1>7, <1>9 DEF BridgeOnce
  <2>2. Exits(chan[S]) = {} /\ ~InHand /\ client[S].child \in {"exit", "exitError"}
    BY <1>4, <1>9 DEF StreamOnce
  <2>3. Told' # {} /\ \A j, k \in Told' : j = k
    BY <1>5, <1>9, <2>1
  <2> QED
    BY <1>3, <1>6, <1>8, <2>1, <2>2, <2>3 DEF StreamOnce, BridgeOnce
<1>10. CASE e \notin {"exit", "exitError"}
  <2>1. /\ \A k : k \in Told' <=> k \in Told
        /\ sawExit' <=> sawExit
    BY <1>5, <1>7, <1>10
  <2>2. Told' = Told
    BY <2>1
  <2>3. StreamOnce'
    BY <1>1, <1>3, <1>4, <1>8, <2>1 DEF StreamOnce
  <2>4. BridgeOnce'
    BY <1>1, <1>3, <1>4, <1>6, <2>1, <2>2 DEF BridgeOnce
  <2> QED
    BY <2>3, <2>4
<1> QED
  BY <1>9, <1>10

\* Run makes up the exit nobody told.
LEMMA ReturnTold ==
  ASSUME TypeOK, WrapperTypes, StreamOnce, BridgeOnce, RunReturn
  PROVE  StreamOnce' /\ BridgeOnce'
<1> DEFINE x == [kind |-> "process.exited", from |-> "run"]
<1>1. /\ UNCHANGED <<drain, chan, client, events, sawExit>> /\ run = "joined" /\ run' = "returned"
      /\ emitted' = IF sawExit THEN emitted ELSE Append(emitted, x)
      /\ emitted \in Seq(BridgeEvents)
  BY DEF RunReturn, vars, WrapperTypes
<1>2. x \in BridgeEvents /\ x.kind = "process.exited"
  BY DEF BridgeEvents, BridgeKinds
<1> HIDE DEF x
<1>3. StreamOnce'
  BY <1>1 DEF StreamOnce, InHand
<1>4. CASE sawExit
  <2>1. Told' = Told
    BY <1>1, <1>4 DEF Told
  <2> QED
    BY <1>1, <1>3, <1>4, <2>1 DEF BridgeOnce
<1>5. CASE ~sawExit
  <2>1. emitted' = Append(emitted, x) /\ Told = {}
    BY <1>1, <1>5 DEF BridgeOnce
  <2>2. /\ Len(emitted') = Len(emitted) + 1 /\ Len(emitted) \in Nat
        /\ \A k \in 1..Len(emitted) + 1 :
             emitted'[k] = IF k = Len(emitted) + 1 THEN x ELSE emitted[k]
    BY <1>1, <1>2, <2>1
  <2>3. \A k : k \in Told' <=> k = Len(emitted) + 1
    <3>1. ASSUME NEW k \in 1..Len(emitted) PROVE k \notin Told'
      BY <2>1, <2>2, <3>1 DEF Told
    <3>2. Len(emitted) + 1 \in Told'
      BY <1>2, <2>2 DEF Told
    <3>3. Told' \subseteq 1..Len(emitted) + 1
      BY <2>2 DEF Told
    <3>4. ASSUME NEW k \in Told' PROVE k = Len(emitted) + 1
      <4>1. k \in 1..Len(emitted) + 1 /\ k \notin 1..Len(emitted)
        BY <3>1, <3>3, <3>4
      <4> QED
        BY <2>2, <4>1
    <3> QED
      BY <3>2, <3>4
  <2> QED
    BY <1>1, <1>3, <2>3 DEF BridgeOnce
<1> QED
  BY <1>4, <1>5

\* Every step of the composition keeps the exit in one place.
LEMMA ExitKept ==
  ASSUME TypeOK, Consistent(S), WrapperTypes, RunInOrder, ExitInv, RunNext
  PROVE  ExitInv'
<1>0. StreamOnce /\ BridgeOnce
  BY ExitInvParts
<1>1. ASSUME StreamOnce', BridgeOnce' PROVE ExitInv'
  <2>1. Told' # {} <=> \E k \in 1..Len(emitted') : emitted'[k].kind = "process.exited"
    BY DEF Told
  <2>2. OneExit' <=> (\A j, k \in Told' : j = k) /\ (run' = "returned" => Told' # {})
    BY DEF OneExit, Told
  <2> QED
    BY <1>1, <2>1, <2>2 DEF ExitInv, ExitToldOnce, StreamOnce, BridgeOnce
<1>2. ASSUME Untold, UNCHANGED <<events, sawExit, emitted>>, run' = "returned" <=> run = "returned"
      PROVE  ExitInv'
  BY <1>0, <1>1, <1>2, StreamKept, BridgeUntouched
<1>3. CASE SessionAlone
  <2>1. UNCHANGED <<run, events, sawExit, emitted>>
    BY <1>3 DEF SessionAlone
  <2>2. \/ Untold \/ Register(S) \/ DrainObserve(S) \/ DrainReady(S) \/ DrainEnd(S)
        \/ \E e \in ChildFates : ClientExits(S, e)
    <3>1. CASE DrainObserve(S) \/ DrainReady(S) \/ DrainEnd(S)
      BY <3>1
    <3>2. CASE LaunchStep(S) \/ FinishStep(S) \/ DiagnosticStep(S) \/ ClientStep(S)
      BY <3>2, SessionStepTold
    <3> QED
      BY <1>3, <3>1, <3>2 DEF SessionAlone, LaunchStep
  <2> QED
    BY <1>0, <1>1, <2>1, <2>2, StreamKept, BridgeUntouched
<1>4. CASE RunPublish
  BY <1>0, <1>1, <1>4, PublishTold
<1>5. CASE Forward
  BY <1>0, <1>1, <1>5, ForwardTold
<1>6. CASE RunReturn
  BY <1>0, <1>1, <1>6, ReturnTold
<1>7. ASSUME Close(S) \/ Cancel(S) \/ Prompt(S) \/ PromptReturn(S) \/ UNCHANGED vars PROVE Untold
  <2>1. UNCHANGED <<chan, drain, client>>
    BY <1>7 DEF Close, Cancel, Prompt, PromptReturn, vars
  <2> QED
    BY <2>1 DEF Untold
<1>8. SessionClose => Untold
  BY <1>7 DEF SessionClose
<1>9. CASE RunLaunch
  <2>1. /\ UNCHANGED <<events, sawExit, emitted>> /\ Register(S)
        /\ run' # "returned" /\ run # "returned"
    BY <1>9 DEF RunLaunch, streamVars
  <2> QED
    BY <1>0, <1>1, <2>1, StreamKept, BridgeUntouched
<1>10. CASE RunRefused \/ RunCommit \/ RunLaunched \/ FirstPromptNotLive \/ FirstPrompt
            \/ FirstPromptReturn \/ GiveUp \/ GaveUp \/ RunServe \/ RunWaited \/ RunSealed
            \/ RunJoined
  <2>1. UNCHANGED <<events, sawExit, emitted>>
    BY <1>10 DEF RunRefused, RunCommit, RunLaunched, FirstPromptNotLive, FirstPrompt,
       FirstPromptReturn, GiveUp, GaveUp, RunServe, RunWaited, RunSealed, RunJoined, streamVars
  <2>2. Untold
    BY <1>7, <1>8, <1>10 DEF RunRefused, RunCommit, RunLaunched, FirstPromptNotLive,
       FirstPrompt, FirstPromptReturn, GiveUp, GaveUp, RunServe, RunWaited, RunSealed, RunJoined
  <2>3. run' # "returned" /\ run # "returned"
    BY <1>10 DEF RunRefused, RunCommit, RunLaunched, FirstPromptNotLive, FirstPrompt,
       FirstPromptReturn, GiveUp, GaveUp, RunServe, RunWaited, RunSealed, RunJoined, RunInOrder
  <2> QED
    BY <1>2, <2>1, <2>2, <2>3
<1>11. CASE ManagerClose \/ WatcherStep \/ ForwardEnd \/ CancelContext \/ Stop \/ StopReturn
            \/ CancelTurn
  <2>1. UNCHANGED <<events, sawExit, emitted, run>>
    BY <1>11 DEF ManagerClose, WatcherStep, WatcherInterrupts, WatcherDone, ForwardEnd,
       CancelContext, Stop, StopReturn, CancelTurn, runVars, streamVars
  <2>2. Untold
    BY <1>7, <1>8, <1>11 DEF ManagerClose, WatcherStep, WatcherInterrupts, WatcherDone,
       ForwardEnd, CancelContext, Stop, StopReturn, CancelTurn
  <2> QED
    BY <1>2, <2>1, <2>2
<1>12. ASSUME NEW i \in Inputs, SendInput(i) \/ InputStep(i) PROVE ExitInv'
  <2>1. UNCHANGED <<events, sawExit, emitted, run>>
    BY <1>12 DEF SendInput, InputStep, InputNotLive, InputPrompts, InputReturns, streamVars
  <2>2. Untold
    BY <1>7, <1>12 DEF SendInput, InputStep, InputNotLive, InputPrompts, InputReturns
  <2> QED
    BY <1>2, <2>1, <2>2
<1> QED
  BY <1>3, <1>4, <1>5, <1>6, <1>9, <1>10, <1>11, <1>12 DEF RunNext, RunStep, ForwarderStep

--------------------------------------------------------------------------------
(***************************************************************************)
(* The stream: how sequences go on.                                        *)
(***************************************************************************)

\* What is sent is in transit.
LEMMA GoesOnAppend ==
  ASSUME NEW q \in Seq(EventKinds), NEW t \in Seq(EventKinds), NEW n \in Nat, GoesOn(q, n, t),
         NEW e \in EventKinds
  PROVE  GoesOn(Append(q, e), n, Append(t, e))
<1>1. /\ Len(q) = n + Len(t) /\ Len(q) \in Nat /\ Len(t) \in Nat
      /\ \A k \in 1..Len(t) : t[k] = q[n + k]
  BY DEF GoesOn
<1>2. /\ Len(Append(q, e)) = Len(q) + 1 /\ Len(Append(t, e)) = Len(t) + 1
      /\ \A k \in 1..Len(q) : Append(q, e)[k] = q[k]
      /\ \A k \in 1..Len(t) : Append(t, e)[k] = t[k]
      /\ Append(q, e)[Len(q) + 1] = e /\ Append(t, e)[Len(t) + 1] = e
  OBVIOUS
<1>3. ASSUME NEW k \in 1..Len(t) + 1 PROVE Append(t, e)[k] = Append(q, e)[n + k]
  <2>1. CASE k = Len(t) + 1
    <3>1. n + k = Len(q) + 1
      BY <1>1, <2>1
    <3> QED
      BY <1>2, <2>1, <3>1
  <2>2. CASE k # Len(t) + 1
    <3>1. k \in 1..Len(t) /\ n + k \in 1..Len(q)
      BY <1>1, <2>2
    <3> QED
      BY <1>1, <1>2, <3>1
  <2> QED
    BY <2>1, <2>2
<1>4. Len(Append(q, e)) = n + Len(Append(t, e))
  BY <1>1, <1>2
<1> QED
  BY <1>2, <1>3, <1>4 DEF GoesOn

\* What is received is no longer.
LEMMA GoesOnTail ==
  ASSUME NEW q \in Seq(EventKinds), NEW t \in Seq(EventKinds), NEW n \in Nat, GoesOn(q, n, t),
         t # <<>>
  PROVE  GoesOn(q, n + 1, Tail(t)) /\ q[n + 1] = Head(t) /\ n + 1 <= Len(q)
<1>1. /\ Len(q) = n + Len(t) /\ Len(q) \in Nat /\ Len(t) \in Nat \ {0}
      /\ \A k \in 1..Len(t) : t[k] = q[n + k]
  BY DEF GoesOn
<1>2. /\ Len(Tail(t)) = Len(t) - 1 /\ Head(t) = t[1]
      /\ \A k \in 1..Len(t) - 1 : Tail(t)[k] = t[k + 1]
  OBVIOUS
<1>3. ASSUME NEW k \in 1..Len(t) - 1 PROVE Tail(t)[k] = q[n + 1 + k]
  <2>1. k + 1 \in 1..Len(t) /\ n + (k + 1) = n + 1 + k
    BY <1>1
  <2> QED
    BY <1>1, <1>2, <2>1
<1>4. Head(t) = q[n + 1]
  <2>1. 1 \in 1..Len(t)
    BY <1>1
  <2> QED
    BY <1>1, <1>2, <2>1
<1>5. Len(q) = n + 1 + Len(Tail(t)) /\ n + 1 <= Len(q)
  BY <1>1, <1>2
<1> QED
  BY <1>2, <1>3, <1>4, <1>5 DEF GoesOn

\* Grouping means nothing.
LEMMA ConcatGroups ==
  ASSUME NEW a \in Seq(EventKinds), NEW b \in Seq(EventKinds), NEW c \in Seq(EventKinds)
  PROVE  a \o b \o c = a \o (b \o c)
<1> DEFINE x == a \o b \o c
           y == a \o (b \o c)
<1>1. /\ x \in Seq(EventKinds) /\ y \in Seq(EventKinds)
      /\ Len(x) = Len(a) + Len(b) + Len(c) /\ Len(y) = Len(a) + Len(b) + Len(c)
  OBVIOUS
<1>2. \A k \in 1..Len(a) + Len(b) + Len(c) : x[k] = y[k]
  OBVIOUS
<1> HIDE DEF x, y
<1>3. x = y
  BY <1>1, <1>2
<1> QED
  BY <1>3 DEF x, y

\* A sequence is its head and its tail.
LEMMA HeadThenTail ==
  ASSUME NEW c \in Seq(EventKinds), c # <<>>
  PROVE  <<Head(c)>> \o Tail(c) = c
<1> DEFINE h == Head(c)
           d == Tail(c)
           x == <<h>> \o d
<1>1. /\ h \in EventKinds /\ d \in Seq(EventKinds) /\ Len(d) = Len(c) - 1 /\ h = c[1]
      /\ \A k \in 1..Len(c) - 1 : d[k] = c[k + 1]
      /\ Len(c) \in Nat \ {0}
  OBVIOUS
<1> HIDE DEF h, d
<1>2. /\ x \in Seq(EventKinds) /\ Len(x) = 1 + Len(d)
      /\ \A k \in 1..1 + Len(d) : x[k] = IF k = 1 THEN h ELSE d[k - 1]
  BY <1>1
<1> HIDE DEF x
<1>3. \A k \in 1..Len(c) : x[k] = c[k]
  BY <1>1, <1>2
<1>4. x = c
  BY <1>1, <1>2, <1>3
<1> QED
  BY <1>4 DEF x, h, d

\* What is appended behind an empty sequence in between.
LEMMA AppendThen ==
  ASSUME NEW a \in Seq(EventKinds), NEW e \in EventKinds, NEW c \in Seq(EventKinds)
  PROVE  Append(a, e) \o <<>> \o c = a \o <<e>> \o c
<1>1. Append(a, e) \in Seq(EventKinds) /\ Append(a, e) = a \o <<e>>
  OBVIOUS
<1>2. \A s \in Seq(EventKinds) : s \o <<>> = s
  OBVIOUS
<1> QED
  BY <1>1, <1>2

\* What was put in front comes off again.
LEMMA HeadOfCons ==
  ASSUME NEW h \in EventKinds, NEW w \in Seq(EventKinds)
  PROVE  <<h>> \o w # <<>> /\ Head(<<h>> \o w) = h /\ Tail(<<h>> \o w) = w
<1> DEFINE z == <<h>> \o w
<1>1. /\ z \in Seq(EventKinds) /\ Len(z) = 1 + Len(w) /\ Len(w) \in Nat
      /\ \A k \in 1..1 + Len(w) : z[k] = IF k = 1 THEN h ELSE w[k - 1]
  OBVIOUS
<1> HIDE DEF z
<1>2. z # <<>> /\ Head(z) = z[1]
  BY <1>1
<1>3. z[1] = h
  BY <1>1
<1> DEFINE x == Tail(z)
<1>4. x \in Seq(EventKinds) /\ Len(x) = Len(w) /\ \A k \in 1..Len(w) : x[k] = z[k + 1]
  BY <1>1, <1>2
<1> HIDE DEF x
<1>5. \A k \in 1..Len(w) : x[k] = w[k]
  BY <1>1, <1>4
<1>6. x = w
  BY <1>4, <1>5
<1> QED
  BY <1>2, <1>3, <1>6 DEF x, z

\* The head and the tail of a sequence with more behind it.
LEMMA HeadOfConcat ==
  ASSUME NEW a \in Seq(EventKinds), NEW b \in Seq(EventKinds), a # <<>>
  PROVE  /\ a \o b # <<>> /\ Head(a \o b) = Head(a)
         /\ Tail(a \o b) = Tail(a) \o b
<1> DEFINE h == Head(a)
           d == Tail(a)
<1>1. h \in EventKinds /\ d \in Seq(EventKinds)
  OBVIOUS
<1>2. <<h>> \o d = a
  BY HeadThenTail
<1> HIDE DEF h, d
<1>3. <<h>> \in Seq(EventKinds) /\ d \o b \in Seq(EventKinds)
  BY <1>1
<1>4. a \o b = <<h>> \o (d \o b)
  <2> DEFINE g == <<h>>
  <2>1. g \in Seq(EventKinds) /\ g \o d = a
    BY <1>2, <1>3
  <2> HIDE DEF g
  <2>2. g \o d \o b = g \o (d \o b)
    BY <1>1, <2>1, ConcatGroups
  <2> QED
    BY <2>1, <2>2 DEF g
<1>5. a \o b # <<>> /\ Head(a \o b) = h /\ Tail(a \o b) = d \o b
  BY <1>1, <1>3, <1>4, HeadOfCons
<1> QED
  BY <1>5 DEF h, d

--------------------------------------------------------------------------------
(***************************************************************************)
(* The stream: the session's events on the bridge.                         *)
(***************************************************************************)

\* They can be counted, and their places are those counts.
LEMMA PlacesBounded ==
  ASSUME emitted \in Seq(BridgeEvents)
  PROVE  /\ IsFiniteSet(FromSession) /\ Forwarded \in Nat
         /\ \A k \in FromSession : Place(k) \in 1..Forwarded
<1>1. Len(emitted) \in Nat /\ FromSession \subseteq 1..Len(emitted)
  BY DEF FromSession
<1>2. IsFiniteSet(1..Len(emitted))
  BY <1>1, FS_Interval
<1>3. IsFiniteSet(FromSession)
  BY <1>1, <1>2, FS_Subset
<1>4. Forwarded \in Nat
  BY <1>3, FS_CardinalityType DEF Forwarded
<1>5. ASSUME NEW k \in FromSession PROVE Place(k) \in 1..Forwarded
  <2> DEFINE Upto == FromSession \cap (1..k)
  <2>1. IsFiniteSet(Upto) /\ Cardinality(Upto) <= Cardinality(FromSession)
    BY <1>3, FS_Subset
  <2>2. k \in Upto
    BY <1>1
  <2>3. Cardinality(Upto) \in Nat /\ Cardinality(Upto) # 0
    BY <2>1, <2>2, FS_CardinalityType, FS_EmptySet
  <2> HIDE DEF Upto
  <2>4. Cardinality(Upto) \in 1..Cardinality(FromSession)
    BY <1>4, <2>1, <2>3 DEF Forwarded
  <2> QED
    BY <2>4 DEF Place, Forwarded, Upto
<1> QED
  BY <1>3, <1>4, <1>5

\* A suffix that Run added itself changes none of this.
LEMMA PlacesUnmoved ==
  ASSUME UNCHANGED FromSession
  PROVE  Forwarded' = Forwarded /\ \A k : Place(k)' = Place(k)
  BY DEF Forwarded, Place

\* An event of the session's comes next.
LEMMA PlacesAppend ==
  ASSUME emitted \in Seq(BridgeEvents), NEW x \in BridgeEvents, NEW y \in Seq(BridgeEvents),
         x.from = "session", \A k \in 1..Len(y) : y[k].from = "run",
         emitted' = emitted \o <<x>> \o y
  PROVE  /\ FromSession' = FromSession \cup {Len(emitted) + 1}
         /\ Forwarded' = Forwarded + 1
         /\ \A k \in FromSession : Place(k)' = Place(k) /\ emitted'[k] = emitted[k]
         /\ \A k : k = Len(emitted) + 1 => Place(k)' = Forwarded + 1 /\ emitted'[k] = x
<1> DEFINE m == Len(emitted) + 1
           z == emitted \o <<x>> \o y
<1>1. /\ Len(emitted) \in Nat /\ Len(y) \in Nat /\ Len(z) = m + Len(y)
      /\ \A k \in 1..Len(z) : z[k] = IF k <= Len(emitted) THEN emitted[k]
                                     ELSE IF k = m THEN x ELSE y[k - m]
  OBVIOUS
<1> HIDE DEF z
<1>2. \A k \in 1..Len(z) : z[k].from = "session" <=>
          (k \in 1..Len(emitted) /\ emitted[k].from = "session") \/ k = m
  <2> TAKE k \in 1..Len(z)
  <2>1. CASE k <= Len(emitted)
    BY <1>1, <2>1
  <2>2. CASE k = m
    BY <1>1, <2>2
  <2>3. CASE k > m
    <3>1. k - m \in 1..Len(y) /\ z[k] = y[k - m] /\ k \notin 1..Len(emitted) /\ k # m
      BY <1>1, <2>3
    <3>2. z[k].from = "run"
      BY <3>1
    <3> QED
      BY <3>1, <3>2
  <2>4. k <= Len(emitted) \/ k = m \/ k > m
    BY <1>1
  <2> QED
    BY <2>1, <2>2, <2>3, <2>4
<1>3. 1..Len(emitted) \subseteq 1..Len(z) /\ m \in 1..Len(z) /\ m \notin 1..Len(emitted)
  BY <1>1
<1>4. emitted' = z
  BY DEF z
<1>5. FromSession' = FromSession \cup {m}
  BY <1>2, <1>3, <1>4 DEF FromSession
<1>6. m \notin FromSession /\ IsFiniteSet(FromSession)
  BY <1>3, PlacesBounded DEF FromSession
<1>7. Forwarded' = Forwarded + 1
  BY <1>5, <1>6, FS_AddElement DEF Forwarded
<1>8. ASSUME NEW k \in FromSession PROVE Place(k)' = Place(k) /\ emitted'[k] = emitted[k]
  <2>1. k \in 1..Len(emitted) /\ m \notin 1..k
    BY <1>1 DEF FromSession
  <2>2. FromSession' \cap (1..k) = FromSession \cap (1..k)
    BY <1>5, <2>1
  <2>3. z[k] = emitted[k]
    BY <1>1, <1>3, <2>1
  <2> QED
    BY <1>4, <2>2, <2>3 DEF Place
<1>9. ASSUME NEW k, k = m PROVE Place(k)' = Forwarded + 1 /\ emitted'[k] = x
  <2>1. FromSession' \subseteq 1..k
    BY <1>1, <1>5, <1>9 DEF FromSession
  <2>2. FromSession' \cap (1..k) = FromSession'
    BY <2>1
  <2>3. Place(k)' = Forwarded'
    BY <2>2 DEF Place, Forwarded
  <2>4. z[k] = x
    BY <1>1, <1>3, <1>9
  <2> QED
    BY <1>4, <1>7, <2>3, <2>4
<1> QED
  BY <1>5, <1>7, <1>8, <1>9

--------------------------------------------------------------------------------
(***************************************************************************)
(* The stream: every step.                                                 *)
(***************************************************************************)

\* What is on the bridge of the session's events is what was sent first.
Delivered ==
  ~dropped =>
    /\ Forwarded <= Len(sent)
    /\ \A k \in FromSession : emitted[k].kind = Kind(sent[Place(k)])

\* The sequences ...
OnItsWay == ~dropped /\ ~LaunchGaveUp => GoesOn(sent, Forwarded, InTransit)

\* ... and the stages.
StreamStages ==
  /\ run = "preparing" => drain[S].at = "idle"
  /\ run \notin {"preparing", "launching", "refused"} => launching[S] = "returned"
  /\ forwarder = "off" => FromSession = {}
  /\ forwarder # "off" => run \in {"waiting", "waited", "sealed", "joined", "returned"}
  /\ forwarder = "done" => events = <<>> /\ channels[S].eventsClosed

StreamInv == Delivered /\ OnItsWay /\ StreamStages

LEMMA StreamParts == StreamInOrder <=> OnItsWay /\ StreamStages
  BY DEF StreamInOrder, OnItsWay, StreamStages

\* What the client sends reaches its channel and the history alike.
Sends ==
  \/ chan'[S] = chan[S] /\ sent' = sent
  \/ \E e \in EventKinds : chan'[S] = Append(chan[S], e) /\ sent' = Append(sent, e)

LEMMA SendSent ==
  ASSUME TypeOK, NEW e \in EventKinds, Send(S, e), sent' = Sent
  PROVE  Sends
<1>1. chan[S] \in Seq(EventKinds) /\ chan \in [Sessions -> Seq(EventKinds)]
  BY OneSession DEF TypeOK
<1>2. CASE chan' = [chan EXCEPT ![S] = Append(@, e)]
  <2>1. chan'[S] = Append(chan[S], e)
    BY <1>1, <1>2, OneSession
  <2>2. /\ Len(Append(chan[S], e)) > Len(chan[S])
        /\ Append(chan[S], e)[Len(Append(chan[S], e))] = e
    BY <1>1
  <2>3. sent' = Append(sent, e)
    BY <2>1, <2>2 DEF Sent, Last
  <2> QED
    BY <2>1, <2>3 DEF Sends
<1>3. CASE chan' = chan
  <2>1. ~(Len(chan[S]) > Len(chan[S]))
    BY <1>1
  <2> QED
    BY <1>3, <2>1 DEF Sends, Sent
<1> QED
  BY <1>2, <1>3 DEF Send

\* A session that leaves its channel alone sends nothing.
LEMMA SilentSends ==
  ASSUME TypeOK, UNCHANGED chan, sent' = Sent
  PROVE  Sends
<1>1. Len(chan[S]) \in Nat
  BY OneSession DEF TypeOK
<1> QED
  BY <1>1 DEF Sends, Sent

\* Apart from drain's, every step of the session sends one event or none.
LEMMA SessionSends ==
  ASSUME TypeOK, sent' = Sent,
         \/ LaunchCommit(S) \/ LaunchAbort(S) \/ LaunchDone(S) \/ LaunchFailed(S)
         \/ FinishStep(S) \/ DiagnosticStep(S) \/ ClientStep(S)
  PROVE  Sends /\ drain' = drain
<1>1. CASE \/ LaunchCommit(S) \/ LaunchAbort(S) \/ LaunchDone(S) \/ LaunchFailed(S)
           \/ FinishStep(S) \/ DiagnosticStep(S)
  <2>1. UNCHANGED <<chan, drain>>
    BY <1>1 DEF LaunchCommit, LaunchAbort, LaunchDone, LaunchFailed,
       FinishStep, FinishBegin, FinishClassify, FinishUnregister, FinishEvents,
       FinishDiagnostics, FinishDone, DiagnosticStep, DiagnosticBegin, DiagnosticSend, DiagnosticEnd
  <2> QED
    BY <2>1, SilentSends
<1>2. CASE CloseClient(S) \/ ClientClosed(S) \/ ClientRefuses(S) \/ ClientTurnEnds(S) \/ ClientCloses(S)
  <2>1. UNCHANGED <<chan, drain>>
    BY <1>2 DEF CloseClient, ClientClosed, ClientRefuses, ClientTurnEnds, ClientCloses
  <2> QED
    BY <2>1, SilentSends
<1>3. CASE ClientLaunch(S) \/ ClientAdmits(S) \/ ClientWrites(S)
  <2>1. /\ drain' = drain
        /\ UNCHANGED chan \/ \E e \in {"ready", "started", "failed"} : Send(S, e)
    BY <1>3 DEF ClientLaunch, ClientAdmits, ClientWrites
  <2>2. {"ready", "started", "failed"} \subseteq EventKinds
    BY DEF EventKinds
  <2> QED
    BY <2>1, <2>2, SilentSends, SendSent
<1>4. ASSUME NEW e \in {"completed", "failed"}, ClientReports(S, e) PROVE Sends /\ drain' = drain
  BY <1>4, SendSent DEF ClientReports, EventKinds
<1>5. ASSUME NEW e \in ChildFates, ClientExits(S, e) PROVE Sends /\ drain' = drain
  <2>1. drain' = drain /\ (UNCHANGED chan \/ (e # "disconnect" /\ Send(S, e)))
    BY <1>5 DEF ClientExits
  <2>2. e # "disconnect" => e \in EventKinds
    BY SessionConstants DEF EventKinds
  <2> QED
    BY <2>1, <2>2, SilentSends, SendSent
<1> QED
  BY <1>1, <1>2, <1>3, <1>4, <1>5 DEF ClientStep

\* A launch that has returned, or is giving up, goes back on neither.
LEMMA LaunchStaysOver ==
  ASSUME TypeOK, SessionAlone
  PROVE  /\ launching[S] = "returned" => launching'[S] = "returned"
         /\ LaunchGaveUp => LaunchGaveUp'
<1>1. launching \in [Sessions -> LaunchStages] /\ S \in Sessions
  BY OneSession DEF TypeOK
<1>2. CASE LaunchDone(S) \/ LaunchFailed(S) \/ LaunchCommit(S)
  BY <1>1, <1>2 DEF LaunchDone, LaunchFailed, LaunchCommit, LaunchGaveUp
<1>3. CASE LaunchAbort(S)
  BY <1>1, <1>3 DEF LaunchAbort, LaunchGaveUp
<1>4. CASE DrainObserve(S) \/ DrainReady(S) \/ DrainEnd(S) \/ FinishStep(S) \/ DiagnosticStep(S)
  <2>1. launching' = launching
    BY <1>4 DEF DrainObserve, DrainReady, DrainEnd, FinishStep, FinishBegin, FinishClassify,
       FinishUnregister, FinishEvents, FinishDiagnostics, FinishDone, DiagnosticStep,
       DiagnosticBegin, DiagnosticSend, DiagnosticEnd
  <2> QED
    BY <2>1 DEF LaunchGaveUp
<1>5. CASE ClientStep(S)
  <2>1. CASE ClientLaunch(S)
    BY <1>1, <2>1 DEF ClientLaunch, LaunchGaveUp
  <2>2. CASE ~ClientLaunch(S)
    <3>1. launching' = launching
      BY <1>5, <2>2 DEF ClientStep, CloseClient, ClientClosed, ClientAdmits, ClientWrites,
         ClientRefuses, ClientTurnEnds, ClientReports, ClientExits, ClientCloses
    <3> QED
      BY <3>1 DEF LaunchGaveUp
  <2> QED
    BY <2>1, <2>2
<1> QED
  BY <1>2, <1>3, <1>4, <1>5 DEF SessionAlone

\* What is in transit, and its parts, are events.
LEMMA TransitTyped ==
  ASSUME TypeOK, WrapperTypes
  PROVE  /\ events \in Seq(EventKinds) /\ Hand \in Seq(EventKinds) /\ chan[S] \in Seq(EventKinds)
         /\ InTransit \in Seq(EventKinds) /\ sent \in Seq(EventKinds) /\ emitted \in Seq(BridgeEvents)
         /\ drain[S].event \in EventKinds /\ drain[S] \in DrainStates
<1>1. drain[S] \in DrainStates /\ chan[S] \in Seq(EventKinds)
  BY OneSession DEF TypeOK
<1>2. drain[S].event \in EventKinds
  BY <1>1 DEF DrainStates
<1>3. Hand \in Seq(EventKinds)
  <2>1. <<drain[S].event>> \in Seq(EventKinds) /\ <<>> \in Seq(EventKinds)
    BY <1>2
  <2> QED
    BY <2>1 DEF Hand
<1>4. events \in Seq(EventKinds) /\ sent \in Seq(EventKinds) /\ emitted \in Seq(BridgeEvents)
  BY DEF WrapperTypes
<1>5. InTransit \in Seq(EventKinds)
  BY <1>1, <1>3, <1>4 DEF InTransit
<1> QED
  BY <1>1, <1>2, <1>3, <1>4, <1>5

\* Nothing moves.
LEMMA StreamStill ==
  ASSUME Delivered, OnItsWay, LaunchGaveUp => LaunchGaveUp',
         UNCHANGED <<emitted, sent, dropped, InTransit>>
  PROVE  Delivered' /\ OnItsWay' /\ FromSession' = FromSession
<1>1. FromSession' = FromSession
  BY DEF FromSession
<1>2. Forwarded' = Forwarded /\ \A k : Place(k)' = Place(k)
  BY <1>1, PlacesUnmoved
<1>3. Delivered'
  BY <1>1, <1>2 DEF Delivered
<1>4. OnItsWay'
  BY <1>2 DEF OnItsWay, GoesOn
<1> QED
  BY <1>1, <1>3, <1>4

\* One more event is sent.
LEMMA StreamGrows ==
  ASSUME TypeOK, WrapperTypes, Delivered, OnItsWay, LaunchGaveUp => LaunchGaveUp',
         NEW e \in EventKinds, UNCHANGED <<events, emitted, dropped, Hand>>,
         chan'[S] = Append(chan[S], e), sent' = Append(sent, e)
  PROVE  Delivered' /\ OnItsWay' /\ FromSession' = FromSession
<1>1. FromSession' = FromSession
  BY DEF FromSession
<1>2. Forwarded' = Forwarded /\ \A k : Place(k)' = Place(k)
  BY <1>1, PlacesUnmoved
<1>3. /\ events \in Seq(EventKinds) /\ Hand \in Seq(EventKinds) /\ chan[S] \in Seq(EventKinds)
      /\ InTransit \in Seq(EventKinds) /\ sent \in Seq(EventKinds) /\ emitted \in Seq(BridgeEvents)
  BY TransitTyped
<1>4. Forwarded \in Nat /\ \A k \in FromSession : Place(k) \in 1..Forwarded
  BY <1>3, PlacesBounded
<1>5. InTransit' = Append(InTransit, e)
  <2>1. InTransit' = events \o Hand \o Append(chan[S], e)
    BY DEF InTransit
  <2> DEFINE a == events \o Hand
             c == chan[S]
  <2>2. a \in Seq(EventKinds) /\ c \in Seq(EventKinds)
    BY <1>3
  <2> HIDE DEF a, c
  <2>3. a \o Append(c, e) = Append(a \o c, e)
    BY <2>2
  <2> QED
    BY <2>1, <2>3 DEF a, c, InTransit
<1>6. OnItsWay'
  <2>1. ASSUME ~dropped, ~LaunchGaveUp PROVE GoesOn(sent', Forwarded', InTransit')
    <3>1. GoesOn(sent, Forwarded, InTransit)
      BY <2>1 DEF OnItsWay
    <3>2. GoesOn(Append(sent, e), Forwarded, Append(InTransit, e))
      BY <1>3, <1>4, <3>1, GoesOnAppend
    <3> QED
      BY <1>2, <1>5, <3>2
  <2> QED
    BY <2>1 DEF OnItsWay, GoesOn
<1>7. Delivered'
  <2> SUFFICES ASSUME ~dropped
               PROVE  /\ Forwarded <= Len(sent')
                      /\ \A k \in FromSession : emitted[k].kind = Kind(sent'[Place(k)])
    BY <1>1, <1>2 DEF Delivered
  <2>1. /\ Len(sent') = Len(sent) + 1 /\ Len(sent) \in Nat
        /\ \A j \in 1..Len(sent) : sent'[j] = sent[j]
    BY <1>3
  <2>2. Forwarded <= Len(sent) /\ \A k \in FromSession : emitted[k].kind = Kind(sent[Place(k)])
    BY DEF Delivered
  <2>3. \A k \in FromSession : Place(k) \in 1..Len(sent)
    BY <1>4, <2>1, <2>2
  <2>4. \A k \in FromSession : sent'[Place(k)] = sent[Place(k)]
    BY <2>1, <2>3
  <2>5. Forwarded <= Len(sent')
    BY <1>4, <2>1, <2>2
  <2> QED
    BY <2>2, <2>4, <2>5
<1> QED
  BY <1>1, <1>6, <1>7

\* The session's own steps.
LEMMA AloneStream ==
  ASSUME TypeOK, WrapperTypes, Consistent(S), Delivered, OnItsWay, SessionAlone
  PROVE  Delivered' /\ OnItsWay' /\ FromSession' = FromSession
<1>1. /\ UNCHANGED <<events, emitted, dropped>> /\ sent' = Sent
      /\ LaunchGaveUp => LaunchGaveUp'
  BY LaunchStaysOver DEF SessionAlone
<1>2. /\ drain \in [Sessions -> DrainStates] /\ S \in Sessions
      /\ chan \in [Sessions -> Seq(EventKinds)]
  BY OneSession DEF TypeOK
<1>3. CASE \/ LaunchCommit(S) \/ LaunchAbort(S) \/ LaunchDone(S) \/ LaunchFailed(S)
           \/ FinishStep(S) \/ DiagnosticStep(S) \/ ClientStep(S)
  <2>1. Sends /\ Hand' = Hand
    BY <1>1, <1>3, SessionSends DEF Hand
  <2>2. CASE chan'[S] = chan[S] /\ sent' = sent
    <3>1. InTransit' = InTransit
      BY <1>1, <2>1, <2>2 DEF InTransit
    <3> QED
      BY <1>1, <2>2, <3>1, StreamStill
  <2>3. ASSUME NEW e \in EventKinds, chan'[S] = Append(chan[S], e), sent' = Append(sent, e)
        PROVE  Delivered' /\ OnItsWay' /\ FromSession' = FromSession
    BY <1>1, <2>1, <2>3, StreamGrows
  <2> QED
    BY <2>1, <2>2, <2>3 DEF Sends
<1>4. CASE DrainObserve(S)
  <2> DEFINE c == chan[S]
  <2>1. /\ drain[S].at = "reading" /\ c # <<>> /\ chan'[S] = Tail(c)
        /\ drain'[S].event = Head(c) /\ drain'[S].at \in {"holding", "publishing"}
    BY <1>2, <1>4 DEF DrainObserve
  <2>2. c \in Seq(EventKinds)
    BY <1>2
  <2>3. Hand = <<>> /\ Hand' = <<Head(c)>>
    BY <2>1 DEF Hand
  <2>4. /\ events \in Seq(EventKinds)
        /\ InTransit = events \o <<>> \o c /\ InTransit' = events \o <<Head(c)>> \o Tail(c)
    BY <1>1, <2>1, <2>3, TransitTyped DEF InTransit
  <2>5. ~(Len(Tail(c)) > Len(c))
    BY <2>1, <2>2
  <2>6. sent' = sent
    BY <1>1, <2>1, <2>5 DEF Sent
  <2>7. Head(c) \in EventKinds /\ Tail(c) \in Seq(EventKinds)
    BY <2>1, <2>2
  <2> HIDE DEF c
  <2>8. events \o <<Head(c)>> \o Tail(c) = events \o <<>> \o c
    <3> DEFINE h == <<Head(c)>>
               d == Tail(c)
    <3>1. h \in Seq(EventKinds) /\ d \in Seq(EventKinds) /\ h \o d = c
      BY <2>1, <2>2, <2>7, HeadThenTail
    <3> HIDE DEF h, d
    <3>2. events \o h \o d = events \o c
      BY <2>4, <3>1, ConcatGroups
    <3>3. events \o <<>> = events
      BY <2>4
    <3> QED
      BY <3>2, <3>3 DEF h, d
  <2>9. InTransit' = InTransit
    BY <2>4, <2>8
  <2> QED
    BY <1>1, <2>6, <2>9, StreamStill
<1>5. CASE DrainReady(S)
  <2>1. /\ drain[S].at = "holding" /\ drain'[S].event = drain[S].event /\ chan' = chan
        /\ channels[S].launchDone /\ launching' = launching
        /\ drain'[S].at = IF sess[S].launchCommitted THEN "publishing" ELSE "reading"
    BY <1>2, <1>5 DEF DrainReady, DrainStates
  <2>2. sent' = sent
    BY <1>1, <1>2, <2>1 DEF Sent
  <2>3. CASE sess[S].launchCommitted
    <3>1. Hand' = Hand
      BY <2>1, <2>3 DEF Hand
    <3>2. InTransit' = InTransit
      BY <1>1, <2>1, <3>1 DEF InTransit
    <3> QED
      BY <1>1, <2>2, <3>2, StreamStill
  <2>4. CASE ~sess[S].launchCommitted
    <3>1. LaunchGaveUp'
      <4>1. FinishInOrder(S) /\ TurnsAfterCommit(S)
        BY DEF Consistent
      <4>2. launching[S] \in {"finishing", "failed"}
        BY <2>1, <2>4, <4>1 DEF FinishInOrder, TurnsAfterCommit
      <4> QED
        BY <2>1, <4>2 DEF LaunchGaveUp
    <3>2. OnItsWay'
      BY <3>1 DEF OnItsWay
    <3>3. FromSession' = FromSession
      BY <1>1 DEF FromSession
    <3>4. Delivered'
      BY <1>1, <2>2, <3>3, PlacesUnmoved DEF Delivered
    <3> QED
      BY <3>2, <3>3, <3>4
  <2> QED
    BY <2>3, <2>4
<1>6. CASE DrainEnd(S)
  <2>1. drain[S].at = "reading" /\ drain'[S].at = "ended" /\ chan' = chan
    BY <1>2, <1>6 DEF DrainEnd, DrainStates
  <2>2. sent' = sent /\ Hand' = Hand
    BY <1>1, <1>2, <2>1 DEF Sent, Hand
  <2>3. InTransit' = InTransit
    BY <1>1, <2>1, <2>2 DEF InTransit
  <2> QED
    BY <1>1, <2>2, <2>3, StreamStill
<1> QED
  BY <1>3, <1>4, <1>5, <1>6 DEF SessionAlone

\* A session whose event channel is closed has nothing more to say, unless its
\* launch failed.
LEMMA ClosedIsEmpty ==
  ASSUME Consistent(S), channels[S].eventsClosed, ~LaunchGaveUp
  PROVE  drain[S].at = "ended" /\ chan[S] = <<>> /\ Hand = <<>>
<1>1. FinishInOrder(S) /\ ClientEndsInOrder(S)
  BY DEF Consistent
<1>2. drain[S].at = "ended" /\ chan[S] = <<>>
  BY <1>1 DEF FinishInOrder, ClientEndsInOrder, LaunchGaveUp
<1> QED
  BY <1>2 DEF Hand

\* publish passes the event on, or drops it.
LEMMA PublishStream ==
  ASSUME TypeOK, WrapperTypes, Consistent(S), StreamInv, RunPublish
  PROVE  StreamInv'
<1>1. /\ UNCHANGED <<run, forwarder, emitted, sent, channels, chan, launching>>
      /\ drain[S].at = "publishing" /\ drain'[S].at = "reading"
      /\ LaunchGaveUp' = LaunchGaveUp
  BY OneSession DEF RunPublish, Publish, TypeOK, DrainStates, LaunchGaveUp
<1>2. FromSession' = FromSession
  BY <1>1 DEF FromSession
<1> DEFINE full == Len(events) >= EventsCap
           skip == channels[S].eventsClosed
<1>3. /\ events' = IF full \/ skip THEN events ELSE Append(events, drain[S].event)
      /\ dropped' = (dropped \/ (full /\ ~skip))
  BY DEF RunPublish
<1>4. StreamStages'
  <2>1. forwarder = "done" => events' = <<>> /\ channels[S].eventsClosed
    BY <1>3 DEF StreamInv, StreamStages
  <2>2. run # "preparing"
    BY <1>1 DEF StreamInv, StreamStages
  <2> QED
    BY <1>1, <1>2, <2>1, <2>2 DEF StreamInv, StreamStages
<1>5. Delivered'
  <2>1. Forwarded' = Forwarded /\ \A k : Place(k)' = Place(k)
    BY <1>2, PlacesUnmoved
  <2>2. ~dropped' => ~dropped
    BY <1>3
  <2> QED
    BY <1>1, <1>2, <2>1, <2>2 DEF Delivered, StreamInv
<1>6. OnItsWay'
  <2> SUFFICES ASSUME ~dropped', ~LaunchGaveUp' PROVE OnItsWay'
    BY DEF OnItsWay
  <2>1. ~dropped /\ ~LaunchGaveUp
    BY <1>1, <1>3 DEF WrapperTypes
  <2>2. ~skip
    BY <1>1, <2>1, ClosedIsEmpty
  <2>3. ~full
    BY <1>3, <2>2 DEF WrapperTypes
  <2>4. events' = Append(events, drain[S].event)
    BY <1>3, <2>2, <2>3
  <2>5. Hand = <<drain[S].event>> /\ Hand' = <<>>
    BY <1>1 DEF Hand
  <2> DEFINE e == drain[S].event
             c == chan[S]
  <2>6. /\ InTransit = events \o <<e>> \o c /\ InTransit' = Append(events, e) \o <<>> \o c
        /\ events \in Seq(EventKinds) /\ e \in EventKinds /\ c \in Seq(EventKinds)
    BY <1>1, <2>4, <2>5, TransitTyped DEF InTransit
  <2> HIDE DEF e, c
  <2>7. InTransit' = InTransit
    BY <2>6, AppendThen
  <2>8. dropped' = dropped
    BY <1>3, <2>2, <2>3 DEF WrapperTypes
  <2> QED
    BY <1>1, <2>7, <2>8, StreamStill DEF StreamInv
<1> QED
  BY <1>4, <1>5, <1>6 DEF StreamInv

\* The forwarder takes the oldest event there is.
LEMMA ForwardStream ==
  ASSUME TypeOK, WrapperTypes, StreamInv, Forward
  PROVE  StreamInv'
<1> DEFINE e == Head(events)
           x == [kind |-> Kind(e), from |-> "session"]
           y == FollowUp(e)
<1>1. /\ events # <<>> /\ events \in Seq(EventKinds) /\ events' = Tail(events) /\ e \in EventKinds
      /\ emitted \in Seq(BridgeEvents) /\ sent \in Seq(EventKinds)
  BY DEF Forward, WrapperTypes
<1>2. /\ UNCHANGED <<run, drain, chan, channels, launching, sent, dropped, forwarder>>
      /\ forwarder = "ranging"
      /\ emitted' = emitted \o <<x>> \o y
  BY DEF Forward, vars
<1>3. /\ x \in BridgeEvents /\ x.from = "session" /\ x.kind = Kind(e)
      /\ y \in Seq(BridgeEvents) /\ \A k \in 1..Len(y) : y[k].from = "run"
  <2>1. /\ y \in Seq(BridgeEvents) /\ \A k \in 1..Len(y) : y[k].from = "run"
        /\ Kind(e) \in BridgeKinds
    BY <1>1, BridgedTypes
  <2> QED
    BY <2>1 DEF BridgeEvents
<1> HIDE DEF x, y
<1>4. /\ FromSession' = FromSession \cup {Len(emitted) + 1}
      /\ Forwarded' = Forwarded + 1
      /\ \A k \in FromSession : Place(k)' = Place(k) /\ emitted'[k] = emitted[k]
      /\ \A k : k = Len(emitted) + 1 => Place(k)' = Forwarded + 1 /\ emitted'[k] = x
  BY <1>1, <1>2, <1>3, PlacesAppend
<1>5. StreamStages'
  BY <1>2 DEF StreamInv, StreamStages
<1>6. Forwarded \in Nat
  BY <1>1, PlacesBounded
<1>7. ~LaunchGaveUp /\ (LaunchGaveUp' = LaunchGaveUp)
  <2>1. run \in {"waiting", "waited", "sealed", "joined", "returned"}
    BY <1>2 DEF StreamInv, StreamStages
  <2>2. launching[S] = "returned"
    BY <2>1 DEF StreamInv, StreamStages
  <2> QED
    BY <1>2, <2>2 DEF LaunchGaveUp
<1>8. ASSUME ~dropped
      PROVE  /\ GoesOn(sent, Forwarded + 1, Tail(InTransit)) /\ sent[Forwarded + 1] = e
             /\ Forwarded + 1 <= Len(sent) /\ InTransit' = Tail(InTransit)
  <2>1. GoesOn(sent, Forwarded, InTransit)
    BY <1>7, <1>8 DEF StreamInv, OnItsWay
  <2> DEFINE h == Hand
             c == chan[S]
             ht == h \o c
  <2>2. h \in Seq(EventKinds) /\ c \in Seq(EventKinds) /\ ht \in Seq(EventKinds)
    BY TransitTyped
  <2>3. Hand' = h
    BY <1>2 DEF Hand
  <2>4. InTransit = events \o h \o c /\ InTransit' = Tail(events) \o h \o c
    BY <1>1, <1>2, <2>3 DEF InTransit
  <2>5. Tail(events) \in Seq(EventKinds)
    BY <1>1
  <2> HIDE DEF h, c
  <2>6. InTransit = events \o ht /\ InTransit' = Tail(events) \o ht
    <3>1. events \o h \o c = events \o ht
      BY <1>1, <2>2, ConcatGroups
    <3>2. Tail(events) \o h \o c = Tail(events) \o ht
      <4> DEFINE d == Tail(events)
      <4>1. d \in Seq(EventKinds)
        BY <2>5
      <4> HIDE DEF d
      <4>2. d \o h \o c = d \o ht
        BY <2>2, <4>1, ConcatGroups
      <4> QED
        BY <4>2 DEF d
    <3> HIDE DEF ht
    <3> QED
      BY <2>4, <3>1, <3>2
  <2> HIDE DEF ht, e
  <2>7. /\ events \o ht # <<>> /\ Head(events \o ht) = Head(events)
        /\ Tail(events \o ht) = Tail(events) \o ht
    BY <1>1, <2>2, HeadOfConcat
  <2>8. InTransit # <<>> /\ Head(InTransit) = e /\ InTransit' = Tail(InTransit)
    BY <2>6, <2>7 DEF e
  <2>9. InTransit \in Seq(EventKinds)
    BY TransitTyped
  <2> QED
    BY <1>1, <1>6, <2>1, <2>8, <2>9, GoesOnTail
<1>9. OnItsWay'
  <2> SUFFICES ASSUME ~dropped PROVE GoesOn(sent', Forwarded', InTransit')
    BY <1>2 DEF OnItsWay
  <2> QED
    BY <1>2, <1>4, <1>8
<1>10. Delivered'
  <2> SUFFICES ASSUME ~dropped
               PROVE  /\ Forwarded' <= Len(sent)
                      /\ \A k \in FromSession' : emitted'[k].kind = Kind(sent[Place(k)'])
    BY <1>2 DEF Delivered
  <2>1. \A k \in FromSession : emitted'[k].kind = Kind(sent[Place(k)'])
    BY <1>4 DEF StreamInv, Delivered
  <2>2. \A k : k = Len(emitted) + 1 => emitted'[k].kind = Kind(sent[Place(k)'])
    BY <1>3, <1>4, <1>8
  <2>3. Forwarded' <= Len(sent)
    BY <1>4, <1>8
  <2> QED
    BY <1>4, <2>1, <2>2, <2>3
<1> QED
  BY <1>5, <1>9, <1>10 DEF StreamInv

\* An exit that Run makes up is not the session's.
LEMMA ReturnStream ==
  ASSUME TypeOK, WrapperTypes, StreamInv, RunReturn
  PROVE  StreamInv'
<1> DEFINE x == [kind |-> "process.exited", from |-> "run"]
<1>1. /\ UNCHANGED <<drain, chan, channels, launching, events, sent, dropped, forwarder>>
      /\ run = "joined" /\ run' = "returned" /\ forwarder = "done"
      /\ emitted' = emitted \/ emitted' = Append(emitted, x)
      /\ emitted \in Seq(BridgeEvents)
  BY DEF RunReturn, vars, WrapperTypes
<1>2. x.from = "run"
  OBVIOUS
<1> HIDE DEF x
<1>3. FromSession' = FromSession /\ \A k \in FromSession : emitted'[k] = emitted[k]
  <2>1. CASE emitted' = emitted
    BY <2>1 DEF FromSession
  <2>2. CASE emitted' = Append(emitted, x)
    <3>1. /\ Len(emitted') = Len(emitted) + 1 /\ Len(emitted) \in Nat
          /\ \A k \in 1..Len(emitted) : emitted'[k] = emitted[k]
          /\ emitted'[Len(emitted) + 1] = x
      BY <1>1, <2>2
    <3>2. \A k \in 1..Len(emitted) + 1 : k \in 1..Len(emitted) \/ k = Len(emitted) + 1
      BY <3>1
    <3>3. \A k : k \in FromSession' <=> k \in FromSession
      BY <1>2, <3>1, <3>2 DEF FromSession
    <3>4. FromSession' = FromSession
      BY <3>3
    <3> QED
      BY <3>1, <3>4 DEF FromSession
  <2> QED
    BY <1>1, <2>1, <2>2
<1>4. Forwarded' = Forwarded /\ \A k : Place(k)' = Place(k)
  BY <1>3, PlacesUnmoved
<1>5. Delivered'
  BY <1>1, <1>3, <1>4 DEF Delivered, StreamInv
<1>6. InTransit' = InTransit /\ LaunchGaveUp' = LaunchGaveUp
  BY <1>1 DEF InTransit, Hand, LaunchGaveUp
<1>7. OnItsWay'
  BY <1>1, <1>4, <1>6 DEF OnItsWay, StreamInv, GoesOn
<1>8. StreamStages'
  BY <1>1, <1>3 DEF StreamStages, StreamInv
<1> QED
  BY <1>5, <1>7, <1>8 DEF StreamInv

\* Every step of the composition keeps the stream together.
LEMMA StreamInvKept ==
  ASSUME TypeOK, Consistent(S), WrapperTypes, RunInOrder, StreamInv, RunNext
  PROVE  StreamInv'
<1>0. /\ channels[S].eventsClosed => channels'[S].eventsClosed
      /\ Delivered /\ OnItsWay /\ StreamStages
  BY LatchesStay, RunStepMaps DEF StreamInv
<1>1. CASE SessionAlone
  <2>1. Delivered' /\ OnItsWay' /\ FromSession' = FromSession
    BY <1>0, <1>1, AloneStream
  <2>2. launching[S] = "returned" => launching'[S] = "returned"
    BY <1>1, LaunchStaysOver
  <2>3. UNCHANGED <<run, forwarder, events>> /\ sent' = Sent
    BY <1>1 DEF SessionAlone
  <2>4. drain[S].at = "idle" => drain'[S].at = "idle"
    BY <1>1, <2>3, SessionSends DEF SessionAlone, DrainObserve, DrainReady, DrainEnd
  <2>5. StreamStages'
    BY <1>0, <2>1, <2>2, <2>3, <2>4 DEF StreamStages
  <2> QED
    BY <2>1, <2>5 DEF StreamInv
<1>2. CASE RunPublish
  BY <1>2, PublishStream
<1>3. CASE Forward
  BY <1>3, ForwardStream
<1>4. CASE RunReturn
  BY <1>4, ReturnStream
<1>5. CASE RunLaunch
  <2>1. /\ UNCHANGED <<events, emitted, sent, dropped, forwarder, chan>>
        /\ launching[S] = "idle" /\ run = "preparing" /\ run' = "launching"
        /\ drain[S].at = "idle" /\ drain'[S].at \in {"idle", "reading"}
    BY <1>0, <1>5, OneSession
       DEF RunLaunch, Register, streamVars, StreamStages, TypeOK, DrainStates
  <2>2. InTransit' = InTransit /\ ~LaunchGaveUp
    BY <2>1 DEF InTransit, Hand, LaunchGaveUp
  <2>3. Delivered' /\ OnItsWay' /\ FromSession' = FromSession
    BY <1>0, <2>1, <2>2, StreamStill
  <2>4. StreamStages'
    BY <1>0, <2>1, <2>3 DEF StreamStages
  <2> QED
    BY <2>3, <2>4 DEF StreamInv
<1>6. ASSUME UNCHANGED <<events, emitted, sent, dropped, drain, chan, launching>>, StreamStages'
      PROVE  StreamInv'
  <2>1. InTransit' = InTransit /\ LaunchGaveUp' = LaunchGaveUp
    BY <1>6 DEF InTransit, Hand, LaunchGaveUp
  <2>2. Delivered' /\ OnItsWay'
    BY <1>0, <1>6, <2>1, StreamStill
  <2> QED
    BY <1>6, <2>2 DEF StreamInv
<1>7. ASSUME Close(S) \/ Cancel(S) \/ Prompt(S) \/ PromptReturn(S) \/ UNCHANGED vars \/ SessionClose
      PROVE  UNCHANGED <<drain, chan, launching>>
  BY <1>7 DEF SessionClose, Close, Cancel, Prompt, PromptReturn, vars
<1>8. ASSUME UNCHANGED <<events, emitted, sent, dropped, drain, chan, launching, run, forwarder>>
      PROVE  StreamInv'
  <2>1. StreamStages'
    BY <1>0, <1>8 DEF StreamStages, FromSession
  <2> QED
    BY <1>6, <1>8, <2>1
<1>9. CASE \/ RunRefused \/ RunCommit \/ RunLaunched \/ FirstPromptNotLive \/ FirstPrompt
           \/ FirstPromptReturn
  <2>1. UNCHANGED <<events, emitted, sent, dropped, forwarder, drain, chan, launching>>
    BY <1>7, <1>9 DEF RunRefused, RunCommit, RunLaunched, FirstPromptNotLive, FirstPrompt,
       FirstPromptReturn, streamVars, vars
  <2>2. /\ run \notin {"waiting", "waited", "sealed", "joined", "returned"}
        /\ run' # "preparing"
        /\ run' \notin {"launching", "refused"} => launching[S] = "returned"
    BY <1>0, <1>9 DEF RunRefused, RunCommit, RunLaunched, FirstPromptNotLive, FirstPrompt,
       FirstPromptReturn, StreamStages, RunInOrder
  <2>3. StreamStages'
    BY <1>0, <2>1, <2>2 DEF StreamStages, FromSession
  <2> QED
    BY <1>6, <2>1, <2>3
<1>10. CASE GiveUp \/ GaveUp
  <2>1. UNCHANGED <<events, emitted, sent, dropped, forwarder, drain, chan, launching>>
    BY <1>7, <1>10 DEF GiveUp, GaveUp, streamVars, vars
  <2>2. run \in {"giveUp", "givingUp"} /\ run' \in {"givingUp", "gaveUp"}
    BY <1>10 DEF GiveUp, GaveUp
  <2>3. StreamStages'
    BY <1>0, <2>1, <2>2 DEF StreamStages, FromSession
  <2> QED
    BY <1>6, <2>1, <2>3
<1>11. CASE RunServe \/ RunWaited \/ RunSealed \/ RunJoined
  <2>1. UNCHANGED <<events, emitted, sent, dropped, drain, chan, launching>>
    BY <1>11 DEF RunServe, RunWaited, RunSealed, RunJoined, streamVars, vars
  <2>2. /\ run \in {"serving", "waiting", "waited", "sealed"}
        /\ run' \in {"waiting", "waited", "sealed", "joined"}
        /\ forwarder' = forwarder \/ forwarder' = "ranging"
    BY <1>11 DEF RunServe, RunWaited, RunSealed, RunJoined, streamVars
  <2>3. StreamStages'
    BY <1>0, <2>1, <2>2 DEF StreamStages, FromSession
  <2> QED
    BY <1>6, <2>1, <2>3
<1>12. CASE ForwardEnd
  <2>1. /\ UNCHANGED <<events, emitted, sent, dropped, drain, chan, launching, run, channels>>
        /\ forwarder = "ranging" /\ forwarder' = "done" /\ events = <<>> /\ channels[S].eventsClosed
    BY <1>12 DEF ForwardEnd, vars
  <2>2. StreamStages'
    BY <1>0, <2>1 DEF StreamStages, FromSession
  <2> QED
    BY <1>6, <2>1, <2>2
<1>13. CASE ManagerClose \/ WatcherStep \/ CancelContext \/ Stop \/ StopReturn \/ CancelTurn
  <2>1. UNCHANGED <<events, emitted, sent, dropped, run, forwarder>>
    BY <1>13 DEF ManagerClose, WatcherStep, WatcherInterrupts, WatcherDone,
       CancelContext, Stop, StopReturn, CancelTurn, runVars, streamVars
  <2>2. UNCHANGED <<drain, chan, launching>>
    BY <1>7, <1>13 DEF ManagerClose, WatcherStep, WatcherInterrupts, WatcherDone,
       CancelContext, Stop, StopReturn, CancelTurn
  <2> QED
    BY <1>8, <2>1, <2>2
<1>14. ASSUME NEW i \in Inputs, SendInput(i) \/ InputStep(i) PROVE StreamInv'
  <2>1. UNCHANGED <<events, emitted, sent, dropped, run, forwarder>>
    BY <1>14 DEF SendInput, InputStep, InputNotLive, InputPrompts, InputReturns, streamVars
  <2>2. UNCHANGED <<drain, chan, launching>>
    BY <1>7, <1>14 DEF SendInput, InputStep, InputNotLive, InputPrompts, InputReturns
  <2> QED
    BY <1>8, <2>1, <2>2
<1> QED
  BY <1>1, <1>2, <1>3, <1>4, <1>5, <1>9, <1>10, <1>11, <1>12, <1>13, <1>14
     DEF RunNext, RunStep, ForwarderStep

\* When Run has returned, the sequences have met.
LEMMA StreamMeets ==
  ASSUME TypeOK, Consistent(S), WrapperTypes, RunInOrder, StreamInv
  PROVE  StreamIntact
<1> SUFFICES ASSUME ~dropped, run = "returned" PROVE Forwarded = Len(sent)
  BY DEF StreamIntact, StreamInv, Delivered
<1>1. forwarder = "done" /\ events = <<>> /\ channels[S].eventsClosed /\ launching[S] = "returned"
  BY DEF RunInOrder, StreamInv, StreamStages
<1>2. ~LaunchGaveUp
  BY <1>1 DEF LaunchGaveUp
<1>3. chan[S] = <<>> /\ Hand = <<>>
  BY <1>1, <1>2, ClosedIsEmpty
<1>4. Len(InTransit) = 0
  <2>1. InTransit = <<>> \o <<>> \o <<>>
    BY <1>1, <1>3 DEF InTransit
  <2>2. Len(<<>> \o <<>> \o <<>>) = 0
    OBVIOUS
  <2> QED
    BY <2>1, <2>2
<1>5. Len(sent) = Forwarded + Len(InTransit)
  BY <1>2 DEF StreamInv, OnItsWay, GoesOn
<1>6. Forwarded \in Nat
  BY TransitTyped, PlacesBounded
<1> QED
  BY <1>4, <1>5, <1>6

--------------------------------------------------------------------------------
(***************************************************************************)
(* The theorems.                                                           *)
(***************************************************************************)

\* The wrapper's part of the inductive invariant, on top of the session's.
WrapperInv == WrapperTypes /\ RunInOrder /\ ExitInv /\ StreamInv

\* It holds before Run begins ...
LEMMA InitWrapper == RunInit => WrapperInv
<1> SUFFICES ASSUME RunInit PROVE WrapperInv
  OBVIOUS
<1>1. /\ run = "preparing" /\ sent = <<>> /\ acpSession = FALSE /\ inputsClosed = FALSE
      /\ input = [i \in Inputs |-> "idle"] /\ prompter = None
      /\ interrupt = [r \in Reasons |-> "idle"] /\ watcher = "off" /\ forwarder = "off"
      /\ events = <<>> /\ sawExit = FALSE /\ emitted = <<>> /\ dropped = FALSE /\ ctxDone = FALSE
      /\ autoFire \in BOOLEAN
  BY RunConstants DEF RunInit
<1>2. /\ chan[S] = <<>> /\ drain[S].at = "idle" /\ client[S].child = "none"
  BY OneSession DEF RunInit, Init
<1>3. WrapperTypes
  <2>1. <<>> \in Seq(EventKinds) /\ <<>> \in Seq(BridgeEvents) /\ Len(<<>>) <= EventsCap
    BY RunConstants
  <2>2. {autoFire, ctxDone, acpSession, inputsClosed, sawExit, dropped} \subseteq BOOLEAN
    BY <1>1
  <2>3. /\ input \in [Inputs -> {"idle", "refused", "admitted", "prompting", "returned"}]
        /\ interrupt \in [Reasons -> {"idle", "requested", "acknowledged"}]
    BY <1>1
  <2> QED
    BY <1>1, <2>1, <2>2, <2>3 DEF WrapperTypes
<1>4. RunInOrder
  BY <1>1, RunConstants DEF RunInOrder
<1>5. 1..Len(<<>>) = {}
  OBVIOUS
<1>6. ExitInv
  <2>1. Exits(chan[S]) = {} /\ Exits(events) = {} /\ Told = {} /\ ~InHand
    BY <1>1, <1>2, <1>5 DEF Exits, Told, InHand
  <2>2. StreamOnce /\ BridgeOnce
    BY <1>1, <1>2, <2>1 DEF StreamOnce, BridgeOnce
  <2> QED
    BY <2>2, ExitInvParts
<1>7. StreamInv
  <2>1. FromSession = {} /\ Forwarded = 0
    BY <1>1, <1>5, FS_EmptySet DEF FromSession, Forwarded
  <2>2. InTransit = <<>> \o <<>> \o <<>>
    BY <1>1, <1>2 DEF InTransit, Hand
  <2>3. Len(<<>> \o <<>> \o <<>>) = 0
    OBVIOUS
  <2>4. GoesOn(sent, Forwarded, InTransit)
    BY <1>1, <2>1, <2>2, <2>3 DEF GoesOn
  <2>5. Delivered
    BY <1>1, <2>1 DEF Delivered
  <2> QED
    BY <1>1, <1>2, <2>1, <2>4, <2>5 DEF StreamInv, OnItsWay, StreamStages
<1> QED
  BY <1>3, <1>4, <1>6, <1>7 DEF WrapperInv

\* ... and as long as nothing happens ...
LEMMA WrapperStutters == WrapperInv /\ UNCHANGED allVars => WrapperInv'
<1> SUFFICES ASSUME WrapperInv, UNCHANGED allVars PROVE WrapperInv'
  OBVIOUS
<1>1. /\ UNCHANGED <<run, autoFire, ctxDone, acpSession, inputsClosed, input, prompter, interrupt,
                     watcher, forwarder, events, sawExit, emitted, sent, dropped>>
      /\ UNCHANGED <<drain, channels, client, chan>>
  BY DEF allVars, vars, runVars, callerVars, streamVars
<1>2. WrapperTypes'
  BY <1>1 DEF WrapperInv, WrapperTypes
<1>3. RunInOrder'
  BY <1>1 DEF WrapperInv, RunInOrder, inputWG
<1>4. ExitInv'
  BY <1>1 DEF WrapperInv, ExitInv, ExitToldOnce, OneExit, InHand
<1>5. StreamInv'
  <2>1. UNCHANGED launching
    BY DEF allVars, vars
  <2>2. InTransit' = InTransit /\ LaunchGaveUp' = LaunchGaveUp
    BY <1>1, <2>1 DEF InTransit, Hand, LaunchGaveUp
  <2>3. Delivered' /\ OnItsWay' /\ FromSession' = FromSession
    BY <1>1, <2>2, StreamStill DEF WrapperInv, StreamInv
  <2> QED
    BY <1>1, <2>1, <2>3 DEF WrapperInv, StreamInv, StreamStages
<1> QED
  BY <1>2, <1>3, <1>4, <1>5 DEF WrapperInv

\* ... and always, beside the session's own.
LEMMA AlwaysWrapper == RunSpec => [](AllConsistent /\ WrapperInv)
<1>1. AllConsistent /\ AllConsistent' /\ WrapperInv /\ [RunNext]_allVars => WrapperInv'
  <2> SUFFICES ASSUME AllConsistent, AllConsistent', WrapperInv, RunNext PROVE WrapperInv'
    BY WrapperStutters
  <2>1. TypeOK /\ Consistent(S) /\ WrapperTypes /\ RunInOrder /\ ExitInv /\ StreamInv
    BY OneSession DEF AllConsistent, WrapperInv
  <2> QED
    BY <2>1, WrapperTypesKept, OrderKept, ExitKept, StreamInvKept DEF WrapperInv, AllConsistent
<1>2. RunSpec => []AllConsistent
  BY RunUsesSession, AlwaysConsistent, PTL
<1> QED
  BY <1>1, <1>2, InitWrapper, PTL DEF RunSpec

\* When Run has returned nothing of it goes on, whatever the inputs, the capacity
\* of the channel and the race between Stop, the context and the agent's end.
THEOREM RunReturnsQuiet == RunSpec => []ReturnedMeansQuiet
<1>1. AllConsistent /\ WrapperInv => ReturnedMeansQuiet
  <2> SUFFICES ASSUME AllConsistent, WrapperInv, run = "returned"
               PROVE  /\ ~acpSession /\ channels[S].done /\ clientClose[S] = "done"
                      /\ inputWG = {} /\ prompter = None
                      /\ interrupt["ctx_cancel"] # "requested" /\ watcher = "done"
    BY DEF ReturnedMeansQuiet
  <2>1. FinishInOrder(S)
    BY OneSession DEF AllConsistent, Consistent
  <2>2. RunInOrder /\ WrapperTypes
    BY DEF WrapperInv
  <2>3. ~acpSession /\ channels[S].done /\ inputWG = {} /\ watcher = "done"
        /\ interrupt["ctx_cancel"] # "requested" /\ prompter # "run"
    BY <2>2 DEF RunInOrder
  <2>4. clientClose[S] = "done"
    BY <2>1, <2>3 DEF FinishInOrder
  <2>5. prompter \notin Inputs
    BY <2>2, <2>3 DEF RunInOrder, inputWG
  <2> QED
    BY <2>2, <2>3, <2>4, <2>5 DEF WrapperTypes
<1> QED
  BY <1>1, AlwaysWrapper, PTL

\* A Run that served its session has told exactly one process.exited when it
\* returns, however the client's exit event fared on its way through two channels.
THEOREM ExitReportedOnce == RunSpec => []OneExit
<1>1. WrapperInv => OneExit
  BY DEF WrapperInv, ExitInv
<1> QED
  BY <1>1, AlwaysWrapper, PTL

\* The bridge sees the stream whole and in order, Run joins what it started in one
\* order, and the exit is in one place at a time.
THEOREM StreamReachesBridge == RunSpec => []RunInv
<1>1. AllConsistent /\ WrapperInv => RunInv
  <2> SUFFICES ASSUME AllConsistent, WrapperInv PROVE RunInv
    OBVIOUS
  <2>1. TypeOK /\ Consistent(S) /\ WrapperTypes /\ RunInOrder /\ StreamInv /\ ExitToldOnce
    BY OneSession DEF AllConsistent, WrapperInv, ExitInv
  <2>2. StreamIntact /\ StreamInOrder
    BY <2>1, StreamMeets, StreamParts DEF StreamInv
  <2> QED
    BY <2>1, <2>2 DEF RunInv
<1> QED
  BY <1>1, AlwaysWrapper, PTL

================================================================================
