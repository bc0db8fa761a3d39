------------------------------- MODULE AcpSession -------------------------------
(***************************************************************************)
(* Managed ACP sessions (acp/lifecycle.go): the Manager's registration of  *)
(* one session id, and each Session launched under it, from reservation    *)
(* through commit to exactly-once teardown.  Launch, drain, Prompt, Cancel,*)
(* Close and the client's diagnostics run concurrently; the client is the  *)
(* environment, seen through its calls and its bounded event channel.      *)
(*                                                                         *)
(* lastActivity, providerSessionID and lastTurnOutcome are data no state   *)
(* depends on and are left out.                                            *)
(***************************************************************************)
EXTENDS Naturals, Sequences

CONSTANTS
  Sessions,    \* the Launch calls made for one id
  None,        \* the id is not registered
  MaxPrompts,  \* bound: Prompt calls per session
  ChanCap,     \* capacity of the client's event channel (64)
  WritesFail,  \* whether a prompt's request write may fail
  AgentExits,  \* whether the agent may exit, or disconnect, on its own
  HostCancels, \* whether the host calls Cancel
  ChildFates,  \* how the child process may end
  Diagnostics  \* the kinds of diagnostic the client's readers report

ASSUME SessionConstants ==
  /\ None \notin Sessions
  /\ MaxPrompts \in Nat /\ ChanCap \in Nat
  /\ WritesFail \in BOOLEAN /\ AgentExits \in BOOLEAN /\ HostCancels \in BOOLEAN
  /\ ChildFates \subseteq {"exit", "exitError", "disconnect"}
  /\ Diagnostics \subseteq {"malformed", "stderr"}

VARIABLES
  registered,  \* m.sessions[id]
  sess,        \* the fields s.mu guards
  launching,   \* Manager.Launch
  drain,       \* the drain goroutine, and the event it has in hand
  finishing,   \* finish, run once by drain or by a failed Launch
  clientClose, \* closeOnce around client.Close: "idle", "running" or "done"
  hostClose,   \* the host's Close call (or Manager.Shutdown's)
  prompting,   \* the Prompt call
  prompts,     \* how many Prompt calls began
  canceling,   \* what the Cancel call did
  diagnosing,  \* an emitDiagnostic call
  channels,    \* the session's own channels and latches
  published,   \* events sent to the host
  client,      \* the client: turn in flight, child process, channel end
  chan         \* its event channel

hostVars == <<hostClose, prompting, prompts, canceling>>
vars == <<registered, sess, launching, drain, finishing, clientClose, hostVars, diagnosing,
          channels, published, client, chan>>

States == {"launching", "ready", "processing", "closing", "closed", "failed"}
Outcomes == {"", "closed", "disconnected", "child_exit", "malformed_stream"}
Fates == {"exit", "exitError", "disconnect"}
EventKinds == {"ready", "started", "completed", "failed", "exit", "exitError"}

Fields == [state: States, closeRequested: BOOLEAN, sawProcessExit: BOOLEAN,
           sawMalformed: BOOLEAN, launchCommitted: BOOLEAN, pendingReady: BOOLEAN,
           finished: BOOLEAN, err: Outcomes, terminalOutcome: Outcomes]

NewFields == [state |-> "launching", closeRequested |-> FALSE, sawProcessExit |-> FALSE,
              sawMalformed |-> FALSE, launchCommitted |-> FALSE, pendingReady |-> FALSE,
              finished |-> FALSE, err |-> "", terminalOutcome |-> ""]

Init ==
  /\ registered = None
  /\ sess = [s \in Sessions |-> NewFields]
  /\ launching = [s \in Sessions |-> "idle"]
  /\ drain = [s \in Sessions |-> [at |-> "idle", event |-> "ready"]]
  /\ finishing = [s \in Sessions |-> "idle"]
  /\ clientClose = [s \in Sessions |-> "idle"]
  /\ hostClose = [s \in Sessions |-> "idle"]
  /\ prompting = [s \in Sessions |-> "idle"]
  /\ prompts = [s \in Sessions |-> 0]
  /\ canceling = [s \in Sessions |-> "idle"]
  /\ diagnosing = [s \in Sessions |-> "idle"]
  /\ channels = [s \in Sessions |-> [launchDone |-> FALSE, eventsClosed |-> FALSE,
                                     diagnosticsClosed |-> FALSE, done |-> FALSE]]
  /\ published = [s \in Sessions |-> {}]
  /\ client = [s \in Sessions |-> [turn |-> 0, ending |-> 0, child |-> "none",
                                   eof |-> FALSE]]
  /\ chan = [s \in Sessions |-> <<>>]

--------------------------------------------------------------------------------
(***************************************************************************)
(* Manager.Launch.                                                         *)
(***************************************************************************)

\* The id is reserved before the client starts; a taken id is refused.
Register(s) ==
  /\ launching[s] = "idle"
  /\ IF registered = None
     THEN /\ registered' = s
          /\ launching' = [launching EXCEPT ![s] = "calling"]
          /\ drain' = [drain EXCEPT ![s].at = "reading"]
          /\ client' = [client EXCEPT ![s].child = "live"]
     ELSE /\ launching' = [launching EXCEPT ![s] = "duplicate"]
          /\ UNCHANGED <<registered, drain, client>>
  /\ UNCHANGED <<sess, finishing, clientClose, hostVars, diagnosing, channels, published, chan>>

\* client.Launch succeeded, and Commit, given the Session, succeeded as well.
LaunchCommit(s) ==
  /\ launching[s] = "committing"
  /\ sess' = [sess EXCEPT ![s].launchCommitted = TRUE,
                          ![s].state = IF @ = "launching" THEN "ready" ELSE @]
  /\ launching' = [launching EXCEPT ![s] = "committed"]
  /\ UNCHANGED <<registered, drain, finishing, clientClose, hostVars, diagnosing, channels,
                 published, client, chan>>

\* client.Launch or Commit failed.
LaunchAbort(s) ==
  /\ launching[s] \in {"launchFailed", "committing"}
  /\ sess' = [sess EXCEPT ![s].closeRequested = TRUE, ![s].state = "closing"]
  /\ launching' = [launching EXCEPT ![s] = "aborting"]
  /\ UNCHANGED <<registered, drain, finishing, clientClose, hostVars, diagnosing, channels,
                 published, client, chan>>

\* close(launchDone): after the commit, or after an aborted launch's client.Close.
LaunchDone(s) ==
  /\ \/ launching[s] = "committed" /\ launching' = [launching EXCEPT ![s] = "returned"]
     \/ /\ launching[s] = "aborting" /\ clientClose[s] = "done"
        /\ launching' = [launching EXCEPT ![s] = "finishing"]
  /\ channels' = [channels EXCEPT ![s].launchDone = TRUE]
  /\ UNCHANGED <<registered, sess, drain, finishing, clientClose, hostVars, diagnosing,
                 published, client, chan>>

--------------------------------------------------------------------------------
(***************************************************************************)
(* drain: observe and forward every client event.                          *)
(***************************************************************************)

\* MUTANT: turn.failed does not end the turn.
ObserveCompletedOnly(f, e) ==
  CASE e = "ready" ->
         IF f.state # "launching" THEN f
         ELSE IF f.launchCommitted THEN [f EXCEPT !.state = "ready"]
         ELSE [f EXCEPT !.pendingReady = TRUE]
    [] e = "completed" -> [f EXCEPT !.state = IF @ # "closing" THEN "ready" ELSE @]
    [] e = "failed" -> f
    [] e = "started" ->
         [f EXCEPT !.state = IF @ # "closing" THEN "processing" ELSE @]
    [] e = "exit" -> [f EXCEPT !.sawProcessExit = TRUE]
    [] e = "exitError" -> [f EXCEPT !.sawProcessExit = TRUE, !.err = "child_exit",
                                    !.terminalOutcome = "child_exit"]

\* observeEvent on the fields of an unfinished session.
Observe(f, e) ==
  CASE e = "ready" ->
         IF f.state # "launching" THEN f
         ELSE IF f.launchCommitted THEN [f EXCEPT !.state = "ready"]
         ELSE [f EXCEPT !.pendingReady = TRUE]
    [] e \in {"completed", "failed"} ->
         [f EXCEPT !.state = IF @ # "closing" THEN "ready" ELSE @]
    [] e = "started" ->
         [f EXCEPT !.state = IF @ # "closing" THEN "processing" ELSE @]
    [] e = "exit" -> [f EXCEPT !.sawProcessExit = TRUE]
    [] e = "exitError" -> [f EXCEPT !.sawProcessExit = TRUE, !.err = "child_exit",
                                    !.terminalOutcome = "child_exit"]

DrainObserve(s) ==
  /\ drain[s].at = "reading" /\ chan[s] # <<>>
  /\ LET e == Head(chan[s])
     IN  /\ sess' = [sess EXCEPT ![s] = IF @.finished THEN @ ELSE Observe(@, e)]
         /\ drain' = [drain EXCEPT ![s] = [at |-> IF e = "ready" THEN "holding" ELSE "publishing",
                                           event |-> e]]
  /\ chan' = [chan EXCEPT ![s] = Tail(@)]
  /\ UNCHANGED <<registered, launching, finishing, clientClose, hostVars, diagnosing,
                 channels, published, client>>

\* MUTANT: session.ready is forwarded at once.
DrainReadyEarly(s) ==
  /\ drain[s].at = "holding"
  /\ drain' = [drain EXCEPT ![s].at = "publishing"]
  /\ UNCHANGED <<registered, sess, launching, finishing, clientClose, hostVars, diagnosing,
                 channels, published, client, chan>>

\* session.ready waits for the launch, and is swallowed by a failed one.
DrainReady(s) ==
  /\ drain[s].at = "holding" /\ channels[s].launchDone
  /\ drain' = [drain EXCEPT ![s].at = IF sess[s].launchCommitted THEN "publishing" ELSE "reading"]
  /\ UNCHANGED <<registered, sess, launching, finishing, clientClose, hostVars, diagnosing,
                 channels, published, client, chan>>

\* publish: skipped once events is closed, dropped when its buffer is full.
Publish(s, full) ==
  /\ drain[s].at = "publishing"
  /\ drain' = [drain EXCEPT ![s].at = "reading"]
  /\ published' = IF channels[s].eventsClosed \/ full THEN published
                  ELSE [published EXCEPT ![s] = @ \cup {drain[s].event}]
  /\ UNCHANGED <<registered, sess, launching, finishing, clientClose, hostVars, diagnosing,
                 channels, client, chan>>

DrainEnd(s) ==
  /\ drain[s].at = "reading" /\ chan[s] = <<>> /\ client[s].eof
  /\ drain' = [drain EXCEPT ![s].at = "ended"]
  /\ UNCHANGED <<registered, sess, launching, finishing, clientClose, hostVars, diagnosing,
                 channels, published, client, chan>>

--------------------------------------------------------------------------------
(***************************************************************************)
(* finish (finishOnce): whoever is second waits for the first.             *)
(***************************************************************************)

\* Who reaches finish: drain after the launch, or a failed Launch.
FinishBegin(s) ==
  /\ finishing[s] = "idle"
  /\ (drain[s].at = "ended" /\ channels[s].launchDone) \/ launching[s] = "finishing"
  /\ finishing' = [finishing EXCEPT ![s] = "closing"]
  /\ UNCHANGED <<registered, sess, launching, drain, clientClose, hostVars, diagnosing,
                 channels, published, client, chan>>

\* MUTANT: the child's exit hides the malformed stream.
ClassifyExitFirst(f) ==
  CASE f.closeRequested ->
         [f EXCEPT !.finished = TRUE, !.state = "closed", !.terminalOutcome = "closed"]
    [] ~f.closeRequested /\ f.err # "" ->
         [f EXCEPT !.finished = TRUE, !.state = "failed"]
    [] ~f.closeRequested /\ f.err = "" /\ f.sawProcessExit ->
         [f EXCEPT !.finished = TRUE, !.state = "closed", !.terminalOutcome = "child_exit"]
    [] ~f.closeRequested /\ f.err = "" /\ ~f.sawProcessExit /\ f.sawMalformed ->
         [f EXCEPT !.finished = TRUE, !.state = "failed", !.err = "malformed_stream",
                   !.terminalOutcome = "malformed_stream"]
    [] OTHER ->
         [f EXCEPT !.finished = TRUE, !.state = "failed", !.err = "disconnected",
                   !.terminalOutcome = "disconnected"]

\* The terminal classification.
Classify(f) ==
  CASE f.closeRequested ->
         [f EXCEPT !.finished = TRUE, !.state = "closed", !.terminalOutcome = "closed"]
    [] ~f.closeRequested /\ f.sawMalformed ->
         [f EXCEPT !.finished = TRUE, !.state = "failed", !.err = "malformed_stream",
                   !.terminalOutcome = "malformed_stream"]
    [] ~f.closeRequested /\ ~f.sawMalformed /\ f.err # "" ->
         [f EXCEPT !.finished = TRUE, !.state = "failed"]
    [] ~f.closeRequested /\ ~f.sawMalformed /\ f.err = "" /\ f.sawProcessExit ->
         [f EXCEPT !.finished = TRUE, !.state = "closed", !.terminalOutcome = "child_exit"]
    [] OTHER ->
         [f EXCEPT !.finished = TRUE, !.state = "failed", !.err = "disconnected",
                   !.terminalOutcome = "disconnected"]

\* MUTANT: finish does not wait for client.Close.
FinishClassifyEarly(s) ==
  /\ finishing[s] = "closing"
  /\ sess' = [sess EXCEPT ![s] = Classify(@)]
  /\ finishing' = [finishing EXCEPT ![s] = "classified"]
  /\ UNCHANGED <<registered, launching, drain, clientClose, hostVars, diagnosing, channels,
                 published, client, chan>>

FinishClassify(s) ==
  /\ finishing[s] = "closing" /\ clientClose[s] = "done"
  /\ sess' = [sess EXCEPT ![s] = Classify(@)]
  /\ finishing' = [finishing EXCEPT ![s] = "classified"]
  /\ UNCHANGED <<registered, launching, drain, clientClose, hostVars, diagnosing, channels,
                 published, client, chan>>

\* onDone: Manager.unregister, only if the id is still this session's.
FinishUnregister(s) ==
  /\ finishing[s] = "classified"
  /\ registered' = IF registered = s THEN None ELSE registered
  /\ finishing' = [finishing EXCEPT ![s] = "unregistered"]
  /\ UNCHANGED <<sess, launching, drain, clientClose, hostVars, diagnosing, channels,
                 published, client, chan>>

FinishEvents(s) ==
  /\ finishing[s] = "unregistered"
  /\ channels' = [channels EXCEPT ![s].eventsClosed = TRUE]
  /\ finishing' = [finishing EXCEPT ![s] = "eventsClosed"]
  /\ UNCHANGED <<registered, sess, launching, drain, clientClose, hostVars, diagnosing,
                 published, client, chan>>

FinishDiagnostics(s) ==
  /\ finishing[s] = "eventsClosed"
  /\ channels' = [channels EXCEPT ![s].diagnosticsClosed = TRUE]
  /\ finishing' = [finishing EXCEPT ![s] = "draining"]
  /\ UNCHANGED <<registered, sess, launching, drain, clientClose, hostVars, diagnosing,
                 published, client, chan>>

\* diagnosticWG.Wait, then close(diagnostics) and close(done).
FinishDone(s) ==
  /\ finishing[s] = "draining" /\ diagnosing[s] \in {"idle", "over"}
  /\ channels' = [channels EXCEPT ![s].done = TRUE]
  /\ finishing' = [finishing EXCEPT ![s] = "done"]
  /\ UNCHANGED <<registered, sess, launching, drain, clientClose, hostVars, diagnosing,
                 published, client, chan>>

\* A failed Launch returns once finish is over.
LaunchFailed(s) ==
  /\ launching[s] = "finishing" /\ finishing[s] = "done"
  /\ launching' = [launching EXCEPT ![s] = "failed"]
  /\ UNCHANGED <<registered, sess, drain, finishing, clientClose, hostVars, diagnosing,
                 channels, published, client, chan>>

--------------------------------------------------------------------------------
(***************************************************************************)
(* client.Close, called once by whoever comes first: Session.Close, an     *)
(* aborted launch or finish.  It is bounded, and may return before the     *)
(* channel is closed.                                                      *)
(***************************************************************************)

\* MUTANT: finish relies on Session.Close to close the client.
CloseClientNotInFinish(s) ==
  /\ clientClose[s] = "idle"
  /\ hostClose[s] = "requested" \/ launching[s] = "aborting"
  /\ clientClose' = [clientClose EXCEPT ![s] = "running"]
  /\ UNCHANGED <<registered, sess, launching, drain, finishing, hostVars, diagnosing,
                 channels, published, client, chan>>

CloseClient(s) ==
  /\ clientClose[s] = "idle"
  /\ hostClose[s] = "requested" \/ launching[s] = "aborting" \/ finishing[s] = "closing"
  /\ clientClose' = [clientClose EXCEPT ![s] = "running"]
  /\ UNCHANGED <<registered, sess, launching, drain, finishing, hostVars, diagnosing,
                 channels, published, client, chan>>

ClientClosed(s) ==
  /\ clientClose[s] = "running"
  /\ clientClose' = [clientClose EXCEPT ![s] = "done"]
  /\ UNCHANGED <<registered, sess, launching, drain, finishing, hostVars, diagnosing,
                 channels, published, client, chan>>

--------------------------------------------------------------------------------
(***************************************************************************)
(* The host's calls.  It has the Session from Lookup as soon as the id is  *)
(* registered, and may keep it for ever.                                   *)
(***************************************************************************)

Known(s) == launching[s] \notin {"idle", "duplicate"}

Prompt(s) ==
  /\ prompting[s] = "idle" /\ prompts[s] < MaxPrompts
  /\ sess[s].state = "ready"
  /\ sess' = [sess EXCEPT ![s].state = "processing"]
  /\ prompting' = [prompting EXCEPT ![s] = "calling"]
  /\ prompts' = [prompts EXCEPT ![s] = @ + 1]
  /\ UNCHANGED <<registered, launching, drain, finishing, clientClose, hostClose, canceling,
                 diagnosing, channels, published, client, chan>>

\* client.Prompt returned: an error makes the session ready again.
PromptReturn(s) ==
  /\ prompting[s] \in {"accepted", "refused"}
  /\ sess' = [sess EXCEPT ![s].state =
                IF prompting[s] = "refused" /\ @ = "processing" THEN "ready" ELSE @]
  /\ prompting' = [prompting EXCEPT ![s] = "idle"]
  /\ UNCHANGED <<registered, launching, drain, finishing, clientClose, hostClose, prompts,
                 canceling, diagnosing, channels, published, client, chan>>

\* Cancel reaches the client only while the session is processing.
Cancel(s) ==
  /\ HostCancels /\ Known(s) /\ canceling[s] = "idle"
  /\ canceling' = [canceling EXCEPT ![s] = IF sess[s].state = "processing" THEN "sent"
                                                                          ELSE "skipped"]
  /\ UNCHANGED <<registered, sess, launching, drain, finishing, clientClose, hostClose,
                 prompting, prompts, diagnosing, channels, published, client, chan>>

Close(s) ==
  /\ Known(s) /\ hostClose[s] = "idle"
  /\ sess' = [sess EXCEPT ![s].closeRequested = TRUE,
                          ![s].state = IF @ \in {"closed", "failed"} THEN @ ELSE "closing"]
  /\ hostClose' = [hostClose EXCEPT ![s] = "requested"]
  /\ UNCHANGED <<registered, launching, drain, finishing, clientClose, prompting, prompts,
                 canceling, diagnosing, channels, published, client, chan>>

CloseReturn(s) ==
  /\ hostClose[s] = "requested" /\ clientClose[s] = "done" /\ channels[s].done
  /\ hostClose' = [hostClose EXCEPT ![s] = "returned"]
  /\ UNCHANGED <<registered, sess, launching, drain, finishing, clientClose, prompting,
                 prompts, canceling, diagnosing, channels, published, client, chan>>

--------------------------------------------------------------------------------
(***************************************************************************)
(* emitDiagnostic, called by a reader of the client.                       *)
(***************************************************************************)

\* Admitted, and counted by diagnosticWG, unless diagnostics are closed.
DiagnosticBegin(s, kind) ==
  /\ diagnosing[s] = "idle" /\ Known(s)
  /\ kind = "malformed" => ~client[s].eof
  /\ diagnosing' = [diagnosing EXCEPT ![s] = IF channels[s].diagnosticsClosed THEN "over" ELSE kind]
  /\ UNCHANGED <<registered, sess, launching, drain, finishing, clientClose, hostVars,
                 channels, published, client, chan>>

DiagnosticSend(s) ==
  /\ diagnosing[s] \in {"malformed", "stderr"}
  /\ sess' = [sess EXCEPT ![s].sawMalformed = @ \/ diagnosing[s] = "malformed"]
  /\ diagnosing' = [diagnosing EXCEPT ![s] = "callback"]
  /\ UNCHANGED <<registered, launching, drain, finishing, clientClose, hostVars, channels,
                 published, client, chan>>

\* The host's OnDiagnostic callback returns.
DiagnosticEnd(s) ==
  /\ diagnosing[s] = "callback"
  /\ diagnosing' = [diagnosing EXCEPT ![s] = "over"]
  /\ UNCHANGED <<registered, sess, launching, drain, finishing, clientClose, hostVars,
                 channels, published, client, chan>>

--------------------------------------------------------------------------------
(***************************************************************************)
(* The client (AcpClient), as far as the session sees it.                  *)
(***************************************************************************)

\* emit: a full channel drops the event.
Send(s, e) ==
  chan' = IF Len(chan[s]) < ChanCap THEN [chan EXCEPT ![s] = Append(@, e)] ELSE chan

\* client.Launch returns, emitting session.ready on success; its last response
\* may be read just before the agent goes away.
ClientLaunch(s) ==
  /\ launching[s] = "calling"
  /\ \/ /\ IF client[s].eof THEN UNCHANGED chan ELSE Send(s, "ready")
        /\ launching' = [launching EXCEPT ![s] = "committing"]
     \/ /\ launching' = [launching EXCEPT ![s] = "launchFailed"]
        /\ UNCHANGED chan
  /\ UNCHANGED <<registered, sess, drain, finishing, clientClose, hostVars, diagnosing,
                 channels, published, client>>

\* client.Prompt admits the turn and emits turn.started ...
ClientAdmits(s) ==
  /\ prompting[s] = "calling" /\ client[s].turn = 0 /\ ~client[s].eof
  /\ clientClose[s] = "idle"
  /\ client' = [client EXCEPT ![s].turn = prompts[s]]
  /\ Send(s, "started")
  /\ prompting' = [prompting EXCEPT ![s] = "writing"]
  /\ UNCHANGED <<registered, sess, launching, drain, finishing, clientClose, hostClose,
                 prompts, canceling, diagnosing, channels, published>>

\* ... and returns with the request written, or fails the turn first.
ClientWrites(s) ==
  /\ prompting[s] = "writing"
  /\ \/ prompting' = [prompting EXCEPT ![s] = "accepted"] /\ UNCHANGED <<client, chan>>
     \/ /\ WritesFail
        /\ prompting' = [prompting EXCEPT ![s] = "refused"]
        /\ client' = [client EXCEPT ![s].turn = 0]
        /\ Send(s, "failed")
  /\ UNCHANGED <<registered, sess, launching, drain, finishing, clientClose, hostClose,
                 prompts, canceling, diagnosing, channels, published>>

\* A turn in flight, an ended transport or a closed client refuses the prompt.
ClientRefuses(s) ==
  /\ prompting[s] = "calling"
  /\ client[s].turn # 0 \/ client[s].eof \/ clientClose[s] # "idle"
  /\ prompting' = [prompting EXCEPT ![s] = "refused"]
  /\ UNCHANGED <<registered, sess, launching, drain, finishing, clientClose, hostClose,
                 prompts, canceling, diagnosing, channels, published, client, chan>>

\* finishTurn gives the turn back before it emits the turn's end.
ClientTurnEnds(s) ==
  /\ client[s].turn # 0 /\ prompting[s] # "writing" /\ client[s].ending = 0
  /\ client' = [client EXCEPT ![s].turn = 0, ![s].ending = client[s].turn]
  /\ UNCHANGED <<registered, sess, launching, drain, finishing, clientClose, hostVars,
                 diagnosing, channels, published, chan>>

ClientReports(s, e) ==
  /\ client[s].ending # 0
  /\ client' = [client EXCEPT ![s].ending = 0]
  /\ Send(s, e)
  /\ UNCHANGED <<registered, sess, launching, drain, finishing, clientClose, hostVars,
                 diagnosing, channels, published>>

\* The child ends, on its own or because of client.Close; an exit is reported
\* unless the child was only reaped after a disconnect.
ClientExits(s, e) ==
  /\ client[s].child = "live" /\ (AgentExits \/ clientClose[s] # "idle")
  /\ client' = [client EXCEPT ![s].child = e]
  /\ IF e = "disconnect" THEN UNCHANGED chan ELSE Send(s, e)
  /\ UNCHANGED <<registered, sess, launching, drain, finishing, clientClose, hostVars,
                 diagnosing, channels, published>>

Gone(s) == client[s].child \in Fates

\* closeEvents: every turn has ended and every read diagnostic is recorded.
ClientCloses(s) ==
  /\ Gone(s) /\ ~client[s].eof
  /\ client[s].turn = 0 /\ client[s].ending = 0 /\ diagnosing[s] # "malformed"
  /\ client' = [client EXCEPT ![s].eof = TRUE]
  /\ UNCHANGED <<registered, sess, launching, drain, finishing, clientClose, hostVars,
                 diagnosing, channels, published, chan>>

--------------------------------------------------------------------------------
LaunchStep(s) ==
  Register(s) \/ LaunchCommit(s) \/ LaunchAbort(s) \/ LaunchDone(s) \/ LaunchFailed(s)

DrainStep(s) ==
  DrainObserve(s) \/ DrainReady(s) \/ (\E full \in BOOLEAN : Publish(s, full)) \/ DrainEnd(s)

FinishStep(s) ==
  \/ FinishBegin(s) \/ FinishClassify(s) \/ FinishUnregister(s) \/ FinishEvents(s)
  \/ FinishDiagnostics(s) \/ FinishDone(s)

HostStep(s) ==
  Prompt(s) \/ PromptReturn(s) \/ Cancel(s) \/ Close(s) \/ CloseReturn(s)

DiagnosticStep(s) ==
  \/ \E kind \in Diagnostics : DiagnosticBegin(s, kind)
  \/ DiagnosticSend(s) \/ DiagnosticEnd(s)

ClientStep(s) ==
  \/ CloseClient(s) \/ ClientClosed(s)
  \/ ClientLaunch(s) \/ ClientAdmits(s) \/ ClientWrites(s) \/ ClientRefuses(s)
  \/ ClientTurnEnds(s) \/ (\E e \in {"completed", "failed"} : ClientReports(s, e))
  \/ (\E e \in ChildFates : ClientExits(s, e))
  \/ ClientCloses(s)

Next ==
  \E s \in Sessions : \/ LaunchStep(s) \/ DrainStep(s) \/ FinishStep(s) \/ HostStep(s)
                      \/ DiagnosticStep(s) \/ ClientStep(s)

Spec == Init /\ [][Next]_vars

\* The library's goroutines run, the client's calls are bounded and a closed
\* client's child exits and its channel closes; the host's Commit and
\* OnDiagnostic return.  The agent need not end a turn or exit, and the host
\* need not call anything.
Fairness ==
  \A s \in Sessions :
    /\ WF_vars(LaunchCommit(s) \/ LaunchAbort(s) \/ LaunchDone(s) \/ LaunchFailed(s))
    /\ WF_vars(DrainStep(s))
    /\ WF_vars(FinishStep(s))
    /\ WF_vars(PromptReturn(s) \/ CloseReturn(s))
    /\ WF_vars(DiagnosticSend(s) \/ DiagnosticEnd(s))
    /\ WF_vars(CloseClient(s) \/ ClientClosed(s))
    /\ WF_vars(ClientLaunch(s))
    /\ WF_vars(ClientAdmits(s) \/ ClientWrites(s) \/ ClientRefuses(s))
    /\ WF_vars(\E e \in {"completed", "failed"} : ClientReports(s, e))
    /\ WF_vars(clientClose[s] # "idle" /\ ClientTurnEnds(s))
    /\ WF_vars(clientClose[s] # "idle"
               /\ \E e \in ChildFates : ClientExits(s, e))
    /\ WF_vars(Gone(s) /\ (ClientTurnEnds(s) \/ ClientCloses(s)))

FairSpec == Spec /\ Fairness

--------------------------------------------------------------------------------
(***************************************************************************)
(* Properties.                                                             *)
(***************************************************************************)

LaunchStages == {"idle", "duplicate", "calling", "launchFailed", "committing", "committed",
                 "aborting", "finishing", "returned", "failed"}
FinishStages == {"idle", "closing", "classified", "unregistered", "eventsClosed", "draining",
                 "done"}
DrainStates == [at: {"idle", "reading", "holding", "publishing", "ended"}, event: EventKinds]
Latches == [launchDone: BOOLEAN, eventsClosed: BOOLEAN, diagnosticsClosed: BOOLEAN, done: BOOLEAN]
ClientStates == [turn: 0..MaxPrompts, ending: 0..MaxPrompts, child: {"none", "live"} \cup Fates,
                 eof: BOOLEAN]

\* Every variable of the sessions has its type.
TypeOK ==
  /\ registered \in Sessions \cup {None}
  /\ sess \in [Sessions -> Fields]
  /\ launching \in [Sessions -> LaunchStages]
  /\ drain \in [Sessions -> DrainStates]
  /\ finishing \in [Sessions -> FinishStages]
  /\ clientClose \in [Sessions -> {"idle", "running", "done"}]
  /\ hostClose \in [Sessions -> {"idle", "requested", "returned"}]
  /\ prompting \in [Sessions -> {"idle", "calling", "writing", "accepted", "refused"}]
  /\ prompts \in [Sessions -> 0..MaxPrompts]
  /\ canceling \in [Sessions -> {"idle", "sent", "skipped"}]
  /\ diagnosing \in [Sessions -> {"idle", "malformed", "stderr", "callback", "over"}]
  /\ channels \in [Sessions -> Latches]
  /\ published \in [Sessions -> SUBSET EventKinds]
  /\ client \in [Sessions -> ClientStates]
  /\ chan \in [Sessions -> Seq(EventKinds)]
  /\ \A s \in Sessions : Len(chan[s]) <= ChanCap

\* One client per id: a new session of the id is admitted only when the client
\* of every earlier one has been closed, so two agents never share a session id.
OneClientPerId ==
  \A s, t \in Sessions :
    s # t /\ Known(s) /\ Known(t) => clientClose[s] = "done" \/ clientClose[t] = "done"

\* When Wait or Close may return, the session is silent: unregistered, its
\* client closed, its event channel closed, and no OnDiagnostic callback running.
DoneMeansQuiet ==
  \A s \in Sessions : channels[s].done =>
    /\ registered # s /\ clientClose[s] = "done" /\ channels[s].eventsClosed
    /\ diagnosing[s] \in {"idle", "over"}

\* Readiness is never visible, as a state or as an event, before the host's
\* Commit has installed its control authority.
ReadyAfterCommit ==
  \A s \in Sessions :
    sess[s].state \in {"ready", "processing"} \/ "ready" \in published[s] =>
      sess[s].launchCommitted

\* finish runs once the launch is over, and its effects come in one order: close
\* the client, classify, unregister, close the events, refuse and then drain the
\* diagnostics.
FinishInOrder(s) ==
  /\ channels[s].launchDone <=> launching[s] \in {"returned", "finishing", "failed"}
  /\ finishing[s] # "idle" => channels[s].launchDone
  /\ sess[s].finished <=> finishing[s] \in {"classified", "unregistered", "eventsClosed",
                                           "draining", "done"}
  /\ sess[s].finished => clientClose[s] = "done"
  /\ channels[s].eventsClosed <=> finishing[s] \in {"eventsClosed", "draining", "done"}
  /\ channels[s].diagnosticsClosed <=> finishing[s] \in {"draining", "done"}
  /\ channels[s].done <=> finishing[s] = "done"
  /\ channels[s].done => diagnosing[s] \in {"idle", "over"}

\* The id is a launched session's from its reservation until finish gives it back,
\* with the client closed.
IdHeld(s) ==
  /\ registered = s => Known(s)
  /\ Known(s) => registered = s \/ clientClose[s] = "done"
  /\ finishing[s] \in {"unregistered", "eventsClosed", "draining", "done"} => registered # s

\* Turns, and everything that tells of one, come after the commit; so does a
\* session.ready that drain lets through.
TurnsAfterCommit(s) ==
  /\ sess[s].launchCommitted <=> launching[s] \in {"committed", "returned"}
  /\ sess[s].state \in {"ready", "processing"} => sess[s].launchCommitted
  /\ prompting[s] # "idle" \/ client[s].turn # 0 \/ client[s].ending # 0 =>
       sess[s].launchCommitted
  /\ \A i \in 1..Len(chan[s]) :
       chan[s][i] \in {"started", "completed", "failed"} => sess[s].launchCommitted
  /\ drain[s].at = "publishing" /\ drain[s].event = "ready" => sess[s].launchCommitted
  /\ "ready" \in published[s] => sess[s].launchCommitted

\* The client's calls and its channel end in order: drain reads on until the channel
\* is closed, which comes after the agent has gone, every turn has ended and every
\* malformed line has been recorded.
ClientEndsInOrder(s) ==
  /\ Known(s) \/ client[s].child = "none"
  /\ prompting[s] = "calling" => prompts[s] # 0
  /\ prompting[s] = "writing" => client[s].turn # 0
  /\ client[s].eof => /\ client[s].child \in Fates /\ client[s].turn = 0
                      /\ client[s].ending = 0 /\ diagnosing[s] # "malformed"
  /\ drain[s].at = "ended" => client[s].eof /\ chan[s] = <<>>
  /\ finishing[s] # "idle" => drain[s].at = "ended" \/ launching[s] \in {"finishing", "failed"}

\* The events of the launch, the prompts begun and the child still to come, at most.
Count(b, n) == IF b THEN n ELSE 0

EventsToCome(launch, prompt, c) ==
  Count(launch \in {"idle", "duplicate", "calling"}, 1) + Count(prompt = "calling", 2)
  + Count(c.turn # 0, 1) + Count(c.ending # 0, 1) + Count(c.child \in {"none", "live"}, 1)

\* Those, the unread ones, and two for each prompt that may still be made.
EventsLeft(s) ==
  Len(chan[s]) + 2 * (MaxPrompts - prompts[s])
  + EventsToCome(launching[s], prompting[s], client[s])

\* The channel holds all the events a session can have (64 against two a prompt).
NothingDropped == ChanCap >= 2 * MaxPrompts + 2

RoomLeft(s) == EventsLeft(s) <= 2 * MaxPrompts + 2

\* What ended the agent is known to the session, or is on its way to it.
CauseKept(s) ==
  /\ \A i \in 1..Len(chan[s]) : chan[s][i] \in {"exit", "exitError"} => client[s].child = chan[s][i]
  /\ sess[s].sawProcessExit => client[s].child \in {"exit", "exitError"}
  /\ NothingDropped /\ client[s].child \in {"exit", "exitError"} =>
       sess[s].sawProcessExit \/ sess[s].finished
       \/ \E i \in 1..Len(chan[s]) : chan[s][i] = client[s].child
  /\ launching[s] \in {"aborting", "finishing", "failed"} => sess[s].closeRequested
  /\ ~sess[s].finished =>
       /\ sess[s].terminalOutcome = sess[s].err
       /\ sess[s].err = IF sess[s].sawProcessExit /\ client[s].child = "exitError"
                        THEN "child_exit" ELSE ""

\* What a host that holds the session may rely on at any moment: types, the
\* silence of a finished session, and no readiness before its own commit; with
\* the facts about the teardown, the id, the turns, the client's end and its cause
\* that make it inductive.
SessionInv ==
  /\ TypeOK /\ DoneMeansQuiet /\ ReadyAfterCommit
  /\ \A s \in Sessions : /\ FinishInOrder(s) /\ IdHeld(s) /\ TurnsAfterCommit(s)
                         /\ ClientEndsInOrder(s) /\ RoomLeft(s) /\ CauseKept(s)

\* How a finished session ended: a failed launch is closed, and a session nobody
\* closed reports what ended it - malformed input above all, else the child's exit,
\* else the disconnect.
EndingIsCause(s) ==
  /\ sess[s].state \in {"closed", "failed"}
  /\ launching[s] \in {"finishing", "failed"} => sess[s].terminalOutcome = "closed"
  /\ ~sess[s].closeRequested =>
       /\ sess[s].terminalOutcome =
            IF sess[s].sawMalformed THEN "malformed_stream"
            ELSE IF client[s].child = "disconnect" THEN "disconnected" ELSE "child_exit"
       /\ sess[s].err = "" <=> client[s].child = "exit" /\ ~sess[s].sawMalformed

\* A finished session keeps one ending, the cause of it, whatever late event,
\* prompt error or call comes after.
OutcomeIsCause == \A s \in Sessions : sess[s].finished => EndingIsCause(s)

\* A closed session, and one whose agent has gone, ends: Wait and Close return.
SessionEnds ==
  \A s \in Sessions :
    hostClose[s] = "requested" \/ client[s].eof ~> channels[s].done

\* A session is not stuck in "processing" after its turn has ended.
TurnEndFreesSession ==
  \A s \in Sessions :
    sess[s].state = "processing" /\ prompting[s] = "idle" /\ client[s].turn = 0
      ~> sess[s].state # "processing" \/ client[s].turn # 0 \/ prompting[s] # "idle"
================================================================================
