------------------------------- MODULE AcpClient -------------------------------
(***************************************************************************)
(* The NDJSON ACP client (acp/ndjsonclient.go) around its permission       *)
(* coordinator: Launch, Prompt, Cancel and Close, the background goroutine *)
(* that finishes each turn, the protocol reader, the process waiter and    *)
(* the termination coordinator (acp/transport.go), which joins the last    *)
(* two and closes the event channel.                                       *)
(*                                                                         *)
(* promptCloseMu is the coordinator's response gate.  A turn is named by   *)
(* its permission generation: Prompt sets currentTurnID and calls BeginTurn*)
(* in one critical section.  Time is abstracted: a grace period may end at *)
(* any moment.  The agent, the host and the operating system are the       *)
(* environment.                                                            *)
(***************************************************************************)
EXTENDS Permissions

CONSTANTS
  AgentAsks,      \* when the agent may ask for permission: "anytime", "late" (once
                  \* it has received any prompt, as work of an earlier turn may)
                  \* or "inTurn" (only in a turn whose prompt it has received)
  HostCancels,    \* whether the host calls Cancel
  HostCloses,     \* whether the host calls Close
  AgentMalformed  \* whether the agent may send a malformed frame

ASSUME ClientConstants ==
  /\ LifecycleCalls = {"prompt", "cancel", "close"}
  /\ AgentAsks \in {"anytime", "late", "inTurn"}
  /\ HostCancels \in BOOLEAN /\ HostCloses \in BOOLEAN
  /\ AgentMalformed \in BOOLEAN

VARIABLES
  launch,          \* Launch: "starting" (handshake), "ready" or "failed"
  clientClosed,    \* c.closed
  currentTurn,     \* c.currentTurnID; 0 = ""
  prompting,       \* the Prompt call
  canceling,       \* the Cancel call
  closing,         \* the Close call
  call,            \* each turn's session/prompt call: its c.pending entry and channel
  finish,          \* each turn's finishTurn; turnWG counts those between
  requestTurn,     \* the turn id a request's events carry
  undelivered,     \* requests whose response write failed
  lifetimeStopped, \* lifetimeCtx is done
  stdinClosed,     \* closeTransport ran
  process,         \* the child: "live", "exited", "reported" (waitDone closed)
  readLoop,        \* the protocol reader
  join,            \* coordinateTermination
  exitVisible,     \* ShouldEmitProcessExit of the joined result
  eventsClosing,   \* c.eventsClosing
  eventsClosed,    \* c.eventsClosed
  events,          \* events sent on the channel while it was open
  wire             \* frames written to the agent

turnCallVars == <<currentTurn, prompting, call, finish>>
teardownVars == <<clientClosed, closing, lifetimeStopped, stdinClosed, process, readLoop,
                  join, exitVisible, eventsClosing, eventsClosed>>
clientVars == <<launch, turnCallVars, canceling, requestTurn, undelivered, teardownVars,
                events, wire>>
vars == <<permVars, clientVars>>

\* Nothing has been called, sent or closed yet.
QuietInit ==
  /\ PermInit
  /\ clientClosed = FALSE
  /\ currentTurn = 0
  /\ prompting = "idle"
  /\ canceling = "idle"
  /\ closing = "idle"
  /\ call = [g \in Turns |-> "none"]
  /\ finish = [g \in Turns |-> "none"]
  /\ requestTurn = [r \in Requests |-> 0]
  /\ undelivered = {}
  /\ lifetimeStopped = FALSE
  /\ stdinClosed = FALSE
  /\ exitVisible = FALSE
  /\ eventsClosing = FALSE
  /\ eventsClosed = FALSE
  /\ events = {}
  /\ wire = {}

\* Launch has started the child and its goroutines; the handshake is ahead.
Init ==
  /\ QuietInit
  /\ launch = "starting"
  /\ process = "live"
  /\ readLoop = "reading"
  /\ join = "waiting"

\* emit: skipped once the channel is closed.  A full channel drops the event; here
\* the consumer keeps up, and AcpSession models the drop.
Emit(e) == events' = IF eventsClosed THEN events ELSE events \cup {e}

\* The turns turnWG counts.
TurnsRunning == {g \in Turns : finish[g] \notin {"none", "emitted"}}

\* failPending: every call still in c.pending is answered with an error.
FailPending == call' = [g \in Turns |-> IF call[g] = "pending" THEN "failed" ELSE call[g]]

--------------------------------------------------------------------------------
(***************************************************************************)
(* Launch.  A failure of any of the handshake's calls closes the client;   *)
(* the last response may be read just before the agent goes away.          *)
(***************************************************************************)

LaunchReady ==
  /\ launch = "starting"
  /\ launch' = "ready"
  /\ SetSessionID
  /\ Emit(<<"session.ready", 0>>)
  /\ UNCHANGED <<turnCallVars, canceling, requestTurn, undelivered, teardownVars, wire>>

\* Before or after session/new or session/load named the session.
LaunchFail ==
  /\ launch = "starting"
  /\ launch' = "failed"
  /\ SetSessionID \/ UNCHANGED permVars
  /\ UNCHANGED <<turnCallVars, canceling, requestTurn, undelivered, teardownVars,
                 events, wire>>

--------------------------------------------------------------------------------
(***************************************************************************)
(* Prompt, which holds the gate for the whole call.                        *)
(***************************************************************************)

PromptLock ==
  /\ prompting = "idle" /\ launch = "ready" /\ generation < MaxTurns
  /\ TakeGate("prompt")
  /\ prompting' = "gated"
  /\ UNCHANGED <<launch, currentTurn, call, finish, canceling, requestTurn, undelivered,
                 teardownVars, events, wire>>

PromptRefuse ==
  /\ prompting = "gated"
  /\ currentTurn # 0 \/ clientClosed \/ eventsClosing
  /\ LeaveGate("prompt")
  /\ prompting' = "idle"
  /\ UNCHANGED <<launch, currentTurn, call, finish, canceling, requestTurn, undelivered,
                 teardownVars, events, wire>>

\* The critical section that admits the turn.
PromptAdmit ==
  /\ prompting = "gated"
  /\ currentTurn = 0 /\ ~clientClosed /\ ~eventsClosing
  /\ BeginTurn
  /\ currentTurn' = generation + 1
  /\ finish' = [finish EXCEPT ![generation + 1] = "prompting"]
  /\ prompting' = "admitted"
  /\ UNCHANGED <<launch, call, canceling, requestTurn, undelivered, teardownVars, events, wire>>

\* turn.started, and beginCall up to its write.
PromptStart ==
  /\ prompting = "admitted"
  /\ Emit(<<"turn.started", generation>>)
  /\ call' = [call EXCEPT ![generation] = "pending"]
  /\ prompting' = "writing"
  /\ UNCHANGED <<permVars, launch, currentTurn, finish, canceling, requestTurn, undelivered,
                 teardownVars, wire>>

\* The request is on the wire: Prompt returns and a goroutine awaits the call.
PromptWritten ==
  /\ prompting = "writing" /\ ~stdinClosed
  /\ wire' = wire \cup {<<"session/prompt", generation>>}
  /\ finish' = [finish EXCEPT ![generation] = "awaiting"]
  /\ prompting' = "idle"
  /\ LeaveGate("prompt")
  /\ UNCHANGED <<launch, currentTurn, call, canceling, requestTurn, undelivered,
                 teardownVars, events>>

\* The write fails: its ctx ended, the pipe broke or the transport was closed.
\* A frame left half on the wire closes the transport.  Prompt finishes the turn
\* itself, with the gate still held.
PromptWriteFail(partial) ==
  /\ prompting = "writing"
  /\ call' = [call EXCEPT ![generation] = "dropped"]
  /\ finish' = [finish EXCEPT ![generation] = "ending"]
  /\ prompting' = "failing"
  /\ stdinClosed' = (stdinClosed \/ partial)
  /\ UNCHANGED <<permVars, launch, currentTurn, canceling, requestTurn, undelivered,
                 clientClosed, closing, lifetimeStopped, process, readLoop, join,
                 exitVisible, eventsClosing, eventsClosed, events, wire>>

PromptUnwind ==
  /\ prompting = "failing" /\ finish[generation] = "emitted"
  /\ LeaveGate("prompt")
  /\ prompting' = "idle"
  /\ UNCHANGED <<launch, currentTurn, call, finish, canceling, requestTurn, undelivered,
                 teardownVars, events, wire>>

--------------------------------------------------------------------------------
(***************************************************************************)
(* awaitCall and finishTurn.                                               *)
(***************************************************************************)

\* The response, or the end of the client's lifetime.
AwaitReturn(g) ==
  /\ finish[g] = "awaiting"
  /\ call[g] \in {"answered", "failed"} \/ lifetimeStopped
  /\ finish' = [finish EXCEPT ![g] = "ending"]
  /\ call' = [call EXCEPT ![g] = IF @ = "pending" THEN "dropped" ELSE @]
  /\ UNCHANGED <<permVars, launch, currentTurn, prompting, canceling, requestTurn,
                 undelivered, teardownVars, events, wire>>

\* MUTANT: closes the turn's admission but does not wait for its requests.
FinishNoBarrier(g) ==
  /\ finish[g] = "ending"
  /\ CloseTurnAdmission
  /\ finish' = [finish EXCEPT ![g] = "ended"]
  /\ UNCHANGED <<launch, currentTurn, prompting, call, canceling, requestTurn, undelivered,
                 teardownVars, events, wire>>

FinishEndTurn(g) ==
  /\ finish[g] = "ending"
  /\ EndTurn
  /\ finish' = [finish EXCEPT ![g] = IF HasTurn(generation) THEN "barrier" ELSE "ended"]
  /\ UNCHANGED <<launch, currentTurn, prompting, call, canceling, requestTurn, undelivered,
                 teardownVars, events, wire>>

FinishBarrier(g) ==
  /\ finish[g] = "barrier"
  /\ EndTurnReturn(g)
  /\ finish' = [finish EXCEPT ![g] = "ended"]
  /\ UNCHANGED <<launch, currentTurn, prompting, call, canceling, requestTurn, undelivered,
                 teardownVars, events, wire>>

FinishClear(g) ==
  /\ finish[g] = "ended"
  /\ finish' = [finish EXCEPT ![g] = "cleared"]
  /\ currentTurn' = IF currentTurn = g THEN 0 ELSE currentTurn
  /\ UNCHANGED <<permVars, launch, prompting, call, canceling, requestTurn, undelivered,
                 teardownVars, events, wire>>

\* turn.completed or turn.failed, then turnWG.Done.
FinishEmit(g) ==
  /\ finish[g] = "cleared"
  /\ finish' = [finish EXCEPT ![g] = "emitted"]
  /\ Emit(<<"turn.ended", g>>)
  /\ UNCHANGED <<permVars, launch, currentTurn, prompting, call, canceling, requestTurn,
                 undelivered, teardownVars, wire>>

--------------------------------------------------------------------------------
(***************************************************************************)
(* Cancel.                                                                 *)
(***************************************************************************)

CancelLock ==
  /\ HostCancels /\ canceling = "idle"
  /\ TakeGate("cancel")
  /\ canceling' = "gated"
  /\ UNCHANGED <<launch, turnCallVars, requestTurn, undelivered, teardownVars, events, wire>>

CancelNoTurn ==
  /\ canceling = "gated"
  /\ launch # "ready" \/ currentTurn = 0
  /\ LeaveGate("cancel")
  /\ canceling' = "idle"
  /\ UNCHANGED <<launch, turnCallVars, requestTurn, undelivered, teardownVars, events, wire>>

CancelPermissions ==
  /\ canceling = "gated" /\ launch = "ready" /\ currentTurn # 0
  /\ CancelTurn
  /\ canceling' = "notifying"
  /\ UNCHANGED <<launch, turnCallVars, requestTurn, undelivered, teardownVars, events, wire>>

\* Notify: a bounded write of session/cancel; a failed one closes the transport.
CancelNotify(ok) ==
  /\ canceling = "notifying"
  /\ ok => ~stdinClosed
  /\ wire' = IF ok THEN wire \cup {<<"session/cancel", generation>>} ELSE wire
  /\ stdinClosed' = (stdinClosed \/ ~ok)
  /\ LeaveGate("cancel")
  /\ canceling' = "idle"
  /\ UNCHANGED <<launch, turnCallVars, requestTurn, undelivered, clientClosed, closing,
                 lifetimeStopped, process, readLoop, join, exitVisible, eventsClosing,
                 eventsClosed, events>>

--------------------------------------------------------------------------------
(***************************************************************************)
(* Close, run once (closegate.Once), by the host or by a failed Launch.    *)
(***************************************************************************)

CloseSeal ==
  /\ closing = "idle" /\ (HostCloses \/ launch = "failed")
  /\ clientClosed' = TRUE
  /\ closing' = "sealed"
  /\ UNCHANGED <<permVars, launch, turnCallVars, canceling, requestTurn, undelivered,
                 lifetimeStopped, stdinClosed, process, readLoop, join, exitVisible,
                 eventsClosing, eventsClosed, events, wire>>

ClosePermissions ==
  /\ closing = "sealed"
  /\ Close
  /\ closing' = "locking"
  /\ UNCHANGED <<launch, turnCallVars, canceling, requestTurn, undelivered, clientClosed,
                 lifetimeStopped, stdinClosed, process, readLoop, join, exitVisible,
                 eventsClosing, eventsClosed, events, wire>>

\* TryLockWithin succeeds ...
CloseGraceful ==
  /\ closing = "locking"
  /\ TakeGate("close")
  /\ lifetimeStopped' = TRUE
  /\ closing' = "graceful"
  /\ UNCHANGED <<launch, turnCallVars, canceling, requestTurn, undelivered, clientClosed,
                 stdinClosed, process, readLoop, join, exitVisible, eventsClosing,
                 eventsClosed, events, wire>>

\* MUTANT: waits for the gate without a limit.
CloseForcedNever == FALSE

\* ... or gives up: closing stdin preempts a stalled Prompt write.
CloseForced ==
  /\ closing = "locking"
  /\ lifetimeStopped' = TRUE
  /\ stdinClosed' = TRUE
  /\ closing' = "failing"
  /\ UNCHANGED <<permVars, launch, turnCallVars, canceling, requestTurn, undelivered,
                 clientClosed, process, readLoop, join, exitVisible, eventsClosing,
                 eventsClosed, events, wire>>

\* The bounded session/close call, if the agent advertised it.
CloseRequest ==
  /\ closing = "graceful" /\ launch = "ready" /\ ~stdinClosed
  /\ wire' = wire \cup {<<"session/close", 0>>}
  /\ closing' = "asked"
  /\ UNCHANGED <<permVars, launch, turnCallVars, canceling, requestTurn, undelivered,
                 clientClosed, lifetimeStopped, stdinClosed, process, readLoop, join,
                 exitVisible, eventsClosing, eventsClosed, events>>

CloseLeave ==
  /\ closing \in {"graceful", "asked"}
  /\ LeaveGate("close")
  /\ closing' = "failing"
  /\ UNCHANGED <<launch, turnCallVars, canceling, requestTurn, undelivered, clientClosed,
                 lifetimeStopped, stdinClosed, process, readLoop, join, exitVisible,
                 eventsClosing, eventsClosed, events, wire>>

CloseTransport ==
  /\ closing = "failing"
  /\ FailPending
  /\ stdinClosed' = TRUE
  /\ closing' = "waiting"
  /\ UNCHANGED <<permVars, launch, currentTurn, prompting, finish, canceling, requestTurn,
                 undelivered, clientClosed, lifetimeStopped, process, readLoop, join,
                 exitVisible, eventsClosing, eventsClosed, events, wire>>

\* MUTANT: does not kill the child that outlives the grace period.
CloseKillNever ==
  /\ closing = "waiting" /\ process # "reported"
  /\ closing' = "killed"
  /\ UNCHANGED <<permVars, launch, turnCallVars, canceling, requestTurn, undelivered,
                 clientClosed, lifetimeStopped, stdinClosed, process, readLoop, join,
                 exitVisible, eventsClosing, eventsClosed, events, wire>>

\* The child did not exit within the grace period.
CloseKill ==
  /\ closing = "waiting" /\ process # "reported"
  /\ process' = IF process = "live" THEN "exited" ELSE process
  /\ closing' = "killed"
  /\ UNCHANGED <<permVars, launch, turnCallVars, canceling, requestTurn, undelivered,
                 clientClosed, lifetimeStopped, stdinClosed, readLoop, join, exitVisible,
                 eventsClosing, eventsClosed, events, wire>>

\* The waits for waitDone and terminated are bounded, so Close returns.
CloseReturn ==
  /\ closing = "killed" \/ (closing = "waiting" /\ process = "reported")
  /\ closing' = "returned"
  /\ UNCHANGED <<permVars, launch, turnCallVars, canceling, requestTurn, undelivered,
                 clientClosed, lifetimeStopped, stdinClosed, process, readLoop, join,
                 exitVisible, eventsClosing, eventsClosed, events, wire>>

--------------------------------------------------------------------------------
(***************************************************************************)
(* The protocol reader (readLoop, handleServerRequest, deliverResponse).   *)
(***************************************************************************)

\* Whether the agent may send a permission request now.
AgentMayAsk ==
  \/ AgentAsks = "anytime" \/ ~TurnOpen
  \/ AgentAsks = "late" /\ \E g \in Turns : <<"session/prompt", g>> \in wire
  \/ <<"session/prompt", generation>> \in wire

ReadPermissionRequest(r, k) ==
  /\ readLoop = "reading" /\ AgentMayAsk
  /\ Admit(r, k)
  /\ UNCHANGED clientVars

\* onAdmission: the turn id is read after the admission's lock is released.
AnnounceRequest(r) ==
  /\ OnAdmission(r)
  /\ requestTurn' = [requestTurn EXCEPT ![r] = IF adm[r].activeTurn THEN currentTurn ELSE 0]
  /\ IF adm[r].activeTurn THEN Emit(<<"permission_requested", currentTurn, r>>)
                          ELSE UNCHANGED events
  /\ UNCHANGED <<launch, turnCallVars, canceling, undelivered, teardownVars, wire>>

\* The respond callback: one bounded write, then the resolved event.
DeliverResolution(r, ok) ==
  /\ Deliver(r)
  /\ ok => ~stdinClosed
  /\ wire' = IF ok THEN wire \cup {<<IF resolution[r] = "selected" THEN "selected"
                                    ELSE "cancelled", r>>}
                   ELSE wire
  /\ undelivered' = IF ok THEN undelivered ELSE undelivered \cup {r}
  /\ IF adm[r].activeTurn THEN Emit(<<"permission_resolved", requestTurn[r], r>>)
                          ELSE UNCHANGED events
  /\ UNCHANGED <<launch, turnCallVars, canceling, requestTurn, teardownVars>>

\* The after callback: an undeliverable response aborts the transport.
AfterResponse(r) ==
  /\ After(r)
  /\ IF r \in undelivered
     THEN /\ lifetimeStopped' = TRUE
          /\ stdinClosed' = TRUE
          /\ process' = IF process = "live" THEN "exited" ELSE process
     ELSE UNCHANGED <<lifetimeStopped, stdinClosed, process>>
  /\ UNCHANGED <<launch, turnCallVars, canceling, requestTurn, undelivered, clientClosed,
                 closing, readLoop, join, exitVisible, eventsClosing, eventsClosed,
                 events, wire>>

\* The steps of respondAdmitted the client has no part in.
CoordinatorStep(r) ==
  /\ \/ Decline(r) \/ Ask(r) \/ ReleaseCallback(r) \/ Wake(r) \/ LockGate(r)
     \/ Commit(r) \/ Retire(r) \/ Complete(r)
  /\ UNCHANGED clientVars

HostAnswers(r, a) == ResponderReturn(r, a) /\ UNCHANGED clientVars

\* deliverResponse takes the prompt's call out of c.pending ...
TakeResponse(g) ==
  /\ readLoop = "reading" /\ reader = None
  /\ call[g] = "pending" /\ <<"session/prompt", g>> \in wire
  /\ call' = [call EXCEPT ![g] = "taken"]
  /\ readLoop' = "delivering"
  /\ UNCHANGED <<permVars, launch, currentTurn, prompting, finish, canceling, requestTurn,
                 undelivered, clientClosed, closing, lifetimeStopped, stdinClosed, process,
                 join, exitVisible, eventsClosing, eventsClosed, events, wire>>

\* ... closes the turn's admission, and only then wakes the turn's goroutine.
DeliverResponse(g) ==
  /\ readLoop = "delivering" /\ call[g] = "taken"
  /\ CloseTurnAdmission
  /\ call' = [call EXCEPT ![g] = "answered"]
  /\ readLoop' = "reading"
  /\ UNCHANGED <<launch, currentTurn, prompting, finish, canceling, requestTurn, undelivered,
                 clientClosed, closing, lifetimeStopped, stdinClosed, process, join,
                 exitVisible, eventsClosing, eventsClosed, events, wire>>

\* End of file, or a read error, between two frames.
ReadEnd ==
  /\ readLoop = "reading" /\ reader = None
  /\ Close
  /\ readLoop' = "ended"
  /\ UNCHANGED <<launch, turnCallVars, canceling, requestTurn, undelivered, clientClosed,
                 closing, lifetimeStopped, stdinClosed, process, join, exitVisible,
                 eventsClosing, eventsClosed, events, wire>>

\* failPending and ReportRead; malformed if some frame was.
ReadReport(malformed) ==
  /\ readLoop = "ended" /\ (malformed => AgentMalformed)
  /\ FailPending
  /\ readLoop' = IF malformed THEN "malformed" ELSE "reported"
  /\ UNCHANGED <<permVars, launch, currentTurn, prompting, finish, canceling, requestTurn,
                 undelivered, clientClosed, closing, lifetimeStopped, stdinClosed, process,
                 join, exitVisible, eventsClosing, eventsClosed, events, wire>>

--------------------------------------------------------------------------------
(***************************************************************************)
(* The child process and the termination coordinator.                      *)
(***************************************************************************)

ReadReported == readLoop \in {"reported", "malformed"}

\* The agent exits on its own.
ProcessExit ==
  /\ process = "live"
  /\ process' = "exited"
  /\ UNCHANGED <<permVars, launch, turnCallVars, canceling, requestTurn, undelivered,
                 clientClosed, closing, lifetimeStopped, stdinClosed, readLoop, join,
                 exitVisible, eventsClosing, eventsClosed, events, wire>>

\* waitProcess: a drain bounded by DrainTimeout, then ReportProcess.
ProcessReport ==
  /\ process = "exited"
  /\ process' = "reported"
  /\ UNCHANGED <<permVars, launch, turnCallVars, canceling, requestTurn, undelivered,
                 clientClosed, closing, lifetimeStopped, stdinClosed, readLoop, join,
                 exitVisible, eventsClosing, eventsClosed, events, wire>>

\* Coordinate: the first report ...
JoinFirst ==
  /\ join = "waiting"
  /\ \/ process = "reported" /\ join' = "processFirst"
     \/ ReadReported /\ join' = "readFirst"
  /\ UNCHANGED <<permVars, launch, turnCallVars, canceling, requestTurn, undelivered,
                 clientClosed, closing, lifetimeStopped, stdinClosed, process, readLoop,
                 exitVisible, eventsClosing, eventsClosed, events, wire>>

\* ... a child that outlives its stdout is disconnected and stopped, then killed ...
JoinTimeout ==
  /\ \/ /\ join = "readFirst" /\ join' = "stopping"
        /\ stdinClosed' = TRUE /\ UNCHANGED process
     \/ /\ join = "stopping" /\ join' = "killing"
        /\ process' = IF process = "live" THEN "exited" ELSE process
        /\ UNCHANGED stdinClosed
  /\ UNCHANGED <<permVars, launch, turnCallVars, canceling, requestTurn, undelivered,
                 clientClosed, closing, lifetimeStopped, readLoop, exitVisible,
                 eventsClosing, eventsClosed, events, wire>>

\* ... and the second report completes the join.  A child killed only to reap it
\* after a disconnect is not reported as exited, unless the stream was malformed.
Joined ==
  /\ \/ join = "processFirst" /\ ReadReported
     \/ join \in {"readFirst", "stopping", "killing"} /\ process = "reported"
  /\ join' = "joined"
  /\ exitVisible' = (readLoop = "malformed" \/ join \notin {"stopping", "killing"})
  /\ UNCHANGED <<permVars, launch, turnCallVars, canceling, requestTurn, undelivered,
                 clientClosed, closing, lifetimeStopped, stdinClosed, process, readLoop,
                 eventsClosing, eventsClosed, events, wire>>

TerminatePermissions ==
  /\ join = "joined"
  /\ Close
  /\ lifetimeStopped' = TRUE
  /\ join' = "exiting"
  /\ UNCHANGED <<launch, turnCallVars, canceling, requestTurn, undelivered, clientClosed,
                 closing, stdinClosed, process, readLoop, exitVisible, eventsClosing,
                 eventsClosed, events, wire>>

TerminateExit ==
  /\ join = "exiting"
  /\ join' = "sealing"
  /\ IF exitVisible THEN Emit(<<"process.exited", 0>>) ELSE UNCHANGED events
  /\ UNCHANGED <<permVars, launch, turnCallVars, canceling, requestTurn, undelivered,
                 clientClosed, closing, lifetimeStopped, stdinClosed, process, readLoop,
                 exitVisible, eventsClosing, eventsClosed, wire>>

\* closeEvents: seal Prompt's admission, wait for turnWG, close the channel.
SealEvents ==
  /\ join = "sealing"
  /\ join' = "draining"
  /\ eventsClosing' = TRUE
  /\ UNCHANGED <<permVars, launch, turnCallVars, canceling, requestTurn, undelivered,
                 clientClosed, closing, lifetimeStopped, stdinClosed, process, readLoop,
                 exitVisible, eventsClosed, events, wire>>

\* MUTANT: closes the channel without waiting for turnWG.
CloseEventsNoWait ==
  /\ join = "draining"
  /\ join' = "terminated"
  /\ eventsClosed' = TRUE
  /\ UNCHANGED <<permVars, launch, turnCallVars, canceling, requestTurn, undelivered,
                 clientClosed, closing, lifetimeStopped, stdinClosed, process, readLoop,
                 exitVisible, eventsClosing, events, wire>>

CloseEvents ==
  /\ join = "draining" /\ TurnsRunning = {}
  /\ join' = "terminated"
  /\ eventsClosed' = TRUE
  /\ UNCHANGED <<permVars, launch, turnCallVars, canceling, requestTurn, undelivered,
                 clientClosed, closing, lifetimeStopped, stdinClosed, process, readLoop,
                 exitVisible, eventsClosing, events, wire>>

--------------------------------------------------------------------------------
PromptStep ==
  \/ PromptLock \/ PromptRefuse \/ PromptAdmit \/ PromptStart \/ PromptWritten
  \/ (\E partial \in BOOLEAN : PromptWriteFail(partial)) \/ PromptUnwind

FinishStep(g) ==
  AwaitReturn(g) \/ FinishEndTurn(g) \/ FinishBarrier(g) \/ FinishClear(g) \/ FinishEmit(g)

CancelStep ==
  CancelLock \/ CancelNoTurn \/ CancelPermissions \/ \E ok \in BOOLEAN : CancelNotify(ok)

CloseStep ==
  \/ CloseSeal \/ ClosePermissions \/ CloseGraceful \/ CloseForced \/ CloseRequest
  \/ CloseLeave \/ CloseTransport \/ CloseKill \/ CloseReturn

ReadStep ==
  \/ \E r \in Requests, k \in FrameKinds : ReadPermissionRequest(r, k)
  \/ \E g \in Turns : TakeResponse(g) \/ DeliverResponse(g)
  \/ ReadEnd
  \/ \E malformed \in BOOLEAN : ReadReport(malformed)

ResponseStep(r) ==
  \/ AnnounceRequest(r) \/ CoordinatorStep(r) \/ AfterResponse(r)
  \/ \E ok \in BOOLEAN : DeliverResolution(r, ok)
  \/ \E a \in ReturnedAnswers : HostAnswers(r, a)

TerminationStep ==
  \/ JoinFirst \/ JoinTimeout \/ Joined \/ TerminatePermissions \/ TerminateExit
  \/ SealEvents \/ CloseEvents

Next ==
  \/ LaunchReady \/ LaunchFail
  \/ PromptStep \/ CancelStep \/ CloseStep \/ ReadStep
  \/ \E g \in Turns : FinishStep(g)
  \/ \E r \in Requests : ResponseStep(r)
  \/ ProcessExit \/ ProcessReport \/ TerminationStep

Spec == Init /\ [][Next]_vars

\* The library's goroutines keep running; timers fire; a waiting mutex is not
\* starved; a write to a closed pipe or a dead child fails; a dead child's output
\* ends.  Nothing
\* is assumed of the agent (it may never read, answer or exit), of the host (it
\* may never prompt, cancel or close) or of its responder (it may never return).
Fairness ==
  /\ WF_vars(CloseSeal /\ launch = "failed")
  /\ WF_vars(PromptRefuse \/ PromptAdmit \/ PromptStart \/ PromptUnwind)
  /\ WF_vars((stdinClosed \/ process # "live") /\ \E partial \in BOOLEAN : PromptWriteFail(partial))
  /\ WF_vars(CancelNoTurn \/ CancelPermissions \/ \E ok \in BOOLEAN : CancelNotify(ok))
  /\ WF_vars(ClosePermissions \/ CloseGraceful \/ CloseForced \/ CloseLeave
             \/ CloseTransport \/ CloseKill \/ CloseReturn)
  /\ WF_vars(\E g \in Turns : DeliverResponse(g))
  /\ WF_vars(process # "live" /\ ReadEnd)
  /\ WF_vars(\E malformed \in BOOLEAN : ReadReport(malformed))
  /\ WF_vars(ProcessReport)
  /\ WF_vars(TerminationStep)
  /\ \A g \in Turns : WF_vars(FinishStep(g))
  /\ \A r \in Requests :
       /\ WF_vars(AnnounceRequest(r) \/ AfterResponse(r)
                  \/ (\E ok \in BOOLEAN : DeliverResolution(r, ok))
                  \/ CoordinatorStep(r))
       /\ SF_vars(LockGate(r) /\ UNCHANGED clientVars)

FairSpec == Spec /\ Fairness

--------------------------------------------------------------------------------
(***************************************************************************)
(* Properties.                                                             *)
(***************************************************************************)

\* Every variable of the client has its type.
TypeOK ==
  /\ PermTypeOK
  /\ launch \in {"starting", "ready", "failed"}
  /\ currentTurn \in 0..MaxTurns
  /\ prompting \in {"idle", "gated", "admitted", "writing", "failing"}
  /\ canceling \in {"idle", "gated", "notifying"}
  /\ closing \in {"idle", "sealed", "locking", "graceful", "asked", "failing", "waiting",
                  "killed", "returned"}
  /\ call \in [Turns -> {"none", "pending", "taken", "answered", "failed", "dropped"}]
  /\ finish \in [Turns -> {"none", "prompting", "awaiting", "ending", "barrier", "ended",
                           "cleared", "emitted"}]
  /\ requestTurn \in [Requests -> 0..MaxTurns]
  /\ undelivered \subseteq Requests
  /\ {clientClosed, lifetimeStopped, stdinClosed, exitVisible, eventsClosing, eventsClosed}
       \subseteq BOOLEAN
  /\ process \in {"live", "exited", "reported"}
  /\ readLoop \in {"reading", "delivering", "ended", "reported", "malformed"}
  /\ join \in {"waiting", "processFirst", "readFirst", "stopping", "killing", "joined",
               "exiting", "sealing", "draining", "terminated"}

\* The turn id a permission event carries is the turn the request was admitted
\* to, although onAdmission reads currentTurnID after that lock is released and
\* the resolution is emitted much later, on another goroutine.
EventsNameTheirTurn ==
  \A r \in Requests :
    adm[r].activeTurn /\ stage[r] \notin {"unsent", "admitted"} =>
      requestTurn[r] = adm[r].generation

\* No permission event of a turn follows that turn's turn.completed or
\* turn.failed on the event channel.
NoEventAfterTurnEnd ==
  [][\A r \in Requests, g \in 0..MaxTurns :
       {<<"permission_requested", g, r>>, <<"permission_resolved", g, r>>}
         \cap (events' \ events) # {} => <<"turn.ended", g>> \notin events]_vars

\* When the event channel closes every admitted turn has ended on it, and every
\* permission request it shows has its resolution: nothing is cut off by the
\* agent exiting, by Close, or by a Prompt racing either.
StreamComplete ==
  eventsClosed =>
    /\ \A g \in 1..generation : {<<"turn.started", g>>, <<"turn.ended", g>>} \subseteq events
    /\ \A r \in Requests, g \in Turns :
         <<"permission_requested", g, r>> \in events => <<"permission_resolved", g, r>> \in events

\* On the wire no selected option follows the session/cancel of its turn, or
\* session/close: the gate orders the commit and its write before either frame.
NoSelectionAfterCancel ==
  [][\A r \in Requests : <<"selected", r>> \in wire' \ wire =>
       <<"session/cancel", adm[r].generation>> \notin wire /\ <<"session/close", 0>> \notin wire]_vars

\* At most one turn is in flight: the turn in flight is the coordinator's
\* current generation, and every earlier turn is past its permission barrier.
OneTurnInFlight ==
  /\ currentTurn \in {0, generation}
  /\ \A g \in Turns : g < generation => finish[g] \in {"cleared", "emitted"} /\ ~turns[g].present

\* Who holds promptCloseMu.
GateInOrder ==
  /\ gate = "prompt" <=> prompting # "idle"
  /\ gate = "cancel" <=> canceling # "idle"
  /\ gate = "close" <=> closing \in {"graceful", "asked"}

\* Where the goroutine of a turn is, and what the coordinator has of that turn.
TurnInOrder ==
  /\ currentTurn \in {0, generation}
  /\ prompting \in {"admitted", "writing", "failing"} => generation \in Turns
  /\ \A g \in Turns :
       /\ finish[g] = "none" <=> g > generation
       /\ finish[g] \in {"prompting", "awaiting", "ending", "barrier", "ended"} <=> g = currentTurn
       /\ finish[g] \in {"prompting", "awaiting", "ending", "barrier"} <=> turns[g].present
       /\ finish[g] = "barrier" <=> g \in ending
       /\ finish[g] = "prompting" <=> g = generation /\ prompting \in {"admitted", "writing"}

\* Every request of the client is dispatched by its reader, so that a turn counts
\* the requests it admits; what is declined is never selected.
AllDispatched ==
  \A r \in Requests : /\ adm[r].activeTurn => adm[r].counted
                      /\ stage[r] = "declined" => resolution[r] # "selected"

\* The event channel is closed after Prompt's admission is sealed, and no turn is
\* still on its way to its last event then.
ChannelInOrder ==
  /\ join \in {"draining", "terminated"} => eventsClosing
  /\ eventsClosed => eventsClosing /\ \A g \in Turns : finish[g] \in {"none", "emitted"}

\* What the event channel shows of each turn: how far its goroutine is.
TurnEvents ==
  \A g \in Turns :
    /\ finish[g] \notin {"none", "prompting"} => <<"turn.started", g>> \in events
    /\ g = generation /\ prompting \in {"writing", "failing"} => <<"turn.started", g>> \in events
    /\ <<"turn.started", g>> \in events => finish[g] # "none"
    /\ <<"turn.ended", g>> \in events <=> finish[g] = "emitted"

\* What it shows of each request: announced in the turn it was admitted to, and
\* resolved there once its response is sent.
RequestEvents ==
  \A r \in Requests, g \in Turns : <<"permission_requested", g, r>> \in events =>
    /\ adm[r].activeTurn /\ adm[r].generation = g /\ stage[r] \notin {"unsent", "admitted"}
    /\ stage[r] \in {"responded", "retired", "completed", "done"} =>
         <<"permission_resolved", g, r>> \in events

\* No response can select an option of turn g any more.
Revoked(g) == g <= generation /\ (turns[g].canceled \/ ~turns[g].present)

\* What the wire says is cancelled or closed was revoked in the coordinator first.
RevokedBeforeWire ==
  /\ closing \notin {"idle", "sealed"} => closed
  /\ <<"session/close", 0>> \in wire => closed
  /\ \A g \in Turns :
       <<"session/cancel", g>> \in wire \/ (canceling = "notifying" /\ g = generation) => Revoked(g)

\* A selection that is committed and about to be written is not yet cancelled or
\* closed on the wire.
CommitsInTime ==
  \A r \in Requests : stage[r] = "committed" /\ resolution[r] = "selected" =>
    <<"session/close", 0>> \notin wire /\ <<"session/cancel", adm[r].generation>> \notin wire

\* The client's inductive invariant: however its goroutines interleave, the gate,
\* the turns, the event channel and the wire keep together.
ClientInv ==
  /\ TypeOK
  /\ GateInOrder
  /\ TurnInOrder
  /\ OneTurnInFlight
  /\ AllDispatched
  /\ EventsNameTheirTurn
  /\ ChannelInOrder
  /\ TurnEvents
  /\ RequestEvents
  /\ RevokedBeforeWire
  /\ CommitsInTime

\* Close returns, whatever the agent and the responder do.
CloseReturns == closing # "idle" ~> closing = "returned"

\* Once Close is called or the agent has exited, the event channel is closed.
StreamCloses == (closing # "idle" \/ process # "live") ~> eventsClosed

\* Both, of a client that is closed while a turn and a request are open.
CloseCompletes == CloseReturns /\ StreamCloses

\* A Prompt whose request could not be written gives the admission gate and the
\* turn back.
PromptGivesGateBack == prompting = "failing" ~> prompting = "idle"
================================================================================
