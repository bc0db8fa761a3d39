----------------------------- MODULE CopilotClient -----------------------------
(***************************************************************************)
(* The Copilot ACP client (adapters/copilotacp/client.go).  It has the     *)
(* shape of AcpClient, whose actions it takes over where its code does the *)
(* same, over three transports: the child's stdio, a TCP connection to a   *)
(* child it spawned, and a TCP connection to an agent that already runs    *)
(* (WithDialOnly).  It differs from AcpClient in four things:              *)
(*   - Launch first starts the transport, and Close may come before it has;*)
(*   - no lifetime context: only a response, or the reader's end, wakes the*)
(*     goroutine that awaits a turn's result;                              *)
(*   - a Prompt whose write fails ends its turn on the channel first and   *)
(*     with the permission coordinator afterwards;                         *)
(*   - Close does not fail the pending calls, the reader's end does.       *)
(*                                                                         *)
(* Launch has been called, with a permission responder; without one the    *)
(* client declines every permission request and keeps no state for it.     *)
(***************************************************************************)
EXTENDS AcpClient

CONSTANT Transports  \* the transports to consider

ASSUME TransportsAssumption == Transports \subseteq {"stdio", "tcp", "dial"}

VARIABLES
  transport,   \* c.transport and c.dialOnly
  closeSaw,    \* what Close read under c.mu: c.cmd, c.started, a session to close
  onceLost     \* transportCloseOnce ran before there was a transport

copilotVars == <<transport, closeSaw, onceLost>>
allVars == <<vars, copilotVars>>

CopilotInit ==
  /\ QuietInit
  /\ launch = "unstarted"
  /\ process = "none"
  /\ readLoop = "none"
  /\ join = "none"
  /\ transport \in Transports
  /\ closeSaw = [cmd |-> FALSE, started |-> FALSE, session |-> FALSE]
  /\ onceLost = FALSE

HasCmd == launch \notin {"unstarted", "refused"} /\ transport # "dial"
Started == launch \in {"starting", "ready", "failed"}

\* closeTransport: run once, and for nothing while Launch has set neither c.stdin
\* nor c.conn.
closeTransport ==
  /\ onceLost' = (onceLost \/ (~stdinClosed /\ launch = "unstarted"))
  /\ stdinClosed' = ~onceLost'

Kill == process' = IF process = "live" THEN "exited" ELSE process

--------------------------------------------------------------------------------
(***************************************************************************)
(* Launch.                                                                 *)
(***************************************************************************)

\* startStdio, or startTCP with its dial: c.cmd, and c.stdin or c.conn, are set.
StartTransport ==
  /\ launch = "unstarted"
  /\ launch' = "spawned"
  /\ process' = IF transport = "dial" THEN "none" ELSE "live"
  /\ UNCHANGED <<permVars, turnCallVars, canceling, requestTurn, undelivered, clientClosed,
                 closing, lifetimeStopped, stdinClosed, readLoop, join, exitVisible,
                 eventsClosing, eventsClosed, events, wire, copilotVars>>

\* The command, the sandbox or the pipes fail, or nothing answers the dial; a child
\* already spawned is killed and reaped.  Launch returns without Close.
StartTransportFail ==
  /\ launch = "unstarted"
  /\ launch' = "refused"
  /\ UNCHANGED <<permVars, turnCallVars, canceling, requestTurn, undelivered, teardownVars,
                 events, wire, copilotVars>>

\* c.started, and the goroutines.  Launch does not look at c.closed.
StartGoroutines ==
  /\ launch = "spawned"
  /\ launch' = "starting"
  /\ readLoop' = "reading"
  /\ join' = "waiting"
  /\ IF HasCmd THEN Emit(<<"process.started", 0>>) ELSE UNCHANGED events
  /\ UNCHANGED <<permVars, turnCallVars, canceling, requestTurn, undelivered, clientClosed,
                 closing, lifetimeStopped, stdinClosed, process, exitVisible,
                 eventsClosing, eventsClosed, wire, copilotVars>>

\* The handshake: initialize, authenticate, session/new or session/load, and the
\* session's configuration.
Handshake == (LaunchReady \/ LaunchFail) /\ UNCHANGED copilotVars

--------------------------------------------------------------------------------
(***************************************************************************)
(* Prompt, awaitPromptResult and Cancel.                                   *)
(***************************************************************************)

CopilotPrompt ==
  /\ PromptLock \/ PromptRefuse \/ PromptAdmit \/ PromptStart \/ PromptWritten
  /\ UNCHANGED copilotVars

\* The write fails; a frame left half on the wire closes the transport.
SessionPromptFails(partial) ==
  /\ prompting = "writing"
  /\ call' = [call EXCEPT ![generation] = "dropped"]
  /\ prompting' = "failing"
  /\ IF partial THEN closeTransport ELSE UNCHANGED <<stdinClosed, onceLost>>
  /\ UNCHANGED <<permVars, launch, currentTurn, finish, canceling, requestTurn, undelivered,
                 clientClosed, closing, lifetimeStopped, process, readLoop, join,
                 exitVisible, eventsClosing, eventsClosed, events, wire, transport, closeSaw>>

\* MUTANT: turnWG.Done, and no turn.failed.
failTurnSilent ==
  /\ prompting = "failing"
  /\ finish' = [finish EXCEPT ![generation] = "emitted"]
  /\ prompting' = "unwinding"
  /\ UNCHANGED <<permVars, launch, currentTurn, call, canceling, requestTurn, undelivered,
                 teardownVars, events, wire, copilotVars>>

\* failTurn pushes turn.failed, then turnWG.Done ...
failTurn ==
  /\ prompting = "failing"
  /\ finish' = [finish EXCEPT ![generation] = "emitted"]
  /\ prompting' = "unwinding"
  /\ Emit(<<"turn.ended", generation>>)
  /\ UNCHANGED <<permVars, launch, currentTurn, call, canceling, requestTurn, undelivered,
                 teardownVars, wire, copilotVars>>

\* MUTANT: does not wait for the turn's permission requests.
FailedEndTurnNoWait ==
  /\ prompting = "unwinding"
  /\ CloseTurnAdmission
  /\ prompting' = "clearing"
  /\ UNCHANGED <<launch, currentTurn, call, finish, canceling, requestTurn, undelivered,
                 teardownVars, events, wire, copilotVars>>

\* ... and only then endTurn, with the gate held: EndTurn, its barrier, the turn.
FailedEndTurn ==
  /\ \/ /\ prompting = "unwinding" /\ EndTurn
        /\ prompting' = IF HasTurn(generation) THEN "barrier" ELSE "clearing"
     \/ /\ prompting = "barrier" /\ EndTurnReturn(generation)
        /\ prompting' = "clearing"
  /\ UNCHANGED <<launch, currentTurn, call, finish, canceling, requestTurn, undelivered,
                 teardownVars, events, wire, copilotVars>>

FailedUnwind ==
  /\ prompting = "clearing"
  /\ currentTurn' = 0
  /\ prompting' = "idle"
  /\ LeaveGate("prompt")
  /\ UNCHANGED <<launch, call, finish, canceling, requestTurn, undelivered, teardownVars,
                 events, wire, copilotVars>>

\* MUTANT: does not wait for the turn's permission requests.
endTurnNoBarrier(g) ==
  /\ FinishNoBarrier(g)
  /\ UNCHANGED copilotVars

\* endTurn up to its barrier.
endTurn(g) ==
  /\ FinishEndTurn(g) \/ FinishBarrier(g)
  /\ UNCHANGED copilotVars

\* endTurn clears the turn without looking whose it is.
ClearTurn(g) ==
  /\ finish[g] = "ended"
  /\ finish' = [finish EXCEPT ![g] = "cleared"]
  /\ currentTurn' = 0
  /\ UNCHANGED <<permVars, launch, prompting, call, canceling, requestTurn, undelivered,
                 teardownVars, events, wire, copilotVars>>

awaitPromptResult(g) ==
  \/ (AwaitReturn(g) \/ FinishEmit(g)) /\ UNCHANGED copilotVars
  \/ endTurn(g) \/ ClearTurn(g)

CopilotCancel == CancelStep /\ UNCHANGED copilotVars

--------------------------------------------------------------------------------
(***************************************************************************)
(* Close.                                                                  *)
(***************************************************************************)

SealClosed ==
  /\ closing = "idle" /\ (HostCloses \/ launch = "failed")
  /\ clientClosed' = TRUE
  /\ closing' = "sealed"
  /\ closeSaw' = [cmd |-> HasCmd, started |-> Started, session |-> launch = "ready"]
  /\ UNCHANGED <<permVars, launch, turnCallVars, canceling, requestTurn, undelivered,
                 lifetimeStopped, stdinClosed, process, readLoop, join, exitVisible,
                 eventsClosing, eventsClosed, events, wire, transport, onceLost>>

\* permissions.Close, the bounded session/close call and the gate's release.
CloseGracefully ==
  /\ ClosePermissions \/ (closeSaw.session /\ CloseRequest) \/ CloseLeave
  /\ UNCHANGED copilotVars

\* TryLockWithin succeeds, or gives up and closes the transport.
CloseLock ==
  /\ closing = "locking"
  /\ \/ TakeGate("close") /\ closing' = "graceful" /\ UNCHANGED <<stdinClosed, onceLost>>
     \/ UNCHANGED permVars /\ closing' = "failing" /\ closeTransport
  /\ UNCHANGED <<launch, turnCallVars, canceling, requestTurn, undelivered, clientClosed,
                 lifetimeStopped, process, readLoop, join, exitVisible, eventsClosing,
                 eventsClosed, events, wire, transport, closeSaw>>

CloseDisconnect ==
  /\ closing = "failing"
  /\ closing' = "waiting"
  /\ closeTransport
  /\ UNCHANGED <<permVars, launch, turnCallVars, canceling, requestTurn, undelivered,
                 clientClosed, lifetimeStopped, process, readLoop, join, exitVisible,
                 eventsClosing, eventsClosed, events, wire, transport, closeSaw>>

\* MUTANT: gives the child its grace and leaves it running.
CloseLeavesChild ==
  /\ closing = "waiting" /\ closeSaw.cmd
  /\ process # "reported" \/ ~closeSaw.started
  /\ closing' = "killed"
  /\ UNCHANGED <<permVars, launch, turnCallVars, canceling, requestTurn, undelivered,
                 clientClosed, lifetimeStopped, stdinClosed, process, readLoop, join,
                 exitVisible, eventsClosing, eventsClosed, events, wire, copilotVars>>

\* waitDone is nil in a Close that came before c.started: it waits the whole grace.
CloseStopChild ==
  /\ closing = "waiting" /\ closeSaw.cmd
  /\ process # "reported" \/ ~closeSaw.started
  /\ Kill
  /\ closing' = "killed"
  /\ UNCHANGED <<permVars, launch, turnCallVars, canceling, requestTurn, undelivered,
                 clientClosed, lifetimeStopped, stdinClosed, readLoop, join, exitVisible,
                 eventsClosing, eventsClosed, events, wire, copilotVars>>

\* The waits for waitDone, readerDone and terminated are bounded.  A Close that came
\* before c.started closes the channel itself; no turn is ever admitted then.
CloseFinish ==
  /\ \/ closing = "killed"
     \/ closing = "waiting" /\ (closeSaw.cmd => closeSaw.started /\ process = "reported")
  /\ closing' = "returned"
  /\ eventsClosing' = (eventsClosing \/ ~closeSaw.started)
  /\ eventsClosed' = (eventsClosed \/ ~closeSaw.started)
  /\ UNCHANGED <<permVars, launch, turnCallVars, canceling, requestTurn, undelivered,
                 clientClosed, lifetimeStopped, stdinClosed, process, readLoop, join,
                 exitVisible, events, wire, copilotVars>>

--------------------------------------------------------------------------------
(***************************************************************************)
(* The reader, the permission callbacks and the end of the transport.      *)
(***************************************************************************)

\* deliverResponse closes the turn's admission before it wakes the turn's goroutine.
deliverResponse(g) == (TakeResponse(g) \/ DeliverResponse(g)) /\ UNCHANGED copilotVars

\* readLoop and handleLine; onReaderClosed fails the calls pending at that moment.
CopilotRead ==
  /\ \/ \E r \in Requests, k \in FrameKinds : ReadPermissionRequest(r, k)
     \/ ReadEnd
     \/ \E malformed \in BOOLEAN : ReadReport(malformed)
  /\ UNCHANGED copilotVars

\* handlePermissionRequest: its callbacks, but for the last one.
CopilotRespond(r) ==
  /\ \/ AnnounceRequest(r) \/ CoordinatorStep(r)
     \/ \E ok \in BOOLEAN : DeliverResolution(r, ok)
     \/ \E a \in ReturnedAnswers : HostAnswers(r, a)
  /\ UNCHANGED copilotVars

\* An undeliverable response aborts the transport (abortPermissionTransport).
abortPermissionTransport(r) ==
  /\ After(r)
  /\ IF r \in undelivered THEN closeTransport /\ Kill
                          ELSE UNCHANGED <<stdinClosed, onceLost, process>>
  /\ UNCHANGED <<launch, turnCallVars, canceling, requestTurn, undelivered, clientClosed,
                 closing, lifetimeStopped, readLoop, join, exitVisible, eventsClosing,
                 eventsClosed, events, wire, transport, closeSaw>>

\* The child, and waitProcess once Launch has started it.
CopilotProcess == (ProcessExit \/ (Started /\ ProcessReport)) /\ UNCHANGED copilotVars

\* Coordinate without a process of its own: the reader's end is all there is.
DialJoined ==
  /\ transport = "dial" /\ join = "waiting" /\ ReadReported
  /\ join' = "joined"
  /\ UNCHANGED <<permVars, launch, turnCallVars, canceling, requestTurn, undelivered,
                 clientClosed, closing, lifetimeStopped, stdinClosed, process, readLoop,
                 exitVisible, eventsClosing, eventsClosed, events, wire, copilotVars>>

\* Coordinate gives up waiting for a child that outlives its output.
StopChild ==
  /\ \/ /\ join = "readFirst" /\ join' = "stopping"
        /\ closeTransport /\ UNCHANGED process
     \/ /\ join = "stopping" /\ join' = "killing"
        /\ Kill /\ UNCHANGED <<stdinClosed, onceLost>>
  /\ UNCHANGED <<permVars, launch, turnCallVars, canceling, requestTurn, undelivered,
                 clientClosed, closing, lifetimeStopped, readLoop, exitVisible,
                 eventsClosing, eventsClosed, events, wire, transport, closeSaw>>

\* The coordinator's Close once both have ended; there is no lifetime to stop.
ExitClosesPermissions ==
  /\ join = "joined"
  /\ Close
  /\ join' = "exiting"
  /\ UNCHANGED <<launch, turnCallVars, canceling, requestTurn, undelivered, clientClosed,
                 closing, lifetimeStopped, stdinClosed, process, readLoop, exitVisible,
                 eventsClosing, eventsClosed, events, wire, copilotVars>>

\* coordinateTermination and closeEvents.
coordinateTermination ==
  \/ DialJoined \/ StopChild
  \/ /\ \/ (transport # "dial" /\ JoinFirst) \/ Joined \/ TerminateExit \/ SealEvents \/ CloseEvents
     /\ UNCHANGED copilotVars
  \/ ExitClosesPermissions

--------------------------------------------------------------------------------
CopilotClose == SealClosed \/ CloseGracefully \/ CloseLock \/ CloseDisconnect
                \/ CloseStopChild \/ CloseFinish

CopilotFail == (\E partial \in BOOLEAN : SessionPromptFails(partial)) \/ failTurn
               \/ FailedEndTurn \/ FailedUnwind

CopilotNext ==
  \/ StartTransport \/ StartTransportFail \/ StartGoroutines \/ Handshake
  \/ CopilotPrompt \/ CopilotFail \/ CopilotCancel \/ CopilotClose \/ CopilotRead
  \/ \E g \in Turns : awaitPromptResult(g) \/ deliverResponse(g)
  \/ \E r \in Requests : CopilotRespond(r) \/ abortPermissionTransport(r)
  \/ CopilotProcess \/ coordinateTermination

CopilotSpec == CopilotInit /\ [][CopilotNext]_allVars

--------------------------------------------------------------------------------
(***************************************************************************)
(* Properties.                                                             *)
(***************************************************************************)

\* Every variable of the Copilot client has its type; it never has the lifetime
\* context of the other client.
CopilotTypeOK ==
  /\ PermTypeOK
  /\ launch \in {"unstarted", "refused", "spawned", "starting", "ready", "failed"}
  /\ currentTurn \in 0..MaxTurns
  /\ prompting \in {"idle", "gated", "admitted", "writing", "failing", "unwinding", "barrier",
                    "clearing"}
  /\ canceling \in {"idle", "gated", "notifying"}
  /\ closing \in {"idle", "sealed", "locking", "graceful", "asked", "failing", "waiting",
                  "killed", "returned"}
  /\ call \in [Turns -> {"none", "pending", "taken", "answered", "failed", "dropped"}]
  /\ finish \in [Turns -> {"none", "prompting", "awaiting", "ending", "barrier", "ended",
                           "cleared", "emitted"}]
  /\ requestTurn \in [Requests -> 0..MaxTurns]
  /\ undelivered \subseteq Requests
  /\ {clientClosed, stdinClosed, exitVisible, eventsClosing, eventsClosed, onceLost}
       \subseteq BOOLEAN
  /\ ~lifetimeStopped
  /\ process \in {"none", "live", "exited", "reported"}
  /\ readLoop \in {"none", "reading", "delivering", "ended", "reported", "malformed"}
  /\ join \in {"none", "waiting", "processFirst", "readFirst", "stopping", "killing",
               "joined", "exiting", "sealing", "draining", "terminated"}
  /\ transport \in Transports
  /\ closeSaw \in [cmd : BOOLEAN, started : BOOLEAN, session : BOOLEAN]

\* The turns whose request was written.
WrittenTurns == {g \in Turns : <<"session/prompt", g>> \in wire}

\* When the channel closes every turn.started on it has its terminal event, also
\* that of a turn whose request could not be written, and every permission request
\* of a written turn has its resolution: although the turns a dying transport ends,
\* Close and a failing Prompt all push from goroutines of their own.
TurnsMatched ==
  eventsClosed =>
    /\ \A g \in Turns : <<"turn.started", g>> \in events => <<"turn.ended", g>> \in events
    /\ \A r \in Requests, g \in WrittenTurns :
         <<"permission_requested", g, r>> \in events => <<"permission_resolved", g, r>> \in events

\* No permission event follows the terminal event of a written turn.  (A turn
\* whose write failed ends before its permission requests do: failTurn precedes
\* endTurn.)
NoEventAfterResult ==
  [][\A r \in Requests, g \in WrittenTurns :
       {<<"permission_requested", g, r>>, <<"permission_resolved", g, r>>}
         \cap (events' \ events) # {} => <<"turn.ended", g>> \notin events]_allVars

\* A Close that found the client started leaves neither a child that runs nor a
\* connection that is open when it returns, whatever a Prompt, a permission
\* response or the agent was doing to the transport meanwhile.  (One that came
\* before Launch had set c.cmd and c.conn leaves both to nobody.)
CloseReleases ==
  closing = "returned" /\ closeSaw.started => stdinClosed /\ process # "live"

\* The turn whose Prompt has failed and reported so, but not ended it yet.
FailingTurn(g) == g = generation /\ prompting \in {"unwinding", "barrier", "clearing"}

\* A turn whose end is on the channel although its prompt was never written.
UnwrittenTurn(g) == finish[g] = "emitted" /\ <<"session/prompt", g>> \notin wire

\* Where the goroutine of a turn, or the Prompt that fails it, is, and what the
\* coordinator and the wire have of that turn.
CopilotTurns ==
  /\ currentTurn \in {0, generation}
  /\ prompting \notin {"idle", "gated"} => generation \in Turns
  /\ \A g \in Turns :
       /\ finish[g] = "none" <=> g > generation
       /\ finish[g] = "prompting" <=>
            g = generation /\ prompting \in {"admitted", "writing", "failing"}
       /\ FailingTurn(g) => finish[g] = "emitted"
       /\ g = currentTurn <=>
            finish[g] \in {"prompting", "awaiting", "ending", "barrier", "ended"} \/ FailingTurn(g)
       /\ turns[g].present <=>
            \/ finish[g] \in {"prompting", "awaiting", "ending", "barrier"}
            \/ FailingTurn(g) /\ prompting # "clearing"
       /\ g \in ending <=> finish[g] = "barrier" \/ (FailingTurn(g) /\ prompting = "barrier")
       /\ <<"session/prompt", g>> \in wire =>
            finish[g] \notin {"none", "prompting"} /\ ~FailingTurn(g)

\* What the channel shows of each request: announced in the turn it was admitted to,
\* and resolved there unless the turn's Prompt failed first.
CopilotRequestEvents ==
  \A r \in Requests, g \in Turns : <<"permission_requested", g, r>> \in events =>
    /\ adm[r].activeTurn /\ adm[r].generation = g /\ stage[r] \notin {"unsent", "admitted"}
    /\ stage[r] \in {"responded", "retired", "completed", "done"} =>
         <<"permission_resolved", g, r>> \in events \/ UnwrittenTurn(g)

\* What Launch has started, and what a Close that overtook it saw of that.
LaunchInOrder ==
  /\ launch # "ready" => generation = 0 /\ prompting = "idle"
  /\ ~Started => readLoop = "none" /\ join = "none" /\ \A r \in Requests : stage[r] = "unsent"
  /\ launch = "unstarted" \/ transport = "dial" => process = "none"
  /\ closing # "idle" =>
       /\ clientClosed
       /\ IF closeSaw.started THEN Started /\ (closeSaw.cmd \/ transport = "dial")
                              ELSE generation = 0

\* How far Close has taken the transport and the child down.
CloseInOrder ==
  /\ onceLost => closing # "idle" /\ ~closeSaw.started
  /\ closing \in {"waiting", "killed", "returned"} /\ closeSaw.started => stdinClosed
  /\ closing \in {"killed", "returned"} /\ closeSaw.started => process # "live"

\* The client's inductive invariant: however its goroutines interleave, the gate, the
\* turns, the event channel, the wire, Launch and Close keep together.
CopilotInv ==
  /\ CopilotTypeOK
  /\ GateInOrder
  /\ CopilotTurns
  /\ AllDispatched
  /\ EventsNameTheirTurn
  /\ ChannelInOrder
  /\ TurnEvents
  /\ CopilotRequestEvents
  /\ RevokedBeforeWire
  /\ CommitsInTime
  /\ LaunchInOrder
  /\ CloseInOrder

\* Neither the host nor the agent sees a request move after what ended it: its
\* turn's result on the channel, session/cancel or session/close on the wire.
NothingAfterItsEnd == NoEventAfterResult /\ NoSelectionAfterCancel
================================================================================
