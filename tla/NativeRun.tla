------------------------------- MODULE NativeRun -------------------------------
(***************************************************************************)
(* One native run of the wrapper (wrapper/wrapper.go): Run, SendInput,     *)
(* Stop and CancelTurn, the translator goroutine, the typed-event queue    *)
(* (wrapper/typed_order.go) and the turn marks (wrapper/turn_interrupt.go).*)
(*                                                                         *)
(* agentkit's session is external.  Its parser takes the agent's output in *)
(* order: a typed event is handed to the wrapper's callback, a stream      *)
(* event is sent on the fanout channel and dropped when that is full.  A   *)
(* long-lived child is read by one goroutine, which ends before Wait       *)
(* returns.  A child per turn is read inside SendInput, one turn at a time,*)
(* and may outlive Wait when Stop cancels it.                              *)
(***************************************************************************)
EXTENDS Naturals, Sequences, FiniteSets

CONSTANTS
  Inputs,     \* the host's SendInput calls
  Cancels,    \* the host's CancelTurn calls
  Children,   \* the runtimes considered: "longLived", "perTurn"
  None,       \* no call
  FanoutCap,  \* the capacity of the fanout channel (128)
  MaxOutput   \* bound: the agent's output, in events

ASSUME NativeConstants ==
  /\ IsFiniteSet(Inputs) /\ None \notin Inputs
  /\ Children \subseteq {"longLived", "perTurn"}
  /\ None \notin Cancels
  /\ FanoutCap \in Nat \ {0} /\ MaxOutput \in Nat

VARIABLES
  child,          \* how the runtime runs the agent
  session,        \* the agentkit session: "none", "live", "ended"
  stopped,        \* session.Stop has been called
  queued,         \* inputs a long-lived agent has not begun to answer
  agentTurn,      \* the agent's turns so far
  answering,      \* the agent is in a turn
  runner,         \* the SendInput call a child per turn runs in
  interruptedBy,  \* the CancelTurn call that told the agent to end its turn
  produced,       \* the agent's output so far
  marking,        \* enqueue holds closeMu and has yet to send its marker
  fanout,         \* the fanout channel
  fanoutClosed,   \* typedQueue.closed
  typedItems,     \* typedQueue.items
  panicked,       \* something was sent on the closed channel
  run,            \* the position of Run
  translator,     \* the position of the translator goroutine
  input,          \* each SendInput call
  inputsClosed,   \* w.inputsClosed
  canceling,      \* each CancelTurn call
  canceledTurn,   \* the turn id it marked, 0 = none
  currentTurn,    \* currentTurnID, 0 = ""
  lastTurn,       \* the turn ids given out
  turnUsage,      \* turnUsage: the agent's turns it sums up
  open,           \* turnMarks.open
  interrupted,    \* turnMarks.interrupted
  log             \* the turn events the sink has received, in order

agentVars == <<child, session, stopped, queued, agentTurn, answering, runner, interruptedBy,
               produced>>
queueVars == <<marking, fanout, fanoutClosed, typedItems, panicked>>
turnVars == <<currentTurn, lastTurn, turnUsage, open, interrupted, log>>
callVars == <<input, inputsClosed, canceling, canceledTurn>>
runVars == <<run, translator>>
vars == <<agentVars, queueVars, turnVars, callVars, runVars>>

\* What the agent reports: typed events inside a turn (a tool result, a refusal,
\* an approval request) and about the session, and stream events.
TypedKinds == {"result", "notice"}
StreamKinds == {"delta", "usage", "completed", "failed"}
Kinds == TypedKinds \cup StreamKinds

isTurnTerminal(kind) == kind \in {"completed", "failed"}
isTurnInternal(kind) == kind \in {"delta", "result"}

\* The n-th event the agent reports, and the agent's turn it is of.
Events == [n : 1..MaxOutput, kind : Kinds, of : 0..Cardinality(Inputs)]

\* A marker in the fanout channel: an event no agent reports.
typedMarker == [n |-> 0, kind |-> "wrapper.typed", of |-> 0]

\* SendInput calls inputWG counts.
inputWG == {i \in Inputs : input[i] \in {"admitted", "running"}}

Init ==
  /\ child \in Children
  /\ session = "none" /\ stopped = FALSE
  /\ queued = 0 /\ agentTurn = 0 /\ answering = FALSE /\ runner = None
  /\ interruptedBy = None /\ produced = 0
  /\ marking = FALSE /\ fanout = << >> /\ fanoutClosed = FALSE
  /\ typedItems = << >> /\ panicked = FALSE
  /\ run = "starting" /\ translator = "off"
  /\ input = [i \in Inputs |-> "idle"] /\ inputsClosed = FALSE
  /\ canceling = [c \in Cancels |-> "idle"] /\ canceledTurn = [c \in Cancels |-> 0]
  /\ currentTurn = 0 /\ lastTurn = 0 /\ turnUsage = {}
  /\ open = 0 /\ interrupted = 0 /\ log = << >>

--------------------------------------------------------------------------------
(***************************************************************************)
(* Turn events.                                                            *)
(***************************************************************************)

\* The turn an event belongs to; an event inside a turn, or a terminal one,
\* opens one if none is open.
OpensTurn(kind) == currentTurn = 0 /\ (isTurnInternal(kind) \/ isTurnTerminal(kind))
TurnOf(kind) == IF OpensTurn(kind) THEN lastTurn + 1 ELSE currentTurn

Entry(e, usage, reason) ==
  [what |-> e.kind, turn |-> TurnOf(e.kind), n |-> e.n, usage |-> usage, reason |-> reason]
Started == [what |-> "started", turn |-> lastTurn + 1, n |-> 0, usage |-> {}, reason |-> ""]

\* turn.started, if the event opens a turn, and then the event.
EmitInTurn(e, usage, reason) ==
  /\ log' = Append(IF OpensTurn(e.kind) THEN Append(log, Started) ELSE log,
                   Entry(e, usage, reason))
  /\ currentTurn' = TurnOf(e.kind)
  /\ lastTurn' = IF OpensTurn(e.kind) THEN lastTurn + 1 ELSE lastTurn
  /\ open' = IF OpensTurn(e.kind) THEN lastTurn + 1 ELSE open

\* emitProviderObserved, and the emit function of the approval hook.
emitProviderObserved(e) ==
  /\ EmitInTurn(e, {}, "")
  /\ UNCHANGED <<turnUsage, interrupted>>

\* emitObserved up to its Emit.  A turn opened by the event itself cannot have
\* been marked.
emitObserved(e) ==
  /\ EmitInTurn(e, IF isTurnTerminal(e.kind) THEN turnUsage ELSE {},
                IF /\ e.kind = "failed"
                   /\ interrupted # 0 /\ interrupted = TurnOf(e.kind)
                THEN "interrupted" ELSE "")
  /\ turnUsage' = IF isTurnTerminal(e.kind) THEN {} ELSE turnUsage
  /\ UNCHANGED interrupted

\* turnMarks.closed
MarksClosed(t) ==
  /\ open' = IF open = t THEN 0 ELSE open
  /\ interrupted' = IF interrupted = t THEN 0 ELSE interrupted

--------------------------------------------------------------------------------
(***************************************************************************)
(* The session: the agent's turns and the parser of its output.            *)
(***************************************************************************)

\* A long-lived agent begins to answer the next input.
AgentBegin ==
  /\ child = "longLived" /\ session = "live" /\ ~answering /\ queued > 0
  /\ queued' = queued - 1
  /\ agentTurn' = agentTurn + 1 /\ answering' = TRUE /\ interruptedBy' = None
  /\ UNCHANGED <<child, session, stopped, runner, produced, queueVars, turnVars, callVars,
                 runVars>>

\* What the agent may report next.  A turn it was told to end fails.
Reports(kind) ==
  /\ ~marking /\ produced < MaxOutput
  /\ IF kind # "notice" THEN answering
     ELSE IF child = "longLived" THEN session = "live" ELSE runner # None
  /\ interruptedBy # None => kind # "completed"

Reported(kind) ==
  [n |-> produced + 1, kind |-> kind, of |-> agentTurn]

\* MUTANT: the callback emits the typed event at once.
TypedEventAtOnce(kind) ==
  /\ Reports(kind) /\ translator # "closing"
  /\ produced' = produced + 1
  /\ emitProviderObserved(Reported(kind))
  /\ UNCHANGED <<child, session, stopped, queued, agentTurn, answering, runner,
                 interruptedBy, queueVars, callVars, runVars>>

\* TypedEventCallback or JsonRpcRequestHook: enqueue up to its send, or, once
\* the channel is closed, the emission itself, under turnMu.
TypedEventCallback(kind) ==
  /\ Reports(kind)
  /\ produced' = produced + 1
  /\ IF fanoutClosed
     THEN /\ translator # "closing"
          /\ emitProviderObserved(Reported(kind))
          /\ UNCHANGED <<marking, typedItems>>
     ELSE /\ marking' = TRUE
          /\ typedItems' = Append(typedItems, Reported(kind))
          /\ UNCHANGED turnVars
  /\ UNCHANGED <<child, session, stopped, queued, agentTurn, answering, runner,
                 interruptedBy, fanout, fanoutClosed, panicked, callVars, runVars>>

\* MUTANT: the marker is dropped when the channel is full.
SendMarkerOrDrop ==
  /\ marking
  /\ fanout' = IF Len(fanout) < FanoutCap THEN Append(fanout, typedMarker) ELSE fanout
  /\ marking' = FALSE
  /\ UNCHANGED <<agentVars, fanoutClosed, typedItems, panicked, turnVars, callVars, runVars>>

\* enqueue's send, which waits for room.
SendMarker ==
  /\ marking /\ Len(fanout) < FanoutCap
  /\ fanout' = Append(fanout, typedMarker)
  /\ marking' = FALSE
  /\ UNCHANGED <<agentVars, fanoutClosed, typedItems, panicked, turnVars, callVars, runVars>>

\* agentkit's send of a stream event.  The terminal one ends the agent's turn.
SendStreamEvent(kind) ==
  /\ Reports(kind)
  /\ produced' = produced + 1
  /\ panicked' = (panicked \/ fanoutClosed)
  /\ fanout' = IF Len(fanout) < FanoutCap /\ ~fanoutClosed
               THEN Append(fanout, Reported(kind)) ELSE fanout
  /\ answering' = (answering /\ ~isTurnTerminal(kind))
  /\ UNCHANGED <<child, session, stopped, queued, agentTurn, runner, interruptedBy, marking,
                 fanoutClosed, typedItems, turnVars, callVars, runVars>>

\* The child exits, on its own or because of Stop; its reader is done, and Wait
\* may return.  A session with a child per turn ends only when it is stopped.
SessionEnd ==
  /\ session = "live"
  /\ \/ child = "longLived" /\ ~marking
     \/ child = "perTurn" /\ stopped
  /\ session' = "ended"
  /\ answering' = (answering /\ child = "perTurn")
  /\ UNCHANGED <<child, stopped, queued, agentTurn, runner, interruptedBy, produced,
                 queueVars, turnVars, callVars, runVars>>

--------------------------------------------------------------------------------
(***************************************************************************)
(* Run.                                                                    *)
(***************************************************************************)

\* runtime.Start: the child runs before Run has stored the session.
StartChild ==
  /\ run = "starting" /\ session = "none"
  /\ session' = "live"
  /\ UNCHANGED <<child, stopped, queued, agentTurn, answering, runner, interruptedBy,
                 produced, queueVars, turnVars, callVars, runVars>>

\* The preparation, or runtime.Start, fails.
StartFail ==
  /\ run = "starting" /\ session = "none"
  /\ run' = "returned"
  /\ UNCHANGED <<agentVars, queueVars, turnVars, callVars, translator>>

\* session.ready; the translator is started.
RunStarted ==
  /\ run = "starting" /\ session # "none"
  /\ run' = "started" /\ translator' = "ranging"
  /\ UNCHANGED <<agentVars, queueVars, turnVars, callVars>>

\* runSandbox succeeds, or there is nothing to apply: watch ctx and Wait.
SandboxApplied ==
  /\ run = "started"
  /\ run' = "waiting"
  /\ UNCHANGED <<agentVars, queueVars, turnVars, callVars, translator>>

\* runSandbox fails: no more inputs, then Stop.
SandboxFailed ==
  /\ run = "started"
  /\ run' = "aborting" /\ inputsClosed' = TRUE
  /\ UNCHANGED <<agentVars, queueVars, turnVars, input, canceling, canceledTurn, translator>>

AbortStop ==
  /\ run = "aborting" /\ ~stopped
  /\ stopped' = TRUE
  /\ UNCHANGED <<child, session, queued, agentTurn, answering, runner, interruptedBy,
                 produced, queueVars, turnVars, callVars, runVars>>

\* Wait returns.
WaitReturn ==
  /\ session = "ended"
  /\ \/ run = "waiting" /\ run' = "waited"
     \/ run = "aborting" /\ stopped /\ run' = "sealed"
  /\ UNCHANGED <<agentVars, queueVars, turnVars, callVars, translator>>

closeInputAdmission ==
  /\ run = "waited"
  /\ run' = "sealed" /\ inputsClosed' = TRUE
  /\ UNCHANGED <<agentVars, queueVars, turnVars, input, canceling, canceledTurn, translator>>

\* inputWG.Wait
InputsJoined ==
  /\ run = "sealed" /\ inputWG = {}
  /\ run' = "joined"
  /\ UNCHANGED <<agentVars, queueVars, turnVars, callVars, translator>>

\* MUTANT: waits for the translator before it closes the channel.
closeFanoutLate ==
  /\ run = "joined" /\ ~marking /\ translator = "done"
  /\ run' = "closed" /\ fanoutClosed' = TRUE
  /\ UNCHANGED <<agentVars, marking, fanout, typedItems, panicked, turnVars, callVars,
                 translator>>

\* closeFanout waits for an enqueue that holds closeMu.
closeFanout ==
  /\ run = "joined" /\ ~marking
  /\ run' = "closed" /\ fanoutClosed' = TRUE
  /\ UNCHANGED <<agentVars, marking, fanout, typedItems, panicked, turnVars, callVars, translator>>

\* MUTANT: flushes the open turn before the translator is done.
flushOpenTurnEarly ==
  /\ run = "closed" /\ translator # "closing"
  /\ run' = "flushed"
  /\ turnUsage' = {}
  /\ IF currentTurn = 0
     THEN UNCHANGED <<currentTurn, open, interrupted, log>>
     ELSE /\ currentTurn' = 0 /\ MarksClosed(currentTurn)
          /\ log' = Append(log, [what |-> "failed", turn |-> currentTurn, n |-> 0,
                                 usage |-> turnUsage, reason |-> "process_exited"])
  /\ UNCHANGED <<agentVars, queueVars, lastTurn, callVars, translator>>

\* <-translatorDone, then flushOpenTurn.
flushOpenTurn ==
  /\ run = "closed" /\ translator = "done"
  /\ run' = "flushed"
  /\ turnUsage' = {}
  /\ IF currentTurn = 0
     THEN UNCHANGED <<currentTurn, open, interrupted, log>>
     ELSE /\ currentTurn' = 0 /\ MarksClosed(currentTurn)
          /\ log' = Append(log, [what |-> "failed", turn |-> currentTurn, n |-> 0,
                                 usage |-> turnUsage, reason |-> "process_exited"])
  /\ UNCHANGED <<agentVars, queueVars, lastTurn, callVars, translator>>

\* process.exited, and Run returns.
RunReturn ==
  /\ run = "flushed"
  /\ run' = "returned"
  /\ log' = Append(log, [what |-> "exited", turn |-> 0, n |-> 0, usage |-> {}, reason |-> ""])
  /\ UNCHANGED <<agentVars, queueVars, currentTurn, lastTurn, turnUsage, open, interrupted,
                 callVars, translator>>

--------------------------------------------------------------------------------
(***************************************************************************)
(* The translator.                                                         *)
(***************************************************************************)

\* A marker stands for the oldest typed event.
TranslateTyped ==
  /\ translator = "ranging" /\ fanout # << >> /\ Head(fanout) = typedMarker
  /\ fanout' = Tail(fanout)
  /\ IF typedItems = << >>
     THEN UNCHANGED <<turnVars, typedItems>>
     ELSE emitProviderObserved(Head(typedItems)) /\ typedItems' = Tail(typedItems)
  /\ UNCHANGED <<agentVars, marking, fanoutClosed, panicked, callVars, runVars>>

TranslateStream ==
  /\ translator = "ranging" /\ fanout # << >> /\ Head(fanout) # typedMarker
  /\ fanout' = Tail(fanout)
  /\ LET e == Head(fanout) IN
       IF e.kind = "usage"
       THEN /\ turnUsage' = turnUsage \cup {e.of}
            /\ UNCHANGED <<currentTurn, lastTurn, open, interrupted, log, translator>>
       ELSE /\ emitObserved(e)
            /\ translator' = IF isTurnTerminal(e.kind) THEN "closing" ELSE "ranging"
  /\ UNCHANGED <<agentVars, marking, fanoutClosed, typedItems, panicked, callVars, run>>

\* The end of emitObserved for a terminal event, turnMu still held.
TranslateClose ==
  /\ translator = "closing"
  /\ translator' = "ranging"
  /\ currentTurn' = 0 /\ MarksClosed(currentTurn)
  /\ UNCHANGED <<agentVars, queueVars, lastTurn, turnUsage, log, callVars, run>>

TranslatorDone ==
  /\ translator = "ranging" /\ fanout = << >> /\ fanoutClosed
  /\ translator' = "done"
  /\ UNCHANGED <<agentVars, queueVars, turnVars, callVars, run>>

--------------------------------------------------------------------------------
(***************************************************************************)
(* The host's calls.                                                       *)
(***************************************************************************)

\* SendInput up to inputWG.Add, in one critical section of inputMu.
SendInput(i) ==
  /\ input[i] = "idle" /\ run # "starting" /\ session # "none" /\ ~inputsClosed
  /\ input' = [input EXCEPT ![i] = "admitted"]
  /\ UNCHANGED <<agentVars, queueVars, turnVars, inputsClosed, canceling, canceledTurn, runVars>>

SendInputRefused(i) ==
  /\ input[i] = "idle" /\ (run = "starting" \/ session = "none" \/ inputsClosed)
  /\ input' = [input EXCEPT ![i] = "returned"]
  /\ UNCHANGED <<agentVars, queueVars, turnVars, inputsClosed, canceling, canceledTurn, runVars>>

\* session.SendInput hands the input to a long-lived agent ...
InputDelivered(i) ==
  /\ input[i] = "admitted" /\ child = "longLived" /\ session = "live"
  /\ queued' = queued + 1
  /\ input' = [input EXCEPT ![i] = "returned"]
  /\ UNCHANGED <<child, session, stopped, agentTurn, answering, runner, interruptedBy,
                 produced, queueVars, turnVars, inputsClosed, canceling, canceledTurn, runVars>>

\* ... or runs a child for the turn, until its output ends ...
InputRuns(i) ==
  /\ input[i] = "admitted" /\ child = "perTurn" /\ session = "live" /\ runner = None
  /\ agentTurn' = agentTurn + 1 /\ answering' = TRUE /\ runner' = i
  /\ input' = [input EXCEPT ![i] = "running"]
  /\ UNCHANGED <<child, session, stopped, queued, interruptedBy, produced, queueVars,
                 turnVars, inputsClosed, canceling, canceledTurn, runVars>>

\* (with or without a terminal event) ...
InputRan(i) ==
  /\ input[i] = "running" /\ ~marking
  /\ answering' = FALSE /\ runner' = None
  /\ input' = [input EXCEPT ![i] = "returned"]
  /\ UNCHANGED <<child, session, stopped, queued, agentTurn, interruptedBy, produced,
                 queueVars, turnVars, inputsClosed, canceling, canceledTurn, runVars>>

\* ... or fails.
InputFails(i) ==
  /\ input[i] = "admitted"
  /\ input' = [input EXCEPT ![i] = "returned"]
  /\ UNCHANGED <<agentVars, queueVars, turnVars, inputsClosed, canceling, canceledTurn, runVars>>

\* Stop, on a session Run has stored, or Run's watcher once ctx is done.  Either
\* leaves a session that has ended as it is.
Stop ==
  /\ run # "starting" /\ session = "live" /\ ~stopped
  /\ stopped' = TRUE
  /\ UNCHANGED <<child, session, queued, agentTurn, answering, runner, interruptedBy,
                 produced, queueVars, turnVars, callVars, runVars>>

\* CancelTurn on a session that can interrupt a turn: markOpen ...
CancelTurn(c) ==
  /\ canceling[c] = "idle" /\ run # "starting" /\ session # "none" /\ child = "longLived"
  /\ canceling' = [canceling EXCEPT ![c] = "marked"]
  /\ canceledTurn' = [canceledTurn EXCEPT ![c] = open]
  /\ interrupted' = open
  /\ UNCHANGED <<agentVars, queueVars, currentTurn, lastTurn, turnUsage, open, log, input,
                 inputsClosed, runVars>>

\* ... InterruptTurn reaches the agent, which ends its turn if it is in one ...
InterruptTurn(c) ==
  /\ canceling[c] = "marked" /\ session = "live"
  /\ canceling' = [canceling EXCEPT ![c] = "asked"]
  /\ interruptedBy' = IF answering /\ interruptedBy = None THEN c ELSE interruptedBy
  /\ UNCHANGED <<child, session, stopped, queued, agentTurn, answering, runner, produced,
                 queueVars, turnVars, input, inputsClosed, canceledTurn, runVars>>

\* ... and is acknowledged ...
InterruptAcknowledged(c) ==
  /\ canceling[c] = "asked"
  /\ canceling' = [canceling EXCEPT ![c] = "ok"]
  /\ UNCHANGED <<agentVars, queueVars, turnVars, input, inputsClosed, canceledTurn, runVars>>

\* MUTANT: the mark of a failed interrupt stays.
InterruptFailsMarked(c) ==
  /\ canceling[c] \in {"marked", "asked"}
  /\ canceling' = [canceling EXCEPT ![c] = "failed"]
  /\ UNCHANGED <<agentVars, queueVars, turnVars, input, inputsClosed, canceledTurn, runVars>>

\* ... or fails, and the turn is unmarked.
InterruptFails(c) ==
  /\ canceling[c] \in {"marked", "asked"}
  /\ canceling' = [canceling EXCEPT ![c] = "failed"]
  /\ interrupted' = IF interrupted = canceledTurn[c] THEN 0 ELSE interrupted
  /\ UNCHANGED <<agentVars, queueVars, currentTurn, lastTurn, turnUsage, open, log, input,
                 inputsClosed, canceledTurn, runVars>>

--------------------------------------------------------------------------------
SessionStep ==
  \/ AgentBegin \/ SendMarker \/ SessionEnd
  \/ \E kind \in TypedKinds : TypedEventCallback(kind)
  \/ \E kind \in StreamKinds : SendStreamEvent(kind)

RunStep ==
  \/ StartChild \/ StartFail \/ RunStarted \/ SandboxApplied \/ SandboxFailed \/ AbortStop
  \/ WaitReturn \/ closeInputAdmission \/ InputsJoined \/ closeFanout \/ flushOpenTurn
  \/ RunReturn

TranslatorStep == TranslateTyped \/ TranslateStream \/ TranslateClose \/ TranslatorDone

InputStep(i) ==
  \/ SendInput(i) \/ SendInputRefused(i) \/ InputDelivered(i) \/ InputRuns(i)
  \/ InputRan(i) \/ InputFails(i)

CancelStep(c) ==
  CancelTurn(c) \/ InterruptTurn(c) \/ InterruptAcknowledged(c) \/ InterruptFails(c)

Next ==
  \/ SessionStep \/ RunStep \/ TranslatorStep
  \/ \E i \in Inputs : InputStep(i)
  \/ \E c \in Cancels : CancelStep(c)
  \/ Stop

Spec == Init /\ [][Next]_vars

\* The wrapper's goroutines keep running, and so does enqueue.  A stopped session
\* ends; a SendInput returns once its session has ended.  Nothing is assumed of
\* the agent or of the host.
Fairness ==
  /\ WF_vars(RunStep)
  /\ WF_vars(TranslatorStep)
  /\ WF_vars(SendMarker)
  /\ WF_vars(stopped /\ SessionEnd)
  /\ \A i \in Inputs : WF_vars(session = "ended" /\ (InputRan(i) \/ InputFails(i)))

FairSpec == Spec /\ Fairness

--------------------------------------------------------------------------------
(***************************************************************************)
(* Properties.                                                             *)
(***************************************************************************)

\* Every variable has its type.
TypeOK ==
  /\ child \in Children /\ session \in {"none", "live", "ended"}
  /\ stopped \in BOOLEAN /\ answering \in BOOLEAN /\ marking \in BOOLEAN
  /\ fanoutClosed \in BOOLEAN /\ panicked \in BOOLEAN
  /\ inputsClosed \in BOOLEAN
  /\ queued \in 0..Cardinality(Inputs) /\ agentTurn \in 0..Cardinality(Inputs)
  /\ runner \in Inputs \cup {None} /\ interruptedBy \in Cancels \cup {None}
  /\ produced \in 0..MaxOutput
  /\ fanout \in Seq(Events \cup {typedMarker}) /\ Len(fanout) <= FanoutCap
  /\ typedItems \in Seq(Events)
  /\ run \in {"starting", "started", "waiting", "aborting", "waited", "sealed", "joined",
              "closed", "flushed", "returned"}
  /\ translator \in {"off", "ranging", "closing", "done"}
  /\ input \in [Inputs -> {"idle", "admitted", "running", "returned"}]
  /\ canceling \in [Cancels -> {"idle", "marked", "asked", "ok", "failed"}]
  /\ canceledTurn \in [Cancels -> 0..MaxOutput]
  /\ {currentTurn, lastTurn, open, interrupted} \subseteq 0..MaxOutput
  /\ turnUsage \subseteq 0..Cardinality(Inputs)

\* A turn has had its terminal event.
Ended(l, t) == \E k \in DOMAIN l : l[k].turn = t /\ isTurnTerminal(l[k].what)

\* A turn's events are turn.started, events inside it, and at most one terminal
\* event, last; and turns do not overlap.
Bracketed(l) ==
  \A k \in DOMAIN l : l[k].turn # 0 =>
    /\ l[k].what = "started" <=> \A j \in 1..(k - 1) : l[j].turn # l[k].turn
    /\ \A j \in 1..(k - 1) : /\ l[j].turn <= l[k].turn
                             /\ l[j].turn = l[k].turn => ~isTurnTerminal(l[j].what)

\* Turns are bracketed, a turn ends before the next one starts, and when
\* process.exited is emitted every turn has ended, although the child may exit,
\* Stop may come or the channel may drop a terminal event at any point.
TurnsBracketed ==
  /\ Bracketed(log)
  /\ \A t \in 1..lastTurn :
       /\ \E k \in DOMAIN log : log[k].turn = t
       /\ t < lastTurn \/ run = "returned" => Ended(log, t)

\* The sink receives typed and stream events in the order the agent reported
\* them, although they reach the translator by two queues.
SinkInOrder ==
  \A j, k \in 1..Len(log) : j < k /\ log[j].n # 0 /\ log[k].n # 0 => log[j].n < log[k].n

\* How many of the first q items of a channel are markers.
Markers(f, q) == Cardinality({k \in 1..q : f[k] = typedMarker})

\* No typed event waits for a marker that is not there: each queued one has its
\* own marker in the channel, or one about to be sent, so none is lost to a full
\* channel or to its closing.
EveryTypedHasMarker ==
  Len(typedItems) = Markers(fanout, Len(fanout)) + (IF marking THEN 1 ELSE 0)

\* Nothing is sent on the closed fanout channel: every accepted SendInput, whose
\* turn sends on it, is waited for, and none is accepted later.
NoSendOnClosed == ~panicked

\* A turn.failed says it was interrupted only if a CancelTurn that marked that
\* turn has not failed.
InterruptNotInvented ==
  [][\A k \in (Len(log) + 1)..Len(log') : log'[k].reason = "interrupted" =>
       \E c \in Cancels : canceledTurn[c] = log'[k].turn /\ canceling[c] # "failed"]_vars

\* The usage of an agent's turn rides on at most one terminal event.
UsageCountedOnce ==
  \A j, k \in 1..Len(log) : j # k => log[j].usage \cap log[k].usage = {}

\* The translator's two queues and the usage it carries stay consistent: a marker
\* for each typed event, no send on a closed channel, no usage counted twice.
NativeInv == TypeOK /\ EveryTypedHasMarker /\ NoSendOnClosed /\ UsageCountedOnce

\* Run returns once its session has ended or is told to stop, whatever is in the
\* queues and however many inputs are under way.
RunReturns == stopped \/ session = "ended" ~> run = "returned"
================================================================================
