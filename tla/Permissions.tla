------------------------------ MODULE Permissions ------------------------------
(***************************************************************************)
(* The permission coordinator of one ACP client session                    *)
(* (acp/permission.go, BestEffortPermissionRequests).  The agent sends     *)
(* session/request_permission frames; each is bound to the turn generation *)
(* current when the protocol reader dispatches it, put to the host's       *)
(* responder, and answered exactly once.  Prompt, Cancel and Close of the  *)
(* client run concurrently and decide which answers may still select an    *)
(* option.                                                                 *)
(*                                                                         *)
(* Every action is one critical section of p.mu, or one step of a          *)
(* goroutine between two of them.  The lifecycle calls are unconstrained   *)
(* here: AcpClient constrains them to what the client really does.         *)
(***************************************************************************)
EXTENDS Naturals, FiniteSets

CONSTANTS
  Requests,        \* the permission requests the agent may send
  DirectRequests,  \* those answered through Respond instead of a dispatch
  LifecycleCalls,  \* the client methods that hold the response gate
  None,            \* nobody: the gate or the reader is free
  MaxTurns,        \* bound: how many turns begin
  MaxConcurrent,   \* MaxConcurrentBestEffortPermissionRequests (64)
  Configured,      \* whether the host installed a responder
  FrameKinds,      \* which kinds of frame the agent sends
  ReturnedAnswers  \* what the responder may return

ASSUME PermissionConstants ==
  /\ IsFiniteSet(Requests)
  /\ DirectRequests \subseteq Requests
  /\ None \notin Requests /\ None \notin LifecycleCalls
  /\ Requests \cap LifecycleCalls = {}
  /\ MaxTurns \in Nat
  /\ MaxConcurrent \in Nat
  /\ Configured \in BOOLEAN
  /\ FrameKinds \subseteq {"valid", "invalid", "otherSession"}
  /\ ReturnedAnswers \subseteq {"offered", "unoffered", "empty", "error", "context"}

VARIABLES
  closed,          \* p.closed
  sessionBound,    \* p.sessionID is set
  generation,      \* p.generation
  turns,           \* every permissionTurn begun; "present" = still in p.turns
  asyncDispatches, \* p.asyncDispatches
  callbacks,       \* p.callbacks
  ending,          \* generations whose EndTurn waits on turn.done
  stage,           \* where each request is in dispatch and respondAdmitted
  kind,            \* what parsePermissionRequest and the session check find
  adm,             \* the request's permissionAdmission
  pending,         \* requests with an entry in p.pending
  canceled,        \* entries with canceled set and their context done
  committed,       \* entries past the linearization point
  responder,       \* the responder goroutine of the request
  answer,          \* what the responder returned, or "context" once woken by it
  resolution,      \* the PermissionResolution delivered to the agent
  gate,            \* holder of responseGate (the client's promptCloseMu)
  reader           \* the request the protocol reader is busy with

permVars == <<closed, sessionBound, generation, turns, asyncDispatches, callbacks,
              ending, stage, kind, adm, pending, canceled, committed, responder,
              answer, resolution, gate, reader>>

Turns == 1..MaxTurns

Stages == {"unsent", "admitted", "announced", "declined", "asking", "answered",
           "gated", "committed", "responded", "retired", "completed", "done"}

\* Between admitPermission and completePermissionAdmission.
InFlight == {"admitted", "announced", "declined", "asking", "answered", "gated",
             "committed", "responded", "retired"}

Kinds == {"valid", "invalid", "otherSession"}

\* An offered option, an id that was not offered, an empty id, a failure (or
\* panic) of the responder, and its context's error.
Answers == {"offered", "unoffered", "empty", "error", "context"}

\* "selected", and the reasons of every cancelled resolution.
Resolutions == {"selected", "request cancelled", "responder failed",
                "responder cancelled", "invalid selection", "turn not active",
                "invalid request", "session mismatch", "no responder configured",
                "responder capacity reached"}

Turn == [present: BOOLEAN, active: BOOLEAN, canceled: BOOLEAN, ending: BOOLEAN,
         dispatches: Nat, doneClosed: BOOLEAN, closes: Nat]

NoTurn == [present |-> FALSE, active |-> FALSE, canceled |-> FALSE, ending |-> FALSE,
           dispatches |-> 0, doneClosed |-> FALSE, closes |-> 0]

NewTurn == [NoTurn EXCEPT !.present = TRUE, !.active = TRUE]

Admission == [generation: 0..MaxTurns, activeTurn: BOOLEAN, counted: BOOLEAN,
              async: BOOLEAN, atCapacity: BOOLEAN]

NoAdmission == [generation |-> 0, activeTurn |-> FALSE, counted |-> FALSE,
                async |-> FALSE, atCapacity |-> FALSE]

PermInit ==
  /\ closed = FALSE
  /\ sessionBound = FALSE
  /\ generation = 0
  /\ turns = [g \in Turns |-> NoTurn]
  /\ asyncDispatches = 0
  /\ callbacks = 0
  /\ ending = {}
  /\ stage = [r \in Requests |-> "unsent"]
  /\ kind = [r \in Requests |-> "valid"]
  /\ adm = [r \in Requests |-> NoAdmission]
  /\ pending = {}
  /\ canceled = {}
  /\ committed = {}
  /\ responder = [r \in Requests |-> "unused"]
  /\ answer = [r \in Requests |-> "none"]
  /\ resolution = [r \in Requests |-> "none"]
  /\ gate = None
  /\ reader = None

--------------------------------------------------------------------------------
(***************************************************************************)
(* Helpers of the critical sections.                                       *)
(***************************************************************************)

\* closePermissionTurnDoneLocked: close turn.done once the turn is ending and
\* its last dispatch has completed.  "closes" counts the close() calls, since a
\* second one panics.
CloseDone(t) ==
  IF ~t.ending \/ t.dispatches # 0 \/ t.doneClosed
  THEN t
  ELSE [t EXCEPT !.doneClosed = TRUE, !.closes = @ + 1]

\* What each caller of it does to the turn first: close its admission, close it
\* for good as BeginTurn and Close do, or count one dispatch less.
ShutTurn(t) == CloseDone([t EXCEPT !.active = FALSE, !.ending = TRUE])
RevokeTurn(t) == CloseDone([t EXCEPT !.active = FALSE, !.canceled = TRUE, !.ending = TRUE])
FinishDispatch(t) == CloseDone([t EXCEPT !.dispatches = @ - 1])

\* The turn p.turns holds for generation g, if any.
HasTurn(g) == g \in Turns /\ turns[g].present

\* What admission requires of the current generation.
TurnOpen == ~closed /\ HasTurn(generation) /\ turns[generation].active

\* The re-check of respondAdmitted, before asking and again before committing.
TurnLive(r) ==
  LET g == adm[r].generation
  IN ~closed /\ HasTurn(g) /\ turns[g].active /\ ~turns[g].canceled

\* Cancel the uncommitted entries of S.
CancelEntries(S) == canceled' = canceled \cup ((S \cap pending) \ committed)

OfGeneration(g) == {r \in Requests : adm[r].generation = g}

\* MUTANT: off by one at the dispatch limit.
DispatchAdmissionOffByOne ==
  [generation |-> generation, activeTurn |-> TurnOpen, counted |-> TurnOpen,
   async |-> TurnOpen /\ asyncDispatches <= MaxConcurrent,
   atCapacity |-> TurnOpen /\ asyncDispatches > MaxConcurrent]

\* admitPermission's result for a frame dispatched by the reader.
DispatchAdmission ==
  [generation |-> generation, activeTurn |-> TurnOpen, counted |-> TurnOpen,
   async |-> TurnOpen /\ asyncDispatches < MaxConcurrent,
   atCapacity |-> TurnOpen /\ asyncDispatches >= MaxConcurrent]

\* admitPermission's result for the direct call Respond: bound to the turn but
\* not counted by its barrier.
RespondAdmission == [NoAdmission EXCEPT !.generation = generation, !.activeTurn = TurnOpen]

--------------------------------------------------------------------------------
(***************************************************************************)
(* A request's own steps.                                                  *)
(***************************************************************************)

SetSessionID ==
  /\ sessionBound' = TRUE
  /\ UNCHANGED <<closed, generation, turns, asyncDispatches, callbacks, ending, stage,
                 kind, adm, pending, canceled, committed, responder, answer, resolution,
                 gate, reader>>

\* admitPermission(true), run by the protocol reader for one frame.
Admit(r, k) ==
  /\ reader = None /\ stage[r] = "unsent" /\ r \notin DirectRequests
  /\ reader' = r
  /\ stage' = [stage EXCEPT ![r] = "admitted"]
  /\ kind' = [kind EXCEPT ![r] = k]
  /\ adm' = [adm EXCEPT ![r] = DispatchAdmission]
  /\ turns' = IF TurnOpen THEN [turns EXCEPT ![generation].dispatches = @ + 1] ELSE turns
  /\ asyncDispatches' = IF DispatchAdmission.async THEN asyncDispatches + 1
                                                   ELSE asyncDispatches
  /\ UNCHANGED <<closed, sessionBound, generation, callbacks, ending, pending, canceled,
                 committed, responder, answer, resolution, gate>>

\* dispatchTurnRequest after admission: onAdmission runs on the reader, then the
\* response runs on a goroutine, or on the reader itself when not async.
OnAdmission(r) ==
  /\ stage[r] = "admitted"
  /\ stage' = [stage EXCEPT ![r] = "announced"]
  /\ reader' = IF adm[r].async THEN None ELSE reader
  /\ UNCHANGED <<closed, sessionBound, generation, turns, asyncDispatches, callbacks,
                 ending, kind, adm, pending, canceled, committed, responder, answer,
                 resolution, gate>>

\* Respond: the same response without a dispatch, off the reader.
Respond(r, k) ==
  /\ stage[r] = "unsent" /\ r \in DirectRequests
  /\ stage' = [stage EXCEPT ![r] = "announced"]
  /\ kind' = [kind EXCEPT ![r] = k]
  /\ adm' = [adm EXCEPT ![r] = RespondAdmission]
  /\ UNCHANGED <<closed, sessionBound, generation, turns, asyncDispatches, callbacks,
                 ending, pending, canceled, committed, responder, answer, resolution,
                 gate, reader>>

\* The early returns of respondAdmitted, in the order the code tests them;
\* "ask" when none applies.
EarlyResolution(r) ==
  IF kind[r] = "invalid" THEN "invalid request"
  ELSE IF kind[r] = "otherSession" /\ sessionBound THEN "session mismatch"
  ELSE IF ~Configured THEN "no responder configured"
  ELSE IF ~adm[r].activeTurn THEN "turn not active"
  ELSE IF adm[r].atCapacity THEN "responder capacity reached"
  ELSE IF ~TurnLive(r) THEN "turn not active"
  ELSE IF callbacks >= MaxConcurrent THEN "responder capacity reached"
  ELSE "ask"

\* respondAdmitted up to the responder: a fail-safe answer ...
Decline(r) ==
  /\ stage[r] = "announced"
  /\ EarlyResolution(r) # "ask"
  /\ stage' = [stage EXCEPT ![r] = "declined"]
  /\ resolution' = [resolution EXCEPT ![r] = EarlyResolution(r)]
  /\ UNCHANGED <<closed, sessionBound, generation, turns, asyncDispatches, callbacks,
                 ending, kind, adm, pending, canceled, committed, responder, answer,
                 gate, reader>>

\* ... or a pending entry and a responder goroutine.
Ask(r) ==
  /\ stage[r] = "announced"
  /\ EarlyResolution(r) = "ask"
  /\ stage' = [stage EXCEPT ![r] = "asking"]
  /\ pending' = pending \cup {r}
  /\ callbacks' = callbacks + 1
  /\ responder' = [responder EXCEPT ![r] = "running"]
  /\ UNCHANGED <<closed, sessionBound, generation, turns, asyncDispatches, ending, kind,
                 adm, canceled, committed, answer, resolution, gate, reader>>

\* invokePermissionResponder: the host's responder returns, or panics, at any
\* time or never.  "context" is any context error, its own timeout included.
ResponderReturn(r, a) ==
  /\ responder[r] = "running"
  /\ responder' = [responder EXCEPT ![r] = "returned"]
  /\ answer' = IF stage[r] = "asking" THEN [answer EXCEPT ![r] = a] ELSE answer
  /\ UNCHANGED <<closed, sessionBound, generation, turns, asyncDispatches, callbacks,
                 ending, stage, kind, adm, pending, canceled, committed, resolution,
                 gate, reader>>

\* The responder goroutine gives its slot back after it has returned.
ReleaseCallback(r) ==
  /\ responder[r] = "returned"
  /\ responder' = [responder EXCEPT ![r] = "exited"]
  /\ callbacks' = callbacks - 1
  /\ UNCHANGED <<closed, sessionBound, generation, turns, asyncDispatches, ending,
                 stage, kind, adm, pending, canceled, committed, answer, resolution,
                 gate, reader>>

\* The select of respondAdmitted: the responder's result, or the context.
Wake(r) ==
  /\ stage[r] = "asking"
  /\ stage' = [stage EXCEPT ![r] = "answered"]
  /\ \/ answer[r] # "none" /\ UNCHANGED answer
     \/ r \in canceled /\ answer' = [answer EXCEPT ![r] = "context"]
  /\ UNCHANGED <<closed, sessionBound, generation, turns, asyncDispatches, callbacks,
                 ending, kind, adm, pending, canceled, committed, responder, resolution,
                 gate, reader>>

\* MUTANT: the response is committed and written without the gate.
LockGateSkipped(r) ==
  /\ stage[r] = "answered"
  /\ stage' = [stage EXCEPT ![r] = "gated"]
  /\ UNCHANGED <<closed, sessionBound, generation, turns, asyncDispatches, callbacks,
                 ending, kind, adm, pending, canceled, committed, responder, answer,
                 resolution, gate, reader>>

LockGate(r) ==
  /\ stage[r] = "answered" /\ gate = None
  /\ gate' = r
  /\ stage' = [stage EXCEPT ![r] = "gated"]
  /\ UNCHANGED <<closed, sessionBound, generation, turns, asyncDispatches, callbacks,
                 ending, kind, adm, pending, canceled, committed, responder, answer,
                 resolution, reader>>

\* MUTANT: does not look at the turn and the cancellation again.
FinalResolutionStale(r) ==
  CASE answer[r] = "context" -> "request cancelled"
    [] answer[r] = "error" -> "responder failed"
    [] answer[r] = "empty" -> "responder cancelled"
    [] answer[r] = "unoffered" -> "invalid selection"
    [] OTHER -> "selected"

\* The resolution decided at the linearization point.
FinalResolution(r) ==
  IF r \in canceled \/ ~TurnLive(r) THEN "request cancelled"
  ELSE CASE answer[r] = "context" -> "request cancelled"
         [] answer[r] = "error" -> "responder failed"
         [] answer[r] = "empty" -> "responder cancelled"
         [] answer[r] = "unoffered" -> "invalid selection"
         [] OTHER -> "selected"

Commit(r) ==
  /\ stage[r] = "gated"
  /\ stage' = [stage EXCEPT ![r] = "committed"]
  /\ resolution' = [resolution EXCEPT ![r] = FinalResolution(r)]
  /\ committed' = committed \cup {r}
  /\ UNCHANGED <<closed, sessionBound, generation, turns, asyncDispatches, callbacks,
                 ending, kind, adm, pending, canceled, responder, answer, gate, reader>>

\* deliverPermissionResponse: the bounded write and the resolved event, both in
\* the client's respond callback, whose failure only the client's after sees.
Deliver(r) ==
  /\ stage[r] \in {"declined", "committed"}
  /\ stage' = [stage EXCEPT ![r] = IF @ = "declined" THEN "retired" ELSE "responded"]
  /\ UNCHANGED <<closed, sessionBound, generation, turns, asyncDispatches, callbacks,
                 ending, kind, adm, pending, canceled, committed, responder, answer,
                 resolution, gate, reader>>

\* MUTANT: forgets to drop the entry.
RetireKeepsEntry(r) ==
  /\ stage[r] = "responded"
  /\ stage' = [stage EXCEPT ![r] = "retired"]
  /\ canceled' = canceled \cup {r}
  /\ gate' = None
  /\ UNCHANGED <<closed, sessionBound, generation, turns, asyncDispatches, callbacks,
                 ending, kind, adm, pending, committed, responder, answer, resolution, reader>>

\* The tail of respondAdmitted: drop the entry, cancel its context, and leave
\* the gate.
Retire(r) ==
  /\ stage[r] = "responded"
  /\ stage' = [stage EXCEPT ![r] = "retired"]
  /\ pending' = pending \ {r}
  /\ canceled' = canceled \cup {r}
  /\ gate' = None
  /\ UNCHANGED <<closed, sessionBound, generation, turns, asyncDispatches, callbacks,
                 ending, kind, adm, committed, responder, answer, resolution, reader>>

\* completePermissionAdmission; nothing for a request that was not counted.
Complete(r) ==
  /\ stage[r] = "retired"
  /\ stage' = [stage EXCEPT ![r] = "completed"]
  /\ asyncDispatches' = IF adm[r].async THEN asyncDispatches - 1 ELSE asyncDispatches
  /\ turns' = IF adm[r].counted
              THEN [turns EXCEPT ![adm[r].generation] = FinishDispatch(@)]
              ELSE turns
  /\ UNCHANGED <<closed, sessionBound, generation, callbacks, ending, kind, adm,
                 pending, canceled, committed, responder, answer, resolution, gate,
                 reader>>

\* The after callback; a synchronous dispatch then returns to the reader.
After(r) ==
  /\ stage[r] = "completed"
  /\ stage' = [stage EXCEPT ![r] = "done"]
  /\ reader' = IF reader = r THEN None ELSE reader
  /\ UNCHANGED <<closed, sessionBound, generation, turns, asyncDispatches, callbacks,
                 ending, kind, adm, pending, canceled, committed, responder, answer,
                 resolution, gate>>

--------------------------------------------------------------------------------
(***************************************************************************)
(* The lifecycle calls of the client.                                      *)
(***************************************************************************)

BeginTurn ==
  /\ generation < MaxTurns
  /\ generation' = generation + 1
  /\ turns' = [g \in Turns |->
       IF g = generation + 1 THEN NewTurn
       ELSE IF g = generation /\ HasTurn(g) /\ turns[g].active
            THEN RevokeTurn(turns[g])
            ELSE turns[g]]
  /\ CancelEntries(Requests)
  /\ UNCHANGED <<closed, sessionBound, asyncDispatches, callbacks, ending, stage, kind,
                 adm, pending, committed, responder, answer, resolution, gate, reader>>

\* MUTANT: leaves the turn's pending responders running.
CloseAdmissionOnly(g) ==
  /\ turns' = [turns EXCEPT ![g] = ShutTurn(@)]
  /\ UNCHANGED canceled

\* closeTurnAdmissionLocked on a turn p.turns holds.
CloseAdmissionOf(g) ==
  /\ turns' = [turns EXCEPT ![g] = ShutTurn(@)]
  /\ CancelEntries(OfGeneration(g))

\* The protocol reader closes admission before it delivers a prompt's response.
CloseTurnAdmission ==
  /\ IF HasTurn(generation) THEN CloseAdmissionOf(generation)
                            ELSE UNCHANGED <<turns, canceled>>
  /\ UNCHANGED <<closed, sessionBound, generation, asyncDispatches, callbacks, ending,
                 stage, kind, adm, pending, committed, responder, answer, resolution,
                 gate, reader>>

\* EndTurn up to its wait; without a turn it returns at once.
EndTurn ==
  /\ IF HasTurn(generation)
     THEN CloseAdmissionOf(generation) /\ ending' = ending \cup {generation}
     ELSE UNCHANGED <<turns, canceled, ending>>
  /\ UNCHANGED <<closed, sessionBound, generation, asyncDispatches, callbacks, stage,
                 kind, adm, pending, committed, responder, answer, resolution, gate,
                 reader>>

\* MUTANT: does not wait for turn.done.
EndTurnNoWait(g) ==
  /\ g \in ending
  /\ ending' = ending \ {g}
  /\ turns' = [turns EXCEPT ![g].present = FALSE]
  /\ UNCHANGED <<closed, sessionBound, generation, asyncDispatches, callbacks, stage,
                 kind, adm, pending, canceled, committed, responder, answer, resolution,
                 gate, reader>>

\* EndTurn past its wait on turn.done.
EndTurnReturn(g) ==
  /\ g \in ending /\ turns[g].doneClosed
  /\ ending' = ending \ {g}
  /\ turns' = [turns EXCEPT ![g].present = FALSE]
  /\ UNCHANGED <<closed, sessionBound, generation, asyncDispatches, callbacks, stage,
                 kind, adm, pending, canceled, committed, responder, answer, resolution,
                 gate, reader>>

CancelTurn ==
  /\ turns' = IF HasTurn(generation) THEN [turns EXCEPT ![generation].canceled = TRUE]
                                     ELSE turns
  /\ CancelEntries(OfGeneration(generation))
  /\ UNCHANGED <<closed, sessionBound, generation, asyncDispatches, callbacks, ending,
                 stage, kind, adm, pending, committed, responder, answer, resolution,
                 gate, reader>>

Close ==
  /\ closed' = TRUE
  /\ turns' = [g \in Turns |-> IF turns[g].present THEN RevokeTurn(turns[g])
                                                   ELSE turns[g]]
  /\ CancelEntries(Requests)
  /\ UNCHANGED <<sessionBound, generation, asyncDispatches, callbacks, ending, stage,
                 kind, adm, pending, committed, responder, answer, resolution, gate,
                 reader>>

\* The client methods that order themselves against a response's commit.
TakeGate(c) ==
  /\ gate = None /\ gate' = c
  /\ UNCHANGED <<closed, sessionBound, generation, turns, asyncDispatches, callbacks,
                 ending, stage, kind, adm, pending, canceled, committed, responder,
                 answer, resolution, reader>>

LeaveGate(c) ==
  /\ gate = c /\ gate' = None
  /\ UNCHANGED <<closed, sessionBound, generation, turns, asyncDispatches, callbacks,
                 ending, stage, kind, adm, pending, canceled, committed, responder,
                 answer, resolution, reader>>

RequestStep(r) ==
  \/ \E k \in FrameKinds : Admit(r, k)
  \/ \E k \in FrameKinds : Respond(r, k)
  \/ OnAdmission(r)
  \/ Decline(r)
  \/ Ask(r)
  \/ \E a \in ReturnedAnswers : ResponderReturn(r, a)
  \/ ReleaseCallback(r)
  \/ Wake(r)
  \/ LockGate(r)
  \/ Commit(r)
  \/ Deliver(r)
  \/ Retire(r)
  \/ Complete(r)
  \/ After(r)

LifecycleStep ==
  \/ SetSessionID
  \/ BeginTurn
  \/ CloseTurnAdmission
  \/ EndTurn
  \/ \E g \in Turns : EndTurnReturn(g)
  \/ CancelTurn
  \/ Close
  \/ \E c \in LifecycleCalls : TakeGate(c)
  \/ \E c \in LifecycleCalls : LeaveGate(c)

PermNext == LifecycleStep \/ \E r \in Requests : RequestStep(r)

PermSpec == PermInit /\ [][PermNext]_permVars

\* The steps a request's own goroutine takes; they need neither the agent, nor
\* the responder, which may never return.
OwnStep(r) ==
  \/ OnAdmission(r) \/ Decline(r) \/ Ask(r)
  \/ Wake(r) \/ LockGate(r) \/ Commit(r) \/ Deliver(r) \/ Retire(r)
  \/ Complete(r) \/ After(r)

--------------------------------------------------------------------------------
(***************************************************************************)
(* Properties.                                                             *)
(***************************************************************************)

\* Every variable of the coordinator has its type.
PermTypeOK ==
  /\ closed \in BOOLEAN /\ sessionBound \in BOOLEAN
  /\ generation \in 0..MaxTurns
  /\ turns \in [Turns -> Turn]
  /\ asyncDispatches \in Nat /\ callbacks \in Nat
  /\ ending \subseteq Turns
  /\ stage \in [Requests -> Stages]
  /\ kind \in [Requests -> Kinds]
  /\ adm \in [Requests -> Admission]
  /\ pending \subseteq Requests /\ canceled \subseteq Requests
  /\ committed \subseteq Requests
  /\ responder \in [Requests -> {"unused", "running", "returned", "exited"}]
  /\ answer \in [Requests -> Answers \cup {"none"}]
  /\ resolution \in [Requests -> Resolutions \cup {"none"}]
  /\ gate \in Requests \cup LifecycleCalls \cup {None}
  /\ reader \in Requests \cup {None}

\* The requests EndTurn of generation g has to wait for, the dispatch
\* goroutines and the responder goroutines that exist.
Counted(g) == {r \in Requests : adm[r].counted /\ adm[r].generation = g /\ stage[r] \in InFlight}
Dispatching == {r \in Requests : adm[r].async /\ stage[r] \in InFlight}
CallingBack == {r \in Requests : responder[r] \in {"running", "returned"}}

\* EndTurn is a barrier: once it has returned (the turn has left p.turns) no
\* request that was admitted to that turn still has a response, or the event
\* for it, to send - however BeginTurn, CancelTurn and Close interleaved.
EndTurnBarrier ==
  \A g \in Turns : g <= generation /\ ~turns[g].present => Counted(g) = {}

\* Neither the dispatch goroutines nor the responder calls that have not
\* returned ever exceed MaxConcurrentBestEffortPermissionRequests, although a
\* responder that ignores its context outlives its request and its turn.
CapacityHeld ==
  /\ Cardinality(Dispatching) <= MaxConcurrent
  /\ Cardinality(CallingBack) <= MaxConcurrent

\* turn.done is never closed twice (a panic), although BeginTurn, EndTurn,
\* CloseTurnAdmission, Close and the last completing request all may close it.
DoneClosedOnce == \A g \in Turns : turns[g].closes <= 1

\* No responder is left uncancelled in a turn that ended, was cancelled or
\* superseded, or in a closed client: an uncommitted pending request whose turn
\* is no longer live has had its context cancelled.
RevocationReachesPending ==
  \A r \in pending \ committed : TurnLive(r) \/ r \in canceled

\* Fail-safe: an option is selected only for a well-formed request, admitted to
\* a turn, whose responder returned an offered option.
SelectedByResponder ==
  \A r \in Requests : resolution[r] = "selected" =>
    /\ Configured /\ kind[r] # "invalid" /\ adm[r].activeTurn
    /\ answer[r] = "offered" /\ responder[r] \in {"returned", "exited"}

\* EndTurn never waits in vain, even if no responder ever returns and whatever
\* the other calls do: turn.done is closed, or a client method holds the gate and
\* will leave it, or a request EndTurn waits for, the one in the gate or the one
\* the reader is busy with can take its next step.  Each has finitely many.
EndTurnNeverStuck ==
  \A g \in ending :
    \/ turns[g].doneClosed
    \/ gate \in LifecycleCalls
    \/ \E r \in (Counted(g) \cup {gate, reader}) \ {None} : ENABLED OwnStep(r)

--------------------------------------------------------------------------------
(***************************************************************************)
(* The inductive invariant behind the safety properties.                   *)
(***************************************************************************)

\* The counters count what they stand for, and stay within the limit.
CountersExact ==
  /\ asyncDispatches = Cardinality(Dispatching) /\ asyncDispatches <= MaxConcurrent
  /\ callbacks = Cardinality(CallingBack) /\ callbacks <= MaxConcurrent
  /\ \A g \in Turns : turns[g].dispatches = Cardinality(Counted(g))

\* One turn: active only while p.turns holds it and it is not ending; turn.done
\* is closed, once, exactly when the turn is ending and its last dispatch is over.
TurnWellFormed(t) ==
  /\ t.active => t.present /\ ~t.ending
  /\ t.doneClosed <=> t.ending /\ t.dispatches = 0
  /\ t.closes = IF t.doneClosed THEN 1 ELSE 0

\* All turns: only the current generation is active, an earlier one is ending,
\* and EndTurn drops a turn only when it is done.
TurnShape ==
  /\ \A g \in Turns :
       /\ TurnWellFormed(turns[g])
       /\ g > generation => turns[g] = NoTurn
       /\ g < generation => turns[g].ending
       /\ g = generation => turns[g].active \/ turns[g].ending
       /\ g <= generation /\ ~turns[g].present => turns[g].doneClosed
  /\ \A g \in ending : g <= generation

\* What an admission says, and the stages that need one.
AdmissionShape ==
  \A r \in Requests :
    /\ adm[r].generation <= generation
    /\ adm[r].activeTurn => adm[r].generation >= 1
    /\ adm[r].counted => adm[r].activeTurn
    /\ adm[r].async => adm[r].counted
    /\ stage[r] = "unsent" => ~adm[r].counted

\* The stages at which a request has an entry, a responder and an answer.
EntryShape ==
  \A r \in Requests :
    /\ r \in pending <=> stage[r] \in {"asking", "answered", "gated", "committed", "responded"}
    /\ r \in committed =>
         stage[r] \notin {"unsent", "admitted", "announced", "asking", "answered", "gated"}
    /\ stage[r] \in {"committed", "responded"} => r \in committed
    /\ stage[r] \in {"unsent", "admitted", "announced"} =>
         responder[r] = "unused" /\ answer[r] = "none"
    /\ stage[r] \in {"unsent", "admitted", "announced", "asking", "answered", "gated"} =>
         resolution[r] = "none"
    /\ r \in pending => Configured /\ kind[r] # "invalid" /\ adm[r].activeTurn
    /\ answer[r] = "offered" => responder[r] \in {"returned", "exited"}
    /\ stage[r] \in {"answered", "gated"} => answer[r] # "none"
    /\ gate = r <=> stage[r] \in {"gated", "committed", "responded"}

\* The coordinator's inductive invariant: no step of any goroutine, in any
\* order, takes its counters, turns, admissions and entries apart.
PermInv ==
  /\ PermTypeOK
  /\ CountersExact
  /\ TurnShape
  /\ AdmissionShape
  /\ EntryShape
  /\ RevocationReachesPending
  /\ SelectedByResponder

--------------------------------------------------------------------------------
(***************************************************************************)
(* The coordinator implements PermissionContract.                          *)
(***************************************************************************)

\* Where a turn of the coordinator stands in the contract.
TurnState(g) ==
  IF g > generation THEN "future"
  ELSE IF ~turns[g].present THEN "over"
  ELSE IF ~closed /\ turns[g].active /\ ~turns[g].canceled THEN "accepting" ELSE "revoked"

\* Where a request of the coordinator stands in the contract.
RequestState(r) ==
  CASE stage[r] = "unsent" -> "unsent"
    [] stage[r] \in {"admitted", "announced", "asking", "answered", "gated"} -> "open"
    [] stage[r] \in {"declined", "committed"} ->
         IF resolution[r] = "selected" THEN "selected" ELSE "declined"
    [] OTHER -> "answered"

Contract == INSTANCE PermissionContract WITH
  turnState <- [g \in Turns |-> TurnState(g)],
  owner     <- [r \in Requests |-> IF adm[r].activeTurn THEN adm[r].generation ELSE 0],
  counts    <- {r \in Requests : adm[r].counted},
  state     <- [r \in Requests |-> RequestState(r)]

\* Whatever the callers do, the coordinator keeps the contract: a request is
\* decided once, selected only while its own turn accepts, and a turn is over
\* only when the requests it counts are answered.
ImplementsContract == Contract!Spec
================================================================================
