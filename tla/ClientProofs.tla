-------------------------------- MODULE ClientProofs --------------------------------
(***************************************************************************)
(* The NDJSON client uses its permission coordinator only in ways          *)
(* Permissions allows, so everything proved of the coordinator holds in    *)
(* the client; on that stand the client's own invariant, the completeness  *)
(* of its event stream, and the order of its events and of the frames it   *)
(* writes.                                                                 *)
(*                                                                         *)
(* The Copilot client follows: what it takes over from AcpClient keeps     *)
(* what is shown of those steps, and its own steps - another Launch,       *)
(* another failure of Prompt, another Close and another end of the         *)
(* transport - keep it too.  On that stand the matching of its turns, what *)
(* Close releases, and the order of its events and frames.                 *)
(***************************************************************************)
EXTENDS CopilotClient, PermissionsProofs

\* A step of Prompt or of the goroutine that finishes a turn.
LEMMA PromptStepMaps ==
  PromptStep \/ (\E g \in Turns : FinishStep(g)) => [PermNext]_permVars
BY ClientConstants
   DEF PromptStep, PromptLock, PromptRefuse, PromptAdmit, PromptStart, PromptWritten,
       PromptWriteFail, PromptUnwind, FinishStep, AwaitReturn, FinishEndTurn,
       FinishBarrier, FinishClear, FinishEmit, PermNext, LifecycleStep

\* A step of Launch, Cancel or Close.
LEMMA CallStepMaps ==
  LaunchReady \/ LaunchFail \/ CancelStep \/ CloseStep => [PermNext]_permVars
BY ClientConstants
   DEF LaunchReady, LaunchFail, CancelStep, CancelLock, CancelNoTurn, CancelPermissions,
       CancelNotify, CloseStep, CloseSeal, ClosePermissions, CloseGraceful, CloseForced,
       CloseRequest, CloseLeave, CloseTransport, CloseKill, CloseReturn, PermNext,
       LifecycleStep

\* A step of the protocol reader, or of the response to one request.
LEMMA ReadStepMaps ==
  ReadStep \/ (\E r \in Requests : ResponseStep(r)) => [PermNext]_permVars
BY DEF ReadStep, ReadPermissionRequest, TakeResponse, DeliverResponse, ReadEnd, ReadReport,
       ResponseStep, AnnounceRequest, CoordinatorStep, DeliverResolution, AfterResponse,
       HostAnswers, PermNext, LifecycleStep, RequestStep

\* A step of the child process or of the termination coordinator.
LEMMA TerminationStepMaps ==
  ProcessExit \/ ProcessReport \/ TerminationStep => [PermNext]_permVars
BY DEF ProcessExit, ProcessReport, TerminationStep, JoinFirst, JoinTimeout, Joined,
       TerminatePermissions, TerminateExit, SealEvents, CloseEvents, PermNext, LifecycleStep

\* A step of the client is one of its coordinator, or none.
LEMMA ClientStepMaps == [Next]_vars => [PermNext]_permVars
<1>1. Next => [PermNext]_permVars
  BY PromptStepMaps, CallStepMaps, ReadStepMaps, TerminationStepMaps DEF Next
<1>2. UNCHANGED vars => UNCHANGED permVars
  BY DEF vars
<1> QED
  BY <1>1, <1>2

\* Every behaviour of the client is one of its coordinator: Prompt, Cancel,
\* Close, the reader and the termination coordinator call it within its rules.
THEOREM ClientUsesCoordinator == Spec => PermSpec
<1>1. Init => PermInit
  BY DEF Init, QuietInit
<1> QED
  BY <1>1, ClientStepMaps, PTL DEF Spec, PermSpec

\* In the client, too, EndTurn is a barrier, the limits hold, every revocation
\* reaches its responders, and nothing is selected but by a responder.
THEOREM ClientKeepsCoordinator ==
  Spec => [](EndTurnBarrier /\ CapacityHeld /\ RevocationReachesPending /\ SelectedByResponder)
BY ClientUsesCoordinator, EndTurnBarrierHolds, CapacityIsHeld, RevocationReaches,
   SelectionIsFailSafe, PTL

--------------------------------------------------------------------------------
(***************************************************************************)
(* What the coordinator's steps mean for turns.                            *)
(***************************************************************************)

\* No turn begins or ends.
TurnsStay ==
  /\ generation' = generation /\ ending' = ending
  /\ \A g \in Turns : /\ turns'[g].present = turns[g].present
                      /\ turns[g].canceled => turns'[g].canceled

\* Shutting, revoking and counting down keep a turn in p.turns and canceled.
LEMMA TurnUpdates ==
  ASSUME NEW t \in Turn
  PROVE  /\ ShutTurn(t).present = t.present /\ ShutTurn(t).canceled = t.canceled
         /\ RevokeTurn(t).present = t.present /\ RevokeTurn(t).canceled
         /\ FinishDispatch(t).present = t.present /\ FinishDispatch(t).canceled = t.canceled
<1>1. ShutTurn(t).present = t.present /\ ShutTurn(t).canceled = t.canceled
  BY DEF ShutTurn, CloseDone, Turn
<1>2. RevokeTurn(t).present = t.present /\ RevokeTurn(t).canceled
  BY DEF RevokeTurn, CloseDone, Turn
<1>3. FinishDispatch(t).present = t.present /\ FinishDispatch(t).canceled = t.canceled
  BY DEF FinishDispatch, CloseDone, Turn
<1> QED
  BY <1>1, <1>2, <1>3

\* Closing a turn's admission, cancelling it and closing the coordinator end no turn.
LEMMA LifecycleKeepsTurns ==
  ASSUME PermTypeOK
  PROVE  /\ CloseTurnAdmission \/ CancelTurn \/ Close => TurnsStay
         /\ EndTurn =>
              /\ generation' = generation
              /\ ending' = IF HasTurn(generation) THEN ending \cup {generation} ELSE ending
              /\ \A g \in Turns : /\ turns'[g].present = turns[g].present
                                  /\ turns[g].canceled => turns'[g].canceled
         /\ Close => closed'
         /\ CancelTurn => (generation \in Turns =>
              ~turns[generation].present \/ turns'[generation].canceled)
<1>1. turns \in [Turns -> Turn] /\ \A g \in Turns : turns[g] \in Turn
  BY DEF PermTypeOK
<1>2. ASSUME HasTurn(generation), CloseAdmissionOf(generation)
      PROVE  \A g \in Turns : /\ turns'[g].present = turns[g].present
                              /\ turns[g].canceled => turns'[g].canceled
  BY <1>1, <1>2, TurnUpdates DEF CloseAdmissionOf, HasTurn
<1>3. ASSUME CloseTurnAdmission PROVE TurnsStay
  <2>1. generation' = generation /\ ending' = ending
    BY <1>3 DEF CloseTurnAdmission
  <2> QED
    BY <1>2, <1>3, <2>1 DEF CloseTurnAdmission, TurnsStay
<1>4. CancelTurn => TurnsStay /\ (generation \in Turns =>
              ~turns[generation].present \/ turns'[generation].canceled)
  <2> SUFFICES ASSUME CancelTurn PROVE TurnsStay /\ (generation \in Turns =>
              ~turns[generation].present \/ turns'[generation].canceled)
    OBVIOUS
  <2>1. ASSUME HasTurn(generation)
        PROVE  /\ [turns EXCEPT ![generation].canceled = TRUE][generation].canceled
               /\ \A g \in Turns :
                    /\ [turns EXCEPT ![generation].canceled = TRUE][g].present = turns[g].present
                    /\ turns[g].canceled => [turns EXCEPT ![generation].canceled = TRUE][g].canceled
    BY <1>1, <2>1 DEF HasTurn, Turn
  <2> QED
    BY <2>1 DEF CancelTurn, TurnsStay, HasTurn
<1>5. Close => TurnsStay /\ closed'
  BY <1>1, TurnUpdates DEF Close, TurnsStay
<1>6. EndTurn =>
              /\ generation' = generation
              /\ ending' = IF HasTurn(generation) THEN ending \cup {generation} ELSE ending
              /\ \A g \in Turns : /\ turns'[g].present = turns[g].present
                                  /\ turns[g].canceled => turns'[g].canceled
  BY <1>2 DEF EndTurn
<1> QED
  BY <1>3, <1>4, <1>5, <1>6

\* Beginning a turn adds it to those the coordinator holds.
LEMMA BeginTurnBegins ==
  ASSUME PermTypeOK, BeginTurn
  PROVE  \A g \in Turns : turns'[g].present <=> turns[g].present \/ g = generation + 1
<1> SUFFICES ASSUME NEW g \in Turns
             PROVE  turns'[g].present <=> turns[g].present \/ g = generation + 1
  OBVIOUS
<1>1. turns' = [h \in Turns |->
         IF h = generation + 1 THEN NewTurn
         ELSE IF h = generation /\ HasTurn(h) /\ turns[h].active
              THEN RevokeTurn(turns[h]) ELSE turns[h]]
  BY DEF BeginTurn
<1>2. NewTurn.present /\ turns[g] \in Turn
  BY DEF NewTurn, NoTurn, PermTypeOK
<1>3. RevokeTurn(turns[g]).present = turns[g].present
  BY <1>2, TurnUpdates
<1>4. turns[g].present \in BOOLEAN /\ turns'[g].present \in BOOLEAN
  BY <1>1, <1>2, <1>3 DEF Turn, NewTurn, NoTurn
<1> QED
  BY <1>1, <1>2, <1>3, <1>4

\* A request's steps neither begin nor end a turn.
LEMMA RequestKeepsTurns ==
  ASSUME PermInv, NEW r \in Requests, NEW k, NEW a,
         \/ Admit(r, k) \/ OnAdmission(r) \/ Decline(r) \/ Ask(r) \/ ResponderReturn(r, a)
         \/ ReleaseCallback(r) \/ Wake(r) \/ LockGate(r) \/ Commit(r) \/ Deliver(r)
         \/ Retire(r) \/ Complete(r) \/ After(r)
  PROVE  TurnsStay /\ closed' = closed
<1>1. turns \in [Turns -> Turn] /\ \A g \in Turns : turns[g] \in Turn
  BY DEF PermInv, PermTypeOK
<1>2. CASE Admit(r, k)
  <2>1. ASSUME TurnOpen
        PROVE  \A g \in Turns :
                 /\ [turns EXCEPT ![generation].dispatches = @ + 1][g].present = turns[g].present
                 /\ [turns EXCEPT ![generation].dispatches = @ + 1][g].canceled = turns[g].canceled
    BY <1>1, <2>1 DEF TurnOpen, HasTurn, Turn
  <2> QED
    BY <1>2, <2>1 DEF Admit, TurnsStay
<1>3. CASE Complete(r)
  BY <1>1, <1>3, TurnUpdates DEF Complete, TurnsStay
<1>4. CASE ~Admit(r, k) /\ ~Complete(r)
  BY <1>4 DEF OnAdmission, Decline, Ask, ResponderReturn, ReleaseCallback, Wake, LockGate, Commit,
     Deliver, Retire, After, TurnsStay
<1> QED
  BY <1>2, <1>3, <1>4

\* Only Prompt begins a turn, and only the goroutine that finishes it ends it.
LEMMA OthersKeepTurns ==
  ASSUME PermInv, [Next]_vars, ~PromptStep, \A g \in Turns : ~FinishStep(g)
  PROVE  TurnsStay /\ UNCHANGED <<currentTurn, prompting, finish>>
<1> USE DEF turnCallVars, teardownVars, clientVars
<1>0. PermTypeOK
  BY DEF PermInv
<1>1. UNCHANGED permVars => TurnsStay
  BY DEF permVars, TurnsStay
<1>2. \A c : SetSessionID \/ TakeGate(c) \/ LeaveGate(c) => TurnsStay
  BY DEF SetSessionID, TakeGate, LeaveGate, TurnsStay
<1>3. CASE UNCHANGED vars
  BY <1>1, <1>3 DEF vars
<1>4. CASE LaunchReady \/ LaunchFail
  BY <1>1, <1>2, <1>4 DEF LaunchReady, LaunchFail
<1>5. CASE CancelStep
  BY <1>0, <1>2, <1>5, LifecycleKeepsTurns DEF CancelStep, CancelLock, CancelNoTurn,
     CancelPermissions, CancelNotify
<1>6. CASE CloseStep
  BY <1>0, <1>1, <1>2, <1>6, LifecycleKeepsTurns DEF CloseStep, CloseSeal, ClosePermissions,
     CloseGraceful, CloseForced, CloseRequest, CloseLeave, CloseTransport, CloseKill, CloseReturn
<1>7. CASE ReadStep
  <2>1. ASSUME NEW r \in Requests, NEW k \in FrameKinds, ReadPermissionRequest(r, k)
        PROVE  TurnsStay /\ UNCHANGED <<currentTurn, prompting, finish>>
    BY <2>1, RequestKeepsTurns DEF ReadPermissionRequest
  <2>2. ASSUME NEW g \in Turns, TakeResponse(g) \/ DeliverResponse(g)
        PROVE  TurnsStay /\ UNCHANGED <<currentTurn, prompting, finish>>
    BY <1>0, <1>1, <2>2, LifecycleKeepsTurns DEF TakeResponse, DeliverResponse
  <2>3. ASSUME ReadEnd \/ \E malformed \in BOOLEAN : ReadReport(malformed)
        PROVE  TurnsStay /\ UNCHANGED <<currentTurn, prompting, finish>>
    BY <1>0, <1>1, <2>3, LifecycleKeepsTurns DEF ReadEnd, ReadReport
  <2> QED
    BY <1>7, <2>1, <2>2, <2>3 DEF ReadStep
<1>8. ASSUME NEW r \in Requests, ResponseStep(r)
      PROVE  TurnsStay /\ UNCHANGED <<currentTurn, prompting, finish>>
  BY <1>8, RequestKeepsTurns DEF ResponseStep, AnnounceRequest, CoordinatorStep, AfterResponse,
     DeliverResolution, HostAnswers
<1>9. CASE ProcessExit \/ ProcessReport \/ TerminationStep
  BY <1>0, <1>1, <1>9, LifecycleKeepsTurns DEF ProcessExit, ProcessReport, TerminationStep,
     JoinFirst, JoinTimeout, Joined, TerminatePermissions, TerminateExit, SealEvents, CloseEvents
<1> QED
  BY <1>3, <1>4, <1>5, <1>6, <1>7, <1>8, <1>9 DEF Next

--------------------------------------------------------------------------------
(***************************************************************************)
(* What the parts of the invariant need of the turns; the lemmas below use *)
(* no more, so that the Copilot client, whose turns end another way, can   *)
(* cite them.                                                              *)
(***************************************************************************)

\* The turn of a Prompt that has not been written yet, and the turns to come.
PromptsTurn ==
  /\ prompting \in {"admitted", "writing"} => generation \in Turns /\ finish[generation] = "prompting"
  /\ \A g \in Turns : g > generation => finish[g] = "none"

\* A request admitted to a turn and not yet complete is of the turn in flight.
CurrentRequests ==
  \A r \in Requests : adm[r].activeTurn /\ stage[r] \in InFlight =>
    adm[r].generation \in Turns /\ adm[r].generation = currentTurn

FinishTyped ==
  finish \in [Turns -> {"none", "prompting", "awaiting", "ending", "barrier", "ended",
                        "cleared", "emitted"}]

--------------------------------------------------------------------------------
(***************************************************************************)
(* Each part of the invariant.                                             *)
(***************************************************************************)

\* Every step keeps the client's types.
LEMMA ClientTyped ==
  ASSUME TypeOK, PermTypeOK', [Next]_vars
  PROVE  TypeOK'
<1> USE DEF TypeOK, turnCallVars, teardownVars, clientVars
<1>1. CASE UNCHANGED vars
  BY <1>1 DEF vars
<1>2. CASE LaunchReady \/ LaunchFail
  BY <1>2 DEF LaunchReady, LaunchFail
<1>3. CASE PromptStep
  <2>1. CASE PromptLock \/ PromptRefuse \/ PromptUnwind
    BY <2>1 DEF PromptLock, PromptRefuse, PromptUnwind
  <2>2. CASE PromptAdmit
    <3>1. generation + 1 \in Turns /\ generation + 1 \in 0..MaxTurns
      BY <2>2, PermissionConstants DEF PromptAdmit, BeginTurn, PermTypeOK, Turns
    <3> QED
      BY <2>2, <3>1 DEF PromptAdmit
  <2>3. CASE PromptStart \/ PromptWritten \/ \E partial \in BOOLEAN : PromptWriteFail(partial)
    BY <2>3 DEF PromptStart, PromptWritten, PromptWriteFail
  <2> QED
    BY <1>3, <2>1, <2>2, <2>3 DEF PromptStep
<1>4. ASSUME NEW g \in Turns, FinishStep(g) PROVE TypeOK'
  <2>1. CASE AwaitReturn(g)
    <3>1. call' \in [Turns -> {"none", "pending", "taken", "answered", "failed", "dropped"}]
      BY <2>1 DEF AwaitReturn
    <3> QED
      BY <2>1, <3>1 DEF AwaitReturn
  <2>2. CASE FinishEndTurn(g) \/ FinishBarrier(g) \/ FinishClear(g) \/ FinishEmit(g)
    <3>1. 0 \in 0..MaxTurns
      BY PermissionConstants
    <3> QED
      BY <2>2, <3>1 DEF FinishEndTurn, FinishBarrier, FinishClear, FinishEmit
  <2> QED
    BY <1>4, <2>1, <2>2 DEF FinishStep
<1>5. CASE CancelStep
  <2>1. CASE CancelLock \/ CancelNoTurn
    BY <2>1 DEF CancelLock, CancelNoTurn
  <2>2. CASE CancelPermissions
    BY <2>2 DEF CancelPermissions
  <2>3. ASSUME NEW ok \in BOOLEAN, CancelNotify(ok) PROVE TypeOK'
    BY <2>3 DEF CancelNotify
  <2> QED
    BY <1>5, <2>1, <2>2, <2>3 DEF CancelStep
<1>6. CASE CloseStep
  <2>1. CASE CloseSeal \/ ClosePermissions \/ CloseGraceful \/ CloseForced
    BY <2>1 DEF CloseSeal, ClosePermissions, CloseGraceful, CloseForced
  <2>2. CASE CloseRequest \/ CloseLeave \/ CloseKill \/ CloseReturn
    BY <2>2 DEF CloseRequest, CloseLeave, CloseKill, CloseReturn
  <2>3. CASE CloseTransport
    BY <2>3 DEF CloseTransport, FailPending
  <2> QED
    BY <1>6, <2>1, <2>2, <2>3 DEF CloseStep
<1>7. CASE ReadStep
  <2> DEFINE Calls == {"none", "pending", "taken", "answered", "failed", "dropped"}
  <2>1. FailPending => call' \in [Turns -> Calls]
    BY DEF FailPending
  <2>2. ASSUME NEW g \in Turns, TakeResponse(g) \/ DeliverResponse(g) PROVE TypeOK'
    BY <2>2 DEF TakeResponse, DeliverResponse
  <2>3. ASSUME ReadEnd \/ \E malformed \in BOOLEAN : ReadReport(malformed) PROVE TypeOK'
    BY <2>1, <2>3 DEF ReadEnd, ReadReport
  <2>4. ASSUME NEW r \in Requests, NEW k \in FrameKinds, ReadPermissionRequest(r, k) PROVE TypeOK'
    BY <2>4 DEF ReadPermissionRequest
  <2> QED
    BY <1>7, <2>2, <2>3, <2>4 DEF ReadStep
<1>8. ASSUME NEW r \in Requests, ResponseStep(r)
      PROVE  TypeOK'
  <2>1. CASE AnnounceRequest(r)
    BY <2>1, PermissionConstants DEF AnnounceRequest
  <2>2. CASE CoordinatorStep(r) \/ \E a \in ReturnedAnswers : HostAnswers(r, a)
    BY <2>2 DEF CoordinatorStep, HostAnswers
  <2>3. CASE AfterResponse(r)
    <3>1. /\ lifetimeStopped' \in BOOLEAN /\ stdinClosed' \in BOOLEAN
          /\ process' \in {"live", "exited", "reported"}
      BY <2>3 DEF AfterResponse
    <3> QED
      BY <2>3, <3>1 DEF AfterResponse
  <2>4. CASE \E ok \in BOOLEAN : DeliverResolution(r, ok)
    BY <2>4 DEF DeliverResolution
  <2> QED
    BY <1>8, <2>1, <2>2, <2>3, <2>4 DEF ResponseStep
<1>9. CASE ProcessExit \/ ProcessReport \/ TerminationStep
  <2>1. CASE ProcessExit \/ ProcessReport
    BY <2>1 DEF ProcessExit, ProcessReport
  <2>2. CASE JoinFirst \/ JoinTimeout \/ Joined
    BY <2>2 DEF JoinFirst, JoinTimeout, Joined
  <2>3. CASE TerminatePermissions \/ TerminateExit
    BY <2>3 DEF TerminatePermissions, TerminateExit
  <2>4. CASE SealEvents \/ CloseEvents
    BY <2>4 DEF SealEvents, CloseEvents
  <2> QED
    BY <1>9, <2>1, <2>2, <2>3, <2>4 DEF TerminationStep
<1> QED
  BY <1>1, <1>2, <1>3, <1>4, <1>5, <1>6, <1>7, <1>8, <1>9 DEF Next

\* Every step takes and leaves the gate with the call it belongs to.
LEMMA GateOrder ==
  ASSUME PermInv, GateInOrder, [Next]_vars
  PROVE  GateInOrder'
<1> USE DEF GateInOrder, turnCallVars, teardownVars, clientVars, permVars
<1>0. None \notin {"prompt", "cancel", "close"} /\ LifecycleCalls = {"prompt", "cancel", "close"}
  BY PermissionConstants, ClientConstants
<1>1. CASE UNCHANGED vars
  BY <1>1 DEF vars
<1>2. CASE LaunchReady \/ LaunchFail
  BY <1>2 DEF LaunchReady, LaunchFail, SetSessionID
<1>3. CASE PromptStep
  BY <1>0, <1>3 DEF PromptStep, PromptLock, PromptRefuse, PromptAdmit, PromptStart, PromptWritten,
     PromptWriteFail, PromptUnwind, TakeGate, LeaveGate, BeginTurn
<1>4. ASSUME NEW g \in Turns, FinishStep(g) PROVE GateInOrder'
  BY <1>4 DEF FinishStep, AwaitReturn, FinishEndTurn, FinishBarrier, FinishClear, FinishEmit,
     EndTurn, EndTurnReturn
<1>5. CASE CancelStep
  BY <1>0, <1>5 DEF CancelStep, CancelLock, CancelNoTurn, CancelPermissions, CancelNotify,
     TakeGate, LeaveGate, CancelTurn
<1>6. CASE CloseStep
  BY <1>0, <1>6 DEF CloseStep, CloseSeal, ClosePermissions,
     CloseGraceful, CloseForced, CloseRequest, CloseLeave, CloseTransport, FailPending, CloseKill,
     CloseReturn, TakeGate, LeaveGate, Close
<1>7. CASE ReadStep
  BY <1>7 DEF ReadStep, ReadPermissionRequest, TakeResponse, DeliverResponse, ReadEnd, ReadReport,
     FailPending, Admit, CloseTurnAdmission, Close
<1>8. ASSUME NEW r \in Requests, ResponseStep(r)
      PROVE  GateInOrder'
  <2>1. LockGate(r) \/ Retire(r) => gate \notin LifecycleCalls /\ gate' \notin LifecycleCalls
    BY PermissionConstants DEF LockGate, Retire, PermInv, EntryShape
  <2>2. CASE (LockGate(r) \/ Retire(r)) /\ UNCHANGED clientVars
    BY <1>0, <2>1, <2>2
  <2>3. CASE gate' = gate /\ UNCHANGED <<prompting, canceling, closing>>
    BY <2>3
  <2> QED
    BY <1>8, <2>2, <2>3 DEF ResponseStep, AnnounceRequest, CoordinatorStep, AfterResponse,
     DeliverResolution, HostAnswers, OnAdmission, Decline, Ask, ResponderReturn,
         ReleaseCallback, Wake, Commit, Deliver, Complete, After
<1>9. CASE ProcessExit \/ ProcessReport \/ TerminationStep
  BY <1>9 DEF ProcessExit, ProcessReport, TerminationStep,
     JoinFirst, JoinTimeout, Joined, TerminatePermissions, TerminateExit, SealEvents, CloseEvents,
     Close
<1> QED
  BY <1>1, <1>2, <1>3, <1>4, <1>5, <1>6, <1>7, <1>8, <1>9 DEF Next

\* Every step of Prompt and of a turn's goroutine keeps the turn's place.
LEMMA TurnOrder ==
  ASSUME PermInv, TypeOK, GateInOrder, TurnInOrder, [Next]_vars
  PROVE  TurnInOrder'
<1> USE DEF turnCallVars, teardownVars, clientVars, permVars
<1>0. /\ turns \in [Turns -> Turn] /\ generation \in 0..MaxTurns /\ ending \subseteq Turns
      /\ finish \in [Turns -> {"none", "prompting", "awaiting", "ending", "barrier", "ended",
                           "cleared", "emitted"}]
      /\ MaxTurns \in Nat /\ Turns = 1..MaxTurns /\ currentTurn \in 0..MaxTurns
  BY PermissionConstants DEF TypeOK, PermTypeOK, Turns
<1>1. CASE PromptStep
  <2>1. CASE PromptAdmit
    <3>1. /\ currentTurn = 0 /\ currentTurn' = generation + 1 /\ generation' = generation + 1
          /\ generation + 1 \in Turns /\ finish' = [finish EXCEPT ![generation + 1] = "prompting"]
          /\ prompting = "gated" /\ prompting' = "admitted" /\ ending' = ending
      BY <1>0, <2>1 DEF PromptAdmit, BeginTurn
    <3>2. \A g \in Turns : turns'[g].present <=> turns[g].present \/ g = generation + 1
      BY <2>1, BeginTurnBegins DEF PromptAdmit, TypeOK
    <3>3. \A g \in Turns : g > generation => ~turns[g].present
      BY DEF TurnInOrder
    <3>4. \A g \in Turns : g # generation + 1 =>
            (g > generation + 1 <=> g > generation) /\ finish'[g] = finish[g]
      BY <1>0, <3>1
    <3>5. finish'[generation + 1] = "prompting"
      BY <1>0, <3>1
    <3>6. generation + 1 \notin ending
      BY <1>0, <3>1 DEF TurnInOrder
    <3>7. ASSUME NEW g \in Turns
          PROVE  /\ finish'[g] = "none" <=> g > generation'
                 /\ finish'[g] \in {"prompting", "awaiting", "ending", "barrier", "ended"} <=>
                      g = currentTurn'
                 /\ finish'[g] \in {"prompting", "awaiting", "ending", "barrier"} <=>
                      turns'[g].present
                 /\ finish'[g] = "barrier" <=> g \in ending'
                 /\ finish'[g] = "prompting" <=>
                      g = generation' /\ prompting' \in {"admitted", "writing"}
      <4>1. CASE g = generation + 1
        BY <1>0, <3>1, <3>2, <3>5, <3>6, <4>1
      <4>2. CASE g # generation + 1
        BY <1>0, <3>1, <3>2, <3>4, <4>2 DEF TurnInOrder
      <4> QED
        BY <4>1, <4>2
    <3> QED
      BY <3>1, <3>7 DEF TurnInOrder
  <2>2. CASE PromptLock \/ PromptRefuse \/ PromptStart
    BY <1>0, <2>2 DEF PromptLock, PromptRefuse, PromptStart, TakeGate, LeaveGate, TurnInOrder
  <2>3. CASE PromptWritten \/ \E partial \in BOOLEAN : PromptWriteFail(partial)
    BY <1>0, <2>3 DEF PromptWritten, PromptWriteFail, LeaveGate, TurnInOrder
  <2>4. CASE PromptUnwind
    BY <1>0, <2>4 DEF PromptUnwind, LeaveGate, TurnInOrder
  <2> QED
    BY <1>1, <2>1, <2>2, <2>3, <2>4 DEF PromptStep
<1>2. ASSUME NEW g \in Turns, FinishStep(g) PROVE TurnInOrder'
  <2>1. CASE AwaitReturn(g)
    BY <1>0, <2>1 DEF AwaitReturn, TurnInOrder
  <2>2. CASE FinishEndTurn(g)
    <3>1. finish[g] = "ending" /\ g = generation /\ HasTurn(generation) /\ PermTypeOK
      BY <1>0, <2>2 DEF FinishEndTurn, TurnInOrder, HasTurn, TypeOK
    <3>2. /\ generation' = generation /\ ending' = ending \cup {generation}
          /\ \A h \in Turns : turns'[h].present = turns[h].present
          /\ finish' = [finish EXCEPT ![g] = "barrier"] /\ UNCHANGED <<currentTurn, prompting>>
      BY <2>2, <3>1, LifecycleKeepsTurns DEF FinishEndTurn
    <3> QED
      BY <1>0, <3>1, <3>2 DEF TurnInOrder
  <2>3. CASE FinishBarrier(g)
    <3>1. /\ finish[g] = "barrier" /\ generation' = generation /\ ending' = ending \ {g}
          /\ finish' = [finish EXCEPT ![g] = "ended"] /\ UNCHANGED <<currentTurn, prompting>>
      BY <2>3 DEF FinishBarrier, EndTurnReturn
    <3>2. \A h \in Turns : turns'[h].present = (turns[h].present /\ h # g)
      BY <1>0, <2>3 DEF FinishBarrier, EndTurnReturn, Turn
    <3> QED
      BY <1>0, <3>1, <3>2 DEF TurnInOrder
  <2>4. CASE FinishClear(g)
    BY <1>0, <2>4 DEF FinishClear, TurnInOrder
  <2>5. CASE FinishEmit(g)
    BY <1>0, <2>5 DEF FinishEmit, TurnInOrder
  <2> QED
    BY <1>2, <2>1, <2>2, <2>3, <2>4, <2>5 DEF FinishStep
<1>3. CASE ~PromptStep /\ \A g \in Turns : ~FinishStep(g)
  BY <1>3, OthersKeepTurns DEF TurnsStay, TurnInOrder
<1> QED
  BY <1>1, <1>2, <1>3

\* Events and frames of different kinds, turns or requests differ.
LEMMA EventsDiffer ==
  \A g, h, r, q :
    /\ <<"turn.started", g>> # <<"turn.ended", h>>
    /\ <<"turn.started", g>> = <<"turn.started", h>> <=> g = h
    /\ <<"turn.ended", g>> = <<"turn.ended", h>> <=> g = h
    /\ <<"permission_requested", g, r>> # <<"permission_resolved", h, q>>
    /\ <<"permission_requested", g, r>> = <<"permission_requested", h, q>> <=> g = h /\ r = q
    /\ <<"permission_resolved", g, r>> = <<"permission_resolved", h, q>> <=> g = h /\ r = q
    /\ {<<"turn.started", g>>, <<"turn.ended", g>>, <<"session.ready", h>>, <<"process.exited", h>>}
         \cap {<<"permission_requested", h, r>>, <<"permission_resolved", h, r>>} = {}
    /\ {<<"turn.started", g>>, <<"turn.ended", g>>}
         \cap {<<"session.ready", h>>, <<"process.exited", h>>} = {}
  OBVIOUS

\* The coordinator holds the turn of every request that is not yet complete.
LEMMA InFlightHasTurn ==
  ASSUME PermInv, AllDispatched, NEW r \in Requests, adm[r].activeTurn, stage[r] \in InFlight
  PROVE  adm[r].generation \in Turns /\ turns[adm[r].generation].present
<1> DEFINE g == adm[r].generation
<1>1. adm[r] \in Admission /\ g \in 0..MaxTurns /\ g >= 1 /\ g <= generation /\ adm[r].counted
  BY DEF PermInv, PermTypeOK, AdmissionShape, Admission, AllDispatched
<1>2. g \in Turns
  BY <1>1, PermissionConstants DEF Turns
<1>3. r \in Counted(g)
  BY <1>1 DEF Counted
<1>4. turns[g].present
  <2> SUFFICES ASSUME ~turns[g].present PROVE FALSE
    OBVIOUS
  <2>1. turns[g].doneClosed /\ TurnWellFormed(turns[g])
    BY <1>1, <1>2 DEF PermInv, TurnShape
  <2>2. Cardinality(Counted(g)) = 0
    BY <1>2, <2>1 DEF PermInv, CountersExact, TurnWellFormed
  <2>3. Counted(g) \in SUBSET Requests
    BY DEF Counted
  <2> QED
    BY <1>3, <2>2, <2>3, RequestSets
<1> QED
  BY <1>2, <1>4

\* That turn is the one in flight, and it has not passed its barrier.
LEMMA InFlightTurn ==
  ASSUME PermInv, TurnInOrder, AllDispatched,
         NEW r \in Requests, adm[r].activeTurn, stage[r] \in InFlight
  PROVE  /\ adm[r].generation \in Turns /\ adm[r].generation = currentTurn
         /\ finish[adm[r].generation] \in {"prompting", "awaiting", "ending", "barrier"}
BY InFlightHasTurn DEF TurnInOrder

\* What the later lemmas need of the turns.
LEMMA TurnsAsNeeded ==
  ASSUME PermInv, TypeOK, TurnInOrder, AllDispatched
  PROVE  PromptsTurn /\ CurrentRequests /\ FinishTyped
<1>1. PromptsTurn /\ FinishTyped
  BY DEF PromptsTurn, FinishTyped, TypeOK, TurnInOrder
<1>2. CurrentRequests
  BY InFlightTurn DEF CurrentRequests
<1> QED
  BY <1>1, <1>2

\* Requests move only by the reader's admission and by their own responses.
LEMMA OthersKeepRequests ==
  ASSUME [Next]_vars, \A r \in Requests : ~ResponseStep(r),
         \A r \in Requests, k \in FrameKinds : ~ReadPermissionRequest(r, k)
  PROVE  UNCHANGED <<stage, adm, requestTurn, resolution>>
<1> USE DEF turnCallVars, teardownVars, clientVars, permVars, TakeGate, LeaveGate
<1>1. CASE UNCHANGED vars
  BY <1>1 DEF vars
<1>2. CASE LaunchReady \/ LaunchFail
  BY <1>2 DEF LaunchReady, LaunchFail, SetSessionID
<1>3. CASE PromptStep
  BY <1>3 DEF PromptStep, PromptLock, PromptRefuse, PromptAdmit, PromptStart, PromptWritten,
     PromptWriteFail, PromptUnwind, BeginTurn
<1>4. ASSUME NEW g \in Turns, FinishStep(g) PROVE UNCHANGED <<stage, adm, requestTurn, resolution>>
  BY <1>4 DEF FinishStep, AwaitReturn, FinishEndTurn, FinishBarrier, FinishClear, FinishEmit,
     EndTurn, EndTurnReturn
<1>5. CASE CancelStep
  BY <1>5 DEF CancelStep, CancelLock, CancelNoTurn, CancelPermissions, CancelNotify, CancelTurn
<1>6. CASE CloseStep
  BY <1>6 DEF CloseStep, CloseSeal, ClosePermissions, CloseGraceful, CloseForced, CloseRequest,
     CloseLeave, CloseTransport, CloseKill, CloseReturn, Close
<1>7. CASE ReadStep
  BY <1>7 DEF ReadStep, TakeResponse, DeliverResponse, ReadEnd, ReadReport,
     CloseTurnAdmission, Close
<1>8. CASE ProcessExit \/ ProcessReport \/ TerminationStep
  BY <1>8 DEF ProcessExit, ProcessReport, TerminationStep, JoinFirst, JoinTimeout, Joined,
     TerminatePermissions, TerminateExit, SealEvents, CloseEvents,
     Close
<1> QED
  BY <1>1, <1>2, <1>3, <1>4, <1>5, <1>6, <1>7, <1>8 DEF Next

\* What a step does to the other requests, and to the admission of one in flight.
LEMMA ResponseMoves ==
  ASSUME PermInv, NEW r \in Requests, ResponseStep(r)
  PROVE  /\ adm' = adm /\ stage[r] # "unsent" /\ UNCHANGED <<turnCallVars, generation>>
         /\ requestTurn' = requestTurn \/ AnnounceRequest(r)
         /\ \A q \in Requests \ {r} : stage'[q] = stage[q] /\ resolution'[q] = resolution[q]
         /\ \/ stage' = stage
            \/ AnnounceRequest(r) /\ stage[r] = "admitted" /\ stage'[r] = "announced"
            \/ stage[r] = "announced" /\ stage'[r] \in {"declined", "asking"}
            \/ stage[r] = "asking" /\ stage'[r] = "answered"
            \/ stage[r] = "answered" /\ stage'[r] = "gated"
            \/ Commit(r) /\ stage[r] = "gated" /\ stage'[r] = "committed"
            \/ stage[r] \in {"declined", "committed"} /\ stage'[r] \in {"retired", "responded"}
               /\ \E ok \in BOOLEAN : DeliverResolution(r, ok)
            \/ stage[r] \in {"responded", "retired", "completed"}
               /\ stage'[r] \in {"retired", "completed", "done"}
         /\ \/ resolution' = resolution
            \/ Commit(r)
            \/ stage'[r] = "declined" /\ resolution'[r] # "selected"
<1> USE DEF turnCallVars, teardownVars, clientVars, PermTypeOK, PermInv
<1>1. CASE AnnounceRequest(r)
  BY <1>1 DEF AnnounceRequest, OnAdmission
<1>2. CASE Decline(r) /\ UNCHANGED clientVars
  <2>1. EarlyResolution(r) # "selected"
    BY DEF EarlyResolution
  <2> QED
    BY <1>2, <2>1 DEF Decline
<1>3. CASE Ask(r) /\ UNCHANGED clientVars
  BY <1>3 DEF Ask
<1>4. CASE ReleaseCallback(r) /\ UNCHANGED clientVars
  <2>1. stage[r] # "unsent"
    BY <1>4 DEF ReleaseCallback, EntryShape
  <2> QED
    BY <1>4, <2>1 DEF ReleaseCallback
<1>10. ASSUME NEW a \in ReturnedAnswers, HostAnswers(r, a)
       PROVE  /\ UNCHANGED <<adm, stage, resolution, requestTurn, turnCallVars, generation>>
              /\ stage[r] # "unsent"
  BY <1>10 DEF HostAnswers, ResponderReturn, EntryShape
<1>5. CASE (Wake(r) \/ LockGate(r)) /\ UNCHANGED clientVars
  BY <1>5 DEF Wake, LockGate
<1>6. CASE Commit(r) /\ UNCHANGED clientVars
  BY <1>6 DEF Commit
<1>7. CASE (Retire(r) \/ Complete(r)) /\ UNCHANGED clientVars
  BY <1>7 DEF Retire, Complete
<1>8. CASE AfterResponse(r)
  BY <1>8 DEF AfterResponse, After
<1>9. CASE \E ok \in BOOLEAN : DeliverResolution(r, ok)
  BY <1>9 DEF DeliverResolution, Deliver
<1> QED
  BY <1>1, <1>2, <1>3, <1>4, <1>5, <1>6, <1>7, <1>8, <1>9, <1>10
     DEF ResponseStep, CoordinatorStep

\* What is declined is not selected, and every request is counted by its turn.
LEMMA Dispatched ==
  ASSUME PermInv, AllDispatched, [Next]_vars
  PROVE  AllDispatched'
<1>1. ASSUME NEW r \in Requests, NEW k \in FrameKinds, ReadPermissionRequest(r, k)
      PROVE  AllDispatched'
  <2>1. /\ adm' = [adm EXCEPT ![r] = DispatchAdmission] /\ resolution' = resolution
        /\ stage' = [stage EXCEPT ![r] = "admitted"]
    BY <1>1 DEF ReadPermissionRequest, Admit
  <2>2. DispatchAdmission.activeTurn => DispatchAdmission.counted
    BY DEF DispatchAdmission
  <2> QED
    BY <2>1, <2>2 DEF AllDispatched, PermInv, PermTypeOK
<1>2. ASSUME NEW r \in Requests, ResponseStep(r)
      PROVE  AllDispatched'
  <2>1. stage'[r] = "declined" => resolution'[r] # "selected"
    <3>1. Commit(r) => stage'[r] = "committed"
      BY DEF Commit, PermInv, PermTypeOK
    <3>2. stage[r] = "announced" => resolution[r] = "none"
      BY DEF PermInv, EntryShape
    <3> QED
      BY <1>2, <3>1, <3>2, ResponseMoves DEF AllDispatched
  <2> QED
    BY <1>2, <2>1, ResponseMoves DEF AllDispatched
<1>3. CASE /\ \A r \in Requests : ~ResponseStep(r)
           /\ \A r \in Requests, k \in FrameKinds : ~ReadPermissionRequest(r, k)
  BY <1>3, OthersKeepRequests DEF AllDispatched
<1> QED
  BY <1>1, <1>2, <1>3

\* A request is announced in the turn it was admitted to, which is still in flight.
LEMMA EventsNamed ==
  ASSUME PermInv, requestTurn \in [Requests -> 0..MaxTurns], CurrentRequests,
         EventsNameTheirTurn, [Next]_vars
  PROVE  EventsNameTheirTurn'
<1>1. ASSUME NEW r \in Requests, NEW k \in FrameKinds, ReadPermissionRequest(r, k)
      PROVE  EventsNameTheirTurn'
  <2>1. /\ adm' = [adm EXCEPT ![r] = DispatchAdmission] /\ requestTurn' = requestTurn
        /\ stage' = [stage EXCEPT ![r] = "admitted"]
    BY <1>1 DEF ReadPermissionRequest, Admit, clientVars
  <2> QED
    BY <2>1 DEF EventsNameTheirTurn, PermInv, PermTypeOK
<1>2. ASSUME NEW r \in Requests, AnnounceRequest(r)
      PROVE  EventsNameTheirTurn'
  <2>1. /\ stage[r] = "admitted" /\ adm' = adm /\ stage' = [stage EXCEPT ![r] = "announced"]
        /\ requestTurn' = [requestTurn EXCEPT ![r] = IF adm[r].activeTurn THEN currentTurn ELSE 0]
    BY <1>2 DEF AnnounceRequest, OnAdmission
  <2>2. adm[r].activeTurn => adm[r].generation = currentTurn
    BY <2>1 DEF CurrentRequests, InFlight
  <2> QED
    BY <2>1, <2>2 DEF EventsNameTheirTurn, PermInv, PermTypeOK
<1>3. ASSUME NEW r \in Requests, ResponseStep(r), ~AnnounceRequest(r)
      PROVE  EventsNameTheirTurn'
  BY <1>3, ResponseMoves DEF EventsNameTheirTurn
<1>4. CASE /\ \A r \in Requests : ~ResponseStep(r)
           /\ \A r \in Requests, k \in FrameKinds : ~ReadPermissionRequest(r, k)
  BY <1>4, OthersKeepRequests DEF EventsNameTheirTurn
<1> QED
  BY <1>1, <1>2, <1>3, <1>4

\* Only the termination coordinator closes the event channel.
LEMMA OthersKeepChannel ==
  ASSUME [Next]_vars, ~TerminationStep
  PROVE  UNCHANGED <<join, eventsClosing, eventsClosed>>
<1> USE DEF turnCallVars, teardownVars, clientVars, permVars
<1>1. CASE UNCHANGED vars
  BY <1>1 DEF vars
<1>2. CASE LaunchReady \/ LaunchFail
  BY <1>2 DEF LaunchReady, LaunchFail
<1>3. CASE PromptStep
  BY <1>3 DEF PromptStep, PromptLock, PromptRefuse, PromptAdmit, PromptStart, PromptWritten,
     PromptWriteFail, PromptUnwind
<1>4. ASSUME NEW g \in Turns, FinishStep(g) PROVE UNCHANGED <<join, eventsClosing, eventsClosed>>
  BY <1>4 DEF FinishStep, AwaitReturn, FinishEndTurn, FinishBarrier, FinishClear, FinishEmit
<1>5. CASE CancelStep
  BY <1>5 DEF CancelStep, CancelLock, CancelNoTurn, CancelPermissions, CancelNotify
<1>6. CASE CloseStep
  BY <1>6 DEF CloseStep, CloseSeal, ClosePermissions, CloseGraceful, CloseForced, CloseRequest,
     CloseLeave, CloseTransport, CloseKill, CloseReturn
<1>7. CASE ReadStep
  BY <1>7 DEF ReadStep, ReadPermissionRequest, TakeResponse, DeliverResponse, ReadEnd, ReadReport
<1>8. ASSUME NEW r \in Requests, ResponseStep(r)
      PROVE  UNCHANGED <<join, eventsClosing, eventsClosed>>
  BY <1>8 DEF ResponseStep, AnnounceRequest, CoordinatorStep, AfterResponse, DeliverResolution,
     HostAnswers
<1>9. CASE ProcessExit \/ ProcessReport
  BY <1>9 DEF ProcessExit, ProcessReport
<1> QED
  BY <1>1, <1>2, <1>3, <1>4, <1>5, <1>6, <1>7, <1>8, <1>9 DEF Next

\* The channel is closed only when no turn is running, and no turn begins then.
LEMMA ChannelOrder ==
  ASSUME PermInv, FinishTyped, PromptsTurn, ChannelInOrder, [Next]_vars
  PROVE  ChannelInOrder'
<1> USE DEF turnCallVars, teardownVars, clientVars, permVars
<1>1. CASE TerminationStep
  <2>1. finish' = finish
    BY <1>1 DEF TerminationStep, JoinFirst, JoinTimeout, Joined, TerminatePermissions,
       TerminateExit, SealEvents, CloseEvents
  <2>2. CASE JoinFirst \/ JoinTimeout \/ Joined \/ TerminatePermissions \/ TerminateExit
    BY <2>1, <2>2 DEF JoinFirst, JoinTimeout, Joined, TerminatePermissions, TerminateExit,
       ChannelInOrder
  <2>3. CASE SealEvents
    BY <2>1, <2>3 DEF SealEvents, ChannelInOrder
  <2>4. CASE CloseEvents
    BY <2>1, <2>4 DEF CloseEvents, TurnsRunning, ChannelInOrder, FinishTyped
  <2> QED
    BY <1>1, <2>2, <2>3, <2>4 DEF TerminationStep
<1>2. CASE ~TerminationStep
  <2>1. UNCHANGED <<join, eventsClosing, eventsClosed>>
    BY <1>2, OthersKeepChannel
  <2>2. CASE PromptStep
    <3>1. CASE PromptAdmit
      BY <2>1, <3>1 DEF PromptAdmit, ChannelInOrder
    <3>2. CASE PromptWritten \/ \E partial \in BOOLEAN : PromptWriteFail(partial)
      <4>1. generation \in Turns /\ finish[generation] = "prompting"
        BY <3>2 DEF PromptWritten, PromptWriteFail, PromptsTurn
      <4> QED
        BY <2>1, <4>1 DEF ChannelInOrder
    <3>3. CASE PromptLock \/ PromptRefuse \/ PromptStart \/ PromptUnwind
      BY <2>1, <3>3 DEF PromptLock, PromptRefuse, PromptStart, PromptUnwind, ChannelInOrder
    <3> QED
      BY <2>2, <3>1, <3>2, <3>3 DEF PromptStep
  <2>3. ASSUME NEW g \in Turns, FinishStep(g) PROVE ChannelInOrder'
    <3>1. finish[g] \notin {"none", "emitted"}
      BY <2>3 DEF FinishStep, AwaitReturn, FinishEndTurn, FinishBarrier, FinishClear, FinishEmit
    <3> QED
      BY <2>1, <3>1 DEF ChannelInOrder
  <2>4. CASE ~PromptStep /\ \A g \in Turns : ~FinishStep(g)
    BY <2>1, <2>4, OthersKeepTurns DEF ChannelInOrder
  <2> QED
    BY <2>2, <2>3, <2>4
<1> QED
  BY <1>1, <1>2

\* Which steps send an event.
LEMMA EventsGrow ==
  ASSUME [Next]_vars
  PROVE  \/ events' = events
         \/ events' = events \cup {<<"session.ready", 0>>}
         \/ events' = events \cup {<<"process.exited", 0>>}
         \/ PromptStart
         \/ \E g \in Turns : FinishEmit(g)
         \/ \E r \in Requests : AnnounceRequest(r)
         \/ \E r \in Requests, ok \in BOOLEAN : DeliverResolution(r, ok)
<1> USE DEF turnCallVars, teardownVars, clientVars, permVars
<1>1. CASE UNCHANGED vars
  BY <1>1 DEF vars
<1>2. CASE LaunchReady \/ LaunchFail
  BY <1>2 DEF LaunchReady, LaunchFail, Emit
<1>3. CASE PromptStep
  BY <1>3 DEF PromptStep, PromptLock, PromptRefuse, PromptAdmit, PromptWritten, PromptWriteFail,
     PromptUnwind
<1>4. ASSUME NEW g \in Turns, FinishStep(g) PROVE events' = events \/ FinishEmit(g)
  BY <1>4 DEF FinishStep, AwaitReturn, FinishEndTurn, FinishBarrier, FinishClear
<1>5. CASE CancelStep
  BY <1>5 DEF CancelStep, CancelLock, CancelNoTurn, CancelPermissions, CancelNotify
<1>6. CASE CloseStep
  BY <1>6 DEF CloseStep, CloseSeal, ClosePermissions, CloseGraceful, CloseForced, CloseRequest,
     CloseLeave, CloseTransport, CloseKill, CloseReturn
<1>7. CASE ReadStep
  BY <1>7 DEF ReadStep, ReadPermissionRequest, TakeResponse, DeliverResponse, ReadEnd, ReadReport
<1>8. ASSUME NEW r \in Requests, ResponseStep(r)
      PROVE  \/ events' = events \/ AnnounceRequest(r)
             \/ \E ok \in BOOLEAN : DeliverResolution(r, ok)
  BY <1>8 DEF ResponseStep, CoordinatorStep, AfterResponse, HostAnswers
<1>9. CASE ProcessExit \/ ProcessReport \/ TerminationStep
  BY <1>9 DEF ProcessExit, ProcessReport, TerminationStep, JoinFirst, JoinTimeout, Joined,
     TerminatePermissions, TerminateExit, SealEvents, CloseEvents, Emit
<1> QED
  BY <1>1, <1>2, <1>3, <1>4, <1>5, <1>6, <1>7, <1>8, <1>9 DEF Next

\* The events of a turn are sent by Prompt and by the goroutine that finishes it.
LEMMA OthersKeepTurnEvents ==
  ASSUME [Next]_vars, ~PromptStart, \A g \in Turns : ~FinishEmit(g)
  PROVE  \A g \in Turns : /\ <<"turn.started", g>> \in events' <=> <<"turn.started", g>> \in events
                          /\ <<"turn.ended", g>> \in events' <=> <<"turn.ended", g>> \in events
<1> DEFINE Kept == \A g \in Turns :
             /\ <<"turn.started", g>> \in events' <=> <<"turn.started", g>> \in events
             /\ <<"turn.ended", g>> \in events' <=> <<"turn.ended", g>> \in events
<1>1. ASSUME NEW r \in Requests, AnnounceRequest(r) PROVE Kept
  <2>1. events' \in {events, events \cup {<<"permission_requested", currentTurn, r>>}}
    BY <1>1 DEF AnnounceRequest, Emit
  <2>2. \A g : <<"permission_requested", currentTurn, r>> \notin
                 {<<"turn.started", g>>, <<"turn.ended", g>>}
    OBVIOUS
  <2> QED
    BY <2>1, <2>2
<1>2. ASSUME NEW r \in Requests, NEW ok \in BOOLEAN, DeliverResolution(r, ok) PROVE Kept
  <2>1. events' \in {events, events \cup {<<"permission_resolved", requestTurn[r], r>>}}
    BY <1>2 DEF DeliverResolution, Emit
  <2>2. \A g : <<"permission_resolved", requestTurn[r], r>> \notin
                 {<<"turn.started", g>>, <<"turn.ended", g>>}
    OBVIOUS
  <2> QED
    BY <2>1, <2>2
<1>3. ASSUME \/ events' = events \/ events' = events \cup {<<"session.ready", 0>>}
             \/ events' = events \cup {<<"process.exited", 0>>}
      PROVE  Kept
  <2>1. \A g : {<<"session.ready", 0>>, <<"process.exited", 0>>}
                 \cap {<<"turn.started", g>>, <<"turn.ended", g>>} = {}
    OBVIOUS
  <2> QED
    BY <1>3, <2>1
<1> HIDE DEF Kept
<1>4. Kept
  BY <1>1, <1>2, <1>3, EventsGrow
<1> QED
  BY <1>4 DEF Kept

\* turn.started is sent before the prompt is written, the turn's last event by its
\* goroutine just before it is done: the channel is open for both.
LEMMA TurnEventsKept ==
  ASSUME PermInv, FinishTyped, PromptsTurn, ChannelInOrder, TurnEvents, [Next]_vars
  PROVE  TurnEvents'
<1> USE DEF turnCallVars, teardownVars, clientVars, permVars
<1>0. /\ generation \in 0..MaxTurns /\ MaxTurns \in Nat /\ Turns = 1..MaxTurns
      /\ finish \in [Turns -> {"none", "prompting", "awaiting", "ending", "barrier", "ended",
                               "cleared", "emitted"}]
  BY PermissionConstants DEF FinishTyped, PermInv, PermTypeOK, Turns
<1>1. CASE PromptStart
  <2>1. /\ generation \in Turns /\ finish[generation] = "prompting"
        /\ UNCHANGED <<finish, generation>>
    BY <1>1 DEF PromptStart, PromptsTurn
  <2>2. events' = events \cup {<<"turn.started", generation>>}
    BY <1>1, <2>1 DEF PromptStart, Emit, ChannelInOrder
  <2>3. \A g \in Turns : /\ <<"turn.ended", g>> \in events' <=> <<"turn.ended", g>> \in events
                         /\ <<"turn.started", g>> \in events' <=>
                              <<"turn.started", g>> \in events \/ g = generation
    BY <2>2, EventsDiffer
  <2> QED
    BY <2>1, <2>2, <2>3 DEF TurnEvents
<1>2. CASE PromptAdmit
  <2>1. /\ generation' = generation + 1 /\ generation + 1 \in Turns /\ events' = events
        /\ finish' = [finish EXCEPT ![generation + 1] = "prompting"] /\ prompting' = "admitted"
        /\ finish[generation + 1] = "none"
    BY <1>0, <1>2 DEF PromptAdmit, BeginTurn, PromptsTurn
  <2> QED
    BY <1>0, <2>1 DEF TurnEvents
<1>3. CASE PromptWritten \/ \E partial \in BOOLEAN : PromptWriteFail(partial)
  <2>1. /\ generation \in Turns /\ prompting = "writing" /\ prompting' \in {"idle", "failing"}
        /\ UNCHANGED <<generation, events>> /\ finish[generation] = "prompting"
        /\ \E f \in {"awaiting", "ending"} : finish' = [finish EXCEPT ![generation] = f]
    BY <1>3 DEF PromptWritten, PromptWriteFail, LeaveGate, PromptsTurn
  <2> QED
    BY <1>0, <2>1 DEF TurnEvents
<1>4. CASE PromptLock \/ PromptRefuse \/ PromptUnwind
  BY <1>4 DEF PromptLock, PromptRefuse, PromptUnwind, TakeGate, LeaveGate, TurnEvents
<1>5. ASSUME NEW g \in Turns, FinishEmit(g) PROVE TurnEvents'
  <2>1. /\ finish[g] = "cleared" /\ finish' = [finish EXCEPT ![g] = "emitted"]
        /\ UNCHANGED <<generation, prompting>>
    BY <1>5 DEF FinishEmit
  <2>2. events' = events \cup {<<"turn.ended", g>>}
    BY <1>5, <2>1 DEF FinishEmit, Emit, ChannelInOrder
  <2>3. \A h \in Turns : /\ <<"turn.started", h>> \in events' <=> <<"turn.started", h>> \in events
                         /\ <<"turn.ended", h>> \in events' <=>
                              <<"turn.ended", h>> \in events \/ h = g
    BY <2>2, EventsDiffer
  <2> QED
    BY <1>0, <2>1, <2>3 DEF TurnEvents
<1>6. ASSUME NEW g \in Turns, FinishStep(g), ~FinishEmit(g) PROVE TurnEvents'
  <2>1. /\ finish[g] \notin {"none", "prompting", "emitted"}
        /\ UNCHANGED <<generation, prompting, events>>
        /\ \E f \in {"ending", "barrier", "ended", "cleared"} : finish' = [finish EXCEPT ![g] = f]
    BY <1>6 DEF FinishStep, AwaitReturn, FinishEndTurn, FinishBarrier, FinishClear, EndTurn,
       EndTurnReturn
  <2> QED
    BY <1>0, <2>1 DEF TurnEvents
<1>7. CASE ~PromptStep /\ \A g \in Turns : ~FinishStep(g)
  <2>1. UNCHANGED <<generation, prompting, finish>>
    BY <1>7, OthersKeepTurns DEF TurnsStay
  <2>2. ~PromptStart /\ \A g \in Turns : ~FinishEmit(g)
    BY <1>7 DEF PromptStep, FinishStep
  <2> QED
    BY <2>1, <2>2, OthersKeepTurnEvents DEF TurnEvents
<1> QED
  BY <1>1, <1>2, <1>3, <1>4, <1>5, <1>6, <1>7 DEF PromptStep

\* The events of a request are sent by its own response.
LEMMA OthersKeepRequestEvents ==
  ASSUME [Next]_vars, \A r \in Requests : ~AnnounceRequest(r),
         \A r \in Requests, ok \in BOOLEAN : ~DeliverResolution(r, ok)
  PROVE  \A r, g : /\ <<"permission_requested", g, r>> \in events' <=>
                        <<"permission_requested", g, r>> \in events
                   /\ <<"permission_resolved", g, r>> \in events' <=>
                        <<"permission_resolved", g, r>> \in events
<1> DEFINE Kept == \A r, g :
             /\ <<"permission_requested", g, r>> \in events' <=>
                  <<"permission_requested", g, r>> \in events
             /\ <<"permission_resolved", g, r>> \in events' <=>
                  <<"permission_resolved", g, r>> \in events
<1>1. ASSUME PromptStart PROVE Kept
  <2>1. events' \in {events, events \cup {<<"turn.started", generation>>}}
    BY <1>1 DEF PromptStart, Emit
  <2>2. \A r, g : <<"turn.started", generation>> \notin
                    {<<"permission_requested", g, r>>, <<"permission_resolved", g, r>>}
    OBVIOUS
  <2> QED
    BY <2>1, <2>2
<1>2. ASSUME NEW h \in Turns, FinishEmit(h) PROVE Kept
  <2>1. events' \in {events, events \cup {<<"turn.ended", h>>}}
    BY <1>2 DEF FinishEmit, Emit
  <2>2. \A r, g : <<"turn.ended", h>> \notin
                    {<<"permission_requested", g, r>>, <<"permission_resolved", g, r>>}
    OBVIOUS
  <2> QED
    BY <2>1, <2>2
<1>3. ASSUME \/ events' = events \/ events' = events \cup {<<"session.ready", 0>>}
             \/ events' = events \cup {<<"process.exited", 0>>}
      PROVE  Kept
  <2>1. \A r, g : {<<"session.ready", 0>>, <<"process.exited", 0>>}
                    \cap {<<"permission_requested", g, r>>, <<"permission_resolved", g, r>>} = {}
    OBVIOUS
  <2> QED
    BY <1>3, <2>1
<1> HIDE DEF Kept
<1>4. Kept
  BY <1>1, <1>2, <1>3, EventsGrow
<1> QED
  BY <1>4 DEF Kept

\* A request is announced once, in its own turn, and resolved there: the channel is
\* open as long as the request is in flight.
LEMMA RequestEventsKept ==
  ASSUME PermInv, TypeOK, TurnInOrder, AllDispatched, EventsNameTheirTurn, ChannelInOrder,
         RequestEvents, [Next]_vars
  PROVE  RequestEvents'
<1>0. stage \in [Requests -> Stages] /\ adm \in [Requests -> Admission]
  BY DEF PermInv, PermTypeOK
<1>1. ASSUME NEW r \in Requests, NEW k \in FrameKinds, ReadPermissionRequest(r, k)
      PROVE  RequestEvents'
  <2>1. /\ adm' = [adm EXCEPT ![r] = DispatchAdmission] /\ stage[r] = "unsent"
        /\ stage' = [stage EXCEPT ![r] = "admitted"] /\ events' = events
    BY <1>1 DEF ReadPermissionRequest, Admit, clientVars
  <2> QED
    BY <1>0, <2>1 DEF RequestEvents
<1>2. ASSUME NEW r \in Requests, AnnounceRequest(r)
      PROVE  RequestEvents'
  <2>1. stage[r] = "admitted" /\ adm' = adm /\ stage' = [stage EXCEPT ![r] = "announced"]
    BY <1>2 DEF AnnounceRequest, OnAdmission
  <2>2. CASE events' = events
    BY <1>0, <2>1, <2>2 DEF RequestEvents
  <2>3. CASE /\ adm[r].activeTurn
             /\ events' = events \cup {<<"permission_requested", currentTurn, r>>}
    <3>1. adm[r].generation = currentTurn
      BY <2>1, <2>3, InFlightTurn DEF InFlight
    <3>2. \A q \in Requests, g \in Turns :
            <<"permission_requested", g, q>> \in events' <=>
              <<"permission_requested", g, q>> \in events \/ (g = currentTurn /\ q = r)
      BY <2>3, EventsDiffer
    <3> QED
      BY <1>0, <2>1, <2>3, <3>1, <3>2 DEF RequestEvents
  <2> QED
    BY <1>2, <2>2, <2>3 DEF AnnounceRequest, Emit
<1>3. ASSUME NEW r \in Requests, NEW ok \in BOOLEAN, DeliverResolution(r, ok)
      PROVE  RequestEvents'
  <2>1. /\ stage[r] \in {"declined", "committed"} /\ adm' = adm
        /\ stage' = [stage EXCEPT ![r] = IF @ = "declined" THEN "retired" ELSE "responded"]
    BY <1>3 DEF DeliverResolution, Deliver
  <2>2. CASE ~adm[r].activeTurn
    <3>1. events' = events
      BY <1>3, <2>2 DEF DeliverResolution
    <3> QED
      BY <1>0, <2>1, <2>2, <3>1 DEF RequestEvents
  <2>3. CASE adm[r].activeTurn
    <3>1. requestTurn[r] = adm[r].generation
      BY <2>1, <2>3 DEF EventsNameTheirTurn
    <3>2. ~eventsClosed
      BY <2>1, <2>3, InFlightTurn DEF InFlight, ChannelInOrder
    <3>3. events' = events \cup {<<"permission_resolved", adm[r].generation, r>>}
      BY <1>3, <2>3, <3>1, <3>2 DEF DeliverResolution, Emit
    <3>4. \A q \in Requests, g \in Turns :
            <<"permission_requested", g, q>> \in events' <=>
              <<"permission_requested", g, q>> \in events
      BY <3>3, EventsDiffer
    <3> QED
      BY <1>0, <2>1, <3>3, <3>4 DEF RequestEvents
  <2> QED
    BY <2>2, <2>3
<1>4. ASSUME NEW r \in Requests, ResponseStep(r), ~AnnounceRequest(r),
             \A ok \in BOOLEAN : ~DeliverResolution(r, ok)
      PROVE  RequestEvents'
  <2>1. events' = events
    BY <1>4 DEF ResponseStep, CoordinatorStep, AfterResponse, HostAnswers, clientVars
  <2> QED
    BY <1>0, <1>4, <2>1, ResponseMoves DEF RequestEvents
<1>5. CASE /\ \A r \in Requests : ~ResponseStep(r)
           /\ \A r \in Requests, k \in FrameKinds : ~ReadPermissionRequest(r, k)
  <2>1. /\ \A r \in Requests : ~AnnounceRequest(r)
        /\ \A r \in Requests, ok \in BOOLEAN : ~DeliverResolution(r, ok)
    BY <1>5 DEF ResponseStep
  <2> QED
    BY <1>5, <2>1, OthersKeepRequests, OthersKeepRequestEvents DEF RequestEvents
<1> QED
  BY <1>1, <1>2, <1>3, <1>4, <1>5

\* The coordinator stays closed.
LEMMA ClosedStays ==
  ASSUME [Next]_vars, closed
  PROVE  closed'
<1>1. [PermNext]_permVars
  BY ClientStepMaps
<1>2. ASSUME LifecycleStep PROVE closed'
  BY <1>2 DEF LifecycleStep, SetSessionID, BeginTurn, CloseTurnAdmission, EndTurn, EndTurnReturn,
     CancelTurn, Close, TakeGate, LeaveGate
<1>3. ASSUME NEW r \in Requests, RequestStep(r) PROVE closed'
  BY <1>3 DEF RequestStep, Admit, Respond, OnAdmission, Decline, Ask, ResponderReturn,
     ReleaseCallback, Wake, LockGate, Commit, Deliver, Retire, Complete, After
<1> QED
  BY <1>1, <1>2, <1>3 DEF PermNext, permVars

\* A turn that is revoked stays so: nothing brings an ended or cancelled turn back.
LEMMA RevokedStays ==
  ASSUME PermInv, [Next]_vars, NEW g \in Turns, Revoked(g)
  PROVE  Revoked(g)'
<1> USE DEF turnCallVars, teardownVars, clientVars, permVars
<1>0. /\ generation \in 0..MaxTurns /\ MaxTurns \in Nat /\ Turns = 1..MaxTurns
      /\ turns \in [Turns -> Turn] /\ turns[g] \in Turn /\ PermTypeOK
  BY PermissionConstants DEF PermInv, PermTypeOK, Turns
<1>1. CASE PromptStep
  <2>1. CASE PromptAdmit
    <3>1. /\ generation' = generation + 1 /\ g <= generation
          /\ turns'[g] \in {turns[g], RevokeTurn(turns[g])}
      BY <1>0, <2>1 DEF PromptAdmit, BeginTurn, Revoked
    <3> QED
      BY <1>0, <3>1, TurnUpdates DEF Revoked
  <2>2. CASE ~PromptAdmit
    BY <1>1, <2>2 DEF PromptStep, PromptLock, PromptRefuse, PromptStart, PromptWritten,
       PromptWriteFail, PromptUnwind, TakeGate, LeaveGate, Revoked
  <2> QED
    BY <2>1, <2>2
<1>2. ASSUME NEW h \in Turns, FinishStep(h) PROVE Revoked(g)'
  <2>1. CASE FinishEndTurn(h)
    BY <1>0, <2>1, LifecycleKeepsTurns DEF FinishEndTurn, Revoked
  <2>2. CASE FinishBarrier(h)
    BY <1>0, <2>2 DEF FinishBarrier, EndTurnReturn, Revoked, Turn
  <2>3. CASE AwaitReturn(h) \/ FinishClear(h) \/ FinishEmit(h)
    BY <2>3 DEF AwaitReturn, FinishClear, FinishEmit, Revoked
  <2> QED
    BY <1>2, <2>1, <2>2, <2>3 DEF FinishStep
<1>3. CASE ~PromptStep /\ \A h \in Turns : ~FinishStep(h)
  BY <1>3, OthersKeepTurns DEF TurnsStay, Revoked
<1> QED
  BY <1>1, <1>2, <1>3

\* Which steps write a frame.
LEMMA WireGrows ==
  ASSUME [Next]_vars
  PROVE  \/ wire' = wire
         \/ PromptWritten
         \/ \E ok \in BOOLEAN : CancelNotify(ok)
         \/ CloseRequest
         \/ \E r \in Requests, ok \in BOOLEAN : DeliverResolution(r, ok)
<1> USE DEF turnCallVars, teardownVars, clientVars, permVars
<1>1. CASE UNCHANGED vars
  BY <1>1 DEF vars
<1>2. CASE LaunchReady \/ LaunchFail
  BY <1>2 DEF LaunchReady, LaunchFail
<1>3. CASE PromptStep
  BY <1>3 DEF PromptStep, PromptLock, PromptRefuse, PromptAdmit, PromptStart, PromptWritten,
     PromptWriteFail, PromptUnwind
<1>4. ASSUME NEW g \in Turns, FinishStep(g) PROVE wire' = wire
  BY <1>4 DEF FinishStep, AwaitReturn, FinishEndTurn, FinishBarrier, FinishClear, FinishEmit
<1>5. CASE CancelStep
  BY <1>5 DEF CancelStep, CancelLock, CancelNoTurn, CancelPermissions
<1>6. CASE CloseStep
  BY <1>6 DEF CloseStep, CloseSeal, ClosePermissions, CloseGraceful, CloseForced, CloseLeave,
     CloseTransport, CloseKill, CloseReturn
<1>7. CASE ReadStep
  BY <1>7 DEF ReadStep, ReadPermissionRequest, TakeResponse, DeliverResponse, ReadEnd, ReadReport
<1>8. ASSUME NEW r \in Requests, ResponseStep(r)
      PROVE  wire' = wire \/ \E ok \in BOOLEAN : DeliverResolution(r, ok)
  BY <1>8 DEF ResponseStep, AnnounceRequest, CoordinatorStep, AfterResponse, HostAnswers
<1>9. CASE ProcessExit \/ ProcessReport \/ TerminationStep
  BY <1>9 DEF ProcessExit, ProcessReport, TerminationStep, JoinFirst, JoinTimeout, Joined,
     TerminatePermissions, TerminateExit, SealEvents, CloseEvents
<1> QED
  BY <1>1, <1>2, <1>3, <1>4, <1>5, <1>6, <1>7, <1>8, <1>9 DEF Next

\* session/cancel and session/close are written by Cancel and by Close alone.
LEMMA OthersKeepEndFrames ==
  ASSUME [Next]_vars, \A ok \in BOOLEAN : ~CancelNotify(ok), ~CloseRequest
  PROVE  /\ \A g : <<"session/cancel", g>> \in wire' <=> <<"session/cancel", g>> \in wire
         /\ <<"session/close", 0>> \in wire' <=> <<"session/close", 0>> \in wire
<1> DEFINE Kept == /\ \A g : <<"session/cancel", g>> \in wire' <=> <<"session/cancel", g>> \in wire
                   /\ <<"session/close", 0>> \in wire' <=> <<"session/close", 0>> \in wire
<1>1. ASSUME NEW r \in Requests, NEW ok \in BOOLEAN, DeliverResolution(r, ok) PROVE Kept
  <2>1. wire' \in {wire, wire \cup {<<"selected", r>>}, wire \cup {<<"cancelled", r>>}}
    BY <1>1 DEF DeliverResolution
  <2>2. \A g : {<<"selected", r>>, <<"cancelled", r>>}
                 \cap {<<"session/cancel", g>>, <<"session/close", 0>>} = {}
    OBVIOUS
  <2> QED
    BY <2>1, <2>2
<1>2. ASSUME PromptWritten PROVE Kept
  <2>1. wire' = wire \cup {<<"session/prompt", generation>>}
    BY <1>2 DEF PromptWritten
  <2>2. \A g : <<"session/prompt", generation>> \notin
                 {<<"session/cancel", g>>, <<"session/close", 0>>}
    OBVIOUS
  <2> QED
    BY <2>1, <2>2
<1>4. ASSUME wire' = wire PROVE Kept
  BY <1>4
<1> HIDE DEF Kept
<1>3. Kept
  BY <1>1, <1>2, <1>4, WireGrows
<1> QED
  BY <1>3 DEF Kept

\* Only Cancel and Close move their own calls.
LEMMA OthersKeepCalls ==
  ASSUME [Next]_vars
  PROVE  (CancelStep \/ canceling' = canceling) /\ (CloseStep \/ closing' = closing)
<1> USE DEF turnCallVars, teardownVars, clientVars, permVars
<1>1. CASE UNCHANGED vars
  BY <1>1 DEF vars
<1>2. CASE LaunchReady \/ LaunchFail
  BY <1>2 DEF LaunchReady, LaunchFail
<1>3. CASE PromptStep
  BY <1>3 DEF PromptStep, PromptLock, PromptRefuse, PromptAdmit, PromptStart, PromptWritten,
     PromptWriteFail, PromptUnwind
<1>4. ASSUME NEW g \in Turns, FinishStep(g) PROVE UNCHANGED <<canceling, closing>>
  BY <1>4 DEF FinishStep, AwaitReturn, FinishEndTurn, FinishBarrier, FinishClear, FinishEmit
<1>5. CASE CancelStep
  BY <1>5 DEF CancelStep, CancelLock, CancelNoTurn, CancelPermissions, CancelNotify
<1>6. CASE CloseStep
  BY <1>6 DEF CloseStep, CloseSeal, ClosePermissions, CloseGraceful, CloseForced, CloseRequest,
     CloseLeave, CloseTransport, CloseKill, CloseReturn
<1>7. CASE ReadStep
  BY <1>7 DEF ReadStep, ReadPermissionRequest, TakeResponse, DeliverResponse, ReadEnd, ReadReport
<1>8. ASSUME NEW r \in Requests, ResponseStep(r) PROVE UNCHANGED <<canceling, closing>>
  BY <1>8 DEF ResponseStep, AnnounceRequest, CoordinatorStep, AfterResponse, HostAnswers,
     DeliverResolution
<1>9. CASE ProcessExit \/ ProcessReport \/ TerminationStep
  BY <1>9 DEF ProcessExit, ProcessReport, TerminationStep, JoinFirst, JoinTimeout, Joined,
     TerminatePermissions, TerminateExit, SealEvents, CloseEvents
<1> QED
  BY <1>1, <1>2, <1>3, <1>4, <1>5, <1>6, <1>7, <1>8, <1>9 DEF Next

\* Cancel revokes the turn before it tells the agent, and Close the session.
LEMMA RevokedFirst ==
  ASSUME PermInv, GateInOrder, RevokedBeforeWire, [Next]_vars
  PROVE  RevokedBeforeWire'
<1> USE DEF turnCallVars, teardownVars, clientVars
<1>0. PermTypeOK /\ generation \in 0..MaxTurns /\ MaxTurns \in Nat /\ Turns = 1..MaxTurns
  BY PermissionConstants DEF PermInv, PermTypeOK, Turns
<1>1. closing' \notin {"idle", "sealed"} => closed'
  <2>1. CASE closing \notin {"idle", "sealed"}
    BY <2>1, ClosedStays DEF RevokedBeforeWire
  <2>2. CASE closing \in {"idle", "sealed"} /\ closing' \notin {"idle", "sealed"}
    <3>1. CloseStep
      BY <2>2, OthersKeepCalls
    <3>2. Close
      BY <2>2, <3>1 DEF CloseStep, CloseSeal, ClosePermissions, CloseGraceful, CloseForced,
         CloseRequest, CloseLeave, CloseTransport, CloseKill, CloseReturn
    <3> QED
      BY <3>2 DEF Close
  <2> QED
    BY <2>1, <2>2
<1>2. ASSUME NEW ok \in BOOLEAN, CancelNotify(ok)
      PROVE  /\ <<"session/close", 0>> \in wire' <=> <<"session/close", 0>> \in wire
             /\ \A g : <<"session/cancel", g>> \in wire' =>
                  <<"session/cancel", g>> \in wire \/ (canceling = "notifying" /\ g = generation)
  <2>1. canceling = "notifying" /\ wire' \in {wire, wire \cup {<<"session/cancel", generation>>}}
    BY <1>2 DEF CancelNotify
  <2>2. \A g : /\ <<"session/cancel", generation>> # <<"session/close", 0>>
               /\ <<"session/cancel", generation>> = <<"session/cancel", g>> <=> g = generation
    OBVIOUS
  <2> QED
    BY <2>1, <2>2
<1>3. <<"session/close", 0>> \in wire' => closed'
  <2>1. CASE <<"session/close", 0>> \in wire
    BY <2>1, ClosedStays DEF RevokedBeforeWire
  <2>2. CASE CloseRequest
    BY <2>2, ClosedStays DEF CloseRequest, RevokedBeforeWire
  <2> QED
    BY <1>2, <2>1, <2>2, OthersKeepEndFrames
<1>4. CloseRequest => \A g : <<"session/cancel", g>> \in wire' => <<"session/cancel", g>> \in wire
  <2>1. CloseRequest => wire' = wire \cup {<<"session/close", 0>>}
    BY DEF CloseRequest
  <2>2. \A g : <<"session/cancel", g>> # <<"session/close", 0>>
    OBVIOUS
  <2> QED
    BY <2>1, <2>2
<1>5. ASSUME NEW g \in Turns, <<"session/cancel", g>> \in wire' PROVE Revoked(g)'
  <2>1. <<"session/cancel", g>> \in wire \/ (canceling = "notifying" /\ g = generation)
    BY <1>2, <1>4, <1>5, OthersKeepEndFrames
  <2> QED
    BY <2>1, RevokedStays DEF RevokedBeforeWire
<1>6. ASSUME NEW g \in Turns, canceling' = "notifying", g = generation' PROVE Revoked(g)'
  <2>1. CASE canceling = "notifying" /\ g = generation
    BY <2>1, RevokedStays DEF RevokedBeforeWire
  <2>2. CASE CancelStep
    <3>1. CancelPermissions
      BY <1>6, <2>2 DEF CancelStep, CancelLock, CancelNoTurn, CancelPermissions, CancelNotify
    <3>2. CancelTurn
      BY <3>1 DEF CancelPermissions
    <3>3. /\ generation' = generation /\ turns'[g].present = turns[g].present
          /\ ~turns[g].present \/ turns'[g].canceled
      BY <1>0, <1>6, <3>2, LifecycleKeepsTurns DEF TurnsStay
    <3> QED
      BY <1>0, <1>6, <3>3 DEF Revoked
  <2>3. CASE ~CancelStep /\ generation' # generation
    <3>1. canceling = "notifying"
      BY <1>6, <2>3, OthersKeepCalls
    <3>2. gate = "cancel"
      BY <3>1 DEF GateInOrder
    <3>3. ~PromptAdmit
      BY <3>2 DEF PromptAdmit, GateInOrder
    <3>4. ~PromptStep
      BY <2>3, <3>3 DEF PromptStep, PromptLock, PromptRefuse, PromptStart, PromptWritten,
         PromptWriteFail, PromptUnwind, TakeGate, LeaveGate, permVars
    <3>5. \A h \in Turns : ~FinishStep(h)
      BY <2>3 DEF FinishStep, AwaitReturn, FinishEndTurn, FinishBarrier, FinishClear, FinishEmit,
         EndTurn, EndTurnReturn, permVars
    <3> QED
      BY <2>3, <3>4, <3>5, OthersKeepTurns DEF TurnsStay
  <2>4. CASE ~CancelStep /\ generation' = generation
    BY <1>6, <2>1, <2>4, OthersKeepCalls
  <2> QED
    BY <2>2, <2>3, <2>4
<1> QED
  BY <1>1, <1>3, <1>5, <1>6 DEF RevokedBeforeWire

\* A commit selects only in a turn that is live, and keeps Cancel and Close off the
\* wire, by the gate, until its response is written.
LEMMA CommitsStayInTime ==
  ASSUME PermInv, GateInOrder, RevokedBeforeWire, CommitsInTime, [Next]_vars
  PROVE  CommitsInTime'
<1> USE DEF turnCallVars, teardownVars, clientVars
<1> SUFFICES ASSUME NEW r \in Requests, stage'[r] = "committed", resolution'[r] = "selected"
             PROVE  /\ <<"session/close", 0>> \notin wire'
                    /\ <<"session/cancel", adm'[r].generation>> \notin wire'
  BY DEF CommitsInTime
<1>0. stage \in [Requests -> Stages] /\ resolution \in [Requests -> Resolutions \cup {"none"}]
  BY DEF PermInv, PermTypeOK
<1>1. CASE stage[r] = "committed" /\ resolution[r] = "selected" /\ adm'[r] = adm[r]
  <2>1. gate = r /\ r \notin LifecycleCalls
    BY <1>1, PermissionConstants DEF PermInv, EntryShape
  <2>2. canceling = "idle" /\ closing \notin {"graceful", "asked"}
    BY <2>1, ClientConstants DEF GateInOrder
  <2>3. (\A ok \in BOOLEAN : ~CancelNotify(ok)) /\ ~CloseRequest
    BY <2>2 DEF CancelNotify, CloseRequest
  <2> QED
    BY <1>1, <2>3, OthersKeepEndFrames DEF CommitsInTime
<1>2. CASE ResponseStep(r) /\ Commit(r)
  <2>1. wire' = wire /\ adm' = adm
    BY <1>2 DEF ResponseStep, CoordinatorStep, AnnounceRequest, AfterResponse, DeliverResolution,
       Deliver, HostAnswers, Commit
  <2>2. FinalResolution(r) = "selected"
    BY <1>0, <1>2 DEF Commit
  <2>3. TurnLive(r)
    BY <2>2 DEF FinalResolution
  <2>4. ~closed /\ adm[r].generation \in Turns /\ ~Revoked(adm[r].generation)
    BY <2>3 DEF TurnLive, HasTurn, Revoked
  <2> QED
    BY <2>1, <2>4 DEF RevokedBeforeWire
<1>3. ASSUME NEW q \in Requests, NEW k \in FrameKinds, ReadPermissionRequest(q, k)
      PROVE  stage[r] = "committed" /\ resolution[r] = "selected" /\ adm'[r] = adm[r]
  <2>1. /\ adm' = [adm EXCEPT ![q] = DispatchAdmission] /\ resolution' = resolution
        /\ stage' = [stage EXCEPT ![q] = "admitted"]
    BY <1>3 DEF ReadPermissionRequest, Admit
  <2>2. q # r
    BY <1>0, <2>1
  <2> QED
    BY <1>0, <2>1, <2>2 DEF PermInv, PermTypeOK
<1>4. ASSUME NEW q \in Requests, ResponseStep(q), ~(q = r /\ Commit(r))
      PROVE  stage[r] = "committed" /\ resolution[r] = "selected" /\ adm'[r] = adm[r]
  <2>1. CASE q # r
    BY <1>4, <2>1, ResponseMoves
  <2>2. CASE q = r
    BY <1>4, <2>2, ResponseMoves
  <2> QED
    BY <2>1, <2>2
<1>5. CASE /\ \A q \in Requests : ~ResponseStep(q)
           /\ \A q \in Requests, k \in FrameKinds : ~ReadPermissionRequest(q, k)
  BY <1>1, <1>5, OthersKeepRequests
<1> QED
  BY <1>1, <1>2, <1>3, <1>4, <1>5

\* One turn is in flight: only the current generation's goroutine is short of
\* clearing currentTurnID.
LEMMA OneTurn == TypeOK /\ TurnInOrder => OneTurnInFlight
<1> SUFFICES ASSUME TypeOK, TurnInOrder PROVE OneTurnInFlight
  OBVIOUS
<1>1. /\ finish \in [Turns -> {"none", "prompting", "awaiting", "ending", "barrier", "ended",
                               "cleared", "emitted"}]
      /\ generation \in 0..MaxTurns /\ MaxTurns \in Nat /\ Turns = 1..MaxTurns
      /\ turns \in [Turns -> Turn]
  BY PermissionConstants DEF TypeOK, PermTypeOK, Turns
<1>2. ASSUME NEW g \in Turns, g < generation
      PROVE  finish[g] \in {"cleared", "emitted"} /\ ~turns[g].present
  <2>1. g # currentTurn /\ ~(g > generation)
    BY <1>1, <1>2 DEF TurnInOrder
  <2>2. finish[g] \in {"cleared", "emitted"}
    BY <1>1, <2>1 DEF TurnInOrder
  <2> QED
    BY <2>2 DEF TurnInOrder
<1> QED
  BY <1>2 DEF TurnInOrder, OneTurnInFlight

--------------------------------------------------------------------------------
(***************************************************************************)
(* The theorems.                                                           *)
(***************************************************************************)

\* A client whose child has just been started satisfies its invariant.
LEMMA ClientInit == Init => PermInv /\ ClientInv
<1> SUFFICES ASSUME Init PROVE PermInv /\ ClientInv
  OBVIOUS
<1> USE DEF Init, QuietInit
<1>1. PermInv /\ PermTypeOK
  BY InitInv DEF PermInv
<1>2. MaxTurns \in Nat /\ None \notin {"prompt", "cancel", "close"}
  BY PermissionConstants, ClientConstants
<1>3. TypeOK
  <2>1. /\ call \in [Turns -> {"none", "pending", "taken", "answered", "failed", "dropped"}]
        /\ finish \in [Turns -> {"none", "prompting", "awaiting", "ending", "barrier", "ended",
                                 "cleared", "emitted"}]
        /\ requestTurn \in [Requests -> 0..MaxTurns] /\ currentTurn \in 0..MaxTurns
    BY <1>2
  <2>2. {clientClosed, lifetimeStopped, stdinClosed, exitVisible, eventsClosing, eventsClosed}
          \subseteq BOOLEAN
    OBVIOUS
  <2> QED
    BY <1>1, <2>1, <2>2 DEF TypeOK
<1>4. GateInOrder
  BY <1>2 DEF GateInOrder, PermInit
<1>5. TurnInOrder
  BY <1>2 DEF TurnInOrder, PermInit, NoTurn, Turns
<1>6. AllDispatched /\ EventsNameTheirTurn
  BY DEF AllDispatched, EventsNameTheirTurn, PermInit, NoAdmission
<1>7. ChannelInOrder /\ TurnEvents /\ RequestEvents
  BY <1>2 DEF ChannelInOrder, TurnEvents, RequestEvents, Turns
<1>8. RevokedBeforeWire /\ CommitsInTime
  BY DEF RevokedBeforeWire, CommitsInTime
<1> QED
  BY <1>1, <1>3, <1>4, <1>5, <1>6, <1>7, <1>8, OneTurn DEF ClientInv

\* Every step of the client keeps it.
LEMMA ClientNext ==
  ASSUME PermInv, ClientInv, [Next]_vars
  PROVE  PermInv' /\ ClientInv'
<1> USE DEF ClientInv
<1>1. [PermNext]_permVars
  BY ClientStepMaps
<1>2. PermInv' /\ PermTypeOK'
  BY <1>1, NextInv DEF PermInv
<1>3. TypeOK' /\ GateInOrder' /\ TurnInOrder'
  BY <1>2, ClientTyped, GateOrder, TurnOrder
<1>4. OneTurnInFlight'
  BY <1>3, OneTurn, PTL
<1>5. PromptsTurn /\ CurrentRequests /\ FinishTyped
  BY TurnsAsNeeded
<1>6. ChannelInOrder' /\ TurnEvents' /\ RequestEvents'
  BY <1>5, ChannelOrder, TurnEventsKept, RequestEventsKept
<1>7. AllDispatched' /\ EventsNameTheirTurn'
  BY <1>5, Dispatched, EventsNamed DEF TypeOK
<1>8. RevokedBeforeWire' /\ CommitsInTime'
  BY RevokedFirst, CommitsStayInTime
<1> QED
  BY <1>2, <1>3, <1>4, <1>6, <1>7, <1>8

\* The client's invariant holds in every reachable state, for any number of
\* requests and turns: the gate is held by the call it belongs to, one turn is in
\* flight, each event names its own turn, and the channel and the wire keep order.
THEOREM ClientSafety == Spec => [](PermInv /\ ClientInv)
<1>1. Init => PermInv /\ ClientInv
  BY ClientInit
<1>2. PermInv /\ ClientInv /\ [Next]_vars => PermInv' /\ ClientInv'
  BY ClientNext
<1> QED
  BY <1>1, <1>2, PTL DEF Spec

\* Every variable of the client keeps its type.
THEOREM ClientTypeCorrect == Spec => []TypeOK
<1>1. ClientInv => TypeOK
  BY DEF ClientInv
<1> QED
  BY <1>1, ClientSafety, PTL

\* When the event channel closes, every admitted turn has ended on it, and every
\* permission request it shows has its resolution.
THEOREM StreamIsComplete == Spec => []StreamComplete
<1>1. PermInv /\ ClientInv => StreamComplete
  <2> SUFFICES ASSUME PermInv, ClientInv, eventsClosed PROVE StreamComplete
    BY DEF StreamComplete
  <2> USE DEF ClientInv
  <2>1. /\ generation \in 0..MaxTurns /\ MaxTurns \in Nat /\ Turns = 1..MaxTurns
        /\ \A g \in Turns : finish[g] \in {"none", "emitted"}
    BY PermissionConstants DEF TypeOK, PermTypeOK, Turns, ChannelInOrder
  <2>2. ASSUME NEW g \in 1..generation
        PROVE  {<<"turn.started", g>>, <<"turn.ended", g>>} \subseteq events
    <3>1. g \in Turns /\ finish[g] = "emitted"
      BY <2>1 DEF TurnInOrder
    <3> QED
      BY <3>1 DEF TurnEvents
  <2>3. ASSUME NEW r \in Requests, NEW g \in Turns, <<"permission_requested", g, r>> \in events
        PROVE  <<"permission_resolved", g, r>> \in events
    <3>1. adm[r].activeTurn /\ adm[r].generation = g /\ stage[r] \in Stages \ {"unsent"}
      BY <2>3 DEF RequestEvents, TypeOK, PermTypeOK
    <3>2. stage[r] \notin InFlight
      BY <2>1, <3>1, InFlightTurn
    <3>3. stage[r] \in {"completed", "done"}
      BY <3>1, <3>2 DEF Stages, InFlight
    <3> QED
      BY <2>3, <3>3 DEF RequestEvents
  <2> QED
    BY <2>2, <2>3 DEF StreamComplete
<1> QED
  BY <1>1, ClientSafety, PTL

\* No permission event of a turn follows the turn's last event: the request is in
\* flight, so its turn has not passed its barrier.
THEOREM EventsBeforeTurnEnd == Spec => NoEventAfterTurnEnd
<1> DEFINE Fits == \A r \in Requests, g \in 0..MaxTurns :
             {<<"permission_requested", g, r>>, <<"permission_resolved", g, r>>}
               \cap (events' \ events) # {} => <<"turn.ended", g>> \notin events
<1>1. ASSUME PermInv, ClientInv, [Next]_vars PROVE Fits
  <2> USE DEF ClientInv
  <2>1. ASSUME NEW r \in Requests, adm[r].activeTurn, stage[r] \in InFlight
        PROVE  <<"turn.ended", adm[r].generation>> \notin events
    BY <1>1, <2>1, InFlightTurn DEF TurnEvents
  <2>2. ASSUME NEW q \in Requests, AnnounceRequest(q) PROVE Fits
    <3>1. stage[q] = "admitted"
      BY <2>2 DEF AnnounceRequest, OnAdmission
    <3>2. CASE adm[q].activeTurn
      <4>1. /\ <<"turn.ended", currentTurn>> \notin events
            /\ events' \in {events, events \cup {<<"permission_requested", currentTurn, q>>}}
        BY <1>1, <2>1, <2>2, <3>1, <3>2, InFlightTurn DEF AnnounceRequest, Emit, InFlight
      <4> QED
        BY <4>1, EventsDiffer
    <3>3. CASE ~adm[q].activeTurn
      BY <2>2, <3>3 DEF AnnounceRequest
    <3> QED
      BY <3>2, <3>3
  <2>3. ASSUME NEW q \in Requests, NEW ok \in BOOLEAN, DeliverResolution(q, ok) PROVE Fits
    <3>1. stage[q] \in {"declined", "committed"}
      BY <2>3 DEF DeliverResolution, Deliver
    <3>2. CASE adm[q].activeTurn
      <4>1. /\ <<"turn.ended", requestTurn[q]>> \notin events
            /\ events' \in {events, events \cup {<<"permission_resolved", requestTurn[q], q>>}}
        BY <1>1, <2>1, <2>3, <3>1, <3>2
           DEF DeliverResolution, Emit, InFlight, EventsNameTheirTurn
      <4> QED
        BY <4>1, EventsDiffer
    <3>3. CASE ~adm[q].activeTurn
      BY <2>3, <3>3 DEF DeliverResolution
    <3> QED
      BY <3>2, <3>3
  <2>4. ASSUME \A r \in Requests : ~AnnounceRequest(r),
               \A r \in Requests, ok \in BOOLEAN : ~DeliverResolution(r, ok)
        PROVE  Fits
    BY <1>1, <2>4, OthersKeepRequestEvents
  <2> QED
    BY <2>2, <2>3, <2>4
<1>2. PermInv /\ ClientInv /\ [Next]_vars =>
        [\A r \in Requests, g \in 0..MaxTurns :
           {<<"permission_requested", g, r>>, <<"permission_resolved", g, r>>}
             \cap (events' \ events) # {} => <<"turn.ended", g>> \notin events]_vars
  BY <1>1
<1> QED
  BY <1>2, ClientSafety, PTL DEF Spec, NoEventAfterTurnEnd

\* A step that writes a selection finds neither the session/cancel of its turn nor
\* session/close on the wire.
LEMMA SelectionsFit ==
  ASSUME AllDispatched, CommitsInTime, [Next]_vars
  PROVE  \A r \in Requests : <<"selected", r>> \in wire' \ wire =>
           /\ <<"session/cancel", adm[r].generation>> \notin wire
           /\ <<"session/close", 0>> \notin wire
<1> DEFINE Fits == \A r \in Requests : <<"selected", r>> \in wire' \ wire =>
             /\ <<"session/cancel", adm[r].generation>> \notin wire
             /\ <<"session/close", 0>> \notin wire
<1>1. Fits
  <2>1. ASSUME NEW q \in Requests, NEW ok \in BOOLEAN, DeliverResolution(q, ok) PROVE Fits
    <3>1. CASE resolution[q] = "selected"
      <4>1. stage[q] = "committed"
        BY <2>1, <3>1 DEF DeliverResolution, Deliver, AllDispatched
      <4>2. /\ <<"session/close", 0>> \notin wire
            /\ <<"session/cancel", adm[q].generation>> \notin wire
            /\ wire' \in {wire, wire \cup {<<"selected", q>>}}
        BY <2>1, <3>1, <4>1 DEF CommitsInTime, DeliverResolution
      <4>3. \A r : <<"selected", q>> = <<"selected", r>> <=> q = r
        OBVIOUS
      <4> QED
        BY <4>2, <4>3
    <3>2. CASE resolution[q] # "selected"
      <4>1. wire' \in {wire, wire \cup {<<"cancelled", q>>}}
        BY <2>1, <3>2 DEF DeliverResolution
      <4>2. \A r : <<"cancelled", q>> # <<"selected", r>>
        OBVIOUS
      <4> QED
        BY <4>1, <4>2
    <3> QED
      BY <3>1, <3>2
  <2>2. ASSUME NEW ok \in BOOLEAN, CancelNotify(ok) PROVE Fits
    <3>1. wire' \in {wire, wire \cup {<<"session/cancel", generation>>}}
      BY <2>2 DEF CancelNotify
    <3>2. \A r : <<"session/cancel", generation>> # <<"selected", r>>
      OBVIOUS
    <3> QED
      BY <3>1, <3>2
  <2>3. ASSUME CloseRequest PROVE Fits
    <3>1. wire' = wire \cup {<<"session/close", 0>>}
      BY <2>3 DEF CloseRequest
    <3>2. \A r : <<"session/close", 0>> # <<"selected", r>>
      OBVIOUS
    <3> QED
      BY <3>1, <3>2
  <2>4. ASSUME PromptWritten PROVE Fits
    <3>1. wire' = wire \cup {<<"session/prompt", generation>>}
      BY <2>4 DEF PromptWritten
    <3>2. \A r : <<"session/prompt", generation>> # <<"selected", r>>
      OBVIOUS
    <3> QED
      BY <3>1, <3>2
  <2>5. ASSUME wire' = wire PROVE Fits
    BY <2>5
  <2> HIDE DEF Fits
  <2> QED
    BY <2>1, <2>2, <2>3, <2>4, <2>5, WireGrows
<1> QED
  BY <1>1

\* No selection is written after the session/cancel of its turn or session/close:
\* it was committed before either, and the gate keeps them off the wire since.
THEOREM SelectionsBeforeCancel == Spec => NoSelectionAfterCancel
<1>1. PermInv /\ ClientInv /\ [Next]_vars =>
        [\A r \in Requests : <<"selected", r>> \in wire' \ wire =>
           <<"session/cancel", adm[r].generation>> \notin wire
             /\ <<"session/close", 0>> \notin wire]_vars
  BY SelectionsFit DEF ClientInv
<1> QED
  BY <1>1, ClientSafety, PTL DEF Spec, NoSelectionAfterCancel

--------------------------------------------------------------------------------
(* The Copilot client. *)

\* The steps the Copilot client takes over: of Prompt, ...
SharedPrompt == PromptLock \/ PromptRefuse \/ PromptAdmit \/ PromptStart \/ PromptWritten

\* ... of the goroutine that awaits the turn's result, ...
SharedFinish(g) == AwaitReturn(g) \/ FinishEmit(g) \/ FinishEndTurn(g) \/ FinishBarrier(g)

\* ... of one response, and of the calls, the reader and the end.
SharedResponse(r) ==
  \/ AnnounceRequest(r) \/ CoordinatorStep(r)
  \/ \E ok \in BOOLEAN : DeliverResolution(r, ok)
  \/ \E a \in ReturnedAnswers : HostAnswers(r, a)

SharedCall ==
  LaunchReady \/ LaunchFail \/ CancelStep \/ ClosePermissions \/ CloseRequest \/ CloseLeave

SharedRead ==
  \/ \E g \in Turns : TakeResponse(g) \/ DeliverResponse(g)
  \/ ReadEnd \/ \E malformed \in BOOLEAN : ReadReport(malformed)

SharedEnd ==
  ProcessExit \/ ProcessReport \/ JoinFirst \/ Joined \/ TerminateExit \/ SealEvents \/ CloseEvents

SharedStep ==
  /\ \/ SharedPrompt \/ (\E g \in Turns : SharedFinish(g))
     \/ SharedCall \/ SharedRead \/ SharedEnd
     \/ (\E r \in Requests : SharedResponse(r))
     \/ (\E r \in Requests, k \in FrameKinds : ReadPermissionRequest(r, k))
  /\ UNCHANGED copilotVars

\* Its own steps: how it launches, how a turn ends, how it closes and disconnects.
OwnLaunch == StartTransport \/ StartTransportFail \/ StartGoroutines

OwnTurn == CopilotFail \/ \E g \in Turns : ClearTurn(g)

OwnClose == SealClosed \/ CloseLock \/ CloseDisconnect \/ CloseStopChild \/ CloseFinish

OwnEnd ==
  (\E r \in Requests : abortPermissionTransport(r)) \/ DialJoined \/ StopChild
    \/ ExitClosesPermissions

\* Every step is one or the other.
LEMMA CopilotSteps == CopilotNext => SharedStep \/ OwnLaunch \/ OwnTurn \/ OwnClose \/ OwnEnd
<1>1. StartTransport \/ StartTransportFail \/ StartGoroutines \/ Handshake \/ CopilotPrompt
        \/ CopilotFail \/ CopilotCancel => SharedStep \/ OwnLaunch \/ OwnTurn
  BY DEF Handshake, CopilotPrompt, CopilotCancel, SharedStep, SharedPrompt, SharedCall, OwnLaunch,
     OwnTurn
<1>2. CopilotClose => SharedStep \/ OwnClose
  BY DEF CopilotClose, CloseGracefully, SharedStep, SharedCall, OwnClose
<1>3. CopilotRead => SharedStep
  BY DEF CopilotRead, SharedStep, SharedRead
<1>4. ASSUME NEW g \in Turns, awaitPromptResult(g) \/ deliverResponse(g)
      PROVE  SharedStep \/ OwnTurn
  BY <1>4 DEF awaitPromptResult, endTurn, deliverResponse, SharedStep, SharedFinish, SharedRead,
     OwnTurn
<1>5. ASSUME NEW r \in Requests, CopilotRespond(r) \/ abortPermissionTransport(r)
      PROVE  SharedStep \/ OwnEnd
  BY <1>5 DEF CopilotRespond, SharedStep, SharedResponse, OwnEnd
<1>6. CopilotProcess \/ coordinateTermination => SharedStep \/ OwnEnd
  BY DEF CopilotProcess, coordinateTermination, SharedStep, SharedEnd, OwnEnd
<1> QED
  BY <1>1, <1>2, <1>3, <1>4, <1>5, <1>6 DEF CopilotNext

\* What it takes over are steps of AcpClient.
LEMMA SharedIsNext == SharedStep => [Next]_vars
<1>1. SharedPrompt => PromptStep
  BY DEF SharedPrompt, PromptStep
<1>2. \A g \in Turns : SharedFinish(g) => FinishStep(g)
  BY DEF SharedFinish, FinishStep
<1>3. SharedCall => LaunchReady \/ LaunchFail \/ CancelStep \/ CloseStep
  BY DEF SharedCall, CloseStep
<1>4. SharedRead \/ (\E r \in Requests, k \in FrameKinds : ReadPermissionRequest(r, k)) => ReadStep
  BY DEF SharedRead, ReadStep
<1>5. SharedEnd => ProcessExit \/ ProcessReport \/ TerminationStep
  BY DEF SharedEnd, TerminationStep
<1>6. \A r \in Requests : SharedResponse(r) => ResponseStep(r)
  BY DEF SharedResponse, ResponseStep
<1> QED
  BY <1>1, <1>2, <1>3, <1>4, <1>5, <1>6 DEF SharedStep, Next

\* Its own steps, too, call the coordinator within its rules.
LEMMA OwnStepMaps ==
  ASSUME PermTypeOK, OwnLaunch \/ OwnTurn \/ OwnClose \/ OwnEnd
  PROVE  [PermNext]_permVars
<1>1. CASE OwnLaunch
  BY <1>1 DEF OwnLaunch, StartTransport, StartTransportFail, StartGoroutines
<1>2. CASE OwnTurn
  <2>1. EndTurnReturn(generation) => generation \in Turns
    BY DEF EndTurnReturn, PermTypeOK
  <2> QED
    BY <1>2, <2>1, ClientConstants
       DEF OwnTurn, CopilotFail, SessionPromptFails, failTurn, FailedEndTurn, FailedUnwind,
           ClearTurn, PermNext, LifecycleStep
<1>3. CASE OwnClose
  BY <1>3, ClientConstants DEF OwnClose, SealClosed, CloseLock, CloseDisconnect, CloseStopChild,
     CloseFinish, PermNext, LifecycleStep
<1>4. CASE OwnEnd
  BY <1>4 DEF OwnEnd, abortPermissionTransport, DialJoined, StopChild, ExitClosesPermissions,
     PermNext, LifecycleStep, RequestStep
<1> QED
  BY <1>1, <1>2, <1>3, <1>4

\* Every step of it, shared or own, is one of its coordinator, or none.
LEMMA CopilotStepMaps ==
  ASSUME PermTypeOK, [CopilotNext]_allVars
  PROVE  [PermNext]_permVars
<1>1. UNCHANGED allVars => UNCHANGED permVars
  BY DEF allVars, vars
<1>2. SharedStep => [PermNext]_permVars
  BY SharedIsNext, ClientStepMaps
<1> QED
  BY <1>1, <1>2, OwnStepMaps, CopilotSteps

--------------------------------------------------------------------------------
(***************************************************************************)
(* What the client's own steps leave alone.                                *)
(***************************************************************************)

OwnAction == OwnLaunch \/ OwnTurn \/ OwnClose \/ OwnEnd

\* They write no frame and move no request but to its end.
LEMMA OwnKeepsRequests ==
  ASSUME PermTypeOK, OwnAction
  PROVE  /\ UNCHANGED <<adm, resolution, requestTurn, canceling, wire, generation>>
         /\ closed => closed'
         /\ \/ stage' = stage
            \/ \E r \in Requests : stage[r] = "completed" /\ stage' = [stage EXCEPT ![r] = "done"]
<1> USE DEF turnCallVars, teardownVars, clientVars, permVars
<1>1. CASE OwnLaunch
  BY <1>1 DEF OwnLaunch, StartTransport, StartTransportFail, StartGoroutines
<1>2. CASE OwnTurn
  BY <1>2 DEF OwnTurn, CopilotFail, SessionPromptFails, failTurn, FailedEndTurn, FailedUnwind,
     ClearTurn, EndTurn, EndTurnReturn, LeaveGate
<1>3. CASE OwnClose
  BY <1>3 DEF OwnClose, SealClosed, CloseLock, CloseDisconnect, CloseStopChild, CloseFinish,
     TakeGate
<1>4. CASE OwnEnd
  BY <1>4 DEF OwnEnd, abortPermissionTransport, DialJoined, StopChild, ExitClosesPermissions,
     After, Close
<1> QED
  BY <1>1, <1>2, <1>3, <1>4 DEF OwnAction

\* Only a failing Prompt and endTurn end a turn.
LEMMA OwnKeepsTurns ==
  ASSUME PermTypeOK, OwnLaunch \/ OwnClose \/ OwnEnd
  PROVE  TurnsStay /\ UNCHANGED <<currentTurn, prompting, call, finish>>
<1> USE DEF turnCallVars, teardownVars, clientVars, permVars
<1>1. CASE OwnLaunch
  BY <1>1 DEF OwnLaunch, StartTransport, StartTransportFail, StartGoroutines, TurnsStay
<1>2. CASE OwnClose
  BY <1>2 DEF OwnClose, SealClosed, CloseLock, CloseDisconnect, CloseStopChild, CloseFinish,
     TakeGate, TurnsStay
<1>3. CASE ExitClosesPermissions
  BY <1>3, LifecycleKeepsTurns DEF ExitClosesPermissions
<1>4. CASE OwnEnd /\ ~ExitClosesPermissions
  BY <1>4 DEF OwnEnd, abortPermissionTransport, DialJoined, StopChild, After, TurnsStay
<1> QED
  BY <1>1, <1>2, <1>3, <1>4

\* A turn revoked in the coordinator stays so when a failing Prompt ends it.
LEMMA OwnKeepsRevoked ==
  ASSUME PermTypeOK, OwnAction, NEW g \in Turns, Revoked(g)
  PROVE  Revoked(g)'
<1> USE DEF turnCallVars, permVars
<1>1. CASE OwnLaunch \/ OwnClose \/ OwnEnd
  BY <1>1, OwnKeepsTurns DEF TurnsStay, Revoked
<1>2. CASE FailedEndTurn
  <2>1. CASE EndTurn
    BY <2>1, LifecycleKeepsTurns DEF Revoked
  <2>2. CASE EndTurnReturn(generation)
    BY <2>2 DEF EndTurnReturn, Revoked, PermTypeOK, Turn
  <2> QED
    BY <1>2, <2>1, <2>2 DEF FailedEndTurn
<1>3. CASE OwnTurn /\ ~FailedEndTurn
  BY <1>3 DEF OwnTurn, CopilotFail, SessionPromptFails, failTurn, FailedUnwind, ClearTurn,
     LeaveGate, Revoked
<1> QED
  BY <1>1, <1>2, <1>3 DEF OwnAction

--------------------------------------------------------------------------------
(***************************************************************************)
(* The parts of the invariant the two clients have in common.              *)
(***************************************************************************)

\* A Prompt that fails keeps the gate until it has ended its turn.
LEMMA CopilotGateOrder ==
  ASSUME PermInv, GateInOrder, [CopilotNext]_allVars
  PROVE  GateInOrder'
<1> USE DEF GateInOrder, turnCallVars, teardownVars, clientVars, permVars
<1>0. None \notin {"prompt", "cancel", "close"}
  BY PermissionConstants, ClientConstants
<1>1. CASE UNCHANGED allVars
  BY <1>1 DEF allVars, vars
<1>2. CASE SharedStep
  BY <1>2, SharedIsNext, GateOrder
<1>3. CASE OwnLaunch
  BY <1>3 DEF OwnLaunch, StartTransport, StartTransportFail, StartGoroutines
<1>4. CASE OwnTurn
  BY <1>0, <1>4 DEF OwnTurn, CopilotFail, SessionPromptFails, failTurn, FailedEndTurn,
     FailedUnwind, ClearTurn, EndTurn, EndTurnReturn, LeaveGate
<1>5. CASE OwnClose
  BY <1>0, <1>5 DEF OwnClose, SealClosed, CloseLock, CloseDisconnect, CloseStopChild, CloseFinish,
     TakeGate
<1>6. CASE OwnEnd
  BY <1>6 DEF OwnEnd, abortPermissionTransport, DialJoined, StopChild, ExitClosesPermissions,
     After, Close
<1> QED
  BY <1>1, <1>2, <1>3, <1>4, <1>5, <1>6, CopilotSteps

\* Requests are dispatched, announced and committed as in AcpClient.
LEMMA CopilotRequestsKept ==
  ASSUME PermInv, requestTurn \in [Requests -> 0..MaxTurns], CurrentRequests, GateInOrder,
         AllDispatched, EventsNameTheirTurn, RevokedBeforeWire, CommitsInTime,
         [CopilotNext]_allVars
  PROVE  AllDispatched' /\ EventsNameTheirTurn' /\ CommitsInTime'
<1>1. CASE SharedStep \/ UNCHANGED allVars
  <2>1. [Next]_vars
    BY <1>1, SharedIsNext DEF allVars
  <2> QED
    BY <2>1, Dispatched, EventsNamed, CommitsStayInTime
<1>2. CASE OwnAction
  <2>1. /\ UNCHANGED <<adm, resolution, requestTurn, wire>>
        /\ \A r \in Requests :
             stage'[r] = stage[r] \/ (stage[r] = "completed" /\ stage'[r] = "done")
    BY <1>2, OwnKeepsRequests DEF PermInv, PermTypeOK
  <2>2. AllDispatched'
    BY <2>1 DEF AllDispatched
  <2>3. EventsNameTheirTurn'
    BY <2>1 DEF EventsNameTheirTurn
  <2>4. CommitsInTime'
    BY <2>1 DEF CommitsInTime
  <2> QED
    BY <2>2, <2>3, <2>4
<1> QED
  BY <1>1, <1>2, CopilotSteps DEF OwnAction

\* Cancel and Close still revoke before they tell the agent.
LEMMA CopilotRevokedFirst ==
  ASSUME PermInv, GateInOrder, RevokedBeforeWire, [CopilotNext]_allVars
  PROVE  RevokedBeforeWire'
<1>1. CASE SharedStep \/ UNCHANGED allVars
  <2>1. [Next]_vars
    BY <1>1, SharedIsNext DEF allVars
  <2> QED
    BY <2>1, RevokedFirst
<1>2. CASE OwnAction
  <2>1. /\ UNCHANGED <<canceling, wire, generation>> /\ (closed => closed')
        /\ \A g \in Turns : Revoked(g) => Revoked(g)'
    BY <1>2, OwnKeepsRequests, OwnKeepsRevoked DEF PermInv
  <2>2. closing' \in {"idle", "sealed"} \/ closing \notin {"idle", "sealed"}
    <3> USE DEF turnCallVars, teardownVars, clientVars
    <3>1. CASE OwnClose
      BY <3>1 DEF OwnClose, SealClosed, CloseLock, CloseDisconnect, CloseStopChild, CloseFinish
    <3>2. CASE OwnLaunch \/ OwnTurn
      BY <3>2 DEF OwnLaunch, StartTransport, StartTransportFail, StartGoroutines, OwnTurn,
         CopilotFail, SessionPromptFails, failTurn, FailedEndTurn, FailedUnwind, ClearTurn
    <3>3. CASE OwnEnd
      BY <3>3 DEF OwnEnd, abortPermissionTransport, DialJoined, StopChild, ExitClosesPermissions
    <3> QED
      BY <1>2, <3>1, <3>2, <3>3 DEF OwnAction
  <2>3. closing' \notin {"idle", "sealed"} \/ <<"session/close", 0>> \in wire' => closed'
    BY <2>1, <2>2 DEF RevokedBeforeWire
  <2>4. ASSUME NEW g \in Turns,
               <<"session/cancel", g>> \in wire' \/ (canceling' = "notifying" /\ g = generation')
        PROVE  Revoked(g)'
    BY <2>1, <2>4 DEF RevokedBeforeWire
  <2> QED
    BY <2>3, <2>4 DEF RevokedBeforeWire
<1> QED
  BY <1>1, <1>2, CopilotSteps DEF OwnAction

\* A request in flight is of the turn in flight, which has not passed its barrier.
LEMMA CopilotInFlight ==
  ASSUME PermInv, CopilotTurns, AllDispatched,
         NEW r \in Requests, adm[r].activeTurn, stage[r] \in InFlight
  PROVE  /\ adm[r].generation \in Turns /\ adm[r].generation = currentTurn
         /\ \/ finish[currentTurn] \in {"prompting", "awaiting", "ending", "barrier"}
            \/ FailingTurn(currentTurn)
BY InFlightHasTurn DEF CopilotTurns

\* What the lemmas about the steps it shares with AcpClient need of the turns.
LEMMA CopilotTurnsAsNeeded ==
  ASSUME PermInv, CopilotTypeOK, CopilotTurns, AllDispatched
  PROVE  PromptsTurn /\ CurrentRequests /\ FinishTyped
<1>1. PromptsTurn
  BY DEF PromptsTurn, CopilotTurns
<1>2. CurrentRequests
  BY CopilotInFlight DEF CurrentRequests
<1>3. FinishTyped
  BY DEF FinishTyped, CopilotTypeOK
<1> QED
  BY <1>1, <1>2, <1>3

\* A Close that overtook Launch closes the channel before any turn, a failing Prompt
\* ends its turn while the channel is open.
LEMMA CopilotChannelOrder ==
  ASSUME PermInv, FinishTyped, PromptsTurn, CopilotTurns, LaunchInOrder, ChannelInOrder,
         [CopilotNext]_allVars
  PROVE  ChannelInOrder'
<1> USE DEF turnCallVars, teardownVars, clientVars, permVars
<1>1. CASE SharedStep \/ UNCHANGED allVars
  <2>1. [Next]_vars
    BY <1>1, SharedIsNext DEF allVars
  <2> QED
    BY <2>1, ChannelOrder
<1>2. CASE OwnLaunch
  BY <1>2 DEF OwnLaunch, StartTransport, StartTransportFail, StartGoroutines, ChannelInOrder
<1>3. CASE failTurn
  <2>1. generation \in Turns /\ finish[generation] = "prompting"
    BY <1>3 DEF failTurn, CopilotTurns
  <2> QED
    BY <1>3, <2>1 DEF failTurn, ChannelInOrder
<1>4. CASE OwnTurn /\ ~failTurn
  BY <1>4 DEF OwnTurn, CopilotFail, SessionPromptFails, FailedEndTurn, FailedUnwind, ClearTurn,
     ChannelInOrder
<1>5. CASE CloseFinish
  <2>1. ~closeSaw.started => \A g \in Turns : finish[g] = "none"
    <3>1. ~closeSaw.started => generation = 0
      BY <1>5 DEF CloseFinish, LaunchInOrder
    <3>2. \A g \in Turns : g > 0
      BY PermissionConstants DEF Turns
    <3> QED
      BY <3>1, <3>2 DEF PromptsTurn
  <2> QED
    BY <1>5, <2>1 DEF CloseFinish, ChannelInOrder
<1>6. CASE OwnClose /\ ~CloseFinish
  BY <1>6 DEF OwnClose, SealClosed, CloseLock, CloseDisconnect, CloseStopChild, ChannelInOrder
<1>7. CASE OwnEnd
  BY <1>7 DEF OwnEnd, abortPermissionTransport, DialJoined, StopChild, ExitClosesPermissions,
     ChannelInOrder
<1> QED
  BY <1>1, <1>2, <1>3, <1>4, <1>5, <1>6, <1>7, CopilotSteps

\* Own steps other than failTurn send nothing but process.started.
LEMMA OwnKeepsEvents ==
  ASSUME OwnAction, ~failTurn
  PROVE  events' = events \/ events' = events \cup {<<"process.started", 0>>}
<1> USE DEF turnCallVars, teardownVars, clientVars
<1>1. CASE OwnLaunch
  BY <1>1 DEF OwnLaunch, StartTransport, StartTransportFail, StartGoroutines, Emit
<1>2. CASE OwnTurn
  BY <1>2 DEF OwnTurn, CopilotFail, SessionPromptFails, FailedEndTurn, FailedUnwind, ClearTurn
<1>3. CASE OwnClose
  BY <1>3 DEF OwnClose, SealClosed, CloseLock, CloseDisconnect, CloseStopChild, CloseFinish
<1>4. CASE OwnEnd
  BY <1>4 DEF OwnEnd, abortPermissionTransport, DialJoined, StopChild, ExitClosesPermissions
<1> QED
  BY <1>1, <1>2, <1>3, <1>4 DEF OwnAction

\* No own step sends a permission event; of turn events, failTurn sends the last.
LEMMA OwnEvents ==
  ASSUME OwnAction
  PROVE  /\ \A r, g : /\ <<"permission_requested", g, r>> \in events' <=>
                           <<"permission_requested", g, r>> \in events
                      /\ <<"permission_resolved", g, r>> \in events' <=>
                           <<"permission_resolved", g, r>> \in events
         /\ ~failTurn => \A g : /\ <<"turn.started", g>> \in events' <=>
                                     <<"turn.started", g>> \in events
                                /\ <<"turn.ended", g>> \in events' <=>
                                     <<"turn.ended", g>> \in events
<1>1. CASE failTurn
  <2>1. events' \in {events, events \cup {<<"turn.ended", generation>>}}
    BY <1>1 DEF failTurn, Emit
  <2>2. \A r, g : <<"turn.ended", generation>> \notin
                    {<<"permission_requested", g, r>>, <<"permission_resolved", g, r>>}
    OBVIOUS
  <2> QED
    BY <1>1, <2>1, <2>2
<1>2. CASE ~failTurn
  <2>1. events' \in {events, events \cup {<<"process.started", 0>>}}
    BY <1>2, OwnKeepsEvents
  <2>2. \A r, g : <<"process.started", 0>> \notin
                    {<<"permission_requested", g, r>>, <<"permission_resolved", g, r>>,
                     <<"turn.started", g>>, <<"turn.ended", g>>}
    OBVIOUS
  <2> QED
    BY <2>1, <2>2
<1> QED
  BY <1>1, <1>2

\* What the channel shows of a turn, also of one whose Prompt failed.
LEMMA CopilotTurnEvents ==
  ASSUME PermInv, FinishTyped, PromptsTurn, CopilotTurns, ChannelInOrder, TurnEvents,
         [CopilotNext]_allVars
  PROVE  TurnEvents'
<1> USE DEF turnCallVars, teardownVars, clientVars, permVars
<1>1. CASE SharedStep \/ UNCHANGED allVars
  <2>1. [Next]_vars
    BY <1>1, SharedIsNext DEF allVars
  <2> QED
    BY <2>1, TurnEventsKept
<1>2. CASE OwnLaunch \/ OwnClose \/ OwnEnd
  <2>1. OwnAction /\ ~failTurn
    <3>1. OwnAction
      BY <1>2 DEF OwnAction
    <3>2. prompting' = prompting
      BY <1>2, OwnKeepsTurns DEF PermInv
    <3>3. ~failTurn
      BY <3>2 DEF failTurn
    <3> QED
      BY <3>1, <3>3
  <2>2. UNCHANGED <<finish, prompting, generation>>
    BY <1>2, OwnKeepsTurns DEF PermInv, TurnsStay
  <2> QED
    BY <2>1, <2>2, OwnEvents DEF TurnEvents
<1>3. CASE failTurn
  <2>1. /\ generation \in Turns /\ finish[generation] = "prompting" /\ prompting = "failing"
        /\ finish' = [finish EXCEPT ![generation] = "emitted"] /\ prompting' = "unwinding"
        /\ generation' = generation
    BY <1>3 DEF failTurn, CopilotTurns
  <2>2. events' = events \cup {<<"turn.ended", generation>>}
    BY <1>3, <2>1 DEF failTurn, Emit, ChannelInOrder
  <2>3. \A h \in Turns : /\ <<"turn.started", h>> \in events' <=> <<"turn.started", h>> \in events
                         /\ <<"turn.ended", h>> \in events' <=>
                              <<"turn.ended", h>> \in events \/ h = generation
    BY <2>2, EventsDiffer
  <2> QED
    BY <2>1, <2>3 DEF TurnEvents, FinishTyped
<1>4. ASSUME NEW partial \in BOOLEAN, SessionPromptFails(partial) PROVE TurnEvents'
  <2>1. /\ prompting = "writing" /\ prompting' = "failing"
        /\ UNCHANGED <<events, finish, generation>>
    BY <1>4 DEF SessionPromptFails
  <2> QED
    BY <2>1 DEF TurnEvents
<1>5. CASE FailedEndTurn \/ FailedUnwind
  <2>1. prompting' \in {"barrier", "clearing", "idle"} /\ UNCHANGED <<events, finish, generation>>
    BY <1>5 DEF FailedEndTurn, FailedUnwind, EndTurn, EndTurnReturn, LeaveGate
  <2> QED
    BY <2>1 DEF TurnEvents
<1>6. ASSUME NEW g \in Turns, ClearTurn(g) PROVE TurnEvents'
  <2>1. /\ finish[g] = "ended" /\ finish' = [finish EXCEPT ![g] = "cleared"]
        /\ UNCHANGED <<events, prompting, generation>>
    BY <1>6 DEF ClearTurn
  <2> QED
    BY <2>1 DEF TurnEvents, FinishTyped
<1> QED
  BY <1>1, <1>2, <1>3, <1>4, <1>5, <1>6, CopilotSteps DEF OwnTurn, CopilotFail

--------------------------------------------------------------------------------
(***************************************************************************)
(* The parts that are the Copilot client's own.                            *)
(***************************************************************************)

\* Every step keeps the client's types.
LEMMA CopilotTyped ==
  ASSUME CopilotTypeOK, PermTypeOK', [CopilotNext]_allVars
  PROVE  CopilotTypeOK'
<1> USE DEF CopilotTypeOK, turnCallVars, teardownVars, clientVars, copilotVars
<1> DEFINE Calls == {"none", "pending", "taken", "answered", "failed", "dropped"}
<1>0. FailPending => call' \in [Turns -> Calls]
  BY DEF FailPending
<1>1. CASE UNCHANGED allVars
  BY <1>1 DEF allVars, vars
<1>2. CASE SharedPrompt /\ UNCHANGED copilotVars
  <2>1. CASE PromptAdmit
    <3>1. generation + 1 \in Turns /\ generation + 1 \in 0..MaxTurns
      BY <2>1, PermissionConstants DEF PromptAdmit, BeginTurn, PermTypeOK, Turns
    <3> QED
      BY <1>2, <2>1, <3>1 DEF PromptAdmit
  <2>2. CASE PromptLock \/ PromptRefuse \/ PromptStart \/ PromptWritten
    BY <1>2, <2>2 DEF PromptLock, PromptRefuse, PromptStart, PromptWritten
  <2> QED
    BY <1>2, <2>1, <2>2 DEF SharedPrompt
<1>3. ASSUME NEW g \in Turns, SharedFinish(g), UNCHANGED copilotVars PROVE CopilotTypeOK'
  <2>1. CASE AwaitReturn(g)
    <3>1. call' \in [Turns -> Calls]
      BY <2>1 DEF AwaitReturn
    <3> QED
      BY <1>3, <2>1, <3>1 DEF AwaitReturn
  <2>2. CASE FinishEndTurn(g) \/ FinishBarrier(g) \/ FinishEmit(g)
    BY <1>3, <2>2 DEF FinishEndTurn, FinishBarrier, FinishEmit
  <2> QED
    BY <1>3, <2>1, <2>2 DEF SharedFinish
<1>4. CASE SharedCall /\ UNCHANGED copilotVars
  <2>1. CASE LaunchReady \/ LaunchFail
    BY <1>4, <2>1 DEF LaunchReady, LaunchFail
  <2>2. CASE CancelLock \/ CancelNoTurn \/ CancelPermissions
    BY <1>4, <2>2 DEF CancelLock, CancelNoTurn, CancelPermissions
  <2>3. ASSUME NEW ok \in BOOLEAN, CancelNotify(ok) PROVE CopilotTypeOK'
    BY <1>4, <2>3 DEF CancelNotify
  <2>4. CASE ClosePermissions \/ CloseRequest \/ CloseLeave
    BY <1>4, <2>4 DEF ClosePermissions, CloseRequest, CloseLeave
  <2> QED
    BY <1>4, <2>1, <2>2, <2>3, <2>4 DEF SharedCall, CancelStep
<1>5. CASE SharedRead /\ UNCHANGED copilotVars
  <2>1. ASSUME NEW g \in Turns, TakeResponse(g) \/ DeliverResponse(g) PROVE CopilotTypeOK'
    BY <1>5, <2>1 DEF TakeResponse, DeliverResponse
  <2>2. ASSUME ReadEnd \/ \E malformed \in BOOLEAN : ReadReport(malformed) PROVE CopilotTypeOK'
    BY <1>0, <1>5, <2>2 DEF ReadEnd, ReadReport
  <2> QED
    BY <1>5, <2>1, <2>2 DEF SharedRead
<1>6. CASE SharedEnd /\ UNCHANGED copilotVars
  <2>1. CASE ProcessExit \/ ProcessReport \/ JoinFirst
    BY <1>6, <2>1 DEF ProcessExit, ProcessReport, JoinFirst
  <2>2. CASE Joined
    BY <1>6, <2>2 DEF Joined
  <2>3. CASE TerminateExit \/ SealEvents \/ CloseEvents
    <3>1. {eventsClosing', eventsClosed'} \subseteq BOOLEAN
      BY <2>3 DEF TerminateExit, SealEvents, CloseEvents
    <3> QED
      BY <1>6, <2>3, <3>1 DEF TerminateExit, SealEvents, CloseEvents
  <2> QED
    BY <1>6, <2>1, <2>2, <2>3 DEF SharedEnd
<1>7. ASSUME NEW r \in Requests, SharedResponse(r), UNCHANGED copilotVars PROVE CopilotTypeOK'
  <2>1. CASE AnnounceRequest(r)
    BY <1>7, <2>1, PermissionConstants DEF AnnounceRequest
  <2>2. CASE CoordinatorStep(r) \/ \E a \in ReturnedAnswers : HostAnswers(r, a)
    BY <1>7, <2>2 DEF CoordinatorStep, HostAnswers
  <2>3. CASE \E ok \in BOOLEAN : DeliverResolution(r, ok)
    BY <1>7, <2>3 DEF DeliverResolution
  <2> QED
    BY <1>7, <2>1, <2>2, <2>3 DEF SharedResponse
<1>8. ASSUME NEW r \in Requests, NEW k \in FrameKinds, ReadPermissionRequest(r, k),
             UNCHANGED copilotVars
      PROVE  CopilotTypeOK'
  BY <1>8 DEF ReadPermissionRequest
<1>9. CASE OwnLaunch
  BY <1>9 DEF OwnLaunch, StartTransport, StartTransportFail, StartGoroutines
<1>10. CASE OwnTurn
  <2>1. 0 \in 0..MaxTurns
    BY PermissionConstants
  <2>2. closeTransport => {stdinClosed', onceLost'} \subseteq BOOLEAN
    BY DEF closeTransport
  <2>3. ASSUME NEW partial \in BOOLEAN, SessionPromptFails(partial) PROVE CopilotTypeOK'
    <3>1. /\ {stdinClosed', onceLost'} \subseteq BOOLEAN
          /\ UNCHANGED <<transport, closeSaw>>
      BY <2>2, <2>3 DEF SessionPromptFails
    <3>2. call' \in [Turns -> Calls] /\ prompting' = "failing"
      BY <2>3 DEF SessionPromptFails
    <3>3. {clientClosed', stdinClosed', exitVisible', eventsClosing', eventsClosed', onceLost'}
            \subseteq BOOLEAN
      BY <2>3, <3>1 DEF SessionPromptFails
    <3> QED
      BY <2>3, <3>1, <3>2, <3>3 DEF SessionPromptFails
  <2>4. CASE failTurn \/ FailedEndTurn \/ FailedUnwind \/ \E g \in Turns : ClearTurn(g)
    BY <2>1, <2>4 DEF failTurn, FailedEndTurn, FailedUnwind, ClearTurn
  <2> QED
    BY <1>10, <2>3, <2>4 DEF OwnTurn, CopilotFail
<1>11. CASE OwnClose \/ OwnEnd
  <2>1. closeTransport => {stdinClosed', onceLost'} \subseteq BOOLEAN
    BY DEF closeTransport
  <2>2. Kill => process' \in {"none", "live", "exited", "reported"}
    BY DEF Kill
  <2>3. CASE SealClosed
    <3>1. {HasCmd, Started} \subseteq BOOLEAN
      BY DEF HasCmd, Started
    <3> QED
      BY <2>3, <3>1 DEF SealClosed
  <2>4. CASE CloseLock \/ CloseDisconnect
    BY <2>1, <2>4 DEF CloseLock, CloseDisconnect
  <2>5. CASE CloseStopChild
    BY <2>2, <2>5 DEF CloseStopChild
  <2>6. CASE CloseFinish
    <3>1. closeSaw.started \in BOOLEAN
      OBVIOUS
    <3>2. {eventsClosing', eventsClosed'} \subseteq BOOLEAN
      BY <2>6, <3>1 DEF CloseFinish
    <3> QED
      BY <2>6, <3>2 DEF CloseFinish
  <2>7. ASSUME NEW r \in Requests, abortPermissionTransport(r) PROVE CopilotTypeOK'
    BY <2>1, <2>2, <2>7 DEF abortPermissionTransport
  <2>8. CASE DialJoined \/ ExitClosesPermissions
    BY <2>8 DEF DialJoined, ExitClosesPermissions
  <2>9. CASE StopChild
    BY <2>1, <2>2, <2>9 DEF StopChild
  <2> QED
    BY <1>11, <2>3, <2>4, <2>5, <2>6, <2>7, <2>8, <2>9 DEF OwnClose, OwnEnd
<1> QED
  BY <1>1, <1>2, <1>3, <1>4, <1>5, <1>6, <1>7, <1>8, <1>9, <1>10, <1>11, CopilotSteps
     DEF SharedStep

\* A prompt is written by Prompt alone.
LEMMA OthersKeepPrompts ==
  ASSUME [Next]_vars, ~PromptWritten
  PROVE  \A g : <<"session/prompt", g>> \in wire' <=> <<"session/prompt", g>> \in wire
<1> DEFINE Kept == \A g : <<"session/prompt", g>> \in wire' <=> <<"session/prompt", g>> \in wire
<1>1. ASSUME NEW r \in Requests, NEW ok \in BOOLEAN, DeliverResolution(r, ok) PROVE Kept
  <2>1. wire' \in {wire, wire \cup {<<"selected", r>>}, wire \cup {<<"cancelled", r>>}}
    BY <1>1 DEF DeliverResolution
  <2>2. \A g : <<"session/prompt", g>> \notin {<<"selected", r>>, <<"cancelled", r>>}
    OBVIOUS
  <2> QED
    BY <2>1, <2>2
<1>2. ASSUME CloseRequest \/ \E ok \in BOOLEAN : CancelNotify(ok) PROVE Kept
  <2>1. wire' \in {wire, wire \cup {<<"session/cancel", generation>>},
                   wire \cup {<<"session/close", 0>>}}
    BY <1>2 DEF CloseRequest, CancelNotify
  <2>2. \A g : <<"session/prompt", g>> \notin
                 {<<"session/cancel", generation>>, <<"session/close", 0>>}
    OBVIOUS
  <2> QED
    BY <2>1, <2>2
<1>3. ASSUME wire' = wire PROVE Kept
  BY <1>3
<1> HIDE DEF Kept
<1>4. Kept
  BY <1>1, <1>2, <1>3, WireGrows
<1> QED
  BY <1>4 DEF Kept

\* A shared step that is not of Prompt or of the awaiting goroutine leaves the turns.
LEMMA SharedKeepsTurns ==
  ASSUME PermInv, FinishTyped,
         \/ SharedCall \/ SharedRead \/ SharedEnd
         \/ \E r \in Requests : SharedResponse(r)
         \/ \E r \in Requests, k \in FrameKinds : ReadPermissionRequest(r, k)
  PROVE  /\ TurnsStay /\ UNCHANGED <<currentTurn, prompting, finish>>
         /\ \A g : <<"session/prompt", g>> \in wire' <=> <<"session/prompt", g>> \in wire
<1> USE DEF turnCallVars, teardownVars, clientVars
<1>1. UNCHANGED <<prompting, finish>>
  <2>1. CASE SharedCall
    BY <2>1 DEF SharedCall, LaunchReady, LaunchFail, CancelStep, CancelLock, CancelNoTurn,
       CancelPermissions, CancelNotify, ClosePermissions, CloseRequest, CloseLeave
  <2>2. CASE SharedRead \/ \E r \in Requests, k \in FrameKinds : ReadPermissionRequest(r, k)
    BY <2>2 DEF SharedRead, TakeResponse, DeliverResponse, ReadEnd, ReadReport,
       ReadPermissionRequest
  <2>3. CASE SharedEnd
    BY <2>3 DEF SharedEnd, ProcessExit, ProcessReport, JoinFirst, Joined, TerminateExit,
       SealEvents, CloseEvents
  <2>4. CASE \E r \in Requests : SharedResponse(r)
    BY <2>4 DEF SharedResponse, AnnounceRequest, CoordinatorStep, HostAnswers, DeliverResolution
  <2> QED
    BY <2>1, <2>2, <2>3, <2>4
<1>2. ~PromptStep
  BY <1>1 DEF PromptStep, PromptLock, PromptRefuse, PromptAdmit, PromptStart, PromptWritten,
     PromptWriteFail, PromptUnwind
<1>3. \A g \in Turns : ~FinishStep(g)
  BY <1>1 DEF FinishStep, AwaitReturn, FinishEndTurn, FinishBarrier, FinishClear, FinishEmit,
     FinishTyped
<1>4. [Next]_vars
  BY DEF SharedCall, SharedRead, SharedEnd, SharedResponse, Next, CloseStep, ReadStep,
     ResponseStep, TerminationStep
<1>5. ~PromptWritten
  BY <1>2 DEF PromptStep
<1> QED
  BY <1>2, <1>3, <1>4, <1>5, OthersKeepTurns, OthersKeepPrompts

\* Every step of Prompt, of the awaiting goroutine and of a Prompt that fails keeps
\* the turn's place.
LEMMA CopilotTurnOrder ==
  ASSUME PermInv, CopilotTypeOK, CopilotTurns, [CopilotNext]_allVars
  PROVE  CopilotTurns'
<1> USE DEF turnCallVars, teardownVars, clientVars, permVars, FailingTurn
<1>0. /\ turns \in [Turns -> Turn] /\ generation \in 0..MaxTurns /\ ending \subseteq Turns
      /\ FinishTyped /\ PermTypeOK
      /\ MaxTurns \in Nat /\ Turns = 1..MaxTurns /\ currentTurn \in 0..MaxTurns
  BY PermissionConstants DEF CopilotTypeOK, PermTypeOK, Turns, FinishTyped
<1> USE DEF FinishTyped
<1>1. CASE UNCHANGED allVars
  BY <1>1 DEF allVars, vars, CopilotTurns
<1>2. CASE PromptAdmit
  <2>1. /\ currentTurn = 0 /\ currentTurn' = generation + 1 /\ generation' = generation + 1
        /\ generation + 1 \in Turns /\ finish' = [finish EXCEPT ![generation + 1] = "prompting"]
        /\ prompting = "gated" /\ prompting' = "admitted" /\ ending' = ending /\ wire' = wire
    BY <1>0, <1>2 DEF PromptAdmit, BeginTurn
  <2>2. \A g \in Turns : turns'[g].present <=> turns[g].present \/ g = generation + 1
    BY <1>0, <1>2, BeginTurnBegins DEF PromptAdmit
  <2>3. \A g \in Turns : g # generation + 1 =>
          (g > generation + 1 <=> g > generation) /\ finish'[g] = finish[g] /\ g # 0
    BY <1>0, <2>1
  <2>4. /\ finish[generation + 1] = "none" /\ finish'[generation + 1] = "prompting"
        /\ generation + 1 \notin ending /\ <<"session/prompt", generation + 1>> \notin wire
        /\ ~(generation + 1 > generation + 1)
    BY <1>0, <2>1 DEF CopilotTurns
  <2> QED
    BY <1>0, <2>1, <2>2, <2>3, <2>4 DEF CopilotTurns
<1>3. CASE PromptLock \/ PromptRefuse \/ PromptStart
  BY <1>0, <1>3 DEF PromptLock, PromptRefuse, PromptStart, TakeGate, LeaveGate, CopilotTurns
<1>4. CASE PromptWritten
  <2>1. /\ generation \in Turns /\ finish[generation] = "prompting" /\ prompting = "writing"
        /\ finish' = [finish EXCEPT ![generation] = "awaiting"] /\ prompting' = "idle"
        /\ UNCHANGED <<turns, generation, ending, currentTurn>>
    BY <1>4 DEF PromptWritten, LeaveGate, CopilotTurns
  <2>2. \A g : <<"session/prompt", g>> \in wire' <=>
                 <<"session/prompt", g>> \in wire \/ g = generation
    BY <1>4 DEF PromptWritten
  <2> QED
    BY <1>0, <2>1, <2>2 DEF CopilotTurns
<1>a. \A g \in Turns : finish[g] \in {"ending", "ended"} => g = generation
  <2>1. \A g \in Turns : finish[g] \in {"ending", "ended"} => g = currentTurn
    BY DEF CopilotTurns
  <2>2. \A g \in Turns : g # 0
    BY <1>0
  <2>3. currentTurn \in {0, generation}
    BY DEF CopilotTurns
  <2> QED
    BY <2>1, <2>2, <2>3
<1>5. ASSUME NEW g \in Turns, SharedFinish(g) PROVE CopilotTurns'
  <2>1. CASE AwaitReturn(g)
    BY <1>0, <2>1 DEF AwaitReturn, CopilotTurns
  <2>2. CASE FinishEndTurn(g)
    <3>1. finish[g] = "ending" /\ g = generation /\ HasTurn(generation)
      <4>1. finish[g] = "ending"
        BY <2>2 DEF FinishEndTurn
      <4> QED
        BY <1>a, <4>1 DEF CopilotTurns, HasTurn
    <3>2. /\ generation' = generation /\ ending' = ending \cup {generation}
          /\ \A h \in Turns : turns'[h].present = turns[h].present
          /\ finish' = [finish EXCEPT ![g] = "barrier"]
          /\ UNCHANGED <<currentTurn, prompting, wire>>
      BY <1>0, <2>2, <3>1, LifecycleKeepsTurns DEF FinishEndTurn
    <3> QED
      BY <1>0, <3>1, <3>2 DEF CopilotTurns
  <2>3. CASE FinishBarrier(g)
    <3>1. /\ finish[g] = "barrier" /\ generation' = generation /\ ending' = ending \ {g}
          /\ finish' = [finish EXCEPT ![g] = "ended"] /\ UNCHANGED <<currentTurn, prompting, wire>>
      BY <2>3 DEF FinishBarrier, EndTurnReturn
    <3>2. \A h \in Turns : turns'[h].present <=> turns[h].present /\ h # g
      BY <1>0, <2>3 DEF FinishBarrier, EndTurnReturn, Turn
    <3> QED
      BY <1>0, <3>1, <3>2 DEF CopilotTurns
  <2>4. CASE FinishEmit(g)
    BY <1>0, <2>4 DEF FinishEmit, CopilotTurns
  <2> QED
    BY <1>5, <2>1, <2>2, <2>3, <2>4 DEF SharedFinish
<1>6. CASE \/ SharedCall \/ SharedRead \/ SharedEnd
           \/ \E r \in Requests : SharedResponse(r)
           \/ \E r \in Requests, k \in FrameKinds : ReadPermissionRequest(r, k)
  BY <1>0, <1>6, SharedKeepsTurns DEF TurnsStay, CopilotTurns
<1>7. CASE OwnLaunch \/ OwnClose \/ OwnEnd
  <2>1. TurnsStay /\ UNCHANGED <<currentTurn, prompting, finish>> /\ wire' = wire
    BY <1>0, <1>7, OwnKeepsTurns, OwnKeepsRequests DEF OwnAction
  <2> QED
    BY <2>1 DEF TurnsStay, CopilotTurns
<1>8. ASSUME NEW partial \in BOOLEAN, SessionPromptFails(partial) PROVE CopilotTurns'
  BY <1>8 DEF SessionPromptFails, CopilotTurns
<1>9. CASE failTurn
  <2>1. /\ generation \in Turns /\ finish[generation] = "prompting" /\ prompting = "failing"
        /\ finish' = [finish EXCEPT ![generation] = "emitted"] /\ prompting' = "unwinding"
        /\ UNCHANGED <<turns, generation, ending, currentTurn, wire>>
    BY <1>9 DEF failTurn, CopilotTurns
  <2> QED
    BY <1>0, <2>1 DEF CopilotTurns
<1>10. CASE FailedEndTurn
  <2>1. CASE prompting = "unwinding" /\ EndTurn
    <3>1. generation \in Turns /\ HasTurn(generation)
      BY <2>1 DEF CopilotTurns, HasTurn
    <3>2. /\ generation' = generation /\ ending' = ending \cup {generation}
          /\ \A h \in Turns : turns'[h].present = turns[h].present
      BY <1>0, <2>1, <3>1, LifecycleKeepsTurns
    <3>3. prompting' = "barrier" /\ UNCHANGED <<currentTurn, finish, wire>>
      BY <1>10, <2>1, <3>1 DEF FailedEndTurn
    <3> QED
      BY <1>0, <2>1, <3>1, <3>2, <3>3 DEF CopilotTurns
  <2>2. CASE prompting = "barrier" /\ EndTurnReturn(generation)
    <3>1. /\ generation \in Turns /\ generation' = generation /\ ending' = ending \ {generation}
          /\ prompting' = "clearing" /\ UNCHANGED <<currentTurn, finish, wire>>
      BY <1>0, <1>10, <2>2 DEF FailedEndTurn, EndTurnReturn
    <3>2. \A h \in Turns : turns'[h].present <=> turns[h].present /\ h # generation
      BY <1>0, <2>2 DEF EndTurnReturn, Turn
    <3> QED
      BY <1>0, <2>2, <3>1, <3>2 DEF CopilotTurns
  <2> QED
    BY <1>10, <2>1, <2>2 DEF FailedEndTurn
<1>11. CASE FailedUnwind
  <2>1. /\ generation \in Turns /\ prompting = "clearing" /\ prompting' = "idle"
        /\ currentTurn' = 0 /\ UNCHANGED <<turns, generation, ending, finish, wire>>
    BY <1>11 DEF FailedUnwind, LeaveGate, CopilotTurns
  <2> QED
    BY <1>0, <2>1 DEF CopilotTurns
<1>12. ASSUME NEW g \in Turns, ClearTurn(g) PROVE CopilotTurns'
  <2>1. finish[g] = "ended" /\ g = generation
    BY <1>12, <1>a DEF ClearTurn
  <2>2. /\ finish' = [finish EXCEPT ![g] = "cleared"] /\ currentTurn' = 0
        /\ UNCHANGED <<turns, generation, ending, prompting, wire>>
    BY <1>12 DEF ClearTurn
  <2> QED
    BY <1>0, <2>1, <2>2 DEF CopilotTurns
<1> QED
  BY <1>1, <1>2, <1>3, <1>4, <1>5, <1>6, <1>7, <1>8, <1>9, <1>10, <1>11, <1>12, CopilotSteps
     DEF SharedStep, SharedPrompt, OwnTurn, CopilotFail

\* A turn whose Prompt failed stays ended and unwritten.
LEMMA UnwrittenStays ==
  ASSUME PermInv, CopilotTypeOK, CopilotTurns, [CopilotNext]_allVars,
         NEW g \in Turns, UnwrittenTurn(g)
  PROVE  UnwrittenTurn(g)'
<1> USE DEF UnwrittenTurn, turnCallVars, teardownVars, clientVars, permVars
<1>0. /\ FinishTyped /\ PermTypeOK /\ finish[g] = "emitted" /\ <<"session/prompt", g>> \notin wire
      /\ generation \in 0..MaxTurns /\ MaxTurns \in Nat /\ Turns = 1..MaxTurns
  BY PermissionConstants DEF CopilotTypeOK, PermTypeOK, Turns, FinishTyped
<1> USE DEF FinishTyped
<1>1. CASE UNCHANGED allVars
  BY <1>1 DEF allVars, vars
<1>2. CASE PromptAdmit
  <2>1. /\ generation + 1 \in Turns /\ finish' = [finish EXCEPT ![generation + 1] = "prompting"]
        /\ wire' = wire
    BY <1>0, <1>2 DEF PromptAdmit, BeginTurn
  <2>2. generation + 1 > generation
    BY <1>0
  <2>3. finish[generation + 1] = "none"
    BY <2>1, <2>2 DEF CopilotTurns
  <2> QED
    BY <1>0, <2>1, <2>3
<1>3. CASE PromptLock \/ PromptRefuse \/ PromptStart
  BY <1>0, <1>3 DEF PromptLock, PromptRefuse, PromptStart, TakeGate, LeaveGate
<1>4. CASE PromptWritten
  <2>1. /\ generation \in Turns /\ finish[generation] = "prompting"
        /\ finish' = [finish EXCEPT ![generation] = "awaiting"]
    BY <1>4 DEF PromptWritten, CopilotTurns
  <2>2. \A h : <<"session/prompt", h>> \in wire' <=>
                 <<"session/prompt", h>> \in wire \/ h = generation
    BY <1>4 DEF PromptWritten
  <2> QED
    BY <1>0, <2>1, <2>2
<1>5. ASSUME NEW h \in Turns, SharedFinish(h) PROVE UnwrittenTurn(g)'
  BY <1>0, <1>5 DEF SharedFinish, AwaitReturn, FinishEndTurn, FinishBarrier, FinishEmit
<1>6. CASE \/ SharedCall \/ SharedRead \/ SharedEnd
           \/ \E r \in Requests : SharedResponse(r)
           \/ \E r \in Requests, k \in FrameKinds : ReadPermissionRequest(r, k)
  BY <1>0, <1>6, SharedKeepsTurns
<1>7. CASE OwnLaunch \/ OwnClose \/ OwnEnd
  BY <1>0, <1>7, OwnKeepsTurns, OwnKeepsRequests DEF OwnAction
<1>8. CASE OwnTurn
  <2>1. wire' = wire
    BY <1>0, <1>8, OwnKeepsRequests DEF OwnAction
  <2>2. failTurn => finish' = [finish EXCEPT ![generation] = "emitted"]
    BY DEF failTurn
  <2>3. \A h \in Turns : ClearTurn(h) =>
          finish[h] = "ended" /\ finish' = [finish EXCEPT ![h] = "cleared"]
    BY DEF ClearTurn
  <2>4. failTurn \/ (\E h \in Turns : ClearTurn(h)) \/ finish' = finish
    BY <1>8 DEF OwnTurn, CopilotFail, SessionPromptFails, FailedEndTurn, FailedUnwind
  <2> QED
    BY <1>0, <2>1, <2>2, <2>3, <2>4
<1> QED
  BY <1>1, <1>2, <1>3, <1>4, <1>5, <1>6, <1>7, <1>8, CopilotSteps DEF SharedStep, SharedPrompt

\* A request is announced once, in its own turn, and resolved there unless that
\* turn's Prompt has failed meanwhile.
LEMMA CopilotRequestEventsKept ==
  ASSUME PermInv, CopilotTypeOK, CopilotTurns, AllDispatched, EventsNameTheirTurn,
         ChannelInOrder, CopilotRequestEvents, [CopilotNext]_allVars
  PROVE  CopilotRequestEvents'
<1>0. stage \in [Requests -> Stages] /\ adm \in [Requests -> Admission]
  BY DEF PermInv, PermTypeOK
<1>1. \A g \in Turns : UnwrittenTurn(g) => UnwrittenTurn(g)'
  BY UnwrittenStays
<1>2. ASSUME NEW r \in Requests, NEW k \in FrameKinds, ReadPermissionRequest(r, k)
      PROVE  CopilotRequestEvents'
  <2>1. /\ adm' = [adm EXCEPT ![r] = DispatchAdmission] /\ stage[r] = "unsent"
        /\ stage' = [stage EXCEPT ![r] = "admitted"] /\ events' = events
    BY <1>2 DEF ReadPermissionRequest, Admit, clientVars
  <2> QED
    BY <1>0, <1>1, <2>1 DEF CopilotRequestEvents
<1>3. ASSUME NEW r \in Requests, AnnounceRequest(r)
      PROVE  CopilotRequestEvents'
  <2>1. stage[r] = "admitted" /\ adm' = adm /\ stage' = [stage EXCEPT ![r] = "announced"]
    BY <1>3 DEF AnnounceRequest, OnAdmission
  <2>2. CASE events' = events
    BY <1>0, <1>1, <2>1, <2>2 DEF CopilotRequestEvents
  <2>3. CASE /\ adm[r].activeTurn
             /\ events' = events \cup {<<"permission_requested", currentTurn, r>>}
    <3>1. adm[r].generation = currentTurn
      BY <2>1, <2>3, CopilotInFlight DEF InFlight
    <3>2. \A q \in Requests, g \in Turns :
            /\ <<"permission_requested", g, q>> \in events' <=>
                 <<"permission_requested", g, q>> \in events \/ (g = currentTurn /\ q = r)
            /\ <<"permission_resolved", g, q>> \in events =>
                 <<"permission_resolved", g, q>> \in events'
      BY <2>3, EventsDiffer
    <3> QED
      BY <1>0, <1>1, <2>1, <2>3, <3>1, <3>2 DEF CopilotRequestEvents
  <2> QED
    BY <1>3, <2>2, <2>3 DEF AnnounceRequest, Emit
<1>4. ASSUME NEW r \in Requests, NEW ok \in BOOLEAN, DeliverResolution(r, ok)
      PROVE  CopilotRequestEvents'
  <2>1. /\ stage[r] \in {"declined", "committed"} /\ adm' = adm
        /\ stage' = [stage EXCEPT ![r] = IF @ = "declined" THEN "retired" ELSE "responded"]
    BY <1>4 DEF DeliverResolution, Deliver
  <2>2. CASE ~adm[r].activeTurn
    <3>1. events' = events
      BY <1>4, <2>2 DEF DeliverResolution
    <3> QED
      BY <1>0, <1>1, <2>1, <2>2, <3>1 DEF CopilotRequestEvents
  <2>3. CASE adm[r].activeTurn
    <3>1. /\ requestTurn[r] = adm[r].generation /\ adm[r].generation \in Turns
          /\ adm[r].generation = currentTurn
      BY <2>1, <2>3, CopilotInFlight DEF EventsNameTheirTurn, InFlight
    <3>2. ~eventsClosed \/ UnwrittenTurn(adm[r].generation)
      <4>1. eventsClosed => finish[currentTurn] \in {"none", "emitted"}
        BY <3>1 DEF ChannelInOrder
      <4>2. \/ finish[currentTurn] \in {"prompting", "awaiting", "ending", "barrier"}
            \/ FailingTurn(currentTurn)
        BY <2>1, <2>3, CopilotInFlight DEF InFlight
      <4>3. FailingTurn(currentTurn) => UnwrittenTurn(currentTurn)
        BY <3>1 DEF CopilotTurns, UnwrittenTurn
      <4> QED
        BY <3>1, <4>1, <4>2, <4>3
    <3>3. /\ events' \in {events, events \cup {<<"permission_resolved", adm[r].generation, r>>}}
          /\ \/ <<"permission_resolved", adm[r].generation, r>> \in events'
             \/ UnwrittenTurn(adm[r].generation)
      BY <1>4, <2>3, <3>1, <3>2 DEF DeliverResolution, Emit
    <3>4. \A q \in Requests, g \in Turns :
            /\ <<"permission_requested", g, q>> \in events' <=>
                 <<"permission_requested", g, q>> \in events
            /\ <<"permission_resolved", g, q>> \in events =>
                 <<"permission_resolved", g, q>> \in events'
      BY <3>3, EventsDiffer
    <3> QED
      BY <1>0, <1>1, <2>1, <3>1, <3>3, <3>4 DEF CopilotRequestEvents
  <2> QED
    BY <2>2, <2>3
<1>5. CASE SharedStep \/ UNCHANGED allVars
  <2>1. [Next]_vars
    BY <1>5, SharedIsNext DEF allVars
  <2>2. ASSUME NEW r \in Requests, ResponseStep(r), ~AnnounceRequest(r),
               \A ok \in BOOLEAN : ~DeliverResolution(r, ok)
        PROVE  CopilotRequestEvents'
    <3>1. events' = events
      BY <2>2 DEF ResponseStep, CoordinatorStep, AfterResponse, HostAnswers, clientVars
    <3> QED
      BY <1>0, <1>1, <2>2, <3>1, ResponseMoves DEF CopilotRequestEvents
  <2>3. CASE /\ \A r \in Requests : ~ResponseStep(r)
             /\ \A r \in Requests, k \in FrameKinds : ~ReadPermissionRequest(r, k)
    <3>1. /\ \A r \in Requests : ~AnnounceRequest(r)
          /\ \A r \in Requests, ok \in BOOLEAN : ~DeliverResolution(r, ok)
      BY <2>3 DEF ResponseStep
    <3> QED
      BY <1>1, <2>1, <2>3, <3>1, OthersKeepRequests, OthersKeepRequestEvents
         DEF CopilotRequestEvents
  <2> QED
    BY <1>2, <1>3, <1>4, <2>2, <2>3
<1>6. CASE OwnAction
  <2>1. /\ adm' = adm
        /\ \A r \in Requests :
             stage'[r] = stage[r] \/ (stage[r] = "completed" /\ stage'[r] = "done")
    BY <1>0, <1>6, OwnKeepsRequests DEF PermInv
  <2> QED
    BY <1>1, <1>6, <2>1, OwnEvents DEF CopilotRequestEvents
<1> QED
  BY <1>5, <1>6, CopilotSteps DEF OwnAction

\* What a shared step does to what Launch started and what Close saw and closed.
LEMMA SharedKeepsTeardown ==
  ASSUME PermInv, CopilotTypeOK, SharedStep
  PROVE  /\ UNCHANGED copilotVars
         /\ launch' = launch \/ (launch = "starting" /\ launch' \in {"ready", "failed"})
         /\ clientClosed' = clientClosed
         /\ \/ prompting' = prompting /\ generation' = generation
            \/ launch = "ready" /\ generation' = generation
            \/ launch = "ready" /\ ~clientClosed
            \/ prompting # "idle" /\ generation' = generation
            \/ prompting # "idle" /\ ~clientClosed
         /\ readLoop' = readLoop \/ readLoop # "none"
         /\ join' = join \/ join # "none"
         /\ stage' = stage \/ readLoop = "reading" \/ \E r \in Requests : stage[r] # "unsent"
         /\ \/ process' = process
            \/ process \in {"live", "exited"} /\ process' \in {"exited", "reported"}
         /\ closing' = closing \/ (closing \in {"sealed", "graceful", "asked"}
                                   /\ closing' \in {"locking", "asked", "failing"})
         /\ stdinClosed => stdinClosed'
<1> USE DEF turnCallVars, teardownVars, clientVars, permVars, CopilotTypeOK
<1>1. CASE SharedPrompt
  BY <1>1 DEF SharedStep, SharedPrompt, PromptLock, PromptRefuse, PromptAdmit, PromptStart,
     PromptWritten, TakeGate, LeaveGate, BeginTurn
<1>2. ASSUME NEW g \in Turns, SharedFinish(g)
      PROVE  UNCHANGED <<launch, clientClosed, prompting, generation, readLoop, join, stage,
                         process, closing, stdinClosed>>
  BY <1>2 DEF SharedFinish, AwaitReturn, FinishEmit, FinishEndTurn, FinishBarrier, EndTurn,
     EndTurnReturn
<1>3. CASE SharedCall
  BY <1>3 DEF SharedStep, SharedCall, LaunchReady, LaunchFail, SetSessionID, CancelStep, CancelLock,
     CancelNoTurn, CancelPermissions, CancelNotify, ClosePermissions, CloseRequest, CloseLeave,
     TakeGate, LeaveGate, CancelTurn, Close
<1>4. CASE SharedRead
  <2>1. ASSUME NEW g \in Turns, TakeResponse(g) \/ DeliverResponse(g)
        PROVE  /\ UNCHANGED <<launch, clientClosed, prompting, generation, join, stage, process,
                              closing, stdinClosed>>
               /\ readLoop # "none"
    BY <2>1 DEF TakeResponse, DeliverResponse, CloseTurnAdmission
  <2>2. ASSUME ReadEnd \/ \E malformed \in BOOLEAN : ReadReport(malformed)
        PROVE  /\ UNCHANGED <<launch, clientClosed, prompting, generation, join, stage, process,
                              closing, stdinClosed>>
               /\ readLoop # "none"
    BY <2>2 DEF ReadEnd, ReadReport, Close
  <2> QED
    BY <1>4, <2>1, <2>2 DEF SharedStep, SharedRead
<1>5. CASE SharedEnd
  BY <1>5 DEF SharedStep, SharedEnd, ProcessExit, ProcessReport, JoinFirst, Joined, TerminateExit,
     SealEvents, CloseEvents
<1>6. ASSUME NEW r \in Requests, SharedResponse(r)
      PROVE  /\ UNCHANGED <<launch, clientClosed, prompting, generation, readLoop, join, process,
                            closing, stdinClosed>>
             /\ stage[r] # "unsent"
  <2>1. ResponseStep(r)
    BY <1>6 DEF SharedResponse, ResponseStep
  <2> QED
    BY <1>6, <2>1, ResponseMoves DEF SharedResponse, AnnounceRequest, CoordinatorStep,
       DeliverResolution, HostAnswers
<1>7. ASSUME NEW r \in Requests, NEW k \in FrameKinds, ReadPermissionRequest(r, k)
      PROVE  /\ UNCHANGED <<launch, clientClosed, prompting, generation, readLoop, join, process,
                            closing, stdinClosed>>
             /\ readLoop = "reading"
  BY <1>7 DEF ReadPermissionRequest, Admit
<1> QED
  BY <1>1, <1>2, <1>3, <1>4, <1>5, <1>6, <1>7 DEF SharedStep

\* Close, however early, sees what Launch has started, and nothing is read, answered
\* or joined before that.
LEMMA LaunchOrder ==
  ASSUME PermInv, CopilotTypeOK, LaunchInOrder, [CopilotNext]_allVars
  PROVE  LaunchInOrder'
<1> USE DEF turnCallVars, teardownVars, clientVars, permVars, copilotVars, LaunchInOrder, Started
<1>1. CASE UNCHANGED allVars
  BY <1>1 DEF allVars, vars
<1>2. CASE SharedStep
  BY <1>2, SharedKeepsTeardown
<1>3. CASE OwnLaunch
  BY <1>3 DEF OwnLaunch, StartTransport, StartTransportFail, StartGoroutines
<1>4. CASE OwnTurn
  BY <1>4 DEF OwnTurn, CopilotFail, SessionPromptFails, failTurn, FailedEndTurn, FailedUnwind,
     ClearTurn, EndTurn, EndTurnReturn, LeaveGate
<1>5. CASE OwnClose
  <2>1. CASE SealClosed
    <3>1. /\ clientClosed' /\ closing' = "sealed"
          /\ closeSaw'.cmd = HasCmd /\ closeSaw'.started = Started
          /\ UNCHANGED <<launch, generation, prompting, readLoop, join, stage, process, transport>>
      BY <2>1 DEF SealClosed
    <3> QED
      BY <3>1 DEF HasCmd
  <2>2. CASE CloseLock \/ CloseDisconnect \/ CloseStopChild \/ CloseFinish
    BY <2>2 DEF CloseLock, CloseDisconnect, CloseStopChild, CloseFinish, TakeGate, Kill
  <2> QED
    BY <1>5, <2>1, <2>2 DEF OwnClose
<1>6. CASE OwnEnd
  BY <1>6 DEF OwnEnd, abortPermissionTransport, DialJoined, StopChild, ExitClosesPermissions,
     After, Close, Kill
<1> QED
  BY <1>1, <1>2, <1>3, <1>4, <1>5, <1>6, CopilotSteps

\* Whatever closes the transport first, a Close that found it open leaves it closed,
\* and no child running.
LEMMA CloseOrder ==
  ASSUME PermInv, CopilotTypeOK, LaunchInOrder, CloseInOrder, [CopilotNext]_allVars
  PROVE  CloseInOrder'
<1> USE DEF turnCallVars, teardownVars, clientVars, permVars, copilotVars, CloseInOrder
<1>0. closing # "idle" /\ closeSaw.started => launch # "unstarted"
  BY DEF LaunchInOrder, Started
<1>1. CASE UNCHANGED allVars
  BY <1>1 DEF allVars, vars
<1>2. CASE SharedStep
  BY <1>2, SharedKeepsTeardown
<1>3. CASE OwnLaunch
  BY <1>0, <1>3 DEF OwnLaunch, StartTransport, StartTransportFail, StartGoroutines
<1>a. {onceLost, stdinClosed, closeSaw.started, closeSaw.cmd} \subseteq BOOLEAN
  BY DEF CopilotTypeOK
<1>b. closeTransport /\ launch # "unstarted" =>
        (onceLost' <=> onceLost) /\ (stdinClosed' <=> ~onceLost)
  BY <1>a DEF closeTransport
<1>c. Kill => process' = process \/ process' # "live"
  BY DEF Kill
<1>4. CASE OwnTurn
  <2>1. ASSUME NEW partial \in BOOLEAN, SessionPromptFails(partial) PROVE CloseInOrder'
    <3>1. launch # "unstarted" /\ UNCHANGED <<closing, closeSaw, process>>
      BY <2>1 DEF SessionPromptFails, LaunchInOrder
    <3>2. closeTransport \/ UNCHANGED <<stdinClosed, onceLost>>
      BY <2>1 DEF SessionPromptFails
    <3> QED
      BY <1>b, <3>1, <3>2
  <2>2. CASE failTurn \/ FailedEndTurn \/ FailedUnwind \/ \E g \in Turns : ClearTurn(g)
    BY <2>2 DEF failTurn, FailedEndTurn, FailedUnwind, ClearTurn
  <2> QED
    BY <1>4, <2>1, <2>2 DEF OwnTurn, CopilotFail
<1>5. CASE OwnClose
  <2>1. CASE SealClosed
    BY <2>1 DEF SealClosed
  <2>2. CASE CloseLock \/ CloseDisconnect
    <3>1. /\ closing \in {"locking", "failing"} /\ closing' \in {"graceful", "failing", "waiting"}
          /\ UNCHANGED <<closeSaw, process>>
      BY <2>2 DEF CloseLock, CloseDisconnect
    <3>2. closeTransport \/ (closing' # "waiting" /\ UNCHANGED <<stdinClosed, onceLost>>)
      BY <2>2 DEF CloseLock, CloseDisconnect
    <3>3. CASE closeTransport /\ closeSaw.started
      BY <1>0, <1>b, <3>1, <3>3
    <3>4. CASE ~closeSaw.started
      BY <3>1, <3>4
    <3>5. CASE closing' # "waiting" /\ UNCHANGED <<stdinClosed, onceLost>>
      BY <3>1, <3>5
    <3> QED
      BY <3>2, <3>3, <3>4, <3>5
  <2>3. CASE CloseStopChild
    BY <2>3 DEF CloseStopChild, Kill
  <2>4. CASE CloseFinish
    <3>1. ~closeSaw.cmd /\ closing # "idle" /\ closeSaw.started => process = "none"
      BY <1>a DEF LaunchInOrder
    <3>2. /\ closing' = "returned" /\ UNCHANGED <<closeSaw, process, stdinClosed, onceLost>>
          /\ \/ closing = "killed"
             \/ closing = "waiting" /\ (closeSaw.cmd => closeSaw.started /\ process = "reported")
      BY <2>4 DEF CloseFinish
    <3> QED
      BY <1>a, <3>1, <3>2
  <2> QED
    BY <1>5, <2>1, <2>2, <2>3, <2>4 DEF OwnClose
<1>6. CASE OwnEnd
  <2>1. launch # "unstarted"
    BY <1>6 DEF OwnEnd, abortPermissionTransport, DialJoined, StopChild, ExitClosesPermissions,
       After, LaunchInOrder, Started
  <2>2. UNCHANGED <<closing, closeSaw>>
    BY <1>6 DEF OwnEnd, abortPermissionTransport, DialJoined, StopChild, ExitClosesPermissions
  <2>3. closeTransport \/ UNCHANGED <<stdinClosed, onceLost>>
    BY <1>6 DEF OwnEnd, abortPermissionTransport, DialJoined, StopChild, ExitClosesPermissions
  <2>4. Kill \/ process' = process
    BY <1>6 DEF OwnEnd, abortPermissionTransport, DialJoined, StopChild, ExitClosesPermissions
  <2> QED
    BY <1>b, <1>c, <2>1, <2>2, <2>3, <2>4
<1> QED
  BY <1>1, <1>2, <1>3, <1>4, <1>5, <1>6, CopilotSteps

--------------------------------------------------------------------------------
(***************************************************************************)
(* The theorems.                                                           *)
(***************************************************************************)

\* A client that has not started its transport satisfies its invariant.
LEMMA CopilotStarts == CopilotInit => PermInv /\ CopilotInv
<1> SUFFICES ASSUME CopilotInit PROVE PermInv /\ CopilotInv
  OBVIOUS
<1> USE DEF CopilotInit, QuietInit
<1>1. PermInv /\ PermTypeOK
  BY InitInv DEF PermInv
<1>2. MaxTurns \in Nat /\ None \notin {"prompt", "cancel", "close"}
  BY PermissionConstants, ClientConstants
<1>3. CopilotTypeOK
  <2>1. /\ call \in [Turns -> {"none", "pending", "taken", "answered", "failed", "dropped"}]
        /\ finish \in [Turns -> {"none", "prompting", "awaiting", "ending", "barrier", "ended",
                                 "cleared", "emitted"}]
        /\ requestTurn \in [Requests -> 0..MaxTurns] /\ currentTurn \in 0..MaxTurns
    BY <1>2
  <2>2. {clientClosed, stdinClosed, exitVisible, eventsClosing, eventsClosed, onceLost}
          \subseteq BOOLEAN
    OBVIOUS
  <2> QED
    BY <1>1, <2>1, <2>2 DEF CopilotTypeOK
<1>4. GateInOrder
  BY <1>2 DEF GateInOrder, PermInit
<1>5. CopilotTurns
  BY <1>2 DEF CopilotTurns, FailingTurn, PermInit, NoTurn, Turns
<1>6. AllDispatched /\ EventsNameTheirTurn
  BY DEF AllDispatched, EventsNameTheirTurn, PermInit, NoAdmission
<1>7. ChannelInOrder /\ TurnEvents /\ CopilotRequestEvents
  BY <1>2 DEF ChannelInOrder, TurnEvents, CopilotRequestEvents, Turns
<1>8. RevokedBeforeWire /\ CommitsInTime
  BY DEF RevokedBeforeWire, CommitsInTime
<1>9. LaunchInOrder /\ CloseInOrder
  BY DEF LaunchInOrder, CloseInOrder, Started, PermInit
<1> QED
  BY <1>1, <1>3, <1>4, <1>5, <1>6, <1>7, <1>8, <1>9 DEF CopilotInv

\* Every step of the client keeps it.
LEMMA CopilotKeeps ==
  ASSUME PermInv, CopilotInv, [CopilotNext]_allVars
  PROVE  PermInv' /\ CopilotInv'
<1> USE DEF CopilotInv
<1>1. [PermNext]_permVars
  BY CopilotStepMaps DEF PermInv
<1>2. PermInv' /\ PermTypeOK'
  BY <1>1, NextInv DEF PermInv
<1>3. PromptsTurn /\ CurrentRequests /\ FinishTyped /\ requestTurn \in [Requests -> 0..MaxTurns]
  BY CopilotTurnsAsNeeded DEF CopilotTypeOK
<1>4. CopilotTypeOK' /\ GateInOrder' /\ CopilotTurns'
  BY <1>2, CopilotTyped, CopilotGateOrder, CopilotTurnOrder
<1>5. AllDispatched' /\ EventsNameTheirTurn' /\ CommitsInTime'
  BY <1>3, CopilotRequestsKept
<1>6. ChannelInOrder' /\ TurnEvents' /\ CopilotRequestEvents'
  BY <1>3, CopilotChannelOrder, CopilotTurnEvents, CopilotRequestEventsKept
<1>7. RevokedBeforeWire' /\ LaunchInOrder' /\ CloseInOrder'
  BY CopilotRevokedFirst, LaunchOrder, CloseOrder
<1> QED
  BY <1>2, <1>4, <1>5, <1>6, <1>7

\* The Copilot client's invariant holds in every reachable state, over any of its
\* transports, for any number of requests and turns, and wherever Close overtakes
\* Launch.
THEOREM CopilotSafety == CopilotSpec => [](PermInv /\ CopilotInv)
<1>1. CopilotInit => PermInv /\ CopilotInv
  BY CopilotStarts
<1>2. PermInv /\ CopilotInv /\ [CopilotNext]_allVars => PermInv' /\ CopilotInv'
  BY CopilotKeeps
<1> QED
  BY <1>1, <1>2, PTL DEF CopilotSpec

\* The Copilot client, too, calls its coordinator within its rules: also where a
\* failing Prompt ends its own turn.
THEOREM CopilotUsesCoordinator == CopilotSpec => PermSpec
<1>1. CopilotInit => PermInit
  BY DEF CopilotInit, QuietInit
<1>2. PermInv /\ CopilotInv /\ [CopilotNext]_allVars => [PermNext]_permVars
  BY CopilotStepMaps DEF PermInv
<1> QED
  BY <1>1, <1>2, CopilotSafety, PTL DEF CopilotSpec, PermSpec

\* So in it EndTurn is a barrier, the limits hold, every revocation reaches its
\* responders, and nothing is selected but by a responder.
THEOREM CopilotKeepsCoordinator ==
  CopilotSpec =>
    [](EndTurnBarrier /\ CapacityHeld /\ RevocationReachesPending /\ SelectedByResponder)
BY CopilotUsesCoordinator, EndTurnBarrierHolds, CapacityIsHeld, RevocationReaches,
   SelectionIsFailSafe, PTL

\* When the channel closes, every started turn has its last event, and every
\* permission request of a written turn its resolution.
THEOREM TurnsAreMatched == CopilotSpec => []TurnsMatched
<1>1. PermInv /\ CopilotInv => TurnsMatched
  <2> SUFFICES ASSUME PermInv, CopilotInv, eventsClosed PROVE TurnsMatched
    BY DEF TurnsMatched
  <2> USE DEF CopilotInv
  <2>1. \A g \in Turns : finish[g] \in {"none", "emitted"}
    BY DEF ChannelInOrder
  <2>2. ASSUME NEW g \in Turns, <<"turn.started", g>> \in events
        PROVE  <<"turn.ended", g>> \in events
    BY <2>1, <2>2 DEF TurnEvents
  <2>3. ASSUME NEW r \in Requests, NEW g \in WrittenTurns,
               <<"permission_requested", g, r>> \in events
        PROVE  <<"permission_resolved", g, r>> \in events
    <3>1. g \in Turns /\ <<"session/prompt", g>> \in wire /\ ~UnwrittenTurn(g) /\ ~FailingTurn(g)
      BY DEF WrittenTurns, UnwrittenTurn, CopilotTurns
    <3>2. adm[r].activeTurn /\ adm[r].generation = g /\ stage[r] \in Stages \ {"unsent"}
      BY <2>3, <3>1 DEF CopilotRequestEvents, CopilotTypeOK, PermTypeOK
    <3>3. stage[r] \notin InFlight
      BY <2>1, <3>1, <3>2, CopilotInFlight
    <3>4. stage[r] \in {"completed", "done"}
      BY <3>2, <3>3 DEF Stages, InFlight
    <3> QED
      BY <2>3, <3>1, <3>4 DEF CopilotRequestEvents
  <2> QED
    BY <2>2, <2>3 DEF TurnsMatched
<1> QED
  BY <1>1, CopilotSafety, PTL

\* A Close that found the client started leaves no child running and no connection
\* open.
THEOREM CloseReleasesAll == CopilotSpec => []CloseReleases
<1>1. PermInv /\ CopilotInv => CloseReleases
  BY DEF CopilotInv, CloseInOrder, CloseReleases
<1> QED
  BY <1>1, CopilotSafety, PTL

\* A step that sends a permission event of a written turn finds the turn not ended.
LEMMA EventsFit ==
  ASSUME PermInv, CopilotInv, [CopilotNext]_allVars
  PROVE  \A r \in Requests, g \in WrittenTurns :
           {<<"permission_requested", g, r>>, <<"permission_resolved", g, r>>}
             \cap (events' \ events) # {} => <<"turn.ended", g>> \notin events
<1> DEFINE Fits == \A r \in Requests, g \in WrittenTurns :
             {<<"permission_requested", g, r>>, <<"permission_resolved", g, r>>}
               \cap (events' \ events) # {} => <<"turn.ended", g>> \notin events
<1> USE DEF CopilotInv
<1>1. ASSUME NEW r \in Requests, adm[r].activeTurn, stage[r] \in InFlight
      PROVE  /\ adm[r].generation = currentTurn
             /\ currentTurn \in WrittenTurns => <<"turn.ended", currentTurn>> \notin events
  <2>1. /\ adm[r].generation \in Turns /\ adm[r].generation = currentTurn
        /\ \/ finish[currentTurn] \in {"prompting", "awaiting", "ending", "barrier"}
           \/ FailingTurn(currentTurn)
    BY <1>1, CopilotInFlight
  <2>2. currentTurn \in WrittenTurns => ~FailingTurn(currentTurn)
    BY DEF WrittenTurns, CopilotTurns
  <2> QED
    BY <2>1, <2>2 DEF TurnEvents
<1>2. ASSUME NEW q \in Requests, AnnounceRequest(q) PROVE Fits
  <2>1. stage[q] \in InFlight
    BY <1>2 DEF AnnounceRequest, OnAdmission, InFlight
  <2>2. CASE adm[q].activeTurn
    <3>1. /\ currentTurn \in WrittenTurns => <<"turn.ended", currentTurn>> \notin events
          /\ events' \in {events, events \cup {<<"permission_requested", currentTurn, q>>}}
      BY <1>1, <1>2, <2>1, <2>2 DEF AnnounceRequest, Emit
    <3> QED
      BY <3>1, EventsDiffer
  <2>3. CASE ~adm[q].activeTurn
    BY <1>2, <2>3 DEF AnnounceRequest
  <2> QED
    BY <2>2, <2>3
<1>3. ASSUME NEW q \in Requests, NEW ok \in BOOLEAN, DeliverResolution(q, ok) PROVE Fits
  <2>1. stage[q] \in {"declined", "committed"} /\ stage[q] \in InFlight
    BY <1>3 DEF DeliverResolution, Deliver, InFlight
  <2>2. CASE adm[q].activeTurn
    <3>1. requestTurn[q] = adm[q].generation
      BY <2>1, <2>2 DEF EventsNameTheirTurn
    <3>2. /\ currentTurn \in WrittenTurns => <<"turn.ended", currentTurn>> \notin events
          /\ events' \in {events, events \cup {<<"permission_resolved", currentTurn, q>>}}
      BY <1>1, <1>3, <2>1, <2>2, <3>1 DEF DeliverResolution, Emit
    <3> QED
      BY <3>2, EventsDiffer
  <2>3. CASE ~adm[q].activeTurn
    BY <1>3, <2>3 DEF DeliverResolution
  <2> QED
    BY <2>2, <2>3
<1>4. ASSUME [Next]_vars, \A r \in Requests : ~AnnounceRequest(r),
             \A r \in Requests, ok \in BOOLEAN : ~DeliverResolution(r, ok)
      PROVE  Fits
  BY <1>4, OthersKeepRequestEvents
<1>5. ASSUME OwnAction PROVE Fits
  BY <1>5, OwnEvents
<1>6. SharedStep \/ UNCHANGED allVars => [Next]_vars
  BY SharedIsNext DEF allVars
<1> QED
  BY <1>2, <1>3, <1>4, <1>5, <1>6, CopilotSteps DEF OwnAction

\* No permission event follows the last event of a written turn, and no selection
\* the session/cancel of its turn or session/close.
THEOREM NothingFollowsItsEnd == CopilotSpec => NothingAfterItsEnd
<1>1. PermInv /\ CopilotInv /\ [CopilotNext]_allVars =>
        [\A r \in Requests, g \in WrittenTurns :
           {<<"permission_requested", g, r>>, <<"permission_resolved", g, r>>}
             \cap (events' \ events) # {} => <<"turn.ended", g>> \notin events]_allVars
  BY EventsFit
<1>2. PermInv /\ CopilotInv /\ [CopilotNext]_allVars =>
        [\A r \in Requests : <<"selected", r>> \in wire' \ wire =>
           <<"session/cancel", adm[r].generation>> \notin wire
             /\ <<"session/close", 0>> \notin wire]_vars
  <2> SUFFICES ASSUME PermInv, CopilotInv, [CopilotNext]_allVars
               PROVE  \A r \in Requests : <<"selected", r>> \in wire' \ wire =>
                        /\ <<"session/cancel", adm[r].generation>> \notin wire
                        /\ <<"session/close", 0>> \notin wire
    OBVIOUS
  <2>1. CASE SharedStep \/ UNCHANGED allVars
    <3>1. [Next]_vars
      BY <2>1, SharedIsNext DEF allVars
    <3> QED
      BY <3>1, SelectionsFit DEF CopilotInv
  <2>2. CASE OwnAction
    <3>1. wire' = wire
      BY <2>2, OwnKeepsRequests DEF PermInv
    <3> QED
      BY <3>1
  <2> QED
    BY <2>1, <2>2, CopilotSteps DEF OwnAction
<1> QED
  BY <1>1, <1>2, CopilotSafety, PTL
     DEF CopilotSpec, NothingAfterItsEnd, NoEventAfterResult, NoSelectionAfterCancel

================================================================================
