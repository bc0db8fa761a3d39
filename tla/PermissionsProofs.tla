--------------------------- MODULE PermissionsProofs ---------------------------
(***************************************************************************)
(* Proofs about the permission coordinator, for every number of requests,  *)
(* turns and concurrent dispatches.                                        *)
(***************************************************************************)
EXTENDS Permissions, FiniteSetTheorems, TLAPS

--------------------------------------------------------------------------------
(***************************************************************************)
(* Lemmas about the operators.                                             *)
(***************************************************************************)

\* closePermissionTurnDoneLocked keeps a turn a turn and touches only the done
\* channel, which it closes when the turn is drained and not yet closed.
LEMMA CloseDoneFacts ==
  ASSUME NEW t \in Turn
  PROVE  /\ CloseDone(t) \in Turn
         /\ CloseDone(t).present = t.present
         /\ CloseDone(t).active = t.active
         /\ CloseDone(t).canceled = t.canceled
         /\ CloseDone(t).ending = t.ending
         /\ CloseDone(t).dispatches = t.dispatches
         /\ t.doneClosed => CloseDone(t) = t
         /\ ~(t.ending /\ t.dispatches = 0) => CloseDone(t) = t
         /\ t.ending /\ t.dispatches = 0 /\ ~t.doneClosed =>
              CloseDone(t).doneClosed /\ CloseDone(t).closes = t.closes + 1
<1>1. CASE ~t.ending \/ t.dispatches # 0 \/ t.doneClosed
  BY <1>1, Zenon DEF CloseDone
<1>2. CASE t.ending /\ t.dispatches = 0 /\ ~t.doneClosed
  <2>1. CloseDone(t) = [t EXCEPT !.doneClosed = TRUE, !.closes = t.closes + 1]
    BY <1>2, Zenon DEF CloseDone
  <2>2. t.closes + 1 \in Nat
    BY DEF Turn
  <2>3. CloseDone(t) \in Turn
    BY <2>1, <2>2, Zenon DEF Turn
  <2>4. /\ CloseDone(t).present = t.present
        /\ CloseDone(t).active = t.active
        /\ CloseDone(t).canceled = t.canceled
        /\ CloseDone(t).ending = t.ending
        /\ CloseDone(t).dispatches = t.dispatches
        /\ CloseDone(t).closes = t.closes + 1
        /\ CloseDone(t).doneClosed
    BY <2>1 DEF Turn
  <2> QED
    BY <1>2, <2>3, <2>4, Zenon
<1> QED
  BY <1>1, <1>2

\* Closing the admission of a turn, for whichever reason, leaves a well-formed
\* ending turn with the same dispatches.
LEMMA ShutTurnFacts ==
  ASSUME NEW t \in Turn, TurnWellFormed(t),
         NEW s \in {ShutTurn(t), RevokeTurn(t)}
  PROVE  /\ s \in Turn /\ TurnWellFormed(s)
         /\ ~s.active /\ s.ending
         /\ s.present = t.present
         /\ s.dispatches = t.dispatches
<1> DEFINE u == [t EXCEPT !.active = FALSE, !.ending = TRUE]
           v == [t EXCEPT !.active = FALSE, !.canceled = TRUE, !.ending = TRUE]
<1>1. u \in Turn /\ v \in Turn
  BY Zenon DEF Turn
<1>2. PICK w \in {u, v} : s = CloseDone(w)
  BY Zenon DEF ShutTurn, RevokeTurn
<1>3. /\ w \in Turn /\ ~w.active /\ w.ending
      /\ w.present = t.present /\ w.dispatches = t.dispatches
      /\ w.doneClosed = t.doneClosed /\ w.closes = t.closes
  BY <1>1 DEF Turn
<1> HIDE DEF u, v
<1>4. CASE t.doneClosed
  BY <1>2, <1>3, <1>4, CloseDoneFacts DEF TurnWellFormed
<1>5. CASE ~t.doneClosed /\ t.dispatches = 0
  BY <1>2, <1>3, <1>5, CloseDoneFacts DEF TurnWellFormed
<1>6. CASE ~t.doneClosed /\ t.dispatches # 0
  BY <1>2, <1>3, <1>6, CloseDoneFacts DEF TurnWellFormed
<1> QED
  BY <1>4, <1>5, <1>6

\* Completing a counted dispatch of a turn that has some left.
LEMMA FinishDispatchFacts ==
  ASSUME NEW t \in Turn, TurnWellFormed(t), t.dispatches > 0
  PROVE  LET s == FinishDispatch(t)
         IN  /\ s \in Turn /\ TurnWellFormed(s)
             /\ s.active = t.active /\ s.ending = t.ending /\ s.canceled = t.canceled
             /\ s.present = t.present
             /\ s.dispatches = t.dispatches - 1
<1> DEFINE w == [t EXCEPT !.dispatches = t.dispatches - 1]
<1>1. t.dispatches - 1 \in Nat
  BY DEF Turn
<1>2. w \in Turn
  BY <1>1, Zenon DEF Turn
<1>3. /\ w.active = t.active /\ w.ending = t.ending /\ w.canceled = t.canceled
      /\ w.present = t.present /\ w.dispatches = t.dispatches - 1
      /\ w.doneClosed = t.doneClosed /\ w.closes = t.closes
  BY DEF Turn
<1>4. FinishDispatch(t) = CloseDone(w)
  BY DEF FinishDispatch
<1>5. ~t.doneClosed /\ t.closes = 0
  BY DEF TurnWellFormed, Turn
<1> HIDE DEF w
<1>6. CASE t.ending /\ w.dispatches = 0
  <2>0. w.ending /\ ~w.doneClosed
    BY <1>3, <1>5, <1>6, Zenon
  <2>1. CloseDone(w).doneClosed /\ CloseDone(w).closes = w.closes + 1
    BY <1>2, <1>6, <2>0, CloseDoneFacts, Zenon
  <2>2. ~CloseDone(w).active /\ CloseDone(w).ending /\ CloseDone(w).dispatches = 0
    BY <1>2, <1>3, <1>6, CloseDoneFacts DEF TurnWellFormed
  <2>3. TurnWellFormed(CloseDone(w))
    BY <1>3, <1>5, <2>1, <2>2 DEF TurnWellFormed
  <2> QED
    BY <1>2, <1>3, <1>4, <2>3, CloseDoneFacts
<1>7. CASE ~(t.ending /\ w.dispatches = 0)
  BY <1>2, <1>3, <1>4, <1>5, <1>7, CloseDoneFacts DEF TurnWellFormed
<1> QED
  BY <1>6, <1>7

\* Sets of requests are finite, and adding or removing a request changes their
\* cardinality by one.
LEMMA RequestSets ==
  ASSUME NEW S \in SUBSET Requests
  PROVE  /\ IsFiniteSet(S) /\ Cardinality(S) \in Nat
         /\ Cardinality(S) = 0 <=> S = {}
         /\ \A r \in Requests \ S : Cardinality(S \cup {r}) = Cardinality(S) + 1
         /\ \A r \in S : /\ Cardinality(S \ {r}) = Cardinality(S) - 1
                        /\ Cardinality(S) > 0
<1>1. IsFiniteSet(S)
  BY PermissionConstants, FS_Subset
<1>2. Cardinality(S) \in Nat
  BY <1>1, FS_CardinalityType
<1>3. Cardinality(S) = 0 <=> S = {}
  BY <1>1, FS_EmptySet
<1>4. ASSUME NEW r \in Requests \ S
      PROVE  Cardinality(S \cup {r}) = Cardinality(S) + 1
  BY <1>1, FS_AddElement
<1>5. ASSUME NEW r \in S
      PROVE  Cardinality(S \ {r}) = Cardinality(S) - 1 /\ Cardinality(S) > 0
  <2>1. Cardinality(S \ {r}) = Cardinality(S) - 1
    BY <1>1, <1>5, FS_RemoveElement
  <2>2. Cardinality(S) # 0
    BY <1>3, <1>5
  <2> QED
    BY <1>2, <2>1, <2>2
<1> QED
  BY <1>1, <1>2, <1>3, <1>4, <1>5

\* An admission is made by admitPermission.
LEMMA AdmissionTypes ==
  ASSUME PermTypeOK
  PROVE  /\ TurnOpen \in BOOLEAN
         /\ DispatchAdmission \in Admission
         /\ RespondAdmission \in Admission
<1>1. TurnOpen \in BOOLEAN
  BY DEF PermTypeOK, TurnOpen, HasTurn, Turn
<1>2. (asyncDispatches < MaxConcurrent) \in BOOLEAN /\ (asyncDispatches >= MaxConcurrent) \in BOOLEAN
  OBVIOUS
<1>3. generation \in 0..MaxTurns
  BY DEF PermTypeOK
<1> HIDE DEF TurnOpen
<1>4. DispatchAdmission \in Admission
  BY <1>1, <1>2, <1>3, Zenon DEF DispatchAdmission, Admission
<1>5. RespondAdmission \in Admission
  BY <1>1, <1>3, Zenon DEF RespondAdmission, NoAdmission, Admission
<1> QED
  BY <1>1, <1>4, <1>5

\* Every resolution respondAdmitted can produce is one.
LEMMA ResolutionTypes ==
  ASSUME NEW r \in Requests
  PROVE  /\ EarlyResolution(r) \in Resolutions \cup {"ask"}
         /\ FinalResolution(r) \in Resolutions
BY DEF EarlyResolution, FinalResolution, Resolutions

--------------------------------------------------------------------------------
(***************************************************************************)
(* Frames: what a step keeps when it leaves the variables a part reads.    *)
(***************************************************************************)

\* The counters stay exact when no request enters or leaves what they count.
LEMMA CountersFrame ==
  ASSUME CountersExact,
         UNCHANGED <<turns, adm, asyncDispatches, callbacks>>,
         \A r \in Requests : stage'[r] \in InFlight <=> stage[r] \in InFlight,
         \A r \in Requests : responder'[r] \in {"running", "returned"}
                           <=> responder[r] \in {"running", "returned"}
  PROVE  CountersExact'
<1>1. Dispatching' = Dispatching /\ CallingBack' = CallingBack
  BY DEF Dispatching, CallingBack
<1>2. \A g \in Turns : Counted(g)' = Counted(g)
  BY DEF Counted
<1> QED
  BY <1>1, <1>2 DEF CountersExact

\* The turns stay as they are when nothing of theirs changes.
LEMMA TurnFrame ==
  ASSUME TurnShape, UNCHANGED <<turns, generation, ending>>
  PROVE  TurnShape'
BY DEF TurnShape

\* An admission is not taken back: requests only move on from "unsent".
LEMMA AdmissionFrame ==
  ASSUME AdmissionShape, UNCHANGED <<adm, generation>>,
         \A r \in Requests : stage'[r] = "unsent" => stage[r] = "unsent"
  PROVE  AdmissionShape'
BY DEF AdmissionShape

\* Fewer open entries, or more cancelled ones, keep revocation complete.
LEMMA RevocationFrame ==
  ASSUME RevocationReachesPending, UNCHANGED <<closed, turns, adm>>,
         pending' \ committed' \subseteq pending \ committed,
         canceled \subseteq canceled'
  PROVE  RevocationReachesPending'
BY DEF RevocationReachesPending, TurnLive, HasTurn

\* A selection stays backed while request, answer and resolution stay.
LEMMA SelectedFrame ==
  ASSUME SelectedByResponder, UNCHANGED <<kind, adm, answer, responder, resolution>>
  PROVE  SelectedByResponder'
BY DEF SelectedByResponder

--------------------------------------------------------------------------------
(***************************************************************************)
(* The steps of a request keep the invariant.                              *)
(***************************************************************************)

\* A new coordinator, without turns, requests or responders, satisfies it all.
LEMMA InitInv == PermInit => PermInv
<1> SUFFICES ASSUME PermInit PROVE PermInv
  OBVIOUS
<1>1. NoTurn \in Turn /\ TurnWellFormed(NoTurn)
  BY DEF NoTurn, Turn, TurnWellFormed
<1>2. NoAdmission \in Admission
  BY PermissionConstants DEF NoAdmission, Admission
<1>3. PermTypeOK
  <2>1. turns \in [Turns -> Turn] /\ adm \in [Requests -> Admission]
    BY <1>1, <1>2 DEF PermInit
  <2>2. generation \in 0..MaxTurns /\ asyncDispatches \in Nat /\ callbacks \in Nat
    BY PermissionConstants DEF PermInit
  <2>3. stage \in [Requests -> Stages] /\ kind \in [Requests -> Kinds]
    BY DEF PermInit, Stages, Kinds
  <2> QED
    BY <2>1, <2>2, <2>3 DEF PermInit, PermTypeOK
<1>4. CountersExact
  <2>1. Dispatching = {} /\ CallingBack = {} /\ \A g \in Turns : Counted(g) = {}
    BY DEF PermInit, Dispatching, CallingBack, Counted, InFlight
  <2> QED
    BY <2>1, RequestSets, PermissionConstants DEF PermInit, CountersExact, NoTurn
<1>5. TurnShape
  BY <1>1 DEF PermInit, TurnShape, Turns
<1>6. AdmissionShape /\ EntryShape /\ RevocationReachesPending /\ SelectedByResponder
  BY PermissionConstants
     DEF PermInit, AdmissionShape, EntryShape, RevocationReachesPending,
         SelectedByResponder, NoAdmission
<1> QED
  BY <1>3, <1>4, <1>5, <1>6 DEF PermInv

\* A dispatched frame is counted by its turn before anything else can see it.
LEMMA AdmitInv ==
  ASSUME PermInv, NEW r \in Requests, NEW k \in Kinds, Admit(r, k)
  PROVE  PermInv'
<1> USE DEF PermInv
<1>1. DispatchAdmission \in Admission /\ TurnOpen \in BOOLEAN
  BY AdmissionTypes
<1>2. TurnOpen => generation \in Turns /\ turns[generation] \in Turn /\ turns[generation].active
  BY DEF TurnOpen, HasTurn, PermTypeOK
<1>3. /\ DispatchAdmission.counted = TurnOpen /\ DispatchAdmission.activeTurn = TurnOpen
      /\ DispatchAdmission.generation = generation
      /\ DispatchAdmission.async = (TurnOpen /\ asyncDispatches < MaxConcurrent)
  BY DEF DispatchAdmission
<1>4. ASSUME NEW g \in Turns
      PROVE  /\ turns'[g] \in Turn
             /\ turns'[g].dispatches = IF TurnOpen /\ g = generation
                                       THEN turns[g].dispatches + 1 ELSE turns[g].dispatches
             /\ turns'[g].present = turns[g].present /\ turns'[g].active = turns[g].active
             /\ turns'[g].canceled = turns[g].canceled /\ turns'[g].ending = turns[g].ending
             /\ turns'[g].doneClosed = turns[g].doneClosed /\ turns'[g].closes = turns[g].closes
             /\ ~TurnOpen => turns'[g] = turns[g]
             /\ g # generation => turns'[g] = turns[g]
  BY <1>2 DEF Admit, PermTypeOK, Turn
<1>5. turns' \in [Turns -> Turn]
  BY <1>4 DEF Admit, PermTypeOK
<1> HIDE DEF TurnOpen
<1>6. PermTypeOK'
  BY <1>1, <1>5 DEF Admit, PermTypeOK, Stages
<1>7. CountersExact'
  <2>1. r \notin Dispatching /\ CallingBack' = CallingBack /\ \A g \in Turns : r \notin Counted(g)
    BY DEF Admit, Dispatching, CallingBack, Counted, InFlight
  <2>2. Dispatching' = IF DispatchAdmission.async THEN Dispatching \cup {r} ELSE Dispatching
    BY DEF Admit, Dispatching, InFlight, PermTypeOK
  <2>3. asyncDispatches' = Cardinality(Dispatching') /\ asyncDispatches' <= MaxConcurrent
    <3>1. Dispatching \in SUBSET Requests
      BY DEF Dispatching
    <3>2. Cardinality(Dispatching \cup {r}) = Cardinality(Dispatching) + 1
      BY <2>1, <3>1, RequestSets
    <3>3. CASE DispatchAdmission.async
      <4>1. asyncDispatches' = asyncDispatches + 1 /\ Dispatching' = Dispatching \cup {r}
        BY <2>2, <3>3 DEF Admit
      <4>2. asyncDispatches < MaxConcurrent
        BY <1>3, <3>3
      <4> QED
        BY <3>2, <4>1, <4>2, PermissionConstants DEF CountersExact, PermTypeOK
    <3>4. CASE ~DispatchAdmission.async
      BY <2>2, <3>4 DEF Admit, CountersExact
    <3> QED
      BY <3>3, <3>4
  <2>4. ASSUME NEW g \in Turns
        PROVE  turns'[g].dispatches = Cardinality(Counted(g)')
    <3>1. Counted(g)' = IF TurnOpen /\ g = generation THEN Counted(g) \cup {r} ELSE Counted(g)
      BY <1>3, <2>1 DEF Admit, Counted, InFlight, PermTypeOK
    <3>2. Counted(g) \in SUBSET Requests
      BY DEF Counted
    <3>3. Cardinality(Counted(g) \cup {r}) = Cardinality(Counted(g)) + 1
      BY <2>1, <3>2, RequestSets
    <3>4. CASE TurnOpen /\ g = generation
      BY <1>4, <3>1, <3>3, <3>4 DEF CountersExact
    <3>5. CASE ~(TurnOpen /\ g = generation)
      BY <1>4, <3>1, <3>5 DEF CountersExact
    <3> QED
      BY <3>4, <3>5
  <2> QED
    BY <2>1, <2>3, <2>4 DEF Admit, CountersExact
<1>8. TurnShape'
  <2>1. ASSUME NEW g \in Turns
        PROVE  /\ TurnWellFormed(turns'[g])
               /\ g > generation => turns'[g] = NoTurn
               /\ g < generation => turns'[g].ending
               /\ g = generation => turns'[g].active \/ turns'[g].ending
               /\ g <= generation /\ ~turns'[g].present => turns'[g].doneClosed
    <3>1. CASE ~TurnOpen \/ g # generation
      BY <1>4, <3>1 DEF TurnShape
    <3>2. CASE TurnOpen /\ g = generation
      <4>1. ~turns[g].ending /\ turns[g].active /\ turns[g].present /\ ~turns[g].doneClosed
        BY <1>2, <3>2 DEF TurnShape, TurnWellFormed
      <4>2. TurnWellFormed(turns'[g])
        BY <1>4, <4>1 DEF TurnShape, TurnWellFormed
      <4> QED
        BY <1>4, <3>2, <4>1, <4>2 DEF PermTypeOK
    <3> QED
      BY <3>1, <3>2
  <2> QED
    BY <2>1 DEF Admit, TurnShape
<1>9. AdmissionShape'
  <2>1. /\ adm'[r] = DispatchAdmission /\ stage'[r] # "unsent"
        /\ \A q \in Requests \ {r} : adm'[q] = adm[q] /\ stage'[q] = stage[q]
        /\ generation' = generation
    BY DEF Admit, PermTypeOK
  <2>2. generation <= generation /\ (TurnOpen => generation >= 1)
    BY <1>2 DEF Turns, PermTypeOK
  <2> QED
    BY <1>3, <2>1, <2>2 DEF AdmissionShape
<1>10. EntryShape'
  BY DEF Admit, EntryShape, PermTypeOK
<1>11. RevocationReachesPending'
  <2>1. r \notin pending
    BY DEF Admit, EntryShape
  <2>2. \A q \in pending \ committed : TurnLive(q) => TurnLive(q)'
    BY <1>4, <2>1 DEF Admit, TurnLive, HasTurn, PermTypeOK
  <2> QED
    BY <2>2 DEF Admit, RevocationReachesPending
<1>12. SelectedByResponder'
  BY DEF Admit, SelectedByResponder, EntryShape, PermTypeOK
<1> QED
  BY <1>6, <1>7, <1>8, <1>9, <1>10, <1>11, <1>12

\* SetSessionID changes nothing the invariant reads.
LEMMA SetSessionIDInv ==
  ASSUME PermInv, SetSessionID
  PROVE  PermInv'
<1> USE DEF PermInv
<1>1. PermTypeOK'
  BY DEF SetSessionID, PermTypeOK, Stages
<1>2. CountersExact'
  BY CountersFrame DEF SetSessionID, PermTypeOK, InFlight
<1>3. TurnShape'
  BY TurnFrame DEF SetSessionID
<1>4. AdmissionShape'
  BY AdmissionFrame DEF SetSessionID, PermTypeOK
<1>5. EntryShape'
  BY DEF SetSessionID, EntryShape, PermTypeOK
<1>6. RevocationReachesPending'
  BY RevocationFrame DEF SetSessionID
<1>7. SelectedByResponder'
  BY SelectedFrame DEF SetSessionID
<1> QED
  BY <1>1, <1>2, <1>3, <1>4, <1>5, <1>6, <1>7

\* Announcing an admitted request only moves it on.
LEMMA OnAdmissionInv ==
  ASSUME PermInv, NEW r \in Requests, OnAdmission(r)
  PROVE  PermInv'
<1> USE DEF PermInv
<1>1. PermTypeOK'
  BY DEF OnAdmission, PermTypeOK, Stages
<1>2. CountersExact'
  BY CountersFrame DEF OnAdmission, PermTypeOK, InFlight
<1>3. TurnShape'
  BY TurnFrame DEF OnAdmission
<1>4. AdmissionShape'
  BY AdmissionFrame DEF OnAdmission, PermTypeOK
<1>5. EntryShape'
  BY DEF OnAdmission, EntryShape, PermTypeOK
<1>6. RevocationReachesPending'
  BY RevocationFrame DEF OnAdmission
<1>7. SelectedByResponder'
  BY SelectedFrame DEF OnAdmission
<1> QED
  BY <1>1, <1>2, <1>3, <1>4, <1>5, <1>6, <1>7

\* A direct Respond is bound to a turn but counted by nothing.
LEMMA RespondInv ==
  ASSUME PermInv, NEW r \in Requests, NEW k \in Kinds, Respond(r, k)
  PROVE  PermInv'
<1> USE DEF PermInv
<1>1. PermTypeOK'
  BY AdmissionTypes DEF Respond, PermTypeOK, Stages
<1>2. CountersExact'
  <2>1. ~adm[r].counted /\ ~adm'[r].counted /\ ~adm[r].async /\ ~adm'[r].async
    BY DEF Respond, PermTypeOK, AdmissionShape, RespondAdmission, NoAdmission
  <2>2. \A q \in Requests \ {r} : adm'[q] = adm[q] /\ stage'[q] = stage[q]
    BY DEF Respond, PermTypeOK
  <2>3. Dispatching' = Dispatching /\ CallingBack' = CallingBack
    BY <2>1, <2>2 DEF Respond, Dispatching, CallingBack
  <2>4. \A g \in Turns : Counted(g)' = Counted(g)
    BY <2>1, <2>2 DEF Counted
  <2> QED
    BY <2>3, <2>4 DEF Respond, CountersExact
<1>3. TurnShape'
  BY TurnFrame DEF Respond
<1>4. AdmissionShape'
  <2>1. TurnOpen => generation >= 1
    BY DEF TurnOpen, HasTurn, Turns
  <2> QED
    BY <2>1 DEF Respond, PermTypeOK, AdmissionShape, RespondAdmission, NoAdmission
<1>5. EntryShape'
  BY DEF Respond, EntryShape, PermTypeOK
<1>6. RevocationReachesPending'
  <2>1. r \notin pending
    BY DEF Respond, EntryShape
  <2> QED
    BY <2>1 DEF Respond, EntryShape, PermTypeOK, RevocationReachesPending, TurnLive, HasTurn
<1>7. SelectedByResponder'
  BY DEF Respond, SelectedByResponder, EntryShape, PermTypeOK
<1> QED
  BY <1>1, <1>2, <1>3, <1>4, <1>5, <1>6, <1>7

\* A fail-safe answer selects nothing and needs no entry.
LEMMA DeclineInv ==
  ASSUME PermInv, NEW r \in Requests, Decline(r)
  PROVE  PermInv'
<1> USE DEF PermInv
<1>1. PermTypeOK'
  BY ResolutionTypes DEF Decline, PermTypeOK, Stages
<1>2. CountersExact'
  BY CountersFrame DEF Decline, PermTypeOK, InFlight
<1>3. TurnShape'
  BY TurnFrame DEF Decline
<1>4. AdmissionShape'
  BY AdmissionFrame DEF Decline, PermTypeOK
<1>5. EntryShape'
  BY DEF Decline, EntryShape, PermTypeOK
<1>6. RevocationReachesPending'
  BY RevocationFrame DEF Decline
<1>7. SelectedByResponder'
  <2>1. EarlyResolution(r) # "selected"
    BY DEF EarlyResolution
  <2> QED
    BY <2>1 DEF Decline, SelectedByResponder, PermTypeOK
<1> QED
  BY <1>1, <1>2, <1>3, <1>4, <1>5, <1>6, <1>7

\* A responder is started only below the limit and for a live turn.
LEMMA AskInv ==
  ASSUME PermInv, NEW r \in Requests, Ask(r)
  PROVE  PermInv'
<1> USE DEF PermInv
<1>1. PermTypeOK'
  BY DEF Ask, PermTypeOK, Stages
<1>2. CountersExact'
  <2>1. CallingBack' = CallingBack \cup {r} /\ r \notin CallingBack
    BY DEF Ask, CallingBack, EntryShape, PermTypeOK
  <2>2. Dispatching' = Dispatching /\ \A g \in Turns : Counted(g)' = Counted(g)
    BY DEF Ask, Dispatching, Counted, InFlight, PermTypeOK
  <2>3. CallingBack \in SUBSET Requests
    BY DEF CallingBack
  <2>4. Cardinality(CallingBack') = Cardinality(CallingBack) + 1
    BY <2>1, <2>3, RequestSets
  <2>5. ~(callbacks >= MaxConcurrent)
    BY DEF Ask, EarlyResolution
  <2>6. callbacks' = Cardinality(CallingBack') /\ callbacks' <= MaxConcurrent
    BY <2>4, <2>5, PermissionConstants DEF Ask, CountersExact, PermTypeOK
  <2> QED
    BY <2>2, <2>6 DEF Ask, CountersExact
<1>3. TurnShape'
  BY TurnFrame DEF Ask
<1>4. AdmissionShape'
  BY AdmissionFrame DEF Ask, PermTypeOK
<1>5. EntryShape'
  <2>1. Configured /\ kind[r] # "invalid" /\ adm[r].activeTurn
    BY DEF Ask, EarlyResolution
  <2>2. /\ stage[r] = "announced" /\ stage'[r] = "asking" /\ r \in pending'
        /\ responder'[r] = "running"
        /\ \A q \in Requests \ {r} :
             /\ stage'[q] = stage[q] /\ responder'[q] = responder[q]
             /\ q \in pending' <=> q \in pending
        /\ UNCHANGED <<answer, resolution, committed, kind, adm, gate>>
    BY DEF Ask, PermTypeOK
  <2> QED
    BY <2>1, <2>2 DEF EntryShape
<1>6. RevocationReachesPending'
  <2>1. TurnLive(r)
    BY DEF Ask, EarlyResolution
  <2> QED
    BY <2>1 DEF Ask, RevocationReachesPending, TurnLive, HasTurn
<1>7. SelectedByResponder'
  BY DEF Ask, SelectedByResponder, EntryShape, PermTypeOK
<1> QED
  BY <1>1, <1>2, <1>3, <1>4, <1>5, <1>6, <1>7

\* The result of a responder that is no longer awaited is lost.
LEMMA ResponderReturnInv ==
  ASSUME PermInv, NEW r \in Requests, NEW a \in Answers, ResponderReturn(r, a)
  PROVE  PermInv'
<1> USE DEF PermInv
<1>1. PermTypeOK'
  BY DEF ResponderReturn, PermTypeOK
<1>2. CountersExact'
  BY CountersFrame DEF ResponderReturn, PermTypeOK
<1>3. TurnShape'
  BY TurnFrame DEF ResponderReturn
<1>4. AdmissionShape'
  BY AdmissionFrame DEF ResponderReturn, PermTypeOK
<1>5. EntryShape'
  BY DEF ResponderReturn, EntryShape, PermTypeOK
<1>6. RevocationReachesPending'
  BY RevocationFrame DEF ResponderReturn
<1>7. SelectedByResponder'
  BY DEF ResponderReturn, SelectedByResponder, EntryShape, PermTypeOK
<1> QED
  BY <1>1, <1>2, <1>3, <1>4, <1>5, <1>6, <1>7

\* A responder's slot is given back once.
LEMMA ReleaseCallbackInv ==
  ASSUME PermInv, NEW r \in Requests, ReleaseCallback(r)
  PROVE  PermInv'
<1> USE DEF PermInv
<1>1. PermTypeOK'
  <2>1. CallingBack \in SUBSET Requests /\ r \in CallingBack
    BY DEF ReleaseCallback, CallingBack
  <2>2. callbacks - 1 \in Nat
    BY <2>1, RequestSets DEF CountersExact, PermTypeOK
  <2> QED
    BY <2>2 DEF ReleaseCallback, PermTypeOK
<1>2. CountersExact'
  <2>1. CallingBack \in SUBSET Requests /\ r \in CallingBack
    BY DEF ReleaseCallback, CallingBack
  <2>2. CallingBack' = CallingBack \ {r}
    BY DEF ReleaseCallback, CallingBack, PermTypeOK
  <2>3. Cardinality(CallingBack') = Cardinality(CallingBack) - 1
    BY <2>1, <2>2, RequestSets
  <2>4. callbacks' = Cardinality(CallingBack') /\ callbacks' <= MaxConcurrent
    BY <2>3, PermissionConstants DEF ReleaseCallback, CountersExact, PermTypeOK
  <2>5. Dispatching' = Dispatching /\ \A g \in Turns : Counted(g)' = Counted(g)
    BY DEF ReleaseCallback, Dispatching, Counted
  <2> QED
    BY <2>4, <2>5 DEF ReleaseCallback, CountersExact
<1>3. TurnShape'
  BY TurnFrame DEF ReleaseCallback
<1>4. AdmissionShape'
  BY AdmissionFrame DEF ReleaseCallback, PermTypeOK
<1>5. EntryShape'
  BY DEF ReleaseCallback, EntryShape, PermTypeOK
<1>6. RevocationReachesPending'
  BY RevocationFrame DEF ReleaseCallback
<1>7. SelectedByResponder'
  BY DEF ReleaseCallback, SelectedByResponder, PermTypeOK
<1> QED
  BY <1>1, <1>2, <1>3, <1>4, <1>5, <1>6, <1>7

\* Woken by its context, a request no longer has an offered answer.
LEMMA WakeInv ==
  ASSUME PermInv, NEW r \in Requests, Wake(r)
  PROVE  PermInv'
<1> USE DEF PermInv
<1>1. PermTypeOK'
  BY DEF Wake, PermTypeOK, Stages, Answers
<1>2. CountersExact'
  BY CountersFrame DEF Wake, PermTypeOK, InFlight
<1>3. TurnShape'
  BY TurnFrame DEF Wake
<1>4. AdmissionShape'
  BY AdmissionFrame DEF Wake, PermTypeOK
<1>5. EntryShape'
  BY DEF Wake, EntryShape, PermTypeOK
<1>6. RevocationReachesPending'
  BY RevocationFrame DEF Wake
<1>7. SelectedByResponder'
  BY DEF Wake, SelectedByResponder, EntryShape, PermTypeOK
<1> QED
  BY <1>1, <1>2, <1>3, <1>4, <1>5, <1>6, <1>7

\* The gate is taken by one request at a time.
LEMMA LockGateInv ==
  ASSUME PermInv, NEW r \in Requests, LockGate(r)
  PROVE  PermInv'
<1> USE DEF PermInv
<1>1. PermTypeOK'
  BY DEF LockGate, PermTypeOK, Stages
<1>2. CountersExact'
  BY CountersFrame DEF LockGate, PermTypeOK, InFlight
<1>3. TurnShape'
  BY TurnFrame DEF LockGate
<1>4. AdmissionShape'
  BY AdmissionFrame DEF LockGate, PermTypeOK
<1>5. EntryShape'
  <2>1. /\ stage[r] = "answered" /\ stage'[r] = "gated" /\ gate' = r
        /\ \A q \in Requests \ {r} : stage'[q] = stage[q] /\ gate # q /\ gate' # q
        /\ UNCHANGED <<pending, responder, answer, resolution, committed, kind, adm>>
    BY PermissionConstants DEF LockGate, PermTypeOK
  <2> QED
    BY <2>1 DEF EntryShape
<1>6. RevocationReachesPending'
  BY RevocationFrame DEF LockGate
<1>7. SelectedByResponder'
  BY SelectedFrame DEF LockGate
<1> QED
  BY <1>1, <1>2, <1>3, <1>4, <1>5, <1>6, <1>7

\* At the linearization point a selection is backed by its responder.
LEMMA CommitInv ==
  ASSUME PermInv, NEW r \in Requests, Commit(r)
  PROVE  PermInv'
<1> USE DEF PermInv
<1>1. PermTypeOK'
  BY ResolutionTypes DEF Commit, PermTypeOK, Stages
<1>2. CountersExact'
  BY CountersFrame DEF Commit, PermTypeOK, InFlight
<1>3. TurnShape'
  BY TurnFrame DEF Commit
<1>4. AdmissionShape'
  BY AdmissionFrame DEF Commit, PermTypeOK
<1>5. EntryShape'
  BY DEF Commit, EntryShape, PermTypeOK
<1>6. RevocationReachesPending'
  BY RevocationFrame DEF Commit
<1>7. SelectedByResponder'
  <2>1. FinalResolution(r) = "selected" => answer[r] = "offered"
    BY DEF Commit, FinalResolution, EntryShape, PermTypeOK, Answers
  <2>2. r \in pending
    BY DEF Commit, EntryShape
  <2> QED
    BY <2>1, <2>2 DEF Commit, SelectedByResponder, EntryShape, PermTypeOK
<1> QED
  BY <1>1, <1>2, <1>3, <1>4, <1>5, <1>6, <1>7

\* Delivering an answer only moves the request on.
LEMMA DeliverInv ==
  ASSUME PermInv, NEW r \in Requests, Deliver(r)
  PROVE  PermInv'
<1> USE DEF PermInv
<1>1. PermTypeOK'
  BY DEF Deliver, PermTypeOK, Stages
<1>2. CountersExact'
  BY CountersFrame DEF Deliver, PermTypeOK, InFlight
<1>3. TurnShape'
  BY TurnFrame DEF Deliver
<1>4. AdmissionShape'
  BY AdmissionFrame DEF Deliver, PermTypeOK
<1>5. EntryShape'
  BY DEF Deliver, EntryShape, PermTypeOK
<1>6. RevocationReachesPending'
  BY RevocationFrame DEF Deliver
<1>7. SelectedByResponder'
  BY SelectedFrame DEF Deliver
<1> QED
  BY <1>1, <1>2, <1>3, <1>4, <1>5, <1>6, <1>7

\* Retiring a request drops its entry and leaves the gate.
LEMMA RetireInv ==
  ASSUME PermInv, NEW r \in Requests, Retire(r)
  PROVE  PermInv'
<1> USE DEF PermInv
<1>1. PermTypeOK'
  BY DEF Retire, PermTypeOK, Stages
<1>2. CountersExact'
  BY CountersFrame DEF Retire, PermTypeOK, InFlight
<1>3. TurnShape'
  BY TurnFrame DEF Retire
<1>4. AdmissionShape'
  BY AdmissionFrame DEF Retire, PermTypeOK
<1>5. EntryShape'
  <2>1. /\ stage[r] = "responded" /\ stage'[r] = "retired" /\ r \notin pending'
        /\ gate = r /\ gate' # r
        /\ \A q \in Requests \ {r} :
             /\ stage'[q] = stage[q] /\ gate # q /\ gate' # q
             /\ q \in pending' <=> q \in pending
        /\ UNCHANGED <<responder, answer, resolution, committed, kind, adm>>
    BY PermissionConstants DEF Retire, PermTypeOK, EntryShape
  <2> QED
    BY <2>1 DEF EntryShape
<1>6. RevocationReachesPending'
  BY RevocationFrame DEF Retire
<1>7. SelectedByResponder'
  BY SelectedFrame DEF Retire
<1> QED
  BY <1>1, <1>2, <1>3, <1>4, <1>5, <1>6, <1>7

\* The after callback of a completed request frees the reader.
LEMMA AfterInv ==
  ASSUME PermInv, NEW r \in Requests, After(r)
  PROVE  PermInv'
<1> USE DEF PermInv
<1>1. PermTypeOK'
  BY DEF After, PermTypeOK, Stages
<1>2. CountersExact'
  BY CountersFrame DEF After, PermTypeOK, InFlight
<1>3. TurnShape'
  BY TurnFrame DEF After
<1>4. AdmissionShape'
  BY AdmissionFrame DEF After, PermTypeOK
<1>5. EntryShape'
  BY DEF After, EntryShape, PermTypeOK
<1>6. RevocationReachesPending'
  BY RevocationFrame DEF After
<1>7. SelectedByResponder'
  BY SelectedFrame DEF After
<1> QED
  BY <1>1, <1>2, <1>3, <1>4, <1>5, <1>6, <1>7

\* A lifecycle call is no request, so its hold of the gate is its own.
LEMMA TakeGateInv ==
  ASSUME PermInv, NEW c \in LifecycleCalls, TakeGate(c)
  PROVE  PermInv'
<1> USE DEF PermInv
<1>1. PermTypeOK'
  BY DEF TakeGate, PermTypeOK, Stages
<1>2. CountersExact'
  BY CountersFrame DEF TakeGate, PermTypeOK, InFlight
<1>3. TurnShape'
  BY TurnFrame DEF TakeGate
<1>4. AdmissionShape'
  BY AdmissionFrame DEF TakeGate, PermTypeOK
<1>5. EntryShape'
  BY PermissionConstants DEF TakeGate, EntryShape, PermTypeOK
<1>6. RevocationReachesPending'
  BY RevocationFrame DEF TakeGate
<1>7. SelectedByResponder'
  BY SelectedFrame DEF TakeGate
<1> QED
  BY <1>1, <1>2, <1>3, <1>4, <1>5, <1>6, <1>7

\* Leaving the gate returns what TakeGate took.
LEMMA LeaveGateInv ==
  ASSUME PermInv, NEW c \in LifecycleCalls, LeaveGate(c)
  PROVE  PermInv'
<1> USE DEF PermInv
<1>1. PermTypeOK'
  BY DEF LeaveGate, PermTypeOK, Stages
<1>2. CountersExact'
  BY CountersFrame DEF LeaveGate, PermTypeOK, InFlight
<1>3. TurnShape'
  BY TurnFrame DEF LeaveGate
<1>4. AdmissionShape'
  BY AdmissionFrame DEF LeaveGate, PermTypeOK
<1>5. EntryShape'
  BY PermissionConstants DEF LeaveGate, EntryShape, PermTypeOK
<1>6. RevocationReachesPending'
  BY RevocationFrame DEF LeaveGate
<1>7. SelectedByResponder'
  BY SelectedFrame DEF LeaveGate
<1> QED
  BY <1>1, <1>2, <1>3, <1>4, <1>5, <1>6, <1>7

\* Completing a request takes it out of everything that counts it, and closes
\* the done channel of an ending turn behind the last one.
LEMMA CompleteInv ==
  ASSUME PermInv, NEW r \in Requests, Complete(r)
  PROVE  PermInv'
<1> USE DEF PermInv
<1> DEFINE h == adm[r].generation
<1>1. /\ stage[r] = "retired" /\ stage'[r] = "completed"
      /\ \A q \in Requests \ {r} : stage'[q] = stage[q]
      /\ stage' \in [Requests -> Stages]
  BY DEF Complete, PermTypeOK, Stages
<1>2. asyncDispatches' = Cardinality(Dispatching') /\ asyncDispatches' \in Nat
      /\ asyncDispatches' <= MaxConcurrent
  <2>1. Dispatching \in SUBSET Requests
    BY DEF Dispatching
  <2>2. CASE adm[r].async
    <3>1. r \in Dispatching /\ Dispatching' = Dispatching \ {r}
      BY <1>1, <2>2 DEF Complete, Dispatching, InFlight
    <3>2. Cardinality(Dispatching') = Cardinality(Dispatching) - 1 /\ Cardinality(Dispatching) > 0
      BY <2>1, <3>1, RequestSets
    <3>3. asyncDispatches' = asyncDispatches - 1
      BY <2>2 DEF Complete
    <3> QED
      BY <3>2, <3>3, PermissionConstants DEF CountersExact, PermTypeOK
  <2>3. CASE ~adm[r].async
    <3>1. Dispatching' = Dispatching
      BY <1>1, <2>3 DEF Complete, Dispatching, InFlight
    <3> QED
      BY <2>3, <3>1 DEF Complete, CountersExact, PermTypeOK
  <2> QED
    BY <2>2, <2>3
<1>3. adm[r].counted => h \in Turns /\ turns[h].dispatches > 0
  <2>1. SUFFICES ASSUME adm[r].counted PROVE h \in Turns /\ turns[h].dispatches > 0
    OBVIOUS
  <2>2. h \in Turns
    BY <2>1 DEF AdmissionShape, PermTypeOK, Admission, Turns
  <2>3. r \in Counted(h) /\ Counted(h) \in SUBSET Requests
    BY <1>1, <2>1 DEF Counted, InFlight
  <2> QED
    BY <2>2, <2>3, RequestSets DEF CountersExact
<1>4. ASSUME NEW g \in Turns
      PROVE  IF adm[r].counted /\ g = h
             THEN /\ turns'[g] \in Turn /\ TurnWellFormed(turns'[g])
                  /\ turns'[g].active = turns[g].active /\ turns'[g].ending = turns[g].ending
                  /\ turns'[g].canceled = turns[g].canceled
                  /\ turns'[g].present = turns[g].present
                  /\ turns'[g].dispatches = turns[g].dispatches - 1
             ELSE turns'[g] = turns[g]
  <2>1. CASE adm[r].counted /\ g = h
    <3>1. turns'[g] = FinishDispatch(turns[g])
      BY <2>1 DEF Complete, PermTypeOK
    <3>2. turns[g] \in Turn /\ TurnWellFormed(turns[g]) /\ turns[g].dispatches > 0
      BY <1>3, <2>1 DEF PermTypeOK, TurnShape
    <3> QED
      BY <2>1, <3>1, <3>2, FinishDispatchFacts
  <2>2. CASE ~(adm[r].counted /\ g = h)
    BY <2>2 DEF Complete, PermTypeOK
  <2> QED
    BY <2>1, <2>2
<1>5. turns' \in [Turns -> Turn]
  <2>1. \A g \in Turns : turns'[g] \in Turn
    BY <1>4 DEF PermTypeOK
  <2>2. turns' = [g \in Turns |-> turns'[g]]
    BY DEF Complete, PermTypeOK
  <2> QED
    BY <2>1, <2>2
<1>6. PermTypeOK'
  BY <1>1, <1>2, <1>5 DEF Complete, PermTypeOK
<1>7. CountersExact'
  <2>1. CallingBack' = CallingBack
    BY DEF Complete, CallingBack
  <2>2. ASSUME NEW g \in Turns
        PROVE  turns'[g].dispatches = Cardinality(Counted(g)')
    <3>1. Counted(g) \in SUBSET Requests
      BY DEF Counted
    <3>2. CASE adm[r].counted /\ g = h
      <4>1. r \in Counted(g) /\ Counted(g)' = Counted(g) \ {r}
        BY <1>1, <3>2 DEF Complete, Counted, InFlight
      <4>2. Cardinality(Counted(g)') = Cardinality(Counted(g)) - 1
        BY <3>1, <4>1, RequestSets
      <4> QED
        BY <1>4, <3>2, <4>2 DEF CountersExact
    <3>3. CASE ~(adm[r].counted /\ g = h)
      <4>1. Counted(g)' = Counted(g)
        BY <1>1, <3>3 DEF Complete, Counted, InFlight
      <4> QED
        BY <1>4, <3>3, <4>1 DEF CountersExact
    <3> QED
      BY <3>2, <3>3
  <2> QED
    BY <1>2, <2>1, <2>2 DEF Complete, CountersExact
<1>8. TurnShape'
  <2>1. ASSUME NEW g \in Turns
        PROVE  /\ TurnWellFormed(turns'[g])
               /\ g > generation => turns'[g] = NoTurn
               /\ g < generation => turns'[g].ending
               /\ g = generation => turns'[g].active \/ turns'[g].ending
               /\ g <= generation /\ ~turns'[g].present => turns'[g].doneClosed
    <3>1. CASE ~(adm[r].counted /\ g = h)
      BY <1>4, <3>1 DEF TurnShape
    <3>2. CASE adm[r].counted /\ g = h
      <4>1. ~(g > generation)
        BY <3>2 DEF AdmissionShape, PermTypeOK, Turns
      <4>2. turns[g].present
        BY <1>3, <3>2, <4>1 DEF TurnShape, TurnWellFormed, PermTypeOK, Turns
      <4> QED
        BY <1>4, <3>2, <4>1, <4>2 DEF TurnShape
    <3> QED
      BY <3>1, <3>2
  <2> QED
    BY <2>1 DEF Complete, TurnShape
<1>9. AdmissionShape'
  BY AdmissionFrame DEF Complete, PermTypeOK
<1>10. EntryShape'
  BY DEF Complete, EntryShape, PermTypeOK
<1>11. RevocationReachesPending'
  <2>1. \A q \in Requests : TurnLive(q) => TurnLive(q)'
    BY <1>4 DEF Complete, TurnLive, HasTurn
  <2> QED
    BY <2>1 DEF Complete, RevocationReachesPending, PermTypeOK
<1>12. SelectedByResponder'
  BY SelectedFrame DEF Complete
<1> QED
  BY <1>6, <1>7, <1>8, <1>9, <1>10, <1>11, <1>12

--------------------------------------------------------------------------------
(***************************************************************************)
(* The lifecycle calls keep the invariant.                                 *)
(***************************************************************************)

\* What a lifecycle call leaves alone: the requests, and how many dispatches
\* each turn has.
RequestsKept ==
  /\ UNCHANGED <<sessionBound, asyncDispatches, callbacks, stage, kind, adm, pending,
                 committed, responder, answer, resolution, gate, reader>>
  /\ \A g \in Turns : turns'[g].dispatches = turns[g].dispatches

\* Such a call keeps the counters and what is said of entries and selections.
LEMMA RequestsFrame ==
  ASSUME PermInv, RequestsKept
  PROVE  CountersExact' /\ EntryShape' /\ SelectedByResponder'
<1> USE DEF PermInv
<1>1. CountersExact'
  <2>1. Dispatching' = Dispatching /\ CallingBack' = CallingBack
    BY DEF RequestsKept, Dispatching, CallingBack
  <2>2. \A g \in Turns : Counted(g)' = Counted(g)
    BY DEF RequestsKept, Counted
  <2> QED
    BY <2>1, <2>2 DEF RequestsKept, CountersExact
<1>2. EntryShape'
  BY DEF RequestsKept, EntryShape
<1>3. SelectedByResponder'
  BY SelectedFrame DEF RequestsKept
<1> QED
  BY <1>1, <1>2, <1>3

\* closeTurnAdmissionLocked on the current turn: it stops accepting, every
\* uncommitted entry of it is cancelled, and no other turn or entry changes.
LEMMA CloseAdmissionFacts ==
  ASSUME PermInv, HasTurn(generation), CloseAdmissionOf(generation),
         ending' \subseteq ending \cup {generation},
         UNCHANGED <<closed, generation, adm, pending, committed>>
  PROVE  /\ turns' \in [Turns -> Turn]
         /\ \A g \in Turns : turns'[g].dispatches = turns[g].dispatches
         /\ TurnShape'
         /\ canceled' \subseteq Requests
         /\ RevocationReachesPending'
<1> USE DEF PermInv
<1>1. generation \in Turns /\ turns[generation] \in Turn /\ turns[generation].present
      /\ TurnWellFormed(turns[generation])
  BY DEF HasTurn, PermTypeOK, TurnShape
<1>2. turns' = [turns EXCEPT ![generation] = ShutTurn(turns[generation])]
  BY <1>1 DEF CloseAdmissionOf
<1>3. LET s == ShutTurn(turns[generation])
      IN  /\ s \in Turn /\ TurnWellFormed(s) /\ ~s.active /\ s.ending /\ s.present
          /\ s.dispatches = turns[generation].dispatches
  BY <1>1, ShutTurnFacts
<1>4. /\ turns' \in [Turns -> Turn]
      /\ turns'[generation] = ShutTurn(turns[generation])
      /\ \A g \in Turns \ {generation} : turns'[g] = turns[g]
  BY <1>1, <1>2, <1>3 DEF PermTypeOK
<1>5. \A g \in Turns : turns'[g].dispatches = turns[g].dispatches
  BY <1>3, <1>4
<1>6. ASSUME NEW g \in Turns
      PROVE  /\ TurnWellFormed(turns'[g])
             /\ g > generation => turns'[g] = NoTurn
             /\ g < generation => turns'[g].ending
             /\ g = generation => turns'[g].active \/ turns'[g].ending
             /\ g <= generation /\ ~turns'[g].present => turns'[g].doneClosed
  <2>1. CASE g = generation
    BY <1>3, <1>4, <2>1 DEF PermTypeOK
  <2>2. CASE g # generation
    BY <1>4, <2>2 DEF TurnShape
  <2> QED
    BY <2>1, <2>2
<1>7. canceled' \subseteq Requests
  BY DEF CloseAdmissionOf, CancelEntries, PermTypeOK
<1>8. RevocationReachesPending'
  <2>1. SUFFICES ASSUME NEW q \in pending \ committed
                 PROVE  TurnLive(q)' \/ q \in canceled'
    BY DEF RevocationReachesPending
  <2>2. CASE adm[q].generation = generation
    BY <2>1, <2>2 DEF CloseAdmissionOf, CancelEntries, OfGeneration, PermTypeOK
  <2>3. CASE adm[q].generation # generation
    <3>1. TurnLive(q) => TurnLive(q)'
      BY <1>4, <2>3 DEF TurnLive, HasTurn
    <3>2. TurnLive(q) \/ q \in canceled
      BY <2>1 DEF RevocationReachesPending
    <3> QED
      BY <3>1, <3>2 DEF CloseAdmissionOf, CancelEntries
  <2> QED
    BY <2>2, <2>3
<1>9. generation' = generation /\ \A g \in ending' : g <= generation
  BY <1>1 DEF TurnShape, PermTypeOK
<1>10. TurnShape'
  BY <1>6, <1>9 DEF TurnShape
<1> QED
  BY <1>4, <1>5, <1>7, <1>8, <1>10

\* The reader's CloseTurnAdmission keeps the invariant.
LEMMA CloseTurnAdmissionInv ==
  ASSUME PermInv, CloseTurnAdmission
  PROVE  PermInv'
<1> USE DEF PermInv
<1>1. CASE HasTurn(generation)
  <2>1. CloseAdmissionOf(generation)
        /\ UNCHANGED <<closed, generation, ending, adm, pending, committed, stage>>
    BY <1>1 DEF CloseTurnAdmission
  <2>2. RequestsKept
    BY <1>1, <2>1, CloseAdmissionFacts DEF CloseTurnAdmission, RequestsKept
  <2>3. PermTypeOK'
    BY <1>1, <2>1, CloseAdmissionFacts DEF CloseTurnAdmission, PermTypeOK
  <2>4. TurnShape' /\ RevocationReachesPending'
    BY <1>1, <2>1, CloseAdmissionFacts
  <2>5. AdmissionShape'
    BY <2>1, AdmissionFrame
  <2> QED
    BY <2>2, <2>3, <2>4, <2>5, RequestsFrame
<1>2. CASE ~HasTurn(generation)
  <2>1. UNCHANGED permVars
    BY <1>2 DEF CloseTurnAdmission, permVars
  <2>2. RequestsKept
    BY <2>1 DEF permVars, RequestsKept
  <2>3. PermTypeOK'
    BY <2>1 DEF permVars, PermTypeOK
  <2>4. TurnShape' /\ AdmissionShape' /\ RevocationReachesPending'
    BY <2>1, TurnFrame, AdmissionFrame, RevocationFrame DEF permVars
  <2> QED
    BY <2>2, <2>3, <2>4, RequestsFrame
<1> QED
  BY <1>1, <1>2

\* EndTurn up to its wait keeps the invariant.
LEMMA EndTurnInv ==
  ASSUME PermInv, EndTurn
  PROVE  PermInv'
<1> USE DEF PermInv
<1>1. CASE HasTurn(generation)
  <2>1. CloseAdmissionOf(generation) /\ ending' = ending \cup {generation}
        /\ UNCHANGED <<closed, generation, adm, pending, committed, stage>>
    BY <1>1 DEF EndTurn
  <2>2. RequestsKept
    BY <1>1, <2>1, CloseAdmissionFacts DEF EndTurn, RequestsKept
  <2>3. PermTypeOK'
    BY <1>1, <2>1, CloseAdmissionFacts DEF EndTurn, PermTypeOK, HasTurn
  <2>4. TurnShape' /\ RevocationReachesPending'
    BY <1>1, <2>1, CloseAdmissionFacts
  <2>5. AdmissionShape'
    BY <2>1, AdmissionFrame
  <2> QED
    BY <2>2, <2>3, <2>4, <2>5, RequestsFrame
<1>2. CASE ~HasTurn(generation)
  <2>1. UNCHANGED permVars
    BY <1>2 DEF EndTurn, permVars
  <2>2. RequestsKept
    BY <2>1 DEF permVars, RequestsKept
  <2>3. PermTypeOK'
    BY <2>1 DEF permVars, PermTypeOK
  <2>4. TurnShape' /\ AdmissionShape' /\ RevocationReachesPending'
    BY <2>1, TurnFrame, AdmissionFrame, RevocationFrame DEF permVars
  <2> QED
    BY <2>2, <2>3, <2>4, RequestsFrame
<1> QED
  BY <1>1, <1>2

\* EndTurn past its wait drops a turn that is done, hence not live.
LEMMA EndTurnReturnInv ==
  ASSUME PermInv, NEW h \in Turns, EndTurnReturn(h)
  PROVE  PermInv'
<1> USE DEF PermInv
<1>1. /\ turns' \in [Turns -> Turn]
      /\ \A g \in Turns \ {h} : turns'[g] = turns[g]
      /\ ~turns'[h].present /\ turns'[h].active = turns[h].active
      /\ turns'[h].ending = turns[h].ending /\ turns'[h].doneClosed = turns[h].doneClosed
      /\ turns'[h].closes = turns[h].closes /\ turns'[h].dispatches = turns[h].dispatches
  <2>1. turns \in [Turns -> Turn] /\ turns' = [turns EXCEPT ![h].present = FALSE]
    BY DEF EndTurnReturn, PermTypeOK
  <2>2. turns[h] \in Turn /\ [turns[h] EXCEPT !.present = FALSE] \in Turn
    BY <2>1 DEF Turn
  <2> QED
    BY <2>1, <2>2 DEF Turn
<1>2. turns[h].doneClosed /\ turns[h].ending /\ ~turns[h].active /\ h <= generation
  BY DEF EndTurnReturn, TurnShape, TurnWellFormed
<1>3. RequestsKept
  BY <1>1 DEF EndTurnReturn, RequestsKept
<1>4. PermTypeOK'
  BY <1>1 DEF EndTurnReturn, PermTypeOK
<1>5. TurnShape'
  <2>1. ASSUME NEW g \in Turns
        PROVE  /\ TurnWellFormed(turns'[g])
               /\ g > generation => turns'[g] = NoTurn
               /\ g < generation => turns'[g].ending
               /\ g = generation => turns'[g].active \/ turns'[g].ending
               /\ g <= generation /\ ~turns'[g].present => turns'[g].doneClosed
    <3>1. CASE g # h
      BY <1>1, <3>1 DEF TurnShape
    <3>2. CASE g = h
      <4>1. ~(h > generation)
        BY <1>2 DEF PermTypeOK, Turns
      <4> QED
        BY <1>1, <1>2, <3>2, <4>1 DEF TurnShape, TurnWellFormed
    <3> QED
      BY <3>1, <3>2
  <2> QED
    BY <2>1 DEF EndTurnReturn, TurnShape
<1>6. AdmissionShape'
  BY AdmissionFrame DEF EndTurnReturn
<1>7. RevocationReachesPending'
  <2>1. \A q \in Requests : TurnLive(q) => TurnLive(q)'
    BY <1>1, <1>2 DEF EndTurnReturn, TurnLive, HasTurn
  <2> QED
    BY <2>1 DEF EndTurnReturn, RevocationReachesPending, PermTypeOK
<1> QED
  BY <1>3, <1>4, <1>5, <1>6, <1>7, RequestsFrame

\* CancelTurn revokes the current turn and cancels its uncommitted entries.
LEMMA CancelTurnInv ==
  ASSUME PermInv, CancelTurn
  PROVE  PermInv'
<1> USE DEF PermInv
<1>1. ASSUME NEW g \in Turns
      PROVE  /\ turns'[g] \in Turn
             /\ turns'[g].present = turns[g].present /\ turns'[g].active = turns[g].active
             /\ turns'[g].ending = turns[g].ending
             /\ turns'[g].doneClosed = turns[g].doneClosed
             /\ turns'[g].closes = turns[g].closes
             /\ turns'[g].dispatches = turns[g].dispatches
             /\ g # generation => turns'[g] = turns[g]
  BY DEF CancelTurn, HasTurn, PermTypeOK, Turn
<1>2. turns' \in [Turns -> Turn]
  BY <1>1 DEF CancelTurn, PermTypeOK
<1>3. RequestsKept
  BY <1>1 DEF CancelTurn, RequestsKept
<1>4. PermTypeOK'
  BY <1>2 DEF CancelTurn, CancelEntries, PermTypeOK
<1>5. TurnShape'
  <2>1. ASSUME NEW g \in Turns
        PROVE  /\ TurnWellFormed(turns'[g])
               /\ g > generation => turns'[g] = NoTurn
               /\ g < generation => turns'[g].ending
               /\ g = generation => turns'[g].active \/ turns'[g].ending
               /\ g <= generation /\ ~turns'[g].present => turns'[g].doneClosed
    <3>1. g > generation => g # generation
      BY DEF PermTypeOK, Turns
    <3> QED
      BY <1>1, <3>1 DEF TurnShape, TurnWellFormed
  <2> QED
    BY <2>1 DEF CancelTurn, TurnShape
<1>6. AdmissionShape'
  BY AdmissionFrame DEF CancelTurn
<1>7. RevocationReachesPending'
  <2>1. SUFFICES ASSUME NEW q \in pending \ committed
                 PROVE  TurnLive(q)' \/ q \in canceled'
    BY DEF CancelTurn, RevocationReachesPending
  <2>2. CASE adm[q].generation = generation
    BY <2>1, <2>2 DEF CancelTurn, CancelEntries, OfGeneration, PermTypeOK
  <2>3. CASE adm[q].generation # generation
    <3>1. TurnLive(q) => TurnLive(q)'
      BY <1>1, <2>3 DEF CancelTurn, TurnLive, HasTurn
    <3>2. TurnLive(q) \/ q \in canceled
      BY <2>1 DEF RevocationReachesPending
    <3> QED
      BY <3>1, <3>2 DEF CancelTurn, CancelEntries
  <2> QED
    BY <2>2, <2>3
<1> QED
  BY <1>3, <1>4, <1>5, <1>6, <1>7, RequestsFrame

\* Close revokes every turn p.turns holds and cancels every uncommitted entry.
LEMMA CloseInv ==
  ASSUME PermInv, Close
  PROVE  PermInv'
<1> USE DEF PermInv
<1>1. ASSUME NEW g \in Turns
      PROVE  IF turns[g].present
             THEN /\ turns'[g] \in Turn /\ TurnWellFormed(turns'[g])
                  /\ turns'[g].ending /\ turns'[g].present
                  /\ turns'[g].dispatches = turns[g].dispatches
             ELSE turns'[g] = turns[g]
  <2>1. turns[g] \in Turn /\ TurnWellFormed(turns[g])
    BY DEF PermTypeOK, TurnShape
  <2>2. turns'[g] = IF turns[g].present THEN RevokeTurn(turns[g]) ELSE turns[g]
    BY DEF Close
  <2> QED
    BY <2>1, <2>2, ShutTurnFacts
<1>2. turns' \in [Turns -> Turn] /\ \A g \in Turns : turns'[g].dispatches = turns[g].dispatches
  <2>1. \A g \in Turns : turns'[g] \in Turn
    BY <1>1 DEF PermTypeOK
  <2>2. turns' = [g \in Turns |-> turns'[g]]
    BY DEF Close
  <2> QED
    BY <1>1, <2>1, <2>2
<1>3. RequestsKept
  BY <1>2 DEF Close, RequestsKept
<1>4. PermTypeOK'
  BY <1>2 DEF Close, CancelEntries, PermTypeOK
<1>5. TurnShape'
  <2>1. ASSUME NEW g \in Turns
        PROVE  /\ TurnWellFormed(turns'[g])
               /\ g > generation => turns'[g] = NoTurn
               /\ g < generation => turns'[g].ending
               /\ g = generation => turns'[g].active \/ turns'[g].ending
               /\ g <= generation /\ ~turns'[g].present => turns'[g].doneClosed
    <3>1. CASE turns[g].present
      BY <1>1, <3>1 DEF TurnShape, NoTurn
    <3>2. CASE ~turns[g].present
      BY <1>1, <3>2 DEF TurnShape
    <3> QED
      BY <3>1, <3>2
  <2> QED
    BY <2>1 DEF Close, TurnShape
<1>6. AdmissionShape'
  BY AdmissionFrame DEF Close
<1>7. RevocationReachesPending'
  BY DEF Close, CancelEntries, RevocationReachesPending, PermTypeOK
<1> QED
  BY <1>3, <1>4, <1>5, <1>6, <1>7, RequestsFrame

\* BeginTurn supersedes the current turn, if it is still active, and starts the
\* next with no dispatch.
LEMMA BeginTurnInv ==
  ASSUME PermInv, BeginTurn
  PROVE  PermInv'
<1> USE DEF PermInv
<1>1. generation \in 0..MaxTurns /\ generation' = generation + 1 /\ generation' \in Turns
  BY PermissionConstants DEF BeginTurn, PermTypeOK, Turns
<1>2. /\ NewTurn \in Turn /\ TurnWellFormed(NewTurn) /\ NewTurn.active /\ NewTurn.present
      /\ NewTurn.dispatches = 0 /\ NoTurn.dispatches = 0
  BY DEF NewTurn, NoTurn, Turn, TurnWellFormed
<1>3. ASSUME NEW g \in Turns, g # generation'
      PROVE  /\ turns'[g] \in Turn /\ TurnWellFormed(turns'[g])
             /\ turns'[g].dispatches = turns[g].dispatches
             /\ turns'[g].present = turns[g].present
             /\ turns[g].ending \/ (g = generation /\ turns[g].active) => turns'[g].ending
             /\ ~turns[g].active => turns'[g] = turns[g]
  <2>1. turns[g] \in Turn /\ TurnWellFormed(turns[g])
    BY DEF PermTypeOK, TurnShape
  <2>2. turns[g].active => turns[g].present
    BY <2>1 DEF TurnWellFormed
  <2>3. turns'[g] = IF g = generation /\ turns[g].active THEN RevokeTurn(turns[g]) ELSE turns[g]
    BY <1>1, <1>3, <2>2 DEF BeginTurn, HasTurn
  <2>4. CASE g = generation /\ turns[g].active
    BY <2>1, <2>3, <2>4, ShutTurnFacts
  <2>5. CASE ~(g = generation /\ turns[g].active)
    BY <2>1, <2>3, <2>5
  <2> QED
    BY <2>4, <2>5
<1>4. turns'[generation'] = NewTurn /\ turns[generation'] = NoTurn
  <2>1. generation' > generation
    BY <1>1
  <2> QED
    BY <1>1, <2>1 DEF BeginTurn, TurnShape
<1>5. turns' \in [Turns -> Turn] /\ \A g \in Turns : turns'[g].dispatches = turns[g].dispatches
  <2>1. \A g \in Turns : turns'[g] \in Turn /\ turns'[g].dispatches = turns[g].dispatches
    BY <1>2, <1>3, <1>4
  <2>2. turns' = [g \in Turns |-> turns'[g]]
    BY DEF BeginTurn
  <2> QED
    BY <2>1, <2>2
<1>6. RequestsKept
  BY <1>5 DEF BeginTurn, RequestsKept
<1>7. PermTypeOK'
  BY <1>1, <1>5 DEF BeginTurn, CancelEntries, PermTypeOK, Turns
<1>8. TurnShape'
  <2>1. ASSUME NEW g \in Turns
        PROVE  /\ TurnWellFormed(turns'[g])
               /\ g > generation' => turns'[g] = NoTurn
               /\ g < generation' => turns'[g].ending
               /\ g = generation' => turns'[g].active \/ turns'[g].ending
               /\ g <= generation' /\ ~turns'[g].present => turns'[g].doneClosed
    <3>1. CASE g = generation'
      BY <1>1, <1>2, <1>4, <3>1
    <3>2. CASE g > generation'
      <4>1. g # generation' /\ g > generation /\ ~(g < generation') /\ ~(g <= generation')
        BY <1>1, <3>2 DEF Turns
      <4>2. turns[g] = NoTurn /\ ~NoTurn.active
        BY <4>1 DEF TurnShape, NoTurn
      <4> QED
        BY <1>3, <4>1, <4>2
    <3>3. CASE g < generation'
      <4>1. g # generation' /\ g <= generation /\ ~(g > generation')
        BY <1>1, <3>3 DEF Turns
      <4>2. turns[g].ending \/ (g = generation /\ turns[g].active)
        BY <1>1, <4>1 DEF TurnShape, Turns
      <4>3. ~turns[g].present => turns[g].doneClosed /\ ~turns[g].active
        BY <4>1 DEF TurnShape, TurnWellFormed
      <4> QED
        BY <1>3, <4>1, <4>2, <4>3
    <3> QED
      BY <1>1, <3>1, <3>2, <3>3 DEF Turns
  <2>2. \A g \in ending' : g <= generation'
    BY <1>1 DEF BeginTurn, TurnShape, PermTypeOK, Turns
  <2> QED
    BY <2>1, <2>2 DEF TurnShape
<1>9. AdmissionShape'
  <2>1. \A q \in Requests : adm[q].generation <= generation'
    BY <1>1 DEF AdmissionShape, PermTypeOK, Admission
  <2> QED
    BY <2>1 DEF BeginTurn, AdmissionShape
<1>10. RevocationReachesPending'
  BY DEF BeginTurn, CancelEntries, RevocationReachesPending, PermTypeOK
<1> QED
  BY <1>6, <1>7, <1>8, <1>9, <1>10, RequestsFrame

--------------------------------------------------------------------------------
(***************************************************************************)
(* The theorems.                                                           *)
(***************************************************************************)

\* A step that changes none of the variables keeps the invariant.
LEMMA StutterInv ==
  ASSUME PermInv, UNCHANGED permVars
  PROVE  PermInv'
<1> USE DEF PermInv, permVars
<1>1. RequestsKept
  BY DEF RequestsKept
<1>2. PermTypeOK'
  BY DEF PermTypeOK
<1>3. TurnShape' /\ AdmissionShape' /\ RevocationReachesPending'
  BY TurnFrame, AdmissionFrame, RevocationFrame
<1> QED
  BY <1>1, <1>2, <1>3, RequestsFrame

\* Every step of the coordinator keeps its invariant.
LEMMA NextInv ==
  ASSUME PermInv, [PermNext]_permVars
  PROVE  PermInv'
<1>1. FrameKinds \subseteq Kinds /\ ReturnedAnswers \subseteq Answers
  BY PermissionConstants DEF Kinds, Answers
<1>2. CASE LifecycleStep
  BY <1>2, SetSessionIDInv, BeginTurnInv, CloseTurnAdmissionInv, EndTurnInv,
     EndTurnReturnInv, CancelTurnInv, CloseInv, TakeGateInv, LeaveGateInv
     DEF LifecycleStep
<1>3. ASSUME NEW r \in Requests, RequestStep(r)
      PROVE  PermInv'
  BY <1>1, <1>3, AdmitInv, RespondInv, OnAdmissionInv, DeclineInv, AskInv,
     ResponderReturnInv, ReleaseCallbackInv, WakeInv, LockGateInv, CommitInv,
     DeliverInv, RetireInv, CompleteInv, AfterInv
     DEF RequestStep
<1>4. CASE UNCHANGED permVars
  BY <1>4, StutterInv
<1> QED
  BY <1>2, <1>3, <1>4 DEF PermNext

\* The coordinator's invariant holds in every reachable state, for any number
\* of requests, turns and concurrent dispatches, and whatever order the client
\* calls BeginTurn, CloseTurnAdmission, EndTurn, CancelTurn and Close in.
THEOREM PermSafety == PermSpec => []PermInv
<1>1. PermInit => PermInv
  BY InitInv
<1>2. PermInv /\ [PermNext]_permVars => PermInv'
  BY NextInv
<1> QED
  BY <1>1, <1>2, PTL DEF PermSpec

\* The coordinator's variables keep their types; in particular no counter
\* becomes negative when a dispatch or a responder call ends.
THEOREM PermTypeCorrect == PermSpec => []PermTypeOK
<1>1. PermInv => PermTypeOK
  BY DEF PermInv
<1> QED
  BY <1>1, PermSafety, PTL

\* EndTurn is a barrier for every counted request of its turn.
THEOREM EndTurnBarrierHolds == PermSpec => []EndTurnBarrier
<1>1. PermInv => EndTurnBarrier
  <2> SUFFICES ASSUME PermInv, NEW g \in Turns, g <= generation, ~turns[g].present
               PROVE  Counted(g) = {}
    BY DEF EndTurnBarrier
  <2>1. turns[g].doneClosed /\ TurnWellFormed(turns[g])
    BY DEF PermInv, TurnShape
  <2>2. Cardinality(Counted(g)) = 0
    BY <2>1 DEF PermInv, CountersExact, TurnWellFormed
  <2>3. Counted(g) \in SUBSET Requests
    BY DEF Counted
  <2> QED
    BY <2>2, <2>3, RequestSets
<1> QED
  BY <1>1, PermSafety, PTL

\* The dispatch goroutines and the responder calls never exceed the limit.
THEOREM CapacityIsHeld == PermSpec => []CapacityHeld
<1>1. PermInv => CapacityHeld
  BY DEF PermInv, CountersExact, CapacityHeld
<1> QED
  BY <1>1, PermSafety, PTL

\* No turn's done channel is ever closed twice.
THEOREM DoneIsClosedOnce == PermSpec => []DoneClosedOnce
<1>1. PermInv => DoneClosedOnce
  BY DEF PermInv, TurnShape, TurnWellFormed, DoneClosedOnce
<1> QED
  BY <1>1, PermSafety, PTL

\* Every way a turn stops being live reaches its pending responders.
THEOREM RevocationReaches == PermSpec => []RevocationReachesPending
<1>1. PermInv => RevocationReachesPending
  BY DEF PermInv
<1> QED
  BY <1>1, PermSafety, PTL

\* No option is selected but by the responder of a request of a turn.
THEOREM SelectionIsFailSafe == PermSpec => []SelectedByResponder
<1>1. PermInv => SelectedByResponder
  BY DEF PermInv
<1> QED
  BY <1>1, PermSafety, PTL

--------------------------------------------------------------------------------
(***************************************************************************)
(* The coordinator implements PermissionContract: what it shows of its     *)
(* turns and requests, what each contract step does to that, and which     *)
(* contract step, if any, every action of the coordinator takes.           *)
(***************************************************************************)

cTurn == [g \in Turns |-> TurnState(g)]
cOwner == [r \in Requests |-> IF adm[r].activeTurn THEN adm[r].generation ELSE 0]
cCounts == {r \in Requests : adm[r].counted}
cState == [r \in Requests |-> RequestState(r)]

\* A step with these effects is an arrival.
LEMMA AsArrive ==
  ASSUME NEW r \in Requests, NEW g \in 0..MaxTurns,
         cState[r] = "unsent", g # 0 => cTurn[g] \in {"accepting", "revoked"},
         cState' = [cState EXCEPT ![r] = "open"], cOwner' = [cOwner EXCEPT ![r] = g],
         \/ g # 0 /\ cCounts' = cCounts \cup {r}
         \/ cCounts' = cCounts,
         cTurn' = cTurn
  PROVE  Contract!Next
<1>1. Contract!Arrive(r, g)
  BY DEF Contract!Arrive, cTurn, cOwner, cCounts, cState
<1> QED
  BY <1>1 DEF Contract!Next

\* ... a selection.
LEMMA AsSelect ==
  ASSUME NEW r \in Requests, cState[r] = "open", cOwner[r] \in Turns, cTurn[cOwner[r]] = "accepting",
         cState' = [cState EXCEPT ![r] = "selected"],
         cTurn' = cTurn, cOwner' = cOwner, cCounts' = cCounts
  PROVE  Contract!Next
<1>1. Contract!Select(r)
  BY DEF Contract!Select, Contract!Accepting, Contract!Turns, Turns, cTurn, cOwner, cCounts, cState
<1> QED
  BY <1>1 DEF Contract!Next

\* ... a refusal.
LEMMA AsDecline ==
  ASSUME NEW r \in Requests, cState[r] = "open",
         cState' = [cState EXCEPT ![r] = "declined"],
         cTurn' = cTurn, cOwner' = cOwner, cCounts' = cCounts
  PROVE  Contract!Next
<1>1. Contract!Decline(r)
  BY DEF Contract!Decline, cTurn, cOwner, cCounts, cState
<1> QED
  BY <1>1 DEF Contract!Next

\* ... a revocation.
LEMMA AsRevoke ==
  ASSUME NEW G \in SUBSET Turns,
         cTurn' = [g \in Turns |-> IF g \in G /\ cTurn[g] = "accepting" THEN "revoked" ELSE cTurn[g]],
         cState' = cState, cOwner' = cOwner, cCounts' = cCounts
  PROVE  Contract!Next
<1>1. Contract!Revoke(G)
  BY DEF Contract!Revoke, Contract!Turns, Turns, cTurn, cOwner, cCounts, cState
<1> QED
  BY <1>1 DEF Contract!Next, Contract!Turns, Turns

\* ... an answer sent.
LEMMA AsAnswer ==
  ASSUME NEW r \in Requests, cState[r] \in {"selected", "declined"},
         cState' = [cState EXCEPT ![r] = "answered"],
         cTurn' = cTurn, cOwner' = cOwner, cCounts' = cCounts
  PROVE  Contract!Next
<1>1. Contract!Answer(r)
  BY DEF Contract!Answer, cTurn, cOwner, cCounts, cState
<1> QED
  BY <1>1 DEF Contract!Next

\* ... a turn opened.
LEMMA AsOpen ==
  ASSUME NEW g \in Turns, NEW s \in {"accepting", "revoked"}, cTurn[g] = "future",
         cTurn' = [h \in Turns |-> IF h = g THEN s
                                   ELSE IF cTurn[h] = "accepting" THEN "revoked" ELSE cTurn[h]],
         cState' = cState, cOwner' = cOwner, cCounts' = cCounts
  PROVE  Contract!Next
<1>1. Contract!Open(g, s)
  BY DEF Contract!Open, Contract!Turns, Turns, cTurn, cOwner, cCounts, cState
<1> QED
  BY <1>1 DEF Contract!Next, Contract!Turns, Turns

\* ... a turn over.
LEMMA AsEnd ==
  ASSUME NEW g \in Turns, cTurn[g] = "revoked",
         \A r \in cCounts : cOwner[r] = g => cState[r] = "answered",
         cTurn' = [cTurn EXCEPT ![g] = "over"],
         cState' = cState, cOwner' = cOwner, cCounts' = cCounts
  PROVE  Contract!Next
<1>1. Contract!End(g)
  BY DEF Contract!End, Contract!Turns, Turns, cTurn, cOwner, cCounts, cState
<1> QED
  BY <1>1 DEF Contract!Next, Contract!Turns, Turns

\* ... none at all.
LEMMA AsNothing ==
  ASSUME cTurn' = cTurn, cState' = cState, cOwner' = cOwner, cCounts' = cCounts
  PROVE  UNCHANGED Contract!contractVars
BY DEF Contract!contractVars, cTurn, cOwner, cCounts, cState

-----------------------------------------------------------------------------

\* The contract sees of a turn only whether it is there and takes answers.
LEMMA SameTurns ==
  ASSUME UNCHANGED <<closed, generation>>,
         \A g \in Turns : /\ turns'[g].present = turns[g].present
                          /\ turns'[g].active = turns[g].active
                          /\ turns'[g].canceled = turns[g].canceled
  PROVE  cTurn' = cTurn
<1>1. \A g \in Turns : TurnState(g)' = TurnState(g)
  BY DEF TurnState
<1> QED
  BY <1>1 DEF cTurn

\* A step that leaves stages, resolutions and admissions alone.
LEMMA SameRequests ==
  ASSUME UNCHANGED <<stage, resolution, adm>>
  PROVE  cState' = cState /\ cOwner' = cOwner /\ cCounts' = cCounts
BY DEF cState, cOwner, cCounts, RequestState

\* One request moves; its admission is as it was.
LEMMA OneMoves ==
  ASSUME PermTypeOK, NEW r \in Requests, NEW x, UNCHANGED adm,
         stage' = [stage EXCEPT ![r] = x],
         resolution' \in [Requests -> Resolutions \cup {"none"}],
         \A q \in Requests : q # r => resolution'[q] = resolution[q]
  PROVE  /\ cState' = [cState EXCEPT ![r] = RequestState(r)']
         /\ cOwner' = cOwner /\ cCounts' = cCounts
         /\ stage'[r] = x
<1>1. stage'[r] = x /\ \A q \in Requests : q # r => stage'[q] = stage[q]
  BY DEF PermTypeOK
<1>2. \A q \in Requests : q # r => RequestState(q)' = RequestState(q)
  BY <1>1 DEF RequestState
<1>3. cOwner' = cOwner /\ cCounts' = cCounts
  BY DEF cOwner, cCounts
<1> QED
  BY <1>1, <1>2, <1>3 DEF cState

\* A request moves within what the contract takes for one state.
LEMMA OneMovesUnseen ==
  ASSUME PermTypeOK, NEW r \in Requests, NEW x, UNCHANGED <<adm, resolution>>,
         stage' = [stage EXCEPT ![r] = x], RequestState(r)' = RequestState(r)
  PROVE  cState' = cState /\ cOwner' = cOwner /\ cCounts' = cCounts
<1>1. resolution' \in [Requests -> Resolutions \cup {"none"}]
  BY DEF PermTypeOK
<1>2. cState' = [cState EXCEPT ![r] = RequestState(r)] /\ cOwner' = cOwner /\ cCounts' = cCounts
  BY <1>1, OneMoves
<1> QED
  BY <1>2 DEF cState

-----------------------------------------------------------------------------
(* The steps the contract does not see. *)

\* The request stays open.
LEMMA OnAdmissionMaps ==
  ASSUME PermInv, NEW r \in Requests, OnAdmission(r)
  PROVE  UNCHANGED Contract!contractVars
<1>1. /\ PermTypeOK /\ stage[r] = "admitted" /\ stage' = [stage EXCEPT ![r] = "announced"]
      /\ UNCHANGED <<adm, resolution, closed, generation, turns>>
  BY DEF PermInv, OnAdmission
<1>2. RequestState(r)' = RequestState(r)
  BY <1>1 DEF PermTypeOK, RequestState
<1>3. cState' = cState /\ cOwner' = cOwner /\ cCounts' = cCounts
  BY <1>1, <1>2, OneMovesUnseen
<1> QED
  BY <1>1, <1>3, SameTurns, AsNothing

\* The request stays open.
LEMMA AskMaps ==
  ASSUME PermInv, NEW r \in Requests, Ask(r)
  PROVE  UNCHANGED Contract!contractVars
<1>1. /\ PermTypeOK /\ stage[r] = "announced" /\ stage' = [stage EXCEPT ![r] = "asking"]
      /\ UNCHANGED <<adm, resolution, closed, generation, turns>>
  BY DEF PermInv, Ask
<1>2. RequestState(r)' = RequestState(r)
  BY <1>1 DEF PermTypeOK, RequestState
<1>3. cState' = cState /\ cOwner' = cOwner /\ cCounts' = cCounts
  BY <1>1, <1>2, OneMovesUnseen
<1> QED
  BY <1>1, <1>3, SameTurns, AsNothing

\* The request stays open.
LEMMA WakeMaps ==
  ASSUME PermInv, NEW r \in Requests, Wake(r)
  PROVE  UNCHANGED Contract!contractVars
<1>1. /\ PermTypeOK /\ stage[r] = "asking" /\ stage' = [stage EXCEPT ![r] = "answered"]
      /\ UNCHANGED <<adm, resolution, closed, generation, turns>>
  BY DEF PermInv, Wake
<1>2. RequestState(r)' = RequestState(r)
  BY <1>1 DEF PermTypeOK, RequestState
<1>3. cState' = cState /\ cOwner' = cOwner /\ cCounts' = cCounts
  BY <1>1, <1>2, OneMovesUnseen
<1> QED
  BY <1>1, <1>3, SameTurns, AsNothing

\* The request stays open.
LEMMA LockGateMaps ==
  ASSUME PermInv, NEW r \in Requests, LockGate(r)
  PROVE  UNCHANGED Contract!contractVars
<1>1. /\ PermTypeOK /\ stage[r] = "answered" /\ stage' = [stage EXCEPT ![r] = "gated"]
      /\ UNCHANGED <<adm, resolution, closed, generation, turns>>
  BY DEF PermInv, LockGate
<1>2. RequestState(r)' = RequestState(r)
  BY <1>1 DEF PermTypeOK, RequestState
<1>3. cState' = cState /\ cOwner' = cOwner /\ cCounts' = cCounts
  BY <1>1, <1>2, OneMovesUnseen
<1> QED
  BY <1>1, <1>3, SameTurns, AsNothing

\* The request stays answered.
LEMMA RetireMaps ==
  ASSUME PermInv, NEW r \in Requests, Retire(r)
  PROVE  UNCHANGED Contract!contractVars
<1>1. /\ PermTypeOK /\ stage[r] = "responded" /\ stage' = [stage EXCEPT ![r] = "retired"]
      /\ UNCHANGED <<adm, resolution, closed, generation, turns>>
  BY DEF PermInv, Retire
<1>2. RequestState(r)' = RequestState(r)
  BY <1>1 DEF PermTypeOK, RequestState
<1>3. cState' = cState /\ cOwner' = cOwner /\ cCounts' = cCounts
  BY <1>1, <1>2, OneMovesUnseen
<1> QED
  BY <1>1, <1>3, SameTurns, AsNothing

\* The request stays answered.
LEMMA AfterMaps ==
  ASSUME PermInv, NEW r \in Requests, After(r)
  PROVE  UNCHANGED Contract!contractVars
<1>1. /\ PermTypeOK /\ stage[r] = "completed" /\ stage' = [stage EXCEPT ![r] = "done"]
      /\ UNCHANGED <<adm, resolution, closed, generation, turns>>
  BY DEF PermInv, After
<1>2. RequestState(r)' = RequestState(r)
  BY <1>1 DEF PermTypeOK, RequestState
<1>3. cState' = cState /\ cOwner' = cOwner /\ cCounts' = cCounts
  BY <1>1, <1>2, OneMovesUnseen
<1> QED
  BY <1>1, <1>3, SameTurns, AsNothing

\* The request stays answered, and its turn loses one dispatch.
LEMMA CompleteMaps ==
  ASSUME PermInv, NEW r \in Requests, Complete(r)
  PROVE  UNCHANGED Contract!contractVars
<1>1. /\ PermTypeOK /\ stage[r] = "retired" /\ stage' = [stage EXCEPT ![r] = "completed"]
      /\ UNCHANGED <<adm, resolution, closed, generation>>
  BY DEF PermInv, Complete
<1>2. RequestState(r)' = RequestState(r)
  BY <1>1 DEF PermTypeOK, RequestState
<1>3. cState' = cState /\ cOwner' = cOwner /\ cCounts' = cCounts
  BY <1>1, <1>2, OneMovesUnseen
<1>4. cTurn' = cTurn
  <2>1. CASE ~adm[r].counted
    <3>1. turns' = turns
      BY <2>1 DEF Complete
    <3> QED
      BY <1>1, <3>1, SameTurns
  <2>2. CASE adm[r].counted
    <3> DEFINE g == adm[r].generation
    <3>1. turns' = [turns EXCEPT ![g] = FinishDispatch(turns[g])]
      BY <2>2 DEF Complete
    <3>2. turns \in [Turns -> Turn]
      BY <1>1 DEF PermTypeOK
    <3>3. ASSUME NEW t \in Turn
          PROVE  /\ FinishDispatch(t).present = t.present
                 /\ FinishDispatch(t).active = t.active
                 /\ FinishDispatch(t).canceled = t.canceled
      BY DEF FinishDispatch, CloseDone, Turn
    <3> HIDE DEF g
    <3>4. \A h \in Turns : turns'[h] = IF h = g THEN FinishDispatch(turns[g]) ELSE turns[h]
      BY <3>1, <3>2
    <3>5. \A h \in Turns : /\ turns'[h].present = turns[h].present
                           /\ turns'[h].active = turns[h].active
                           /\ turns'[h].canceled = turns[h].canceled
      BY <3>2, <3>3, <3>4
    <3> QED
      BY <1>1, <3>5, SameTurns
  <2> QED
    BY <2>1, <2>2
<1> QED
  BY <1>3, <1>4, AsNothing

\* Steps that touch neither a turn nor a request's answer.
LEMMA ElsewhereMaps ==
  ASSUME UNCHANGED <<closed, generation, turns, stage, resolution, adm>>
  PROVE  UNCHANGED Contract!contractVars
BY SameTurns, SameRequests, AsNothing

-----------------------------------------------------------------------------
(* The steps of a request that the contract sees. *)

\* A frame is admitted: a request arrives.
LEMMA AdmitMaps ==
  ASSUME PermInv, NEW r \in Requests, NEW k, Admit(r, k)
  PROVE  Contract!Next
<1> DEFINE g == IF TurnOpen THEN generation ELSE 0
<1>1. /\ PermTypeOK /\ stage[r] = "unsent" /\ stage' = [stage EXCEPT ![r] = "admitted"]
      /\ UNCHANGED <<resolution, closed, generation>>
      /\ adm' = [adm EXCEPT ![r] = DispatchAdmission]
      /\ turns' = IF TurnOpen THEN [turns EXCEPT ![generation].dispatches = @ + 1] ELSE turns
  BY DEF PermInv, Admit
<1>2. /\ adm \in [Requests -> Admission] /\ stage \in [Requests -> Stages]
      /\ turns \in [Turns -> Turn] /\ generation \in 0..MaxTurns
  BY <1>1 DEF PermTypeOK
<1>3. /\ DispatchAdmission.activeTurn = TurnOpen /\ DispatchAdmission.counted = TurnOpen
      /\ DispatchAdmission.generation = generation
  BY DEF DispatchAdmission
<1>4. /\ \A q \in Requests : q # r => adm'[q] = adm[q] /\ stage'[q] = stage[q]
      /\ adm'[r] = DispatchAdmission /\ stage'[r] = "admitted"
  BY <1>1, <1>2
<1>5. cState[r] = "unsent" /\ cState' = [cState EXCEPT ![r] = "open"]
  BY <1>1, <1>4 DEF cState, RequestState
<1>6. cOwner' = [cOwner EXCEPT ![r] = g]
  BY <1>3, <1>4 DEF cOwner
<1>7. ~adm[r].counted
  BY <1>1 DEF PermInv, AdmissionShape
<1>8. cTurn' = cTurn
  <2>1. CASE ~TurnOpen
    BY <1>1, <2>1, SameTurns
  <2>2. CASE TurnOpen
    <3>1. \A h \in Turns : /\ turns'[h].present = turns[h].present
                           /\ turns'[h].active = turns[h].active
                           /\ turns'[h].canceled = turns[h].canceled
      BY <1>1, <1>2, <2>2 DEF Turn
    <3> QED
      BY <1>1, <3>1, SameTurns
  <2> QED
    BY <2>1, <2>2
<1>9. CASE TurnOpen
  <2>1. g = generation /\ g \in Turns /\ turns[g].present
    BY <1>9 DEF TurnOpen, HasTurn
  <2>2. g \in 0..MaxTurns /\ g # 0
    BY <2>1, PermissionConstants DEF Turns
  <2>3. cTurn[g] \in {"accepting", "revoked"}
    BY <1>2, <2>1, <2>2 DEF cTurn, TurnState
  <2>4. cCounts' = cCounts \cup {r}
    BY <1>3, <1>4, <1>9 DEF cCounts
  <2> HIDE DEF g
  <2> QED
    BY <1>5, <1>6, <1>8, <2>2, <2>3, <2>4, AsArrive
<1>10. CASE ~TurnOpen
  <2>1. g = 0 /\ g \in 0..MaxTurns
    BY <1>10, PermissionConstants
  <2>2. cCounts' = cCounts
    BY <1>3, <1>4, <1>7, <1>10 DEF cCounts
  <2> HIDE DEF g
  <2> QED
    BY <1>5, <1>6, <1>8, <2>1, <2>2, AsArrive
<1> QED
  BY <1>9, <1>10

\* Respond: a request arrives that no turn waits for.
LEMMA RespondMaps ==
  ASSUME PermInv, NEW r \in Requests, NEW k, Respond(r, k)
  PROVE  Contract!Next
<1> DEFINE g == IF TurnOpen THEN generation ELSE 0
<1>1. /\ PermTypeOK /\ stage[r] = "unsent" /\ stage' = [stage EXCEPT ![r] = "announced"]
      /\ UNCHANGED <<resolution, closed, generation, turns>>
      /\ adm' = [adm EXCEPT ![r] = RespondAdmission]
  BY DEF PermInv, Respond
<1>2. /\ adm \in [Requests -> Admission] /\ stage \in [Requests -> Stages]
      /\ generation \in 0..MaxTurns
  BY <1>1 DEF PermTypeOK
<1>3. /\ RespondAdmission.activeTurn = TurnOpen /\ RespondAdmission.counted = FALSE
      /\ RespondAdmission.generation = generation
  BY DEF RespondAdmission, NoAdmission
<1>4. /\ \A q \in Requests : q # r => adm'[q] = adm[q] /\ stage'[q] = stage[q]
      /\ adm'[r] = RespondAdmission /\ stage'[r] = "announced"
  BY <1>1, <1>2
<1>5. cState[r] = "unsent" /\ cState' = [cState EXCEPT ![r] = "open"]
  BY <1>1, <1>4 DEF cState, RequestState
<1>6. cOwner' = [cOwner EXCEPT ![r] = g]
  BY <1>3, <1>4 DEF cOwner
<1>7. ~adm[r].counted
  BY <1>1 DEF PermInv, AdmissionShape
<1>8. cTurn' = cTurn /\ cCounts' = cCounts
  BY <1>1, <1>3, <1>4, <1>7, SameTurns DEF cCounts
<1>9. g \in 0..MaxTurns /\ (g # 0 => cTurn[g] \in {"accepting", "revoked"})
  <2>1. CASE TurnOpen
    <3>1. g = generation /\ g \in Turns /\ turns[g].present
      BY <2>1 DEF TurnOpen, HasTurn
    <3> QED
      BY <1>2, <3>1 DEF cTurn, TurnState
  <2>2. CASE ~TurnOpen
    BY <2>2, PermissionConstants
  <2> QED
    BY <2>1, <2>2
<1> HIDE DEF g
<1> QED
  BY <1>5, <1>6, <1>8, <1>9, AsArrive

\* An early return declines.
LEMMA DeclineMaps ==
  ASSUME PermInv, NEW r \in Requests, Decline(r)
  PROVE  Contract!Next
<1>1. /\ PermTypeOK /\ stage[r] = "announced" /\ stage' = [stage EXCEPT ![r] = "declined"]
      /\ UNCHANGED <<adm, closed, generation, turns>>
      /\ resolution' = [resolution EXCEPT ![r] = EarlyResolution(r)]
  BY DEF PermInv, Decline
<1>2. EarlyResolution(r) \in Resolutions \ {"selected"}
  BY DEF Decline, EarlyResolution, Resolutions
<1>3. resolution \in [Requests -> Resolutions \cup {"none"}]
  BY <1>1 DEF PermTypeOK
<1>4. /\ resolution' \in [Requests -> Resolutions \cup {"none"}]
      /\ resolution'[r] # "selected"
      /\ \A q \in Requests : q # r => resolution'[q] = resolution[q]
  BY <1>1, <1>2, <1>3
<1>5. /\ cState' = [cState EXCEPT ![r] = RequestState(r)']
      /\ cOwner' = cOwner /\ cCounts' = cCounts /\ stage'[r] = "declined"
  BY <1>1, <1>4, OneMoves
<1>6. RequestState(r)' = "declined"
  BY <1>4, <1>5 DEF RequestState
<1>7. cState[r] = "open" /\ cTurn' = cTurn
  BY <1>1, SameTurns DEF cState, RequestState
<1> QED
  BY <1>5, <1>6, <1>7, AsDecline

\* The linearization point selects only in a turn that accepts.
LEMMA CommitMaps ==
  ASSUME PermInv, NEW r \in Requests, Commit(r)
  PROVE  Contract!Next
<1>1. /\ PermTypeOK /\ stage[r] = "gated" /\ stage' = [stage EXCEPT ![r] = "committed"]
      /\ UNCHANGED <<adm, closed, generation, turns>>
      /\ resolution' = [resolution EXCEPT ![r] = FinalResolution(r)]
  BY DEF PermInv, Commit
<1>2. FinalResolution(r) \in Resolutions
  BY DEF FinalResolution, Resolutions
<1>3. resolution \in [Requests -> Resolutions \cup {"none"}]
  BY <1>1 DEF PermTypeOK
<1>4. /\ resolution' \in [Requests -> Resolutions \cup {"none"}]
      /\ resolution'[r] = FinalResolution(r)
      /\ \A q \in Requests : q # r => resolution'[q] = resolution[q]
  BY <1>1, <1>2, <1>3
<1>5. /\ cState' = [cState EXCEPT ![r] = RequestState(r)']
      /\ cOwner' = cOwner /\ cCounts' = cCounts /\ stage'[r] = "committed"
  BY <1>1, <1>4, OneMoves
<1>6. cState[r] = "open" /\ cTurn' = cTurn
  BY <1>1, SameTurns DEF cState, RequestState
<1>7. CASE FinalResolution(r) # "selected"
  <2>1. RequestState(r)' = "declined"
    BY <1>4, <1>5, <1>7 DEF RequestState
  <2> QED
    BY <1>5, <1>6, <2>1, AsDecline
<1>8. CASE FinalResolution(r) = "selected"
  <2>1. RequestState(r)' = "selected"
    BY <1>4, <1>5, <1>8 DEF RequestState
  <2>2. TurnLive(r)
    BY <1>8 DEF FinalResolution
  <2>3. adm[r].activeTurn /\ adm[r].generation <= generation
    BY <1>1 DEF PermInv, EntryShape, AdmissionShape
  <2>4. cOwner[r] = adm[r].generation
    BY <2>3 DEF cOwner
  <2>5. adm[r].generation \in Turns /\ generation \in Nat
    BY <1>1, <2>2, PermissionConstants DEF TurnLive, HasTurn, PermTypeOK
  <2>6. TurnState(adm[r].generation) = "accepting"
    BY <2>2, <2>3, <2>5 DEF TurnLive, HasTurn, TurnState, Turns
  <2>7. cTurn[cOwner[r]] = "accepting"
    BY <2>4, <2>5, <2>6 DEF cTurn
  <2> QED
    BY <1>5, <1>6, <2>1, <2>4, <2>5, <2>7, AsSelect
<1> QED
  BY <1>7, <1>8

\* The response is sent.
LEMMA DeliverMaps ==
  ASSUME PermInv, NEW r \in Requests, Deliver(r)
  PROVE  Contract!Next
<1> DEFINE x == IF stage[r] = "declined" THEN "retired" ELSE "responded"
<1>1. /\ PermTypeOK /\ stage[r] \in {"declined", "committed"}
      /\ UNCHANGED <<adm, resolution, closed, generation, turns>>
      /\ stage' = [stage EXCEPT ![r] = x]
  BY DEF PermInv, Deliver
<1>2. x \in {"retired", "responded"}
  OBVIOUS
<1>3. resolution' \in [Requests -> Resolutions \cup {"none"}]
  BY <1>1 DEF PermTypeOK
<1> HIDE DEF x
<1>4. /\ cState' = [cState EXCEPT ![r] = RequestState(r)']
      /\ cOwner' = cOwner /\ cCounts' = cCounts /\ stage'[r] = x
  BY <1>1, <1>3, OneMoves
<1>5. RequestState(r)' = "answered"
  BY <1>2, <1>4 DEF RequestState
<1>6. cState[r] \in {"selected", "declined"} /\ cTurn' = cTurn
  BY <1>1, SameTurns DEF cState, RequestState
<1> QED
  BY <1>4, <1>5, <1>6, AsAnswer

-----------------------------------------------------------------------------
(* The lifecycle calls, as the contract sees them. *)

\* A turn whose admission is closed, or that is revoked, no longer accepts.
LEMMA ShutFacts ==
  ASSUME NEW t \in Turn
  PROVE  /\ ShutTurn(t).present = t.present /\ ~ShutTurn(t).active
         /\ RevokeTurn(t).present = t.present /\ ~RevokeTurn(t).active
BY DEF ShutTurn, RevokeTurn, CloseDone, Turn

\* Shutting the turn of the current generation revokes it.
LEMMA OneRevoked ==
  ASSUME PermInv, HasTurn(generation), UNCHANGED <<closed, generation, stage, resolution, adm>>,
         NEW t, turns' = [turns EXCEPT ![generation] = t], t.present,
         ~t.active \/ t.canceled
  PROVE  Contract!Next
<1>1. turns \in [Turns -> Turn] /\ generation \in Turns /\ turns[generation].present
  BY DEF PermInv, PermTypeOK, HasTurn
<1>2. \A g \in Turns : turns'[g] = IF g = generation THEN t ELSE turns[g]
  BY <1>1
<1>3. generation <= generation /\ ~(generation > generation)
  BY <1>1 DEF Turns
<1>4. TurnState(generation)' = "revoked" /\ TurnState(generation) \in {"accepting", "revoked"}
  BY <1>1, <1>2, <1>3 DEF TurnState
<1>5. \A g \in Turns : g # generation => TurnState(g)' = TurnState(g)
  BY <1>2 DEF TurnState
<1>6. cTurn' = [g \in Turns |-> IF g \in {generation} /\ cTurn[g] = "accepting"
                                THEN "revoked" ELSE cTurn[g]]
  BY <1>1, <1>4, <1>5 DEF cTurn
<1>7. {generation} \in SUBSET Turns
  BY <1>1
<1> QED
  BY <1>6, <1>7, SameRequests, AsRevoke

\* Closing the admission of the current turn revokes it.
LEMMA CloseAdmissionMaps ==
  ASSUME PermInv, HasTurn(generation), CloseAdmissionOf(generation),
         UNCHANGED <<closed, generation, stage, resolution, adm>>
  PROVE  Contract!Next
<1>1. turns' = [turns EXCEPT ![generation] = ShutTurn(turns[generation])]
  BY DEF CloseAdmissionOf
<1>2. turns[generation] \in Turn /\ turns[generation].present
  BY DEF PermInv, PermTypeOK, HasTurn
<1>3. ShutTurn(turns[generation]).present /\ ~ShutTurn(turns[generation]).active
  BY <1>2, ShutFacts
<1> QED
  BY <1>1, <1>3, OneRevoked

\* The reader closes admission.
LEMMA CloseTurnAdmissionMaps ==
  ASSUME PermInv, CloseTurnAdmission
  PROVE  Contract!Next \/ UNCHANGED Contract!contractVars
<1>1. UNCHANGED <<closed, generation, stage, resolution, adm>>
  BY DEF CloseTurnAdmission
<1>2. CASE HasTurn(generation)
  BY <1>1, <1>2, CloseAdmissionMaps DEF CloseTurnAdmission
<1>3. CASE ~HasTurn(generation)
  BY <1>1, <1>3, ElsewhereMaps DEF CloseTurnAdmission
<1> QED
  BY <1>2, <1>3

\* EndTurn, up to its wait.
LEMMA EndTurnMaps ==
  ASSUME PermInv, EndTurn
  PROVE  Contract!Next \/ UNCHANGED Contract!contractVars
<1>1. UNCHANGED <<closed, generation, stage, resolution, adm>>
  BY DEF EndTurn
<1>2. CASE HasTurn(generation)
  BY <1>1, <1>2, CloseAdmissionMaps DEF EndTurn
<1>3. CASE ~HasTurn(generation)
  BY <1>1, <1>3, ElsewhereMaps DEF EndTurn
<1> QED
  BY <1>2, <1>3

\* CancelTurn revokes the current turn.
LEMMA CancelTurnMaps ==
  ASSUME PermInv, CancelTurn
  PROVE  Contract!Next \/ UNCHANGED Contract!contractVars
<1>1. UNCHANGED <<closed, generation, stage, resolution, adm>>
  BY DEF CancelTurn
<1>2. CASE HasTurn(generation)
  <2> DEFINE t == [turns[generation] EXCEPT !.canceled = TRUE]
  <2>1. turns[generation] \in Turn /\ turns[generation].present /\ turns \in [Turns -> Turn]
    BY <1>2 DEF PermInv, PermTypeOK, HasTurn
  <2>2. t.present /\ t.canceled
    BY <2>1 DEF Turn
  <2>3. turns' = [turns EXCEPT ![generation] = t]
    BY <1>2, <2>1 DEF CancelTurn
  <2> HIDE DEF t
  <2> QED
    BY <1>1, <1>2, <2>2, <2>3, OneRevoked
<1>3. CASE ~HasTurn(generation)
  BY <1>1, <1>3, ElsewhereMaps DEF CancelTurn
<1> QED
  BY <1>2, <1>3

\* Close revokes every turn.
LEMMA CloseMaps ==
  ASSUME PermInv, Close
  PROVE  Contract!Next
<1>1. /\ UNCHANGED <<generation, stage, resolution, adm>> /\ closed'
      /\ turns' = [g \in Turns |-> IF turns[g].present THEN RevokeTurn(turns[g]) ELSE turns[g]]
  BY DEF Close
<1>2. turns \in [Turns -> Turn]
  BY DEF PermInv, PermTypeOK
<1>3. \A g \in Turns : turns'[g].present = turns[g].present
  BY <1>1, <1>2, ShutFacts
<1>4. \A g \in Turns : TurnState(g)' = IF TurnState(g) = "accepting" THEN "revoked" ELSE TurnState(g)
  BY <1>1, <1>3 DEF TurnState
<1>5. cTurn' = [g \in Turns |-> IF g \in Turns /\ cTurn[g] = "accepting" THEN "revoked" ELSE cTurn[g]]
  BY <1>4 DEF cTurn
<1>6. Turns \in SUBSET Turns
  OBVIOUS
<1> QED
  BY <1>1, <1>5, <1>6, SameRequests, AsRevoke

\* BeginTurn opens a turn and revokes the one before.
LEMMA BeginTurnMaps ==
  ASSUME PermInv, BeginTurn
  PROVE  Contract!Next
<1>0. PICK next : next = generation + 1
  OBVIOUS
<1> DEFINE s == IF closed THEN "revoked" ELSE "accepting"
<1>1. /\ UNCHANGED <<closed, stage, resolution, adm>> /\ generation' = next
      /\ turns' = [g \in Turns |-> IF g = next THEN NewTurn
                     ELSE IF g = generation /\ HasTurn(g) /\ turns[g].active
                          THEN RevokeTurn(turns[g]) ELSE turns[g]]
  BY <1>0 DEF BeginTurn
<1>2. /\ turns \in [Turns -> Turn] /\ generation \in Nat /\ next \in Turns /\ MaxTurns \in Nat
  BY <1>0, PermissionConstants DEF PermInv, PermTypeOK, BeginTurn, Turns
<1>3. NewTurn.present /\ NewTurn.active /\ ~NewTurn.canceled
  BY DEF NewTurn, NoTurn
<1>4. TurnState(next) = "future" /\ TurnState(next)' = s
  BY <1>0, <1>1, <1>2, <1>3 DEF TurnState
<1>5. ASSUME NEW h \in Turns, h # next
      PROVE  TurnState(h)' = IF TurnState(h) = "accepting" THEN "revoked" ELSE TurnState(h)
  <2>1. h \in Nat /\ generation \in Nat /\ (h > next <=> h > generation)
    BY <1>0, <1>2, <1>5 DEF Turns
  <2>2. CASE h = generation /\ turns[h].active /\ turns[h].present
    <3>1. turns'[h] = RevokeTurn(turns[h])
      BY <1>1, <2>1, <2>2, <1>5 DEF HasTurn
    <3>2. turns'[h].present /\ ~turns'[h].active
      BY <1>2, <2>2, <3>1, ShutFacts
    <3> QED
      BY <1>1, <2>1, <2>2, <3>2 DEF TurnState
  <2>3. CASE ~(h = generation /\ turns[h].active /\ turns[h].present)
    <3>1. turns'[h] = turns[h]
      BY <1>1, <1>5, <2>3 DEF HasTurn
    <3>2. turns[h].active => turns[h].present /\ ~turns[h].ending
      BY DEF PermInv, TurnShape, TurnWellFormed
    <3>3. TurnState(h) # "accepting"
      <4>1. CASE h > generation
        BY <4>1 DEF TurnState
      <4>2. CASE h < generation
        BY <2>1, <3>2, <4>2 DEF PermInv, TurnShape, TurnState
      <4>3. CASE h = generation
        BY <2>1, <2>3, <3>2, <4>3 DEF TurnState
      <4> QED
        BY <2>1, <4>1, <4>2, <4>3
    <3> QED
      BY <1>1, <2>1, <3>1, <3>3 DEF TurnState
  <2> QED
    BY <2>2, <2>3
<1>6. s \in {"accepting", "revoked"}
  OBVIOUS
<1> HIDE DEF s
<1>7. cTurn' = [h \in Turns |-> IF h = next THEN s
                                ELSE IF cTurn[h] = "accepting" THEN "revoked" ELSE cTurn[h]]
  BY <1>4, <1>5 DEF cTurn
<1>8. cTurn[next] = "future"
  BY <1>2, <1>4 DEF cTurn
<1> QED
  BY <1>1, <1>2, <1>6, <1>7, <1>8, SameRequests, AsOpen

\* EndTurn returns: the turn is over and its requests are answered.
LEMMA EndTurnReturnMaps ==
  ASSUME PermInv, NEW g \in Turns, EndTurnReturn(g)
  PROVE  Contract!Next \/ UNCHANGED Contract!contractVars
<1>1. /\ UNCHANGED <<closed, generation, stage, resolution, adm>>
      /\ turns' = [turns EXCEPT ![g].present = FALSE]
      /\ g \in ending /\ turns[g].doneClosed
  BY DEF EndTurnReturn
<1>2. turns \in [Turns -> Turn] /\ adm \in [Requests -> Admission] /\ stage \in [Requests -> Stages]
  BY DEF PermInv, PermTypeOK
<1>3. /\ \A h \in Turns : h # g => turns'[h] = turns[h]
      /\ ~turns'[g].present /\ turns'[g].active = turns[g].active
      /\ turns'[g].canceled = turns[g].canceled
  BY <1>1, <1>2 DEF Turn
<1>4. g <= generation /\ ~(g > generation) /\ turns[g].ending /\ ~turns[g].active
  BY <1>1, PermissionConstants DEF PermInv, PermTypeOK, TurnShape, TurnWellFormed, Turns
<1>5. CASE ~turns[g].present
  <2>1. \A h \in Turns : /\ turns'[h].present = turns[h].present
                         /\ turns'[h].active = turns[h].active
                         /\ turns'[h].canceled = turns[h].canceled
    <3>1. turns'[g].present = turns[g].present
      BY <1>1, <1>2, <1>5 DEF Turn
    <3> QED
      BY <1>3, <3>1
  <2> QED
    BY <1>1, <2>1, SameTurns, SameRequests, AsNothing
<1>6. CASE turns[g].present
  <2>1. TurnState(g) = "revoked" /\ TurnState(g)' = "over"
    BY <1>1, <1>3, <1>4, <1>6 DEF TurnState
  <2>2. \A h \in Turns : h # g => TurnState(h)' = TurnState(h)
    BY <1>1, <1>3 DEF TurnState
  <2>3. cTurn[g] = "revoked" /\ cTurn' = [cTurn EXCEPT ![g] = "over"]
    BY <2>1, <2>2 DEF cTurn
  <2>4. Counted(g) = {}
    <3>1. Cardinality(Counted(g)) = 0
      BY <1>1 DEF PermInv, CountersExact, TurnShape, TurnWellFormed
    <3>2. Counted(g) \in SUBSET Requests
      BY DEF Counted
    <3> QED
      BY <3>1, <3>2, RequestSets
  <2>5. ASSUME NEW r \in cCounts, cOwner[r] = g
        PROVE  cState[r] = "answered"
    <3>1. r \in Requests /\ adm[r].counted
      BY DEF cCounts
    <3>2. adm[r].activeTurn /\ stage[r] # "unsent"
      BY <3>1 DEF PermInv, AdmissionShape
    <3>3. adm[r].generation = g
      BY <2>5, <3>1, <3>2 DEF cOwner
    <3>4. stage[r] \notin InFlight /\ stage[r] \in Stages
      BY <1>2, <2>4, <3>1, <3>3 DEF Counted
    <3>5. stage[r] \in {"completed", "done"}
      BY <3>2, <3>4 DEF InFlight, Stages
    <3> QED
      BY <3>1, <3>5 DEF cState, RequestState
  <2> QED
    BY <1>1, <2>3, <2>5, SameRequests, AsEnd
<1> QED
  BY <1>5, <1>6

-----------------------------------------------------------------------------

\* The initial states agree.
LEMMA InitMaps == PermInit => Contract!Init
<1> SUFFICES ASSUME PermInit PROVE Contract!Init
  OBVIOUS
<1>1. \A g \in Turns : TurnState(g) = "future"
  BY PermissionConstants DEF PermInit, TurnState, Turns
<1>2. \A r \in Requests : RequestState(r) = "unsent" /\ ~adm[r].activeTurn /\ ~adm[r].counted
  BY DEF PermInit, RequestState, NoAdmission
<1> QED
  BY <1>1, <1>2 DEF Contract!Init, Contract!Turns, Turns

\* Whatever the client calls, in whatever order, the coordinator keeps the
\* contract: every step of a goroutine or a lifecycle call is one step of
\* PermissionContract or none.
THEOREM CoordinatorKeepsContract == PermSpec => ImplementsContract
<1>1. PermInv /\ [PermNext]_permVars => [Contract!Next]_(Contract!contractVars)
  <2> SUFFICES ASSUME PermInv, [PermNext]_permVars
               PROVE  Contract!Next \/ UNCHANGED Contract!contractVars
    OBVIOUS
  <2>1. CASE LifecycleStep
    <3>1. CASE SetSessionID
      BY <3>1, ElsewhereMaps DEF SetSessionID
    <3>2. ASSUME NEW c, TakeGate(c) \/ LeaveGate(c) PROVE UNCHANGED Contract!contractVars
      BY <3>2, ElsewhereMaps DEF TakeGate, LeaveGate
    <3> QED
      BY <2>1, <3>1, <3>2, BeginTurnMaps, CloseTurnAdmissionMaps, EndTurnMaps, EndTurnReturnMaps,
         CancelTurnMaps, CloseMaps DEF LifecycleStep
  <2>2. ASSUME NEW r \in Requests, RequestStep(r)
        PROVE  Contract!Next \/ UNCHANGED Contract!contractVars
    <3>1. ASSUME NEW a, ResponderReturn(r, a) PROVE UNCHANGED Contract!contractVars
      BY <3>1, ElsewhereMaps DEF ResponderReturn
    <3>2. CASE ReleaseCallback(r)
      BY <3>2, ElsewhereMaps DEF ReleaseCallback
    <3> QED
      BY <2>2, <3>1, <3>2, AdmitMaps, RespondMaps, OnAdmissionMaps, DeclineMaps, AskMaps, WakeMaps,
         LockGateMaps, CommitMaps, DeliverMaps, RetireMaps, CompleteMaps, AfterMaps DEF RequestStep
  <2>3. CASE UNCHANGED permVars
    BY <2>3, ElsewhereMaps DEF permVars
  <2> QED
    BY <2>1, <2>2, <2>3 DEF PermNext
<1> QED
  BY <1>1, InitMaps, PermSafety, PTL DEF PermSpec, ImplementsContract, Contract!Spec

================================================================================
