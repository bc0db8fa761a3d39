---------------------------- MODULE AcpSessionProofs ----------------------------
(***************************************************************************)
(* Proofs about managed sessions, for any launches of an id, any number of *)
(* prompts and any channel capacity, agent and host.                       *)
(*                                                                         *)
(* A step belongs to one session and leaves the others as they are, so the *)
(* inductive invariant is stated of one session (Consistent) and a lemma   *)
(* for each action shows that the session's own step keeps it.             *)
(***************************************************************************)
EXTENDS AcpSession, Integers, TLAPS

\* What a step of another session leaves alone.
Same(t) ==
  /\ registered' = t <=> registered = t
  /\ sess'[t] = sess[t] /\ launching'[t] = launching[t] /\ drain'[t] = drain[t]
  /\ finishing'[t] = finishing[t] /\ clientClose'[t] = clientClose[t]
  /\ prompting'[t] = prompting[t] /\ prompts'[t] = prompts[t]
  /\ diagnosing'[t] = diagnosing[t] /\ channels'[t] = channels[t]
  /\ published'[t] = published[t] /\ client'[t] = client[t] /\ chan'[t] = chan[t]

OthersSame(s) == \A t \in Sessions \ {s} : Same(t)

EndingKept(s) == NothingDropped /\ sess[s].finished => EndingIsCause(s)

\* The inductive invariant is TypeOK and this of every session.
Consistent(s) ==
  /\ FinishInOrder(s) /\ IdHeld(s) /\ TurnsAfterCommit(s)
  /\ ClientEndsInOrder(s) /\ RoomLeft(s) /\ CauseKept(s) /\ EndingKept(s)

--------------------------------------------------------------------------------
(***************************************************************************)
(* Lemmas about the operators.                                             *)
(***************************************************************************)

\* observeEvent changes the state only after the commit or on an event of a turn,
\* and records an exit, with an error when it has one.
LEMMA ObserveFacts ==
  ASSUME NEW f \in Fields, NEW e \in EventKinds
  PROVE  /\ Observe(f, e) \in Fields
         /\ Observe(f, e).closeRequested = f.closeRequested
         /\ Observe(f, e).launchCommitted = f.launchCommitted
         /\ Observe(f, e).finished = f.finished
         /\ Observe(f, e).state # f.state => f.launchCommitted \/ e \in {"started", "completed", "failed"}
         /\ Observe(f, e).sawProcessExit = (f.sawProcessExit \/ e \in {"exit", "exitError"})
         /\ Observe(f, e).err = IF e = "exitError" THEN "child_exit" ELSE f.err
         /\ Observe(f, e).terminalOutcome = IF e = "exitError" THEN "child_exit"
                                            ELSE f.terminalOutcome
<1>1. CASE e = "ready"
  BY <1>1 DEF Observe, Fields, States
<1>2. CASE e \in {"completed", "failed"}
  BY <1>2 DEF Observe, Fields, States
<1>3. CASE e = "started"
  BY <1>3 DEF Observe, Fields, States
<1>4. CASE e = "exit"
  BY <1>4 DEF Observe, Fields
<1>5. CASE e = "exitError"
  BY <1>5 DEF Observe, Fields, Outcomes
<1> QED
  BY <1>1, <1>2, <1>3, <1>4, <1>5 DEF EventKinds

\* The terminal classification: a requested close, else malformed input, else an
\* error, else the exit, else a disconnect.
LEMMA ClassifyFacts ==
  ASSUME NEW f \in Fields
  PROVE  /\ Classify(f) \in Fields /\ Classify(f).finished
         /\ Classify(f).state \in {"closed", "failed"}
         /\ Classify(f).closeRequested = f.closeRequested
         /\ Classify(f).launchCommitted = f.launchCommitted
         /\ Classify(f).sawMalformed = f.sawMalformed
         /\ Classify(f).sawProcessExit = f.sawProcessExit
         /\ f.closeRequested => Classify(f).terminalOutcome = "closed"
         /\ ~f.closeRequested =>
              /\ Classify(f).terminalOutcome = IF f.sawMalformed THEN "malformed_stream"
                                               ELSE IF f.err # "" THEN f.terminalOutcome
                                               ELSE IF f.sawProcessExit THEN "child_exit"
                                               ELSE "disconnected"
              /\ Classify(f).err = IF f.sawMalformed THEN "malformed_stream"
                                   ELSE IF f.err # "" THEN f.err
                                   ELSE IF f.sawProcessExit THEN "" ELSE "disconnected"
<1>1. CASE f.closeRequested
  BY <1>1 DEF Classify, Fields, States, Outcomes
<1>2. CASE ~f.closeRequested /\ f.sawMalformed
  BY <1>2 DEF Classify, Fields, States, Outcomes
<1>3. CASE ~f.closeRequested /\ ~f.sawMalformed /\ f.err # ""
  BY <1>3 DEF Classify, Fields, States, Outcomes
<1>4. CASE ~f.closeRequested /\ ~f.sawMalformed /\ f.err = "" /\ f.sawProcessExit
  BY <1>4 DEF Classify, Fields, States, Outcomes
<1>5. CASE ~f.closeRequested /\ ~f.sawMalformed /\ f.err = "" /\ ~f.sawProcessExit
  BY <1>5 DEF Classify, Fields, States, Outcomes
<1> QED
  BY <1>1, <1>2, <1>3, <1>4, <1>5

\* emit appends an event to the channel, or drops it when the channel is full.
LEMMA SendFacts ==
  ASSUME TypeOK, NEW s \in Sessions, NEW e \in EventKinds, Send(s, e)
  PROVE  /\ chan' \in [Sessions -> Seq(EventKinds)]
         /\ \A t \in Sessions : Len(chan'[t]) <= ChanCap
         /\ \A t \in Sessions \ {s} : chan'[t] = chan[t]
         /\ Len(chan[s]) \in Nat /\ Len(chan'[s]) \in Nat /\ Len(chan'[s]) <= Len(chan[s]) + 1
         /\ \A i \in 1..Len(chan'[s]) :
              (i \in 1..Len(chan[s]) /\ chan'[s][i] = chan[s][i]) \/ chan'[s][i] = e
         /\ \A i \in 1..Len(chan[s]) : i \in 1..Len(chan'[s]) /\ chan'[s][i] = chan[s][i]
         /\ Len(chan[s]) < ChanCap => \E i \in 1..Len(chan'[s]) : chan'[s][i] = e
<1>1. /\ chan \in [Sessions -> Seq(EventKinds)] /\ chan[s] \in Seq(EventKinds)
      /\ \A t \in Sessions : Len(chan[t]) <= ChanCap
  BY DEF TypeOK
<1>2. CASE Len(chan[s]) < ChanCap
  <2>1. chan' = [chan EXCEPT ![s] = Append(@, e)]
    BY <1>2 DEF Send
  <2>2. \A t \in Sessions : chan'[t] = IF t = s THEN Append(chan[s], e) ELSE chan[t]
    BY <1>1, <2>1
  <2>3. /\ Append(chan[s], e) \in Seq(EventKinds)
        /\ Len(Append(chan[s], e)) = Len(chan[s]) + 1 /\ Len(chan[s]) \in Nat
    BY <1>1
  <2>4. \A i \in 1..Len(chan[s]) + 1 :
          Append(chan[s], e)[i] = IF i = Len(chan[s]) + 1 THEN e ELSE chan[s][i]
    BY <1>1, <2>3
  <2>5. chan' \in [Sessions -> Seq(EventKinds)] /\ \A t \in Sessions : Len(chan'[t]) <= ChanCap
    BY <1>1, <1>2, <2>1, <2>2, <2>3, SessionConstants
  <2>6. chan'[s] = Append(chan[s], e)
    BY <2>2
  <2>7. Len(chan[s]) + 1 \in 1..Len(chan'[s]) /\ chan'[s][Len(chan[s]) + 1] = e
    BY <2>3, <2>4, <2>6
  <2> QED
    BY <2>2, <2>3, <2>4, <2>5, <2>6, <2>7
<1>3. CASE ~(Len(chan[s]) < ChanCap)
  <2>1. chan' = chan
    BY <1>3 DEF Send
  <2> QED
    BY <1>1, <1>3, <2>1
<1> QED
  BY <1>2, <1>3

\* The events to come are a number.
LEMMA ToComeNat ==
  ASSUME NEW la, NEW pr, NEW c
  PROVE  EventsToCome(la, pr, c) \in Nat
<1>1. /\ Count(la \in {"idle", "duplicate", "calling"}, 1) \in Nat
      /\ Count(pr = "calling", 2) \in Nat
      /\ Count(c.turn # 0, 1) \in Nat /\ Count(c.ending # 0, 1) \in Nat
      /\ Count(c.child \in {"none", "live"}, 1) \in Nat
  BY DEF Count
<1> QED
  BY <1>1 DEF EventsToCome

\* The arithmetic of the next lemma.
LEMMA Sums ==
  ASSUME NEW m \in Nat, NEW n \in Nat, NEW n2 \in Nat, NEW p \in Nat, NEW p2 \in Nat,
         NEW x \in Nat, NEW y \in Nat,
         n + 2 * (m - p) + x <= 2 * m + 2, n2 + 2 * p + y <= n + 2 * p2 + x
  PROVE  n2 + 2 * (m - p2) + y <= 2 * m + 2
  OBVIOUS

\* A step leaves no more events to come when what it adds to the channel it takes
\* from the launch, the prompt or the client.
LEMMA RoomKept ==
  ASSUME TypeOK, TypeOK', NEW s \in Sessions, RoomLeft(s),
         Len(chan'[s]) + 2 * prompts[s] + EventsToCome(launching[s], prompting[s], client[s])'
         <= Len(chan[s]) + 2 * prompts'[s] + EventsToCome(launching[s], prompting[s], client[s])
  PROVE  RoomLeft(s)'
<1> DEFINE x == EventsToCome(launching[s], prompting[s], client[s])
           y == EventsToCome(launching'[s], prompting'[s], client'[s])
<1>1. /\ Len(chan[s]) \in Nat /\ Len(chan'[s]) \in Nat /\ MaxPrompts \in Nat
      /\ prompts[s] \in Nat /\ prompts'[s] \in Nat
  <2>1. chan[s] \in Seq(EventKinds) /\ chan'[s] \in Seq(EventKinds)
    BY DEF TypeOK
  <2>2. prompts[s] \in 0..MaxPrompts /\ prompts'[s] \in 0..MaxPrompts
    BY DEF TypeOK
  <2> QED
    BY <2>1, <2>2, SessionConstants
<1>2. x \in Nat /\ y \in Nat
  BY ToComeNat
<1>3. Len(chan[s]) + 2 * (MaxPrompts - prompts[s]) + x <= 2 * MaxPrompts + 2
  BY DEF RoomLeft, EventsLeft
<1>4. Len(chan'[s]) + 2 * prompts[s] + y <= Len(chan[s]) + 2 * prompts'[s] + x
  OBVIOUS
<1> HIDE DEF x, y
<1>5. Len(chan'[s]) + 2 * (MaxPrompts - prompts'[s]) + y <= 2 * MaxPrompts + 2
  BY <1>1, <1>2, <1>3, <1>4, Sums
<1> QED
  BY <1>5 DEF RoomLeft, EventsLeft, x, y

LEMMA OneSent ==
  ASSUME NEW n \in Nat, NEW n2 \in Nat, NEW p \in Nat, NEW x \in Nat, NEW y \in Nat,
         n2 <= n + 1, y + 1 = x
  PROVE  n2 + 2 * p + y <= n + 2 * p + x
  OBVIOUS

\* So it is with a step that sends one event of those to come.
LEMMA EventSent ==
  ASSUME TypeOK, TypeOK', NEW s \in Sessions, RoomLeft(s),
         Len(chan'[s]) <= Len(chan[s]) + 1, prompts'[s] = prompts[s],
         EventsToCome(launching[s], prompting[s], client[s])' + 1 =
           EventsToCome(launching[s], prompting[s], client[s])
  PROVE  RoomLeft(s)'
<1> DEFINE x == EventsToCome(launching[s], prompting[s], client[s])
           y == EventsToCome(launching'[s], prompting'[s], client'[s])
<1>1. chan[s] \in Seq(EventKinds) /\ chan'[s] \in Seq(EventKinds) /\ prompts[s] \in 0..MaxPrompts
  BY DEF TypeOK
<1>2. x \in Nat /\ y \in Nat
  BY ToComeNat
<1>3. y + 1 = x
  OBVIOUS
<1> HIDE DEF x, y
<1>4. /\ Len(chan[s]) \in Nat /\ Len(chan'[s]) \in Nat /\ prompts[s] \in Nat
      /\ Len(chan'[s]) <= Len(chan[s]) + 1
  BY <1>1, SessionConstants
<1>5. Len(chan'[s]) + 2 * prompts[s] + y <= Len(chan[s]) + 2 * prompts[s] + x
  BY <1>2, <1>3, <1>4, OneSent
<1> QED
  BY <1>5, RoomKept DEF x, y

\* A step that changes neither the channel, the child's end nor what the session
\* knows of it keeps the cause known ...
LEMMA CauseStays ==
  ASSUME NEW s \in Sessions, CauseKept(s),
         chan'[s] = chan[s], client'[s].child = client[s].child,
         sess'[s].sawProcessExit = sess[s].sawProcessExit,
         sess'[s].finished = sess[s].finished,
         sess'[s].err = sess[s].err, sess'[s].terminalOutcome = sess[s].terminalOutcome,
         launching'[s] \in {"aborting", "finishing", "failed"} =>
           \/ sess'[s].closeRequested
           \/ /\ launching[s] \in {"aborting", "finishing", "failed"}
              /\ sess'[s].closeRequested = sess[s].closeRequested
  PROVE  CauseKept(s)'
<1>1. \A i \in 1..Len(chan'[s]) :
        chan'[s][i] \in {"exit", "exitError"} => client'[s].child = chan'[s][i]
  BY DEF CauseKept
<1>2. NothingDropped' /\ client'[s].child \in {"exit", "exitError"} =>
        sess'[s].sawProcessExit \/ sess'[s].finished
        \/ \E i \in 1..Len(chan'[s]) : chan'[s][i] = client'[s].child
  BY DEF CauseKept, NothingDropped
<1>3. launching'[s] \in {"aborting", "finishing", "failed"} => sess'[s].closeRequested
  BY DEF CauseKept
<1>4. /\ sess'[s].sawProcessExit => client'[s].child \in {"exit", "exitError"}
      /\ ~sess'[s].finished =>
           /\ sess'[s].terminalOutcome = sess'[s].err
           /\ sess'[s].err = IF sess'[s].sawProcessExit /\ client'[s].child = "exitError"
                             THEN "child_exit" ELSE ""
  BY DEF CauseKept
<1> QED
  BY <1>1, <1>2, <1>3, <1>4 DEF CauseKept

\* ... and one that leaves a finished session's ending alone, or has found it
\* unfinished, keeps the ending.
LEMMA EndingStays ==
  ASSUME NEW s \in Sessions, EndingKept(s),
         sess'[s].finished = sess[s].finished,
         sess[s].finished =>
           /\ sess[s].state \in {"closed", "failed"} => sess'[s].state = sess[s].state
           /\ sess'[s].err = sess[s].err /\ sess'[s].terminalOutcome = sess[s].terminalOutcome
           /\ client'[s].child = client[s].child
           /\ sess'[s].sawMalformed = sess[s].sawMalformed \/ sess[s].closeRequested
           /\ sess'[s].closeRequested = sess[s].closeRequested \/ sess'[s].closeRequested
           /\ launching'[s] \in {"finishing", "failed"} => launching[s] \in {"finishing", "failed"}
  PROVE  EndingKept(s)'
<1>1. SUFFICES ASSUME NothingDropped, sess[s].finished PROVE EndingIsCause(s)'
  BY DEF EndingKept, NothingDropped
<1>2. EndingIsCause(s)
  BY <1>1 DEF EndingKept
<1> QED
  BY <1>1, <1>2 DEF EndingIsCause

\* A step of another session changes nothing of what is consistent about this one.
LEMMA SameKeeps ==
  ASSUME NEW s \in Sessions, Consistent(s), Same(s)
  PROVE  Consistent(s)'
<1> USE DEF Same, Consistent
<1>1. FinishInOrder(s)' /\ IdHeld(s)' /\ TurnsAfterCommit(s)' /\ ClientEndsInOrder(s)'
  BY DEF FinishInOrder, IdHeld, TurnsAfterCommit, ClientEndsInOrder, Known
<1>2. EventsLeft(s)' = EventsLeft(s)
  BY DEF EventsLeft
<1>3. RoomLeft(s)'
  BY <1>2 DEF RoomLeft
<1>4. CauseKept(s)'
  BY CauseStays
<1>5. EndingKept(s)'
  BY EndingStays
<1> QED
  BY <1>1, <1>3, <1>4, <1>5

--------------------------------------------------------------------------------
(***************************************************************************)
(* Launch.                                                                 *)
(***************************************************************************)

\* The id is free, and reserved ...
LEMMA ReserveKeeps ==
  ASSUME TypeOK, NEW s \in Sessions, Consistent(s), Register(s),
         registered = None
  PROVE  TypeOK' /\ Consistent(s)' /\ OthersSame(s)
<1> DEFINE d == [drain[s] EXCEPT !.at = "reading"]
           c == [client[s] EXCEPT !.child = "live"]
<1>1. UNCHANGED <<sess, finishing, clientClose, hostClose, prompting, prompts, canceling,
                  diagnosing, channels, published, chan>>
  BY DEF Register, hostVars
<1>2. /\ launching[s] = "idle"
      /\ registered' = s
      /\ launching' = [launching EXCEPT ![s] = "calling"]
      /\ drain' = [drain EXCEPT ![s] = d]
      /\ client' = [client EXCEPT ![s] = c]
  BY DEF Register
<1>3. /\ d \in DrainStates
      /\ c \in ClientStates
      /\ d.at = "reading"
      /\ c.child = "live"
      /\ d.event = drain[s].event
      /\ c.turn = client[s].turn
      /\ c.ending = client[s].ending
      /\ c.eof = client[s].eof
  <2>1. drain[s] \in DrainStates /\ client[s] \in ClientStates
    BY DEF TypeOK
  <2> QED
    BY <2>1, SessionConstants DEF DrainStates, ClientStates, Fates
<1> HIDE DEF d, c
<1>4. TypeOK'
  BY <1>1, <1>2, <1>3, SessionConstants DEF TypeOK, LaunchStages
<1>5. OthersSame(s)
  BY <1>1, <1>2, SessionConstants DEF TypeOK, OthersSame, Same
<1>6. launching'[s] = "calling" /\ drain'[s] = d /\ client'[s] = c
  BY <1>2 DEF TypeOK
<1>7. FinishInOrder(s)' /\ IdHeld(s)'
  BY <1>1, <1>2, <1>3, <1>6, SessionConstants DEF Consistent, FinishInOrder, IdHeld, Known
<1>8. TurnsAfterCommit(s)'
  BY <1>1, <1>2, <1>3, <1>6 DEF Consistent, TurnsAfterCommit, FinishInOrder
<1>9. ClientEndsInOrder(s)'
  BY <1>1, <1>2, <1>3, <1>6 DEF Consistent, ClientEndsInOrder, FinishInOrder, TypeOK, Known, Fates
<1>10. RoomLeft(s)'
  <2>1. client[s].child = "none"
    BY <1>2 DEF Consistent, ClientEndsInOrder, Known
  <2>2. EventsToCome(launching[s], prompting[s], client[s])' =
          EventsToCome(launching[s], prompting[s], client[s])
    BY <1>1, <1>2, <1>3, <1>6, <2>1 DEF EventsToCome, Count
  <2> QED
    BY <2>2, <1>1 DEF Consistent, RoomLeft, EventsLeft
<1>11. CauseKept(s)'
  <2>1. client[s].child = "none"
    BY <1>2 DEF Consistent, ClientEndsInOrder, Known
  <2> QED
    BY <1>1, <1>2, <1>3, <1>6, <2>1 DEF Consistent, CauseKept, FinishInOrder, NothingDropped
<1>12. EndingKept(s)'
  <2>1. ~sess[s].finished
    BY <1>2 DEF Consistent, FinishInOrder
  <2> QED
    BY <1>1, <1>2, <1>3, <1>6, <2>1 DEF EndingKept
<1> QED
  BY <1>4, <1>5, <1>7, <1>8, <1>9, <1>10, <1>11, <1>12 DEF Consistent

\* ... or taken.
LEMMA RefuseKeeps ==
  ASSUME TypeOK, NEW s \in Sessions, Consistent(s), Register(s),
         registered # None
  PROVE  TypeOK' /\ Consistent(s)' /\ OthersSame(s)
<1>1. UNCHANGED <<registered, sess, drain, finishing, clientClose, hostClose, prompting,
                  prompts, canceling, diagnosing, channels, published, client, chan>>
  BY DEF Register, hostVars
<1>2. /\ launching[s] = "idle"
      /\ launching' = [launching EXCEPT ![s] = "duplicate"]
  BY DEF Register
<1>4. TypeOK'
  BY <1>1, <1>2, SessionConstants DEF TypeOK, LaunchStages
<1>5. OthersSame(s)
  BY <1>1, <1>2, SessionConstants DEF TypeOK, OthersSame, Same
<1>6. launching'[s] = "duplicate"
  BY <1>2 DEF TypeOK
<1>7. FinishInOrder(s)' /\ IdHeld(s)'
  BY <1>1, <1>2, <1>6, SessionConstants DEF Consistent, FinishInOrder, IdHeld, Known
<1>8. TurnsAfterCommit(s)'
  BY <1>1, <1>2, <1>6 DEF Consistent, TurnsAfterCommit, FinishInOrder
<1>9. ClientEndsInOrder(s)'
  BY <1>1, <1>2, <1>6 DEF Consistent, ClientEndsInOrder, FinishInOrder, TypeOK, Known, Fates
<1>10. RoomLeft(s)'
  <2>1. EventsToCome(launching[s], prompting[s], client[s])' =
          EventsToCome(launching[s], prompting[s], client[s])
    BY <1>1, <1>2, <1>6 DEF EventsToCome, Count
  <2> QED
    BY <2>1, <1>1 DEF Consistent, RoomLeft, EventsLeft
<1>11. CauseKept(s)'
  BY <1>1, <1>2, <1>6, CauseStays DEF Consistent
<1>12. EndingKept(s)'
  BY <1>1, <1>2, <1>6, EndingStays DEF Consistent
<1> QED
  BY <1>4, <1>5, <1>7, <1>8, <1>9, <1>10, <1>11, <1>12 DEF Consistent

\* The commit.
LEMMA LaunchCommitKeeps ==
  ASSUME TypeOK, NEW s \in Sessions, Consistent(s), LaunchCommit(s)
  PROVE  TypeOK' /\ Consistent(s)' /\ OthersSame(s)
<1> DEFINE f == [sess[s] EXCEPT !.launchCommitted = TRUE,
                           !.state = IF @ = "launching" THEN "ready" ELSE @]
<1>1. UNCHANGED <<registered, drain, finishing, clientClose, hostClose, prompting, prompts,
                  canceling, diagnosing, channels, published, client, chan>>
  BY DEF LaunchCommit, hostVars
<1>2. /\ launching[s] = "committing"
      /\ sess' = [sess EXCEPT ![s] = f]
      /\ launching' = [launching EXCEPT ![s] = "committed"]
  BY DEF LaunchCommit
<1>3. /\ f \in Fields
      /\ f.launchCommitted
      /\ f.closeRequested = sess[s].closeRequested
      /\ f.sawProcessExit = sess[s].sawProcessExit
      /\ f.sawMalformed = sess[s].sawMalformed
      /\ f.finished = sess[s].finished
      /\ f.err = sess[s].err
      /\ f.terminalOutcome = sess[s].terminalOutcome
  <2>1. sess[s] \in Fields
    BY DEF TypeOK
  <2> QED
    BY <2>1, SessionConstants DEF Fields, States, Outcomes
<1> HIDE DEF f
<1>4. TypeOK'
  BY <1>1, <1>2, <1>3, SessionConstants DEF TypeOK, LaunchStages
<1>5. OthersSame(s)
  BY <1>1, <1>2, SessionConstants DEF TypeOK, OthersSame, Same
<1>6. sess'[s] = f /\ launching'[s] = "committed"
  BY <1>2 DEF TypeOK
<1>7. FinishInOrder(s)' /\ IdHeld(s)'
  BY <1>1, <1>2, <1>3, <1>6, SessionConstants DEF Consistent, FinishInOrder, IdHeld, Known
<1>8. TurnsAfterCommit(s)'
  BY <1>1, <1>2, <1>3, <1>6 DEF Consistent, TurnsAfterCommit, FinishInOrder
<1>9. ClientEndsInOrder(s)'
  BY <1>1, <1>2, <1>3, <1>6 DEF Consistent, ClientEndsInOrder, FinishInOrder, TypeOK, Known
<1>10. RoomLeft(s)'
  <2>1. EventsToCome(launching[s], prompting[s], client[s])' =
          EventsToCome(launching[s], prompting[s], client[s])
    BY <1>1, <1>2, <1>3, <1>6 DEF EventsToCome, Count
  <2> QED
    BY <2>1, <1>1 DEF Consistent, RoomLeft, EventsLeft
<1>11. CauseKept(s)'
  BY <1>1, <1>2, <1>3, <1>6, CauseStays DEF Consistent
<1>12. EndingKept(s)'
  <2>1. ~sess[s].finished
    BY <1>2 DEF Consistent, FinishInOrder
  <2> QED
    BY <1>1, <1>2, <1>3, <1>6, <2>1 DEF EndingKept
<1> QED
  BY <1>4, <1>5, <1>7, <1>8, <1>9, <1>10, <1>11, <1>12 DEF Consistent

\* A failed launch or commit.
LEMMA LaunchAbortKeeps ==
  ASSUME TypeOK, NEW s \in Sessions, Consistent(s), LaunchAbort(s)
  PROVE  TypeOK' /\ Consistent(s)' /\ OthersSame(s)
<1> DEFINE f == [sess[s] EXCEPT !.closeRequested = TRUE, !.state = "closing"]
<1>1. UNCHANGED <<registered, drain, finishing, clientClose, hostClose, prompting, prompts,
                  canceling, diagnosing, channels, published, client, chan>>
  BY DEF LaunchAbort, hostVars
<1>2. /\ launching[s] \in {"launchFailed", "committing"}
      /\ sess' = [sess EXCEPT ![s] = f]
      /\ launching' = [launching EXCEPT ![s] = "aborting"]
  BY DEF LaunchAbort
<1>3. /\ f \in Fields
      /\ f.state = "closing" /\ f.closeRequested
      /\ f.sawProcessExit = sess[s].sawProcessExit
      /\ f.sawMalformed = sess[s].sawMalformed
      /\ f.launchCommitted = sess[s].launchCommitted
      /\ f.finished = sess[s].finished
      /\ f.err = sess[s].err
      /\ f.terminalOutcome = sess[s].terminalOutcome
  <2>1. sess[s] \in Fields
    BY DEF TypeOK
  <2> QED
    BY <2>1, SessionConstants DEF Fields, States, Outcomes
<1> HIDE DEF f
<1>4. TypeOK'
  BY <1>1, <1>2, <1>3, SessionConstants DEF TypeOK, LaunchStages
<1>5. OthersSame(s)
  BY <1>1, <1>2, SessionConstants DEF TypeOK, OthersSame, Same
<1>6. sess'[s] = f /\ launching'[s] = "aborting"
  BY <1>2 DEF TypeOK
<1>7. FinishInOrder(s)' /\ IdHeld(s)'
  BY <1>1, <1>2, <1>3, <1>6, SessionConstants DEF Consistent, FinishInOrder, IdHeld, Known
<1>8. TurnsAfterCommit(s)'
  BY <1>1, <1>2, <1>3, <1>6 DEF Consistent, TurnsAfterCommit, FinishInOrder
<1>9. ClientEndsInOrder(s)'
  BY <1>1, <1>2, <1>3, <1>6 DEF Consistent, ClientEndsInOrder, FinishInOrder, TypeOK, Known
<1>10. RoomLeft(s)'
  <2>1. EventsToCome(launching[s], prompting[s], client[s])' =
          EventsToCome(launching[s], prompting[s], client[s])
    BY <1>1, <1>2, <1>3, <1>6 DEF EventsToCome, Count
  <2> QED
    BY <2>1, <1>1 DEF Consistent, RoomLeft, EventsLeft
<1>11. CauseKept(s)'
  BY <1>1, <1>2, <1>3, <1>6, CauseStays DEF Consistent
<1>12. EndingKept(s)'
  <2>1. ~sess[s].finished
    BY <1>2 DEF Consistent, FinishInOrder
  <2> QED
    BY <1>1, <1>2, <1>3, <1>6, <2>1 DEF EndingKept
<1> QED
  BY <1>4, <1>5, <1>7, <1>8, <1>9, <1>10, <1>11, <1>12 DEF Consistent

\* Launch is over: committed ...
LEMMA LaunchReturnsKeeps ==
  ASSUME TypeOK, NEW s \in Sessions, Consistent(s), LaunchDone(s),
         launching[s] = "committed"
  PROVE  TypeOK' /\ Consistent(s)' /\ OthersSame(s)
<1> DEFINE l == [channels[s] EXCEPT !.launchDone = TRUE]
<1>1. UNCHANGED <<registered, sess, drain, finishing, clientClose, hostClose, prompting,
                  prompts, canceling, diagnosing, published, client, chan>>
  BY DEF LaunchDone, hostVars
<1>2. /\ launching[s] = "committed"
      /\ launching' = [launching EXCEPT ![s] = "returned"]
      /\ channels' = [channels EXCEPT ![s] = l]
  BY DEF LaunchDone
<1>3. /\ l \in Latches
      /\ l.launchDone
      /\ l.eventsClosed = channels[s].eventsClosed
      /\ l.diagnosticsClosed = channels[s].diagnosticsClosed
      /\ l.done = channels[s].done
  <2>1. channels[s] \in Latches
    BY DEF TypeOK
  <2> QED
    BY <2>1, SessionConstants DEF Latches
<1> HIDE DEF l
<1>4. TypeOK'
  BY <1>1, <1>2, <1>3, SessionConstants DEF TypeOK, LaunchStages
<1>5. OthersSame(s)
  BY <1>1, <1>2, SessionConstants DEF TypeOK, OthersSame, Same
<1>6. launching'[s] = "returned" /\ channels'[s] = l
  BY <1>2 DEF TypeOK
<1>7. FinishInOrder(s)' /\ IdHeld(s)'
  BY <1>1, <1>2, <1>3, <1>6, SessionConstants DEF Consistent, FinishInOrder, IdHeld, Known
<1>8. TurnsAfterCommit(s)'
  BY <1>1, <1>2, <1>3, <1>6 DEF Consistent, TurnsAfterCommit, FinishInOrder
<1>9. ClientEndsInOrder(s)'
  BY <1>1, <1>2, <1>3, <1>6 DEF Consistent, ClientEndsInOrder, FinishInOrder, TypeOK, Known
<1>10. RoomLeft(s)'
  <2>1. EventsToCome(launching[s], prompting[s], client[s])' =
          EventsToCome(launching[s], prompting[s], client[s])
    BY <1>1, <1>2, <1>3, <1>6 DEF EventsToCome, Count
  <2> QED
    BY <2>1, <1>1 DEF Consistent, RoomLeft, EventsLeft
<1>11. CauseKept(s)'
  BY <1>1, <1>2, <1>3, <1>6, CauseStays DEF Consistent
<1>12. EndingKept(s)'
  BY <1>1, <1>2, <1>3, <1>6, EndingStays DEF Consistent
<1> QED
  BY <1>4, <1>5, <1>7, <1>8, <1>9, <1>10, <1>11, <1>12 DEF Consistent

\* ... or aborted.
LEMMA LaunchGivesUpKeeps ==
  ASSUME TypeOK, NEW s \in Sessions, Consistent(s), LaunchDone(s),
         launching[s] # "committed"
  PROVE  TypeOK' /\ Consistent(s)' /\ OthersSame(s)
<1> DEFINE l == [channels[s] EXCEPT !.launchDone = TRUE]
<1>1. UNCHANGED <<registered, sess, drain, finishing, clientClose, hostClose, prompting,
                  prompts, canceling, diagnosing, published, client, chan>>
  BY DEF LaunchDone, hostVars
<1>2. /\ launching[s] = "aborting" /\ clientClose[s] = "done"
      /\ launching' = [launching EXCEPT ![s] = "finishing"]
      /\ channels' = [channels EXCEPT ![s] = l]
  BY DEF LaunchDone
<1>3. /\ l \in Latches
      /\ l.launchDone
      /\ l.eventsClosed = channels[s].eventsClosed
      /\ l.diagnosticsClosed = channels[s].diagnosticsClosed
      /\ l.done = channels[s].done
  <2>1. channels[s] \in Latches
    BY DEF TypeOK
  <2> QED
    BY <2>1, SessionConstants DEF Latches
<1> HIDE DEF l
<1>4. TypeOK'
  BY <1>1, <1>2, <1>3, SessionConstants DEF TypeOK, LaunchStages
<1>5. OthersSame(s)
  BY <1>1, <1>2, SessionConstants DEF TypeOK, OthersSame, Same
<1>6. launching'[s] = "finishing" /\ channels'[s] = l
  BY <1>2 DEF TypeOK
<1>7. FinishInOrder(s)' /\ IdHeld(s)'
  BY <1>1, <1>2, <1>3, <1>6, SessionConstants DEF Consistent, FinishInOrder, IdHeld, Known
<1>8. TurnsAfterCommit(s)'
  BY <1>1, <1>2, <1>3, <1>6 DEF Consistent, TurnsAfterCommit, FinishInOrder
<1>9. ClientEndsInOrder(s)'
  BY <1>1, <1>2, <1>3, <1>6 DEF Consistent, ClientEndsInOrder, FinishInOrder, TypeOK, Known
<1>10. RoomLeft(s)'
  <2>1. EventsToCome(launching[s], prompting[s], client[s])' =
          EventsToCome(launching[s], prompting[s], client[s])
    BY <1>1, <1>2, <1>3, <1>6 DEF EventsToCome, Count
  <2> QED
    BY <2>1, <1>1 DEF Consistent, RoomLeft, EventsLeft
<1>11. CauseKept(s)'
  BY <1>1, <1>2, <1>3, <1>6, CauseStays DEF Consistent
<1>12. EndingKept(s)'
  <2>1. ~sess[s].finished
    BY <1>2 DEF Consistent, FinishInOrder
  <2> QED
    BY <1>1, <1>2, <1>3, <1>6, <2>1 DEF EndingKept
<1> QED
  BY <1>4, <1>5, <1>7, <1>8, <1>9, <1>10, <1>11, <1>12 DEF Consistent

\* The failed launch returns.
LEMMA LaunchFailedKeeps ==
  ASSUME TypeOK, NEW s \in Sessions, Consistent(s), LaunchFailed(s)
  PROVE  TypeOK' /\ Consistent(s)' /\ OthersSame(s)
<1>1. UNCHANGED <<registered, sess, drain, finishing, clientClose, hostClose, prompting,
                  prompts, canceling, diagnosing, channels, published, client, chan>>
  BY DEF LaunchFailed, hostVars
<1>2. /\ launching[s] = "finishing"
      /\ launching' = [launching EXCEPT ![s] = "failed"]
  BY DEF LaunchFailed
<1>4. TypeOK'
  BY <1>1, <1>2, SessionConstants DEF TypeOK, LaunchStages
<1>5. OthersSame(s)
  BY <1>1, <1>2, SessionConstants DEF TypeOK, OthersSame, Same
<1>6. launching'[s] = "failed"
  BY <1>2 DEF TypeOK
<1>7. FinishInOrder(s)' /\ IdHeld(s)'
  BY <1>1, <1>2, <1>6, SessionConstants DEF Consistent, FinishInOrder, IdHeld, Known
<1>8. TurnsAfterCommit(s)'
  BY <1>1, <1>2, <1>6 DEF Consistent, TurnsAfterCommit, FinishInOrder
<1>9. ClientEndsInOrder(s)'
  BY <1>1, <1>2, <1>6 DEF Consistent, ClientEndsInOrder, FinishInOrder, TypeOK, Known
<1>10. RoomLeft(s)'
  <2>1. EventsToCome(launching[s], prompting[s], client[s])' =
          EventsToCome(launching[s], prompting[s], client[s])
    BY <1>1, <1>2, <1>6 DEF EventsToCome, Count
  <2> QED
    BY <2>1, <1>1 DEF Consistent, RoomLeft, EventsLeft
<1>11. CauseKept(s)'
  BY <1>1, <1>2, <1>6, CauseStays DEF Consistent
<1>12. EndingKept(s)'
  BY <1>1, <1>2, <1>6, EndingStays DEF Consistent
<1> QED
  BY <1>4, <1>5, <1>7, <1>8, <1>9, <1>10, <1>11, <1>12 DEF Consistent

--------------------------------------------------------------------------------
(***************************************************************************)
(* drain.                                                                  *)
(***************************************************************************)

\* drain observes an event.
LEMMA DrainObserveKeeps ==
  ASSUME TypeOK, NEW s \in Sessions, Consistent(s), DrainObserve(s)
  PROVE  TypeOK' /\ Consistent(s)' /\ OthersSame(s)
<1> DEFINE e == Head(chan[s])
           f == IF sess[s].finished THEN sess[s] ELSE Observe(sess[s], e)
           d == [at |-> IF e = "ready" THEN "holding" ELSE "publishing", event |-> e]
<1>1. UNCHANGED <<registered, launching, finishing, clientClose, hostClose, prompting, prompts,
                  canceling, diagnosing, channels, published, client>>
  BY DEF DrainObserve, hostVars
<1>2. /\ chan[s] # <<>> /\ drain[s].at = "reading"
      /\ sess' = [sess EXCEPT ![s] = f]
      /\ drain' = [drain EXCEPT ![s] = d]
      /\ chan' = [chan EXCEPT ![s] = Tail(@)]
  BY DEF DrainObserve
<1>3. /\ sess[s] \in Fields /\ chan[s] \in Seq(EventKinds) /\ Len(chan[s]) \in Nat \ {0}
      /\ Len(chan[s]) <= ChanCap /\ e = chan[s][1] /\ e \in EventKinds
      /\ Tail(chan[s]) \in Seq(EventKinds) /\ Len(Tail(chan[s])) = Len(chan[s]) - 1
      /\ \A i \in 1..Len(Tail(chan[s])) : Tail(chan[s])[i] = chan[s][i + 1]
  BY <1>2 DEF TypeOK
<1>4. d \in DrainStates /\ d.at \in {"holding", "publishing"} /\ d.event = e
      /\ (d.at = "publishing" => e # "ready")
  BY <1>3 DEF DrainStates
<1>5. /\ f \in Fields /\ f.finished = sess[s].finished
      /\ f.launchCommitted = sess[s].launchCommitted /\ f.closeRequested = sess[s].closeRequested
      /\ f.state # sess[s].state => sess[s].launchCommitted \/ e \in {"started", "completed", "failed"}
      /\ sess[s].finished => f = sess[s]
      /\ ~sess[s].finished => /\ f.sawProcessExit = (sess[s].sawProcessExit \/ e \in {"exit", "exitError"})
                              /\ f.err = IF e = "exitError" THEN "child_exit" ELSE sess[s].err
                              /\ f.terminalOutcome = IF e = "exitError" THEN "child_exit"
                                                     ELSE sess[s].terminalOutcome
  BY <1>3, ObserveFacts
<1> HIDE DEF e, f, d
<1>6. TypeOK'
  <2>1. sess' \in [Sessions -> Fields] /\ drain' \in [Sessions -> DrainStates]
    BY <1>2, <1>4, <1>5 DEF TypeOK
  <2>2. chan' \in [Sessions -> Seq(EventKinds)] /\ \A t \in Sessions : Len(chan'[t]) <= ChanCap
    BY <1>2, <1>3, SessionConstants DEF TypeOK
  <2> QED
    BY <1>1, <2>1, <2>2 DEF TypeOK
<1>7. OthersSame(s)
  BY <1>1, <1>2 DEF TypeOK, OthersSame, Same
<1>8. sess'[s] = f /\ drain'[s] = d /\ chan'[s] = Tail(chan[s])
  BY <1>2 DEF TypeOK
<1>9. FinishInOrder(s)' /\ IdHeld(s)'
  BY <1>1, <1>5, <1>8 DEF Consistent, FinishInOrder, IdHeld, Known
<1>10. \A i \in 1..Len(chan'[s]) : i + 1 \in 1..Len(chan[s]) /\ chan'[s][i] = chan[s][i + 1]
  BY <1>3, <1>8
<1>11. 1 \in 1..Len(chan[s])
  BY <1>3
<1>12. TurnsAfterCommit(s)'
  <2>1. e \in {"started", "completed", "failed"} => sess[s].launchCommitted
    BY <1>3, <1>11 DEF Consistent, TurnsAfterCommit
  <2>2. \A i \in 1..Len(chan'[s]) :
          chan'[s][i] \in {"started", "completed", "failed"} => sess[s].launchCommitted
    BY <1>10 DEF Consistent, TurnsAfterCommit
  <2> QED
    BY <1>1, <1>4, <1>5, <1>8, <2>1, <2>2 DEF Consistent, TurnsAfterCommit
<1>13. ClientEndsInOrder(s)'
  <2>1. drain'[s].at # "ended" /\ drain[s].at # "ended"
    BY <1>2, <1>4, <1>8
  <2> QED
    BY <1>1, <2>1 DEF Consistent, ClientEndsInOrder, Known
<1>14. RoomLeft(s)'
  <2>1. EventsToCome(launching[s], prompting[s], client[s])' =
          EventsToCome(launching[s], prompting[s], client[s])
    BY <1>1
  <2>2. /\ EventsToCome(launching[s], prompting[s], client[s]) \in Nat
        /\ prompts[s] \in Nat /\ prompts'[s] = prompts[s]
    BY <1>1, ToComeNat, SessionConstants DEF TypeOK
  <2>3. Len(chan'[s]) + 2 * prompts[s] + EventsToCome(launching[s], prompting[s], client[s])'
        <= Len(chan[s]) + 2 * prompts'[s] + EventsToCome(launching[s], prompting[s], client[s])
    BY <1>3, <1>8, <2>1, <2>2
  <2> QED
    BY <1>6, <2>3, RoomKept DEF Consistent
<1>15. CauseKept(s)'
  <2>1. e \in {"exit", "exitError"} => client[s].child = e
    BY <1>3, <1>11 DEF Consistent, CauseKept
  <2>2. \A i \in 1..Len(chan'[s]) :
          chan'[s][i] \in {"exit", "exitError"} => client[s].child = chan'[s][i]
    BY <1>10 DEF Consistent, CauseKept
  <2>3. \A i \in 1..Len(chan[s]) : i = 1 \/ (i - 1 \in 1..Len(chan'[s]) /\ chan[s][i] = chan'[s][i - 1])
    BY <1>3, <1>8
  <2>4. NothingDropped /\ client[s].child \in {"exit", "exitError"} =>
          f.sawProcessExit \/ f.finished
          \/ \E i \in 1..Len(chan'[s]) : chan'[s][i] = client[s].child
    <3> SUFFICES ASSUME NothingDropped, client[s].child \in {"exit", "exitError"}, ~sess[s].finished,
                        ~sess[s].sawProcessExit, e # client[s].child
                 PROVE  \E i \in 1..Len(chan'[s]) : chan'[s][i] = client[s].child
      BY <1>5
    <3>1. PICK i \in 1..Len(chan[s]) : chan[s][i] = client[s].child
      BY DEF Consistent, CauseKept
    <3>2. i # 1
      BY <1>3, <3>1
    <3> QED
      BY <2>3, <3>1, <3>2
  <2>5. f.sawProcessExit => client[s].child \in {"exit", "exitError"}
    BY <1>5, <2>1 DEF Consistent, CauseKept
  <2>6. ~f.finished => /\ f.terminalOutcome = f.err
                       /\ f.err = IF f.sawProcessExit /\ client[s].child = "exitError"
                                  THEN "child_exit" ELSE ""
    BY <1>5, <2>1 DEF Consistent, CauseKept
  <2> QED
    BY <1>1, <1>5, <1>8, <2>2, <2>4, <2>5, <2>6 DEF Consistent, CauseKept, NothingDropped
<1>16. EndingKept(s)'
  BY <1>1, <1>5, <1>8 DEF Consistent, EndingKept, EndingIsCause, NothingDropped
<1> QED
  BY <1>6, <1>7, <1>9, <1>12, <1>13, <1>14, <1>15, <1>16 DEF Consistent

\* drain lets session.ready through, or swallows it.
LEMMA DrainReadyKeeps ==
  ASSUME TypeOK, NEW s \in Sessions, Consistent(s), DrainReady(s)
  PROVE  TypeOK' /\ Consistent(s)' /\ OthersSame(s)
<1> DEFINE d == [drain[s] EXCEPT !.at = IF sess[s].launchCommitted THEN "publishing" ELSE "reading"]
<1>1. UNCHANGED <<registered, sess, launching, finishing, clientClose, hostClose,
                  prompting, prompts, canceling, diagnosing, channels, published, client,
                  chan>>
  BY DEF DrainReady, hostVars
<1>2. /\ drain[s].at = "holding"
      /\ drain' = [drain EXCEPT ![s] = d]
  BY DEF DrainReady
<1>3. /\ d \in DrainStates
      /\ d.at = "publishing" => sess[s].launchCommitted
      /\ d.at # "ended"
      /\ d.event = drain[s].event
  <2>1. drain[s] \in DrainStates
    BY DEF TypeOK
  <2> QED
    BY <2>1, SessionConstants DEF DrainStates
<1> HIDE DEF d
<1>4. TypeOK'
  BY <1>1, <1>2, <1>3, SessionConstants DEF TypeOK
<1>5. OthersSame(s)
  BY <1>1, <1>2, SessionConstants DEF TypeOK, OthersSame, Same
<1>6. drain'[s] = d
  BY <1>2 DEF TypeOK
<1>7. FinishInOrder(s)' /\ IdHeld(s)'
  BY <1>1, <1>2, <1>3, <1>6, SessionConstants DEF Consistent, FinishInOrder, IdHeld, Known
<1>8. TurnsAfterCommit(s)'
  BY <1>1, <1>2, <1>3, <1>6 DEF Consistent, TurnsAfterCommit, FinishInOrder
<1>9. ClientEndsInOrder(s)'
  BY <1>1, <1>2, <1>3, <1>6 DEF Consistent, ClientEndsInOrder, FinishInOrder, TypeOK, Known
<1>10. RoomLeft(s)'
  BY <1>1 DEF Consistent, RoomLeft, EventsLeft
<1>11. CauseKept(s)'
  BY <1>1, <1>2, <1>3, <1>6, CauseStays DEF Consistent
<1>12. EndingKept(s)'
  BY <1>1, <1>2, <1>3, <1>6, EndingStays DEF Consistent
<1> QED
  BY <1>4, <1>5, <1>7, <1>8, <1>9, <1>10, <1>11, <1>12 DEF Consistent

\* publish.
LEMMA PublishKeeps ==
  ASSUME TypeOK, NEW s \in Sessions, Consistent(s), NEW full \in BOOLEAN, Publish(s, full)
  PROVE  TypeOK' /\ Consistent(s)' /\ OthersSame(s)
<1> DEFINE d == [drain[s] EXCEPT !.at = "reading"]
<1>1. UNCHANGED <<registered, sess, launching, finishing, clientClose, hostClose,
                  prompting, prompts, canceling, diagnosing, channels, client, chan>>
  BY DEF Publish, hostVars
<1>2. /\ drain[s].at = "publishing"
      /\ drain' = [drain EXCEPT ![s] = d]
      /\ published' = IF channels[s].eventsClosed \/ full THEN published
                      ELSE [published EXCEPT ![s] = @ \cup {drain[s].event}]
  BY DEF Publish
<1>3. /\ d \in DrainStates
      /\ d.at = "reading"
      /\ d.event = drain[s].event
  <2>1. drain[s] \in DrainStates
    BY DEF TypeOK
  <2> QED
    BY <2>1, SessionConstants DEF DrainStates
<1> HIDE DEF d
<1>4. TypeOK'
  <2>1. drain[s].event \in EventKinds /\ drain' \in [Sessions -> DrainStates]
    BY <1>2, <1>3 DEF TypeOK, DrainStates
  <2>2. published' \in [Sessions -> SUBSET EventKinds]
    BY <1>2, <2>1 DEF TypeOK
  <2> QED
    BY <1>1, <2>1, <2>2 DEF TypeOK
<1>5. OthersSame(s)
  BY <1>1, <1>2, SessionConstants DEF TypeOK, OthersSame, Same
<1>6. drain'[s] = d /\ published'[s] \in {published[s], published[s] \cup {drain[s].event}}
  BY <1>2 DEF TypeOK
<1>7. FinishInOrder(s)' /\ IdHeld(s)'
  BY <1>1, <1>2, <1>3, <1>6, SessionConstants DEF Consistent, FinishInOrder, IdHeld, Known
<1>8. TurnsAfterCommit(s)'
  BY <1>1, <1>2, <1>3, <1>6 DEF Consistent, TurnsAfterCommit, FinishInOrder
<1>9. ClientEndsInOrder(s)'
  BY <1>1, <1>2, <1>3, <1>6 DEF Consistent, ClientEndsInOrder, FinishInOrder, TypeOK, Known
<1>10. RoomLeft(s)'
  BY <1>1 DEF Consistent, RoomLeft, EventsLeft
<1>11. CauseKept(s)'
  BY <1>1, <1>2, <1>3, <1>6, CauseStays DEF Consistent
<1>12. EndingKept(s)'
  BY <1>1, <1>2, <1>3, <1>6, EndingStays DEF Consistent
<1> QED
  BY <1>4, <1>5, <1>7, <1>8, <1>9, <1>10, <1>11, <1>12 DEF Consistent

\* drain has read the whole channel.
LEMMA DrainEndKeeps ==
  ASSUME TypeOK, NEW s \in Sessions, Consistent(s), DrainEnd(s)
  PROVE  TypeOK' /\ Consistent(s)' /\ OthersSame(s)
<1> DEFINE d == [drain[s] EXCEPT !.at = "ended"]
<1>1. UNCHANGED <<registered, sess, launching, finishing, clientClose, hostClose,
                  prompting, prompts, canceling, diagnosing, channels, published, client,
                  chan>>
  BY DEF DrainEnd, hostVars
<1>2. /\ chan[s] = <<>> /\ client[s].eof
      /\ drain' = [drain EXCEPT ![s] = d]
  BY DEF DrainEnd
<1>3. /\ d \in DrainStates
      /\ d.at = "ended"
      /\ d.event = drain[s].event
  <2>1. drain[s] \in DrainStates
    BY DEF TypeOK
  <2> QED
    BY <2>1, SessionConstants DEF DrainStates
<1> HIDE DEF d
<1>4. TypeOK'
  BY <1>1, <1>2, <1>3, SessionConstants DEF TypeOK
<1>5. OthersSame(s)
  BY <1>1, <1>2, SessionConstants DEF TypeOK, OthersSame, Same
<1>6. drain'[s] = d
  BY <1>2 DEF TypeOK
<1>7. FinishInOrder(s)' /\ IdHeld(s)'
  BY <1>1, <1>2, <1>3, <1>6, SessionConstants DEF Consistent, FinishInOrder, IdHeld, Known
<1>8. TurnsAfterCommit(s)'
  BY <1>1, <1>2, <1>3, <1>6 DEF Consistent, TurnsAfterCommit, FinishInOrder
<1>9. ClientEndsInOrder(s)'
  BY <1>1, <1>2, <1>3, <1>6 DEF Consistent, ClientEndsInOrder, FinishInOrder, TypeOK, Known
<1>10. RoomLeft(s)'
  BY <1>1 DEF Consistent, RoomLeft, EventsLeft
<1>11. CauseKept(s)'
  BY <1>1, <1>2, <1>3, <1>6, CauseStays DEF Consistent
<1>12. EndingKept(s)'
  BY <1>1, <1>2, <1>3, <1>6, EndingStays DEF Consistent
<1> QED
  BY <1>4, <1>5, <1>7, <1>8, <1>9, <1>10, <1>11, <1>12 DEF Consistent

--------------------------------------------------------------------------------
(***************************************************************************)
(* finish.                                                                 *)
(***************************************************************************)

\* finish begins.
LEMMA FinishBeginKeeps ==
  ASSUME TypeOK, NEW s \in Sessions, Consistent(s), FinishBegin(s)
  PROVE  TypeOK' /\ Consistent(s)' /\ OthersSame(s)
<1>1. UNCHANGED <<registered, sess, launching, drain, clientClose, hostClose, prompting,
                  prompts, canceling, diagnosing, channels, published, client, chan>>
  BY DEF FinishBegin, hostVars
<1>2. /\ finishing[s] = "idle"
      /\ (drain[s].at = "ended" /\ channels[s].launchDone) \/ launching[s] = "finishing"
      /\ finishing' = [finishing EXCEPT ![s] = "closing"]
  BY DEF FinishBegin
<1>4. TypeOK'
  BY <1>1, <1>2, SessionConstants DEF TypeOK, FinishStages
<1>5. OthersSame(s)
  BY <1>1, <1>2, SessionConstants DEF TypeOK, OthersSame, Same
<1>6. finishing'[s] = "closing"
  BY <1>2 DEF TypeOK
<1>7. FinishInOrder(s)' /\ IdHeld(s)'
  BY <1>1, <1>2, <1>6, SessionConstants DEF Consistent, FinishInOrder, IdHeld, Known
<1>8. TurnsAfterCommit(s)'
  BY <1>1, <1>2, <1>6 DEF Consistent, TurnsAfterCommit, FinishInOrder
<1>9. ClientEndsInOrder(s)'
  BY <1>1, <1>2, <1>6 DEF Consistent, ClientEndsInOrder, FinishInOrder, TypeOK, Known
<1>10. RoomLeft(s)'
  BY <1>1 DEF Consistent, RoomLeft, EventsLeft
<1>11. CauseKept(s)'
  BY <1>1, <1>2, <1>6, CauseStays DEF Consistent
<1>12. EndingKept(s)'
  BY <1>1, <1>2, <1>6, EndingStays DEF Consistent
<1> QED
  BY <1>4, <1>5, <1>7, <1>8, <1>9, <1>10, <1>11, <1>12 DEF Consistent

\* finish classifies the session.
LEMMA FinishClassifyKeeps ==
  ASSUME TypeOK, NEW s \in Sessions, Consistent(s), FinishClassify(s)
  PROVE  TypeOK' /\ Consistent(s)' /\ OthersSame(s)
<1> DEFINE f == Classify(sess[s])
<1>1. UNCHANGED <<registered, launching, drain, clientClose, hostClose, prompting, prompts,
                  canceling, diagnosing, channels, published, client, chan>>
  BY DEF FinishClassify, hostVars
<1>2. /\ finishing[s] = "closing" /\ clientClose[s] = "done"
      /\ sess' = [sess EXCEPT ![s] = f]
      /\ finishing' = [finishing EXCEPT ![s] = "classified"]
  BY DEF FinishClassify
<1>3. sess[s] \in Fields
  BY DEF TypeOK
<1>4. /\ f \in Fields /\ f.finished /\ f.state \in {"closed", "failed"}
      /\ f.closeRequested = sess[s].closeRequested /\ f.launchCommitted = sess[s].launchCommitted
      /\ f.sawMalformed = sess[s].sawMalformed /\ f.sawProcessExit = sess[s].sawProcessExit
      /\ f.closeRequested => f.terminalOutcome = "closed"
      /\ ~f.closeRequested =>
           /\ f.terminalOutcome = IF f.sawMalformed THEN "malformed_stream"
                                  ELSE IF sess[s].err # "" THEN sess[s].terminalOutcome
                                  ELSE IF f.sawProcessExit THEN "child_exit" ELSE "disconnected"
           /\ f.err = IF f.sawMalformed THEN "malformed_stream"
                      ELSE IF sess[s].err # "" THEN sess[s].err
                      ELSE IF f.sawProcessExit THEN "" ELSE "disconnected"
  BY <1>3, ClassifyFacts
<1> HIDE DEF f
<1>5. TypeOK'
  BY <1>1, <1>2, <1>4 DEF TypeOK, FinishStages
<1>6. OthersSame(s)
  BY <1>1, <1>2 DEF TypeOK, OthersSame, Same
<1>7. sess'[s] = f /\ finishing'[s] = "classified"
  BY <1>2 DEF TypeOK
<1>8. FinishInOrder(s)' /\ IdHeld(s)'
  BY <1>1, <1>2, <1>4, <1>7 DEF Consistent, FinishInOrder, IdHeld, Known
<1>9. TurnsAfterCommit(s)'
  BY <1>1, <1>4, <1>7 DEF Consistent, TurnsAfterCommit
<1>10. ClientEndsInOrder(s)'
  BY <1>1, <1>2, <1>7 DEF Consistent, ClientEndsInOrder, Known
<1>11. RoomLeft(s)'
  BY <1>1 DEF Consistent, RoomLeft, EventsLeft
<1>12. CauseKept(s)'
  BY <1>1, <1>4, <1>7 DEF Consistent, CauseKept, NothingDropped
<1>13. EndingKept(s)'
  <2> SUFFICES ASSUME NothingDropped
               PROVE  EndingIsCause(s)'
    BY DEF EndingKept, NothingDropped
  <2>1. launching[s] \in {"finishing", "failed"} => f.terminalOutcome = "closed"
    BY <1>4 DEF Consistent, CauseKept
  <2>2. ASSUME ~f.closeRequested
        PROVE  /\ f.terminalOutcome =
                    IF f.sawMalformed THEN "malformed_stream"
                    ELSE IF client[s].child = "disconnect" THEN "disconnected" ELSE "child_exit"
               /\ f.err = "" <=> client[s].child = "exit" /\ ~f.sawMalformed
    <3>1. client[s].eof /\ chan[s] = <<>> /\ client[s].child \in Fates
      BY <1>2, <1>4, <2>2 DEF Consistent, ClientEndsInOrder, CauseKept
    <3>2. ~sess[s].finished
      BY <1>2 DEF Consistent, FinishInOrder
    <3>3. sess[s].sawProcessExit <=> client[s].child \in {"exit", "exitError"}
      <4>1. 1..Len(chan[s]) = {}
        BY <3>1
      <4> QED
        BY <3>2, <4>1 DEF Consistent, CauseKept
    <3>4. /\ sess[s].terminalOutcome = sess[s].err
          /\ sess[s].err = IF sess[s].sawProcessExit /\ client[s].child = "exitError"
                           THEN "child_exit" ELSE ""
      BY <3>2 DEF Consistent, CauseKept
    <3> QED
      BY <1>4, <2>2, <3>1, <3>3, <3>4 DEF Fates
  <2> QED
    BY <1>1, <1>4, <1>7, <2>1, <2>2 DEF EndingIsCause
<1> QED
  BY <1>5, <1>6, <1>8, <1>9, <1>10, <1>11, <1>12, <1>13 DEF Consistent

\* finish gives the id back.
LEMMA FinishUnregisterKeeps ==
  ASSUME TypeOK, NEW s \in Sessions, Consistent(s), FinishUnregister(s)
  PROVE  TypeOK' /\ Consistent(s)' /\ OthersSame(s)
<1>1. UNCHANGED <<sess, launching, drain, clientClose, hostClose, prompting, prompts,
                  canceling, diagnosing, channels, published, client, chan>>
  BY DEF FinishUnregister, hostVars
<1>2. /\ finishing[s] = "classified"
      /\ registered' = IF registered = s THEN None ELSE registered
      /\ finishing' = [finishing EXCEPT ![s] = "unregistered"]
  BY DEF FinishUnregister
<1>4. TypeOK'
  BY <1>1, <1>2, SessionConstants DEF TypeOK, FinishStages
<1>5. OthersSame(s)
  BY <1>1, <1>2, SessionConstants DEF TypeOK, OthersSame, Same
<1>6. finishing'[s] = "unregistered"
  BY <1>2 DEF TypeOK
<1>7. FinishInOrder(s)' /\ IdHeld(s)'
  BY <1>1, <1>2, <1>6, SessionConstants DEF Consistent, FinishInOrder, IdHeld, Known
<1>8. TurnsAfterCommit(s)'
  BY <1>1, <1>2, <1>6 DEF Consistent, TurnsAfterCommit, FinishInOrder
<1>9. ClientEndsInOrder(s)'
  BY <1>1, <1>2, <1>6 DEF Consistent, ClientEndsInOrder, FinishInOrder, TypeOK, Known
<1>10. RoomLeft(s)'
  BY <1>1 DEF Consistent, RoomLeft, EventsLeft
<1>11. CauseKept(s)'
  BY <1>1, <1>2, <1>6, CauseStays DEF Consistent
<1>12. EndingKept(s)'
  BY <1>1, <1>2, <1>6, EndingStays DEF Consistent
<1> QED
  BY <1>4, <1>5, <1>7, <1>8, <1>9, <1>10, <1>11, <1>12 DEF Consistent

\* finish closes the events.
LEMMA FinishEventsKeeps ==
  ASSUME TypeOK, NEW s \in Sessions, Consistent(s), FinishEvents(s)
  PROVE  TypeOK' /\ Consistent(s)' /\ OthersSame(s)
<1> DEFINE l == [channels[s] EXCEPT !.eventsClosed = TRUE]
<1>1. UNCHANGED <<registered, sess, launching, drain, clientClose, hostClose, prompting,
                  prompts, canceling, diagnosing, published, client, chan>>
  BY DEF FinishEvents, hostVars
<1>2. /\ finishing[s] = "unregistered"
      /\ channels' = [channels EXCEPT ![s] = l]
      /\ finishing' = [finishing EXCEPT ![s] = "eventsClosed"]
  BY DEF FinishEvents
<1>3. /\ l \in Latches
      /\ l.eventsClosed
      /\ l.launchDone = channels[s].launchDone
      /\ l.diagnosticsClosed = channels[s].diagnosticsClosed
      /\ l.done = channels[s].done
  <2>1. channels[s] \in Latches
    BY DEF TypeOK
  <2> QED
    BY <2>1, SessionConstants DEF Latches
<1> HIDE DEF l
<1>4. TypeOK'
  BY <1>1, <1>2, <1>3, SessionConstants DEF TypeOK, FinishStages
<1>5. OthersSame(s)
  BY <1>1, <1>2, SessionConstants DEF TypeOK, OthersSame, Same
<1>6. channels'[s] = l /\ finishing'[s] = "eventsClosed"
  BY <1>2 DEF TypeOK
<1>7. FinishInOrder(s)' /\ IdHeld(s)'
  BY <1>1, <1>2, <1>3, <1>6, SessionConstants DEF Consistent, FinishInOrder, IdHeld, Known
<1>8. TurnsAfterCommit(s)'
  BY <1>1, <1>2, <1>3, <1>6 DEF Consistent, TurnsAfterCommit, FinishInOrder
<1>9. ClientEndsInOrder(s)'
  BY <1>1, <1>2, <1>3, <1>6 DEF Consistent, ClientEndsInOrder, FinishInOrder, TypeOK, Known
<1>10. RoomLeft(s)'
  BY <1>1 DEF Consistent, RoomLeft, EventsLeft
<1>11. CauseKept(s)'
  BY <1>1, <1>2, <1>3, <1>6, CauseStays DEF Consistent
<1>12. EndingKept(s)'
  BY <1>1, <1>2, <1>3, <1>6, EndingStays DEF Consistent
<1> QED
  BY <1>4, <1>5, <1>7, <1>8, <1>9, <1>10, <1>11, <1>12 DEF Consistent

\* finish refuses further diagnostics.
LEMMA FinishDiagnosticsKeeps ==
  ASSUME TypeOK, NEW s \in Sessions, Consistent(s), FinishDiagnostics(s)
  PROVE  TypeOK' /\ Consistent(s)' /\ OthersSame(s)
<1> DEFINE l == [channels[s] EXCEPT !.diagnosticsClosed = TRUE]
<1>1. UNCHANGED <<registered, sess, launching, drain, clientClose, hostClose, prompting,
                  prompts, canceling, diagnosing, published, client, chan>>
  BY DEF FinishDiagnostics, hostVars
<1>2. /\ finishing[s] = "eventsClosed"
      /\ channels' = [channels EXCEPT ![s] = l]
      /\ finishing' = [finishing EXCEPT ![s] = "draining"]
  BY DEF FinishDiagnostics
<1>3. /\ l \in Latches
      /\ l.diagnosticsClosed
      /\ l.launchDone = channels[s].launchDone
      /\ l.eventsClosed = channels[s].eventsClosed
      /\ l.done = channels[s].done
  <2>1. channels[s] \in Latches
    BY DEF TypeOK
  <2> QED
    BY <2>1, SessionConstants DEF Latches
<1> HIDE DEF l
<1>4. TypeOK'
  BY <1>1, <1>2, <1>3, SessionConstants DEF TypeOK, FinishStages
<1>5. OthersSame(s)
  BY <1>1, <1>2, SessionConstants DEF TypeOK, OthersSame, Same
<1>6. channels'[s] = l /\ finishing'[s] = "draining"
  BY <1>2 DEF TypeOK
<1>7. FinishInOrder(s)' /\ IdHeld(s)'
  BY <1>1, <1>2, <1>3, <1>6, SessionConstants DEF Consistent, FinishInOrder, IdHeld, Known
<1>8. TurnsAfterCommit(s)'
  BY <1>1, <1>2, <1>3, <1>6 DEF Consistent, TurnsAfterCommit, FinishInOrder
<1>9. ClientEndsInOrder(s)'
  BY <1>1, <1>2, <1>3, <1>6 DEF Consistent, ClientEndsInOrder, FinishInOrder, TypeOK, Known
<1>10. RoomLeft(s)'
  BY <1>1 DEF Consistent, RoomLeft, EventsLeft
<1>11. CauseKept(s)'
  BY <1>1, <1>2, <1>3, <1>6, CauseStays DEF Consistent
<1>12. EndingKept(s)'
  BY <1>1, <1>2, <1>3, <1>6, EndingStays DEF Consistent
<1> QED
  BY <1>4, <1>5, <1>7, <1>8, <1>9, <1>10, <1>11, <1>12 DEF Consistent

\* finish closes done once the admitted diagnostics are over.
LEMMA FinishDoneKeeps ==
  ASSUME TypeOK, NEW s \in Sessions, Consistent(s), FinishDone(s)
  PROVE  TypeOK' /\ Consistent(s)' /\ OthersSame(s)
<1> DEFINE l == [channels[s] EXCEPT !.done = TRUE]
<1>1. UNCHANGED <<registered, sess, launching, drain, clientClose, hostClose, prompting,
                  prompts, canceling, diagnosing, published, client, chan>>
  BY DEF FinishDone, hostVars
<1>2. /\ finishing[s] = "draining"
      /\ diagnosing[s] \in {"idle", "over"}
      /\ channels' = [channels EXCEPT ![s] = l]
      /\ finishing' = [finishing EXCEPT ![s] = "done"]
  BY DEF FinishDone
<1>3. /\ l \in Latches
      /\ l.done
      /\ l.launchDone = channels[s].launchDone
      /\ l.eventsClosed = channels[s].eventsClosed
      /\ l.diagnosticsClosed = channels[s].diagnosticsClosed
  <2>1. channels[s] \in Latches
    BY DEF TypeOK
  <2> QED
    BY <2>1, SessionConstants DEF Latches
<1> HIDE DEF l
<1>4. TypeOK'
  BY <1>1, <1>2, <1>3, SessionConstants DEF TypeOK, FinishStages
<1>5. OthersSame(s)
  BY <1>1, <1>2, SessionConstants DEF TypeOK, OthersSame, Same
<1>6. channels'[s] = l /\ finishing'[s] = "done"
  BY <1>2 DEF TypeOK
<1>7. FinishInOrder(s)' /\ IdHeld(s)'
  BY <1>1, <1>2, <1>3, <1>6, SessionConstants DEF Consistent, FinishInOrder, IdHeld, Known
<1>8. TurnsAfterCommit(s)'
  BY <1>1, <1>2, <1>3, <1>6 DEF Consistent, TurnsAfterCommit, FinishInOrder
<1>9. ClientEndsInOrder(s)'
  BY <1>1, <1>2, <1>3, <1>6 DEF Consistent, ClientEndsInOrder, FinishInOrder, TypeOK, Known
<1>10. RoomLeft(s)'
  BY <1>1 DEF Consistent, RoomLeft, EventsLeft
<1>11. CauseKept(s)'
  BY <1>1, <1>2, <1>3, <1>6, CauseStays DEF Consistent
<1>12. EndingKept(s)'
  BY <1>1, <1>2, <1>3, <1>6, EndingStays DEF Consistent
<1> QED
  BY <1>4, <1>5, <1>7, <1>8, <1>9, <1>10, <1>11, <1>12 DEF Consistent

--------------------------------------------------------------------------------
(***************************************************************************)
(* The host's calls and the diagnostics.                                   *)
(***************************************************************************)

\* A prompt of the host, which needs a ready session.
LEMMA PromptKeeps ==
  ASSUME TypeOK, NEW s \in Sessions, Consistent(s), Prompt(s)
  PROVE  TypeOK' /\ Consistent(s)' /\ OthersSame(s)
<1> DEFINE f == [sess[s] EXCEPT !.state = "processing"]
<1>1. UNCHANGED <<registered, launching, drain, finishing, clientClose, hostClose,
                  canceling, diagnosing, channels, published, client, chan>>
  BY DEF Prompt, hostVars
<1>2. /\ prompting[s] = "idle" /\ prompts[s] < MaxPrompts
      /\ sess[s].state = "ready"
      /\ sess' = [sess EXCEPT ![s] = f]
      /\ prompting' = [prompting EXCEPT ![s] = "calling"]
      /\ prompts' = [prompts EXCEPT ![s] = prompts[s] + 1]
  BY DEF Prompt
<1>3. /\ f \in Fields
      /\ f.closeRequested = sess[s].closeRequested
      /\ f.sawProcessExit = sess[s].sawProcessExit
      /\ f.sawMalformed = sess[s].sawMalformed
      /\ f.launchCommitted = sess[s].launchCommitted
      /\ f.finished = sess[s].finished
      /\ f.err = sess[s].err
      /\ f.terminalOutcome = sess[s].terminalOutcome
  <2>1. sess[s] \in Fields
    BY DEF TypeOK
  <2> QED
    BY <2>1, SessionConstants DEF Fields, States, Outcomes
<1> HIDE DEF f
<1>4. TypeOK'
  BY <1>1, <1>2, <1>3, SessionConstants DEF TypeOK
<1>5. OthersSame(s)
  BY <1>1, <1>2, SessionConstants DEF TypeOK, OthersSame, Same
<1>6. sess'[s] = f /\ prompting'[s] = "calling" /\ prompts'[s] = prompts[s] + 1
  BY <1>2 DEF TypeOK
<1>7. FinishInOrder(s)' /\ IdHeld(s)'
  BY <1>1, <1>2, <1>3, <1>6, SessionConstants DEF Consistent, FinishInOrder, IdHeld, Known
<1>8. TurnsAfterCommit(s)'
  BY <1>1, <1>2, <1>3, <1>6 DEF Consistent, TurnsAfterCommit, FinishInOrder
<1>9. ClientEndsInOrder(s)'
  BY <1>1, <1>2, <1>3, <1>6 DEF Consistent, ClientEndsInOrder, FinishInOrder, TypeOK, Known
<1>10. RoomLeft(s)'
  <2>1. EventsToCome(launching[s], "calling", client[s]) =
          EventsToCome(launching[s], "idle", client[s]) + 2
    BY DEF EventsToCome, Count
  <2>2. Len(chan[s]) \in Nat /\ prompts[s] \in Nat
    BY SessionConstants DEF TypeOK
  <2>3. EventsToCome(launching[s], "calling", client[s]) \in Nat /\ EventsToCome(launching[s], "idle", client[s]) \in Nat
    BY ToComeNat
  <2>4. /\ EventsToCome(launching[s], prompting[s], client[s])' = EventsToCome(launching[s], "calling", client[s])
        /\ EventsToCome(launching[s], prompting[s], client[s]) = EventsToCome(launching[s], "idle", client[s])
        /\ prompts'[s] = prompts[s] + 1
    BY <1>1, <1>2, <1>6
  <2>5. Len(chan'[s]) + 2 * prompts[s] + EventsToCome(launching[s], prompting[s], client[s])'
        <= Len(chan[s]) + 2 * prompts'[s] + EventsToCome(launching[s], prompting[s], client[s])
    BY <1>1, <2>1, <2>2, <2>3, <2>4
  <2> QED
    BY <1>4, <2>5, RoomKept DEF Consistent
<1>11. CauseKept(s)'
  BY <1>1, <1>2, <1>3, <1>6, CauseStays DEF Consistent
<1>12. EndingKept(s)'
  BY <1>1, <1>2, <1>3, <1>6, EndingStays DEF Consistent
<1> QED
  BY <1>4, <1>5, <1>7, <1>8, <1>9, <1>10, <1>11, <1>12 DEF Consistent

\* The prompt returns.
LEMMA PromptReturnKeeps ==
  ASSUME TypeOK, NEW s \in Sessions, Consistent(s), PromptReturn(s)
  PROVE  TypeOK' /\ Consistent(s)' /\ OthersSame(s)
<1> DEFINE f == [sess[s] EXCEPT !.state =
                  IF prompting[s] = "refused" /\ @ = "processing" THEN "ready" ELSE @]
<1>1. UNCHANGED <<registered, launching, drain, finishing, clientClose, hostClose, prompts,
                  canceling, diagnosing, channels, published, client, chan>>
  BY DEF PromptReturn, hostVars
<1>2. /\ prompting[s] \in {"accepted", "refused"}
      /\ sess' = [sess EXCEPT ![s] = f]
      /\ prompting' = [prompting EXCEPT ![s] = "idle"]
  BY DEF PromptReturn
<1>3. /\ f \in Fields
      /\ sess[s].state # "processing" => f.state = sess[s].state
      /\ f.closeRequested = sess[s].closeRequested
      /\ f.sawProcessExit = sess[s].sawProcessExit
      /\ f.sawMalformed = sess[s].sawMalformed
      /\ f.launchCommitted = sess[s].launchCommitted
      /\ f.finished = sess[s].finished
      /\ f.err = sess[s].err
      /\ f.terminalOutcome = sess[s].terminalOutcome
  <2>1. sess[s] \in Fields
    BY DEF TypeOK
  <2> QED
    BY <2>1, SessionConstants DEF Fields, States, Outcomes
<1> HIDE DEF f
<1>4. TypeOK'
  BY <1>1, <1>2, <1>3, SessionConstants DEF TypeOK
<1>5. OthersSame(s)
  BY <1>1, <1>2, SessionConstants DEF TypeOK, OthersSame, Same
<1>6. sess'[s] = f /\ prompting'[s] = "idle"
  BY <1>2 DEF TypeOK
<1>7. FinishInOrder(s)' /\ IdHeld(s)'
  BY <1>1, <1>2, <1>3, <1>6, SessionConstants DEF Consistent, FinishInOrder, IdHeld, Known
<1>8. TurnsAfterCommit(s)'
  BY <1>1, <1>2, <1>3, <1>6 DEF Consistent, TurnsAfterCommit, FinishInOrder
<1>9. ClientEndsInOrder(s)'
  BY <1>1, <1>2, <1>3, <1>6 DEF Consistent, ClientEndsInOrder, FinishInOrder, TypeOK, Known
<1>10. RoomLeft(s)'
  <2>1. EventsToCome(launching[s], prompting[s], client[s])' =
          EventsToCome(launching[s], prompting[s], client[s])
    BY <1>1, <1>2, <1>3, <1>6 DEF EventsToCome, Count
  <2> QED
    BY <2>1, <1>1 DEF Consistent, RoomLeft, EventsLeft
<1>11. CauseKept(s)'
  BY <1>1, <1>2, <1>3, <1>6, CauseStays DEF Consistent
<1>12. EndingKept(s)'
  BY <1>1, <1>2, <1>3, <1>6, EndingStays DEF Consistent
<1> QED
  BY <1>4, <1>5, <1>7, <1>8, <1>9, <1>10, <1>11, <1>12 DEF Consistent

\* Cancel.
LEMMA CancelKeeps ==
  ASSUME TypeOK, NEW s \in Sessions, Consistent(s), Cancel(s)
  PROVE  TypeOK' /\ Consistent(s)' /\ OthersSame(s)
<1>1. UNCHANGED <<registered, sess, launching, drain, finishing, clientClose, hostClose,
                  prompting, prompts, diagnosing, channels, published, client, chan>>
  BY DEF Cancel, hostVars
<1>2. /\ canceling[s] = "idle"
      /\ canceling' = [canceling EXCEPT ![s] = IF sess[s].state = "processing" THEN "sent" ELSE "skipped"]
  BY DEF Cancel
<1>4. TypeOK'
  BY <1>1, <1>2, SessionConstants DEF TypeOK
<1>5. OthersSame(s)
  BY <1>1, <1>2, SessionConstants DEF TypeOK, OthersSame, Same
<1>6. canceling'[s] = IF sess[s].state = "processing" THEN "sent" ELSE "skipped"
  BY <1>2 DEF TypeOK
<1>7. FinishInOrder(s)' /\ IdHeld(s)'
  BY <1>1, <1>2, <1>6, SessionConstants DEF Consistent, FinishInOrder, IdHeld, Known
<1>8. TurnsAfterCommit(s)'
  BY <1>1, <1>2, <1>6 DEF Consistent, TurnsAfterCommit, FinishInOrder
<1>9. ClientEndsInOrder(s)'
  BY <1>1, <1>2, <1>6 DEF Consistent, ClientEndsInOrder, FinishInOrder, TypeOK, Known
<1>10. RoomLeft(s)'
  BY <1>1 DEF Consistent, RoomLeft, EventsLeft
<1>11. CauseKept(s)'
  BY <1>1, <1>2, <1>6, CauseStays DEF Consistent
<1>12. EndingKept(s)'
  BY <1>1, <1>2, <1>6, EndingStays DEF Consistent
<1> QED
  BY <1>4, <1>5, <1>7, <1>8, <1>9, <1>10, <1>11, <1>12 DEF Consistent

\* Close of the host.
LEMMA CloseKeeps ==
  ASSUME TypeOK, NEW s \in Sessions, Consistent(s), Close(s)
  PROVE  TypeOK' /\ Consistent(s)' /\ OthersSame(s)
<1> DEFINE f == [sess[s] EXCEPT !.closeRequested = TRUE,
                           !.state = IF @ \in {"closed", "failed"} THEN @ ELSE "closing"]
<1>1. UNCHANGED <<registered, launching, drain, finishing, clientClose, prompting, prompts,
                  canceling, diagnosing, channels, published, client, chan>>
  BY DEF Close, hostVars
<1>2. /\ Known(s)
      /\ sess' = [sess EXCEPT ![s] = f]
      /\ hostClose' = [hostClose EXCEPT ![s] = "requested"]
  BY DEF Close
<1>3. /\ f \in Fields
      /\ f.closeRequested
      /\ f.state = IF sess[s].state \in {"closed", "failed"} THEN sess[s].state ELSE "closing"
      /\ f.sawProcessExit = sess[s].sawProcessExit
      /\ f.sawMalformed = sess[s].sawMalformed
      /\ f.launchCommitted = sess[s].launchCommitted
      /\ f.finished = sess[s].finished
      /\ f.err = sess[s].err
      /\ f.terminalOutcome = sess[s].terminalOutcome
  <2>1. sess[s] \in Fields
    BY DEF TypeOK
  <2> QED
    BY <2>1, SessionConstants DEF Fields, States, Outcomes
<1> HIDE DEF f
<1>4. TypeOK'
  BY <1>1, <1>2, <1>3, SessionConstants DEF TypeOK
<1>5. OthersSame(s)
  BY <1>1, <1>2, SessionConstants DEF TypeOK, OthersSame, Same
<1>6. sess'[s] = f /\ hostClose'[s] = "requested"
  BY <1>2 DEF TypeOK
<1>7. FinishInOrder(s)' /\ IdHeld(s)'
  BY <1>1, <1>2, <1>3, <1>6, SessionConstants DEF Consistent, FinishInOrder, IdHeld, Known
<1>8. TurnsAfterCommit(s)'
  BY <1>1, <1>2, <1>3, <1>6 DEF Consistent, TurnsAfterCommit, FinishInOrder
<1>9. ClientEndsInOrder(s)'
  BY <1>1, <1>2, <1>3, <1>6 DEF Consistent, ClientEndsInOrder, FinishInOrder, TypeOK, Known
<1>10. RoomLeft(s)'
  BY <1>1 DEF Consistent, RoomLeft, EventsLeft
<1>11. CauseKept(s)'
  BY <1>1, <1>2, <1>3, <1>6, CauseStays DEF Consistent
<1>12. EndingKept(s)'
  BY <1>1, <1>2, <1>3, <1>6, EndingStays DEF Consistent
<1> QED
  BY <1>4, <1>5, <1>7, <1>8, <1>9, <1>10, <1>11, <1>12 DEF Consistent

\* Close returns.
LEMMA CloseReturnKeeps ==
  ASSUME TypeOK, NEW s \in Sessions, Consistent(s), CloseReturn(s)
  PROVE  TypeOK' /\ Consistent(s)' /\ OthersSame(s)
<1>1. UNCHANGED <<registered, sess, launching, drain, finishing, clientClose, prompting,
                  prompts, canceling, diagnosing, channels, published, client, chan>>
  BY DEF CloseReturn, hostVars
<1>2. /\ hostClose[s] = "requested"
      /\ hostClose' = [hostClose EXCEPT ![s] = "returned"]
  BY DEF CloseReturn
<1>4. TypeOK'
  BY <1>1, <1>2, SessionConstants DEF TypeOK
<1>5. OthersSame(s)
  BY <1>1, <1>2, SessionConstants DEF TypeOK, OthersSame, Same
<1>6. hostClose'[s] = "returned"
  BY <1>2 DEF TypeOK
<1>7. FinishInOrder(s)' /\ IdHeld(s)'
  BY <1>1, <1>2, <1>6, SessionConstants DEF Consistent, FinishInOrder, IdHeld, Known
<1>8. TurnsAfterCommit(s)'
  BY <1>1, <1>2, <1>6 DEF Consistent, TurnsAfterCommit, FinishInOrder
<1>9. ClientEndsInOrder(s)'
  BY <1>1, <1>2, <1>6 DEF Consistent, ClientEndsInOrder, FinishInOrder, TypeOK, Known
<1>10. RoomLeft(s)'
  BY <1>1 DEF Consistent, RoomLeft, EventsLeft
<1>11. CauseKept(s)'
  BY <1>1, <1>2, <1>6, CauseStays DEF Consistent
<1>12. EndingKept(s)'
  BY <1>1, <1>2, <1>6, EndingStays DEF Consistent
<1> QED
  BY <1>4, <1>5, <1>7, <1>8, <1>9, <1>10, <1>11, <1>12 DEF Consistent

\* A diagnostic is admitted or refused.
LEMMA DiagnosticBeginKeeps ==
  ASSUME TypeOK, NEW s \in Sessions, Consistent(s), NEW kind \in Diagnostics, DiagnosticBegin(s, kind)
  PROVE  TypeOK' /\ Consistent(s)' /\ OthersSame(s)
<1>1. UNCHANGED <<registered, sess, launching, drain, finishing, clientClose, hostClose,
                  prompting, prompts, canceling, channels, published, client, chan>>
  BY DEF DiagnosticBegin, hostVars
<1>2. /\ diagnosing[s] = "idle"
      /\ kind = "malformed" => ~client[s].eof
      /\ diagnosing' = [diagnosing EXCEPT ![s] = IF channels[s].diagnosticsClosed THEN "over" ELSE kind]
  BY DEF DiagnosticBegin
<1>4. TypeOK'
  BY <1>1, <1>2, SessionConstants DEF TypeOK
<1>5. OthersSame(s)
  BY <1>1, <1>2, SessionConstants DEF TypeOK, OthersSame, Same
<1>6. diagnosing'[s] = IF channels[s].diagnosticsClosed THEN "over" ELSE kind
  BY <1>2 DEF TypeOK
<1>7. FinishInOrder(s)' /\ IdHeld(s)'
  BY <1>1, <1>2, <1>6, SessionConstants DEF Consistent, FinishInOrder, IdHeld, Known
<1>8. TurnsAfterCommit(s)'
  BY <1>1, <1>2, <1>6 DEF Consistent, TurnsAfterCommit, FinishInOrder
<1>9. ClientEndsInOrder(s)'
  BY <1>1, <1>2, <1>6 DEF Consistent, ClientEndsInOrder, FinishInOrder, TypeOK, Known
<1>10. RoomLeft(s)'
  BY <1>1 DEF Consistent, RoomLeft, EventsLeft
<1>11. CauseKept(s)'
  BY <1>1, <1>2, <1>6, CauseStays DEF Consistent
<1>12. EndingKept(s)'
  BY <1>1, <1>2, <1>6, EndingStays DEF Consistent
<1> QED
  BY <1>4, <1>5, <1>7, <1>8, <1>9, <1>10, <1>11, <1>12 DEF Consistent

\* A diagnostic is recorded.
LEMMA DiagnosticSendKeeps ==
  ASSUME TypeOK, NEW s \in Sessions, Consistent(s), DiagnosticSend(s)
  PROVE  TypeOK' /\ Consistent(s)' /\ OthersSame(s)
<1> DEFINE f == [sess[s] EXCEPT !.sawMalformed = @ \/ diagnosing[s] = "malformed"]
<1>1. UNCHANGED <<registered, launching, drain, finishing, clientClose, hostClose,
                  prompting, prompts, canceling, channels, published, client, chan>>
  BY DEF DiagnosticSend, hostVars
<1>2. /\ diagnosing[s] \in {"malformed", "stderr"}
      /\ sess' = [sess EXCEPT ![s] = f]
      /\ diagnosing' = [diagnosing EXCEPT ![s] = "callback"]
  BY DEF DiagnosticSend
<1>3. /\ f \in Fields
      /\ diagnosing[s] # "malformed" => f.sawMalformed = sess[s].sawMalformed
      /\ f.state = sess[s].state
      /\ f.closeRequested = sess[s].closeRequested
      /\ f.sawProcessExit = sess[s].sawProcessExit
      /\ f.launchCommitted = sess[s].launchCommitted
      /\ f.finished = sess[s].finished
      /\ f.err = sess[s].err
      /\ f.terminalOutcome = sess[s].terminalOutcome
  <2>1. sess[s] \in Fields
    BY DEF TypeOK
  <2> QED
    BY <2>1, SessionConstants DEF Fields, States, Outcomes
<1> HIDE DEF f
<1>4. TypeOK'
  BY <1>1, <1>2, <1>3, SessionConstants DEF TypeOK
<1>5. OthersSame(s)
  BY <1>1, <1>2, SessionConstants DEF TypeOK, OthersSame, Same
<1>6. sess'[s] = f /\ diagnosing'[s] = "callback"
  BY <1>2 DEF TypeOK
<1>7. FinishInOrder(s)' /\ IdHeld(s)'
  BY <1>1, <1>2, <1>3, <1>6, SessionConstants DEF Consistent, FinishInOrder, IdHeld, Known
<1>8. TurnsAfterCommit(s)'
  BY <1>1, <1>2, <1>3, <1>6 DEF Consistent, TurnsAfterCommit, FinishInOrder
<1>9. ClientEndsInOrder(s)'
  BY <1>1, <1>2, <1>3, <1>6 DEF Consistent, ClientEndsInOrder, FinishInOrder, TypeOK, Known
<1>10. RoomLeft(s)'
  BY <1>1 DEF Consistent, RoomLeft, EventsLeft
<1>11. CauseKept(s)'
  BY <1>1, <1>2, <1>3, <1>6, CauseStays DEF Consistent
<1>12. EndingKept(s)'
  <2>1. sess[s].finished => diagnosing[s] # "malformed" \/ sess[s].closeRequested
    BY DEF Consistent, FinishInOrder, ClientEndsInOrder, CauseKept
  <2> QED
    BY <1>1, <1>2, <1>3, <1>6, <2>1, EndingStays DEF Consistent
<1> QED
  BY <1>4, <1>5, <1>7, <1>8, <1>9, <1>10, <1>11, <1>12 DEF Consistent

\* OnDiagnostic returns.
LEMMA DiagnosticEndKeeps ==
  ASSUME TypeOK, NEW s \in Sessions, Consistent(s), DiagnosticEnd(s)
  PROVE  TypeOK' /\ Consistent(s)' /\ OthersSame(s)
<1>1. UNCHANGED <<registered, sess, launching, drain, finishing, clientClose, hostClose,
                  prompting, prompts, canceling, channels, published, client, chan>>
  BY DEF DiagnosticEnd, hostVars
<1>2. /\ diagnosing[s] = "callback"
      /\ diagnosing' = [diagnosing EXCEPT ![s] = "over"]
  BY DEF DiagnosticEnd
<1>4. TypeOK'
  BY <1>1, <1>2, SessionConstants DEF TypeOK
<1>5. OthersSame(s)
  BY <1>1, <1>2, SessionConstants DEF TypeOK, OthersSame, Same
<1>6. diagnosing'[s] = "over"
  BY <1>2 DEF TypeOK
<1>7. FinishInOrder(s)' /\ IdHeld(s)'
  BY <1>1, <1>2, <1>6, SessionConstants DEF Consistent, FinishInOrder, IdHeld, Known
<1>8. TurnsAfterCommit(s)'
  BY <1>1, <1>2, <1>6 DEF Consistent, TurnsAfterCommit, FinishInOrder
<1>9. ClientEndsInOrder(s)'
  BY <1>1, <1>2, <1>6 DEF Consistent, ClientEndsInOrder, FinishInOrder, TypeOK, Known
<1>10. RoomLeft(s)'
  BY <1>1 DEF Consistent, RoomLeft, EventsLeft
<1>11. CauseKept(s)'
  BY <1>1, <1>2, <1>6, CauseStays DEF Consistent
<1>12. EndingKept(s)'
  BY <1>1, <1>2, <1>6, EndingStays DEF Consistent
<1> QED
  BY <1>4, <1>5, <1>7, <1>8, <1>9, <1>10, <1>11, <1>12 DEF Consistent

--------------------------------------------------------------------------------
(***************************************************************************)
(* The client.                                                             *)
(***************************************************************************)

\* client.Close is called.
LEMMA CloseClientKeeps ==
  ASSUME TypeOK, NEW s \in Sessions, Consistent(s), CloseClient(s)
  PROVE  TypeOK' /\ Consistent(s)' /\ OthersSame(s)
<1>1. UNCHANGED <<registered, sess, launching, drain, finishing, hostClose, prompting,
                  prompts, canceling, diagnosing, channels, published, client, chan>>
  BY DEF CloseClient, hostVars
<1>2. /\ clientClose[s] = "idle"
      /\ clientClose' = [clientClose EXCEPT ![s] = "running"]
  BY DEF CloseClient
<1>4. TypeOK'
  BY <1>1, <1>2, SessionConstants DEF TypeOK
<1>5. OthersSame(s)
  BY <1>1, <1>2, SessionConstants DEF TypeOK, OthersSame, Same
<1>6. clientClose'[s] = "running"
  BY <1>2 DEF TypeOK
<1>7. FinishInOrder(s)' /\ IdHeld(s)'
  BY <1>1, <1>2, <1>6, SessionConstants DEF Consistent, FinishInOrder, IdHeld, Known
<1>8. TurnsAfterCommit(s)'
  BY <1>1, <1>2, <1>6 DEF Consistent, TurnsAfterCommit, FinishInOrder
<1>9. ClientEndsInOrder(s)'
  BY <1>1, <1>2, <1>6 DEF Consistent, ClientEndsInOrder, FinishInOrder, TypeOK, Known
<1>10. RoomLeft(s)'
  BY <1>1 DEF Consistent, RoomLeft, EventsLeft
<1>11. CauseKept(s)'
  BY <1>1, <1>2, <1>6, CauseStays DEF Consistent
<1>12. EndingKept(s)'
  BY <1>1, <1>2, <1>6, EndingStays DEF Consistent
<1> QED
  BY <1>4, <1>5, <1>7, <1>8, <1>9, <1>10, <1>11, <1>12 DEF Consistent

\* client.Close returns.
LEMMA ClientClosedKeeps ==
  ASSUME TypeOK, NEW s \in Sessions, Consistent(s), ClientClosed(s)
  PROVE  TypeOK' /\ Consistent(s)' /\ OthersSame(s)
<1>1. UNCHANGED <<registered, sess, launching, drain, finishing, hostClose, prompting,
                  prompts, canceling, diagnosing, channels, published, client, chan>>
  BY DEF ClientClosed, hostVars
<1>2. /\ clientClose[s] = "running"
      /\ clientClose' = [clientClose EXCEPT ![s] = "done"]
  BY DEF ClientClosed
<1>4. TypeOK'
  BY <1>1, <1>2, SessionConstants DEF TypeOK
<1>5. OthersSame(s)
  BY <1>1, <1>2, SessionConstants DEF TypeOK, OthersSame, Same
<1>6. clientClose'[s] = "done"
  BY <1>2 DEF TypeOK
<1>7. FinishInOrder(s)' /\ IdHeld(s)'
  BY <1>1, <1>2, <1>6, SessionConstants DEF Consistent, FinishInOrder, IdHeld, Known
<1>8. TurnsAfterCommit(s)'
  BY <1>1, <1>2, <1>6 DEF Consistent, TurnsAfterCommit, FinishInOrder
<1>9. ClientEndsInOrder(s)'
  BY <1>1, <1>2, <1>6 DEF Consistent, ClientEndsInOrder, FinishInOrder, TypeOK, Known
<1>10. RoomLeft(s)'
  BY <1>1 DEF Consistent, RoomLeft, EventsLeft
<1>11. CauseKept(s)'
  BY <1>1, <1>2, <1>6, CauseStays DEF Consistent
<1>12. EndingKept(s)'
  BY <1>1, <1>2, <1>6, EndingStays DEF Consistent
<1> QED
  BY <1>4, <1>5, <1>7, <1>8, <1>9, <1>10, <1>11, <1>12 DEF Consistent

\* client.Launch succeeds, and emits session.ready ...
LEMMA LaunchReadyKeeps ==
  ASSUME TypeOK, NEW s \in Sessions, Consistent(s), ClientLaunch(s),
         launching' = [launching EXCEPT ![s] = "committing"], ~client[s].eof,
         Send(s, "ready")
  PROVE  TypeOK' /\ Consistent(s)' /\ OthersSame(s)
<1>1. UNCHANGED <<registered, sess, drain, finishing, clientClose, hostClose, prompting,
                  prompts, canceling, diagnosing, channels, published, client>>
  BY DEF ClientLaunch, hostVars
<1>2. /\ launching[s] = "calling" /\ ~client[s].eof
      /\ launching' = [launching EXCEPT ![s] = "committing"]
      /\ Send(s, "ready")
  BY DEF ClientLaunch
<1>s. /\ chan' \in [Sessions -> Seq(EventKinds)]
      /\ \A t \in Sessions : Len(chan'[t]) <= ChanCap
      /\ \A t \in Sessions \ {s} : chan'[t] = chan[t]
      /\ Len(chan[s]) \in Nat /\ Len(chan'[s]) \in Nat /\ Len(chan'[s]) <= Len(chan[s]) + 1
      /\ \A i \in 1..Len(chan'[s]) :
           (i \in 1..Len(chan[s]) /\ chan'[s][i] = chan[s][i]) \/ chan'[s][i] = "ready"
      /\ \A i \in 1..Len(chan[s]) : i \in 1..Len(chan'[s]) /\ chan'[s][i] = chan[s][i]
      /\ Len(chan[s]) < ChanCap => \E i \in 1..Len(chan'[s]) : chan'[s][i] = "ready"
  BY <1>2, SendFacts DEF EventKinds
<1>4. TypeOK'
  <2>1. chan' \in [Sessions -> Seq(EventKinds)] /\ \A t \in Sessions : Len(chan'[t]) <= ChanCap
    BY <1>s
  <2>2. launching' \in [Sessions -> LaunchStages]
    BY <1>2 DEF TypeOK, LaunchStages
  <2> QED
    BY <1>1, <2>1, <2>2 DEF TypeOK
<1>5. OthersSame(s)
  BY <1>1, <1>2, <1>s, SessionConstants DEF TypeOK, OthersSame, Same
<1>6. launching'[s] = "committing"
  BY <1>2 DEF TypeOK
<1>7. FinishInOrder(s)' /\ IdHeld(s)'
  BY <1>1, <1>2, <1>s, <1>6, SessionConstants DEF Consistent, FinishInOrder, IdHeld, Known
<1>8. TurnsAfterCommit(s)'
  BY <1>1, <1>2, <1>s, <1>6 DEF Consistent, TurnsAfterCommit, FinishInOrder
<1>9. ClientEndsInOrder(s)'
  BY <1>1, <1>2, <1>s, <1>6 DEF Consistent, ClientEndsInOrder, FinishInOrder, TypeOK, Known
<1>10. RoomLeft(s)'
  <2>1. EventsToCome("committing", prompting[s], client[s]) + 1 = EventsToCome("calling", prompting[s], client[s])
    BY <1>2 DEF EventsToCome, Count
  <2>2. /\ Len(chan[s]) \in Nat /\ Len(chan'[s]) \in Nat /\ prompts[s] \in Nat
        /\ Len(chan'[s]) <= Len(chan[s]) + 1
    BY <1>s, SessionConstants DEF TypeOK
  <2>3. EventsToCome("committing", prompting[s], client[s]) \in Nat /\ EventsToCome("calling", prompting[s], client[s]) \in Nat
    BY ToComeNat
  <2>4. /\ EventsToCome(launching[s], prompting[s], client[s])' = EventsToCome("committing", prompting[s], client[s])
        /\ EventsToCome(launching[s], prompting[s], client[s]) = EventsToCome("calling", prompting[s], client[s])
        /\ prompts'[s] = prompts[s]
    BY <1>1, <1>2, <1>6
  <2>5. EventsToCome(launching[s], prompting[s], client[s])' + 1 =
          EventsToCome(launching[s], prompting[s], client[s])
    BY <2>1, <2>4
  <2> QED
    BY <1>4, <2>2, <2>4, <2>5, EventSent DEF Consistent
<1>11. CauseKept(s)'
  <2>0. client'[s].child = client[s].child
    BY <1>1, <1>6
  <2>1. \A i \in 1..Len(chan'[s]) :
          chan'[s][i] \in {"exit", "exitError"} => client'[s].child = chan'[s][i]
    BY <2>0, <1>s DEF Consistent, CauseKept
  <2>2. NothingDropped' /\ client'[s].child \in {"exit", "exitError"} =>
          sess[s].sawProcessExit \/ sess[s].finished
          \/ \E i \in 1..Len(chan'[s]) : chan'[s][i] = client'[s].child
    BY <2>0, <1>s DEF Consistent, CauseKept, NothingDropped
  <2> QED
    BY <1>1, <1>6, <2>1, <2>2 DEF Consistent, CauseKept
<1>12. EndingKept(s)'
  BY <1>1, <1>2, <1>s, <1>6, EndingStays DEF Consistent
<1> QED
  BY <1>4, <1>5, <1>7, <1>8, <1>9, <1>10, <1>11, <1>12 DEF Consistent

\* ... or fails, or the agent is gone already.
LEMMA LaunchSilentKeeps ==
  ASSUME TypeOK, NEW s \in Sessions, Consistent(s), ClientLaunch(s),
         NEW x \in {"committing", "launchFailed"},
         launching' = [launching EXCEPT ![s] = x], UNCHANGED chan
  PROVE  TypeOK' /\ Consistent(s)' /\ OthersSame(s)
<1>1. UNCHANGED <<registered, sess, drain, finishing, clientClose, hostClose, prompting,
                  prompts, canceling, diagnosing, channels, published, client, chan>>
  BY DEF ClientLaunch, hostVars
<1>2. /\ launching[s] = "calling" /\ x # "calling"
      /\ launching' = [launching EXCEPT ![s] = x]
  BY DEF ClientLaunch
<1>4. TypeOK'
  BY <1>1, <1>2, SessionConstants DEF TypeOK, LaunchStages
<1>5. OthersSame(s)
  BY <1>1, <1>2, SessionConstants DEF TypeOK, OthersSame, Same
<1>6. launching'[s] = x
  BY <1>2 DEF TypeOK
<1>7. FinishInOrder(s)' /\ IdHeld(s)'
  BY <1>1, <1>2, <1>6, SessionConstants DEF Consistent, FinishInOrder, IdHeld, Known
<1>8. TurnsAfterCommit(s)'
  BY <1>1, <1>2, <1>6 DEF Consistent, TurnsAfterCommit, FinishInOrder
<1>9. ClientEndsInOrder(s)'
  BY <1>1, <1>2, <1>6 DEF Consistent, ClientEndsInOrder, FinishInOrder, TypeOK, Known
<1>10. RoomLeft(s)'
  <2>1. EventsToCome(x, prompting[s], client[s]) + 1 =
          EventsToCome("calling", prompting[s], client[s])
    BY DEF EventsToCome, Count
  <2>2. Len(chan[s]) \in Nat /\ prompts[s] \in Nat
    BY SessionConstants DEF TypeOK
  <2>3. EventsToCome(x, prompting[s], client[s]) \in Nat /\ EventsToCome("calling", prompting[s], client[s]) \in Nat
    BY ToComeNat
  <2>4. /\ EventsToCome(launching[s], prompting[s], client[s])' = EventsToCome(x, prompting[s], client[s])
        /\ EventsToCome(launching[s], prompting[s], client[s]) = EventsToCome("calling", prompting[s], client[s])
        /\ prompts'[s] = prompts[s]
    BY <1>1, <1>2, <1>6
  <2>5. Len(chan'[s]) + 2 * prompts[s] + EventsToCome(launching[s], prompting[s], client[s])'
        <= Len(chan[s]) + 2 * prompts'[s] + EventsToCome(launching[s], prompting[s], client[s])
    BY <1>1, <2>1, <2>2, <2>3, <2>4
  <2> QED
    BY <1>4, <2>5, RoomKept DEF Consistent
<1>11. CauseKept(s)'
  BY <1>1, <1>2, <1>6, CauseStays DEF Consistent
<1>12. EndingKept(s)'
  BY <1>1, <1>2, <1>6, EndingStays DEF Consistent
<1> QED
  BY <1>4, <1>5, <1>7, <1>8, <1>9, <1>10, <1>11, <1>12 DEF Consistent

\* The client admits a turn.
LEMMA ClientAdmitsKeeps ==
  ASSUME TypeOK, NEW s \in Sessions, Consistent(s), ClientAdmits(s)
  PROVE  TypeOK' /\ Consistent(s)' /\ OthersSame(s)
<1> DEFINE c == [client[s] EXCEPT !.turn = prompts[s]]
<1>1. UNCHANGED <<registered, sess, launching, drain, finishing, clientClose, hostClose,
                  prompts, canceling, diagnosing, channels, published>>
  BY DEF ClientAdmits, hostVars
<1>2. /\ prompting[s] = "calling" /\ client[s].turn = 0 /\ ~client[s].eof
      /\ client' = [client EXCEPT ![s] = c]
      /\ prompting' = [prompting EXCEPT ![s] = "writing"]
      /\ Send(s, "started")
  BY DEF ClientAdmits
<1>3. /\ c \in ClientStates
      /\ c.turn = prompts[s]
      /\ c.turn # 0
      /\ c.ending = client[s].ending
      /\ c.child = client[s].child
      /\ c.eof = client[s].eof
  <2>1. client[s] \in ClientStates
    BY DEF TypeOK
  <2>2. prompts[s] \in 0..MaxPrompts /\ prompts[s] # 0
    BY <1>2 DEF TypeOK, Consistent, ClientEndsInOrder
  <2> QED
    BY <2>2, <2>1, SessionConstants DEF ClientStates, Fates
<1> HIDE DEF c
<1>s. /\ chan' \in [Sessions -> Seq(EventKinds)]
      /\ \A t \in Sessions : Len(chan'[t]) <= ChanCap
      /\ \A t \in Sessions \ {s} : chan'[t] = chan[t]
      /\ Len(chan[s]) \in Nat /\ Len(chan'[s]) \in Nat /\ Len(chan'[s]) <= Len(chan[s]) + 1
      /\ \A i \in 1..Len(chan'[s]) :
           (i \in 1..Len(chan[s]) /\ chan'[s][i] = chan[s][i]) \/ chan'[s][i] = "started"
      /\ \A i \in 1..Len(chan[s]) : i \in 1..Len(chan'[s]) /\ chan'[s][i] = chan[s][i]
      /\ Len(chan[s]) < ChanCap => \E i \in 1..Len(chan'[s]) : chan'[s][i] = "started"
  BY <1>2, SendFacts DEF EventKinds
<1>4. TypeOK'
  <2>1. chan' \in [Sessions -> Seq(EventKinds)] /\ \A t \in Sessions : Len(chan'[t]) <= ChanCap
    BY <1>s
  <2>2. client' \in [Sessions -> ClientStates]
    BY <1>2, <1>3 DEF TypeOK
  <2>3. prompting' \in [Sessions -> {"idle", "calling", "writing", "accepted", "refused"}]
    BY <1>2, <1>3 DEF TypeOK
  <2> QED
    BY <1>1, <2>1, <2>2, <2>3 DEF TypeOK
<1>5. OthersSame(s)
  BY <1>1, <1>2, <1>s, SessionConstants DEF TypeOK, OthersSame, Same
<1>6. client'[s] = c /\ prompting'[s] = "writing"
  BY <1>2 DEF TypeOK
<1>7. FinishInOrder(s)' /\ IdHeld(s)'
  BY <1>1, <1>2, <1>3, <1>s, <1>6, SessionConstants DEF Consistent, FinishInOrder, IdHeld, Known
<1>8. TurnsAfterCommit(s)'
  BY <1>1, <1>2, <1>3, <1>s, <1>6 DEF Consistent, TurnsAfterCommit, FinishInOrder
<1>9. ClientEndsInOrder(s)'
  BY <1>1, <1>2, <1>3, <1>s, <1>6 DEF Consistent, ClientEndsInOrder, FinishInOrder, TypeOK, Known
<1>10. RoomLeft(s)'
  <2>1. EventsToCome(launching[s], "writing", c) + 1 = EventsToCome(launching[s], "calling", client[s])
    BY <1>2, <1>3 DEF EventsToCome, Count
  <2>2. /\ Len(chan[s]) \in Nat /\ Len(chan'[s]) \in Nat /\ prompts[s] \in Nat
        /\ Len(chan'[s]) <= Len(chan[s]) + 1
    BY <1>s, SessionConstants DEF TypeOK
  <2>3. EventsToCome(launching[s], "writing", c) \in Nat /\ EventsToCome(launching[s], "calling", client[s]) \in Nat
    BY ToComeNat
  <2>4. /\ EventsToCome(launching[s], prompting[s], client[s])' = EventsToCome(launching[s], "writing", c)
        /\ EventsToCome(launching[s], prompting[s], client[s]) = EventsToCome(launching[s], "calling", client[s])
        /\ prompts'[s] = prompts[s]
    BY <1>1, <1>2, <1>6
  <2>5. EventsToCome(launching[s], prompting[s], client[s])' + 1 =
          EventsToCome(launching[s], prompting[s], client[s])
    BY <2>1, <2>4
  <2> QED
    BY <1>4, <2>2, <2>4, <2>5, EventSent DEF Consistent
<1>11. CauseKept(s)'
  <2>0. client'[s].child = client[s].child
    BY <1>3, <1>6
  <2>1. \A i \in 1..Len(chan'[s]) :
          chan'[s][i] \in {"exit", "exitError"} => client'[s].child = chan'[s][i]
    BY <2>0, <1>s DEF Consistent, CauseKept
  <2>2. NothingDropped' /\ client'[s].child \in {"exit", "exitError"} =>
          sess[s].sawProcessExit \/ sess[s].finished
          \/ \E i \in 1..Len(chan'[s]) : chan'[s][i] = client'[s].child
    BY <2>0, <1>s DEF Consistent, CauseKept, NothingDropped
  <2> QED
    BY <1>1, <1>3, <1>6, <2>1, <2>2 DEF Consistent, CauseKept
<1>12. EndingKept(s)'
  BY <1>1, <1>2, <1>3, <1>s, <1>6, EndingStays DEF Consistent
<1> QED
  BY <1>4, <1>5, <1>7, <1>8, <1>9, <1>10, <1>11, <1>12 DEF Consistent

\* The prompt is written ...
LEMMA WritesOkKeeps ==
  ASSUME TypeOK, NEW s \in Sessions, Consistent(s), ClientWrites(s),
         prompting' = [prompting EXCEPT ![s] = "accepted"], UNCHANGED <<client, chan>>
  PROVE  TypeOK' /\ Consistent(s)' /\ OthersSame(s)
<1>1. UNCHANGED <<registered, sess, launching, drain, finishing, clientClose, hostClose,
                  prompts, canceling, diagnosing, channels, published, client, chan>>
  BY DEF ClientWrites, hostVars
<1>2. /\ prompting[s] = "writing"
      /\ prompting' = [prompting EXCEPT ![s] = "accepted"]
  BY DEF ClientWrites
<1>4. TypeOK'
  BY <1>1, <1>2, SessionConstants DEF TypeOK
<1>5. OthersSame(s)
  BY <1>1, <1>2, SessionConstants DEF TypeOK, OthersSame, Same
<1>6. prompting'[s] = "accepted"
  BY <1>2 DEF TypeOK
<1>7. FinishInOrder(s)' /\ IdHeld(s)'
  BY <1>1, <1>2, <1>6, SessionConstants DEF Consistent, FinishInOrder, IdHeld, Known
<1>8. TurnsAfterCommit(s)'
  BY <1>1, <1>2, <1>6 DEF Consistent, TurnsAfterCommit, FinishInOrder
<1>9. ClientEndsInOrder(s)'
  BY <1>1, <1>2, <1>6 DEF Consistent, ClientEndsInOrder, FinishInOrder, TypeOK, Known
<1>10. RoomLeft(s)'
  <2>1. EventsToCome(launching[s], prompting[s], client[s])' =
          EventsToCome(launching[s], prompting[s], client[s])
    BY <1>1, <1>2, <1>6 DEF EventsToCome, Count
  <2> QED
    BY <2>1, <1>1 DEF Consistent, RoomLeft, EventsLeft
<1>11. CauseKept(s)'
  BY <1>1, <1>2, <1>6, CauseStays DEF Consistent
<1>12. EndingKept(s)'
  BY <1>1, <1>2, <1>6, EndingStays DEF Consistent
<1> QED
  BY <1>4, <1>5, <1>7, <1>8, <1>9, <1>10, <1>11, <1>12 DEF Consistent

\* ... or its write fails, which fails the turn.
LEMMA WritesFailKeeps ==
  ASSUME TypeOK, NEW s \in Sessions, Consistent(s), ClientWrites(s),
         prompting' = [prompting EXCEPT ![s] = "refused"],
         client' = [client EXCEPT ![s].turn = 0], Send(s, "failed")
  PROVE  TypeOK' /\ Consistent(s)' /\ OthersSame(s)
<1> DEFINE c == [client[s] EXCEPT !.turn = 0]
<1>1. UNCHANGED <<registered, sess, launching, drain, finishing, clientClose, hostClose,
                  prompts, canceling, diagnosing, channels, published>>
  BY DEF ClientWrites, hostVars
<1>2. /\ prompting[s] = "writing"
      /\ prompting' = [prompting EXCEPT ![s] = "refused"]
      /\ client' = [client EXCEPT ![s] = c]
      /\ Send(s, "failed")
  BY DEF ClientWrites
<1>3. /\ c \in ClientStates
      /\ c.turn = 0
      /\ client[s].turn # 0
      /\ c.ending = client[s].ending
      /\ c.child = client[s].child
      /\ c.eof = client[s].eof
  <2>1. client[s] \in ClientStates
    BY DEF TypeOK
  <2>2. client[s].turn # 0 /\ 0 \in 0..MaxPrompts
    BY <1>2, SessionConstants DEF Consistent, ClientEndsInOrder
  <2> QED
    BY <2>2, <2>1, SessionConstants DEF ClientStates, Fates
<1> HIDE DEF c
<1>s. /\ chan' \in [Sessions -> Seq(EventKinds)]
      /\ \A t \in Sessions : Len(chan'[t]) <= ChanCap
      /\ \A t \in Sessions \ {s} : chan'[t] = chan[t]
      /\ Len(chan[s]) \in Nat /\ Len(chan'[s]) \in Nat /\ Len(chan'[s]) <= Len(chan[s]) + 1
      /\ \A i \in 1..Len(chan'[s]) :
           (i \in 1..Len(chan[s]) /\ chan'[s][i] = chan[s][i]) \/ chan'[s][i] = "failed"
      /\ \A i \in 1..Len(chan[s]) : i \in 1..Len(chan'[s]) /\ chan'[s][i] = chan[s][i]
      /\ Len(chan[s]) < ChanCap => \E i \in 1..Len(chan'[s]) : chan'[s][i] = "failed"
  BY <1>2, SendFacts DEF EventKinds
<1>4. TypeOK'
  <2>1. chan' \in [Sessions -> Seq(EventKinds)] /\ \A t \in Sessions : Len(chan'[t]) <= ChanCap
    BY <1>s
  <2>2. prompting' \in [Sessions -> {"idle", "calling", "writing", "accepted", "refused"}]
    BY <1>2, <1>3 DEF TypeOK
  <2>3. client' \in [Sessions -> ClientStates]
    <3>1. client \in [Sessions -> ClientStates]
      BY DEF TypeOK
    <3> QED
      BY <1>2, <1>3, <3>1
  <2> QED
    BY <1>1, <2>1, <2>2, <2>3 DEF TypeOK
<1>5. OthersSame(s)
  BY <1>1, <1>2, <1>s, SessionConstants DEF TypeOK, OthersSame, Same
<1>6. prompting'[s] = "refused" /\ client'[s] = c
  BY <1>2 DEF TypeOK
<1>7. FinishInOrder(s)' /\ IdHeld(s)'
  BY <1>1, <1>2, <1>3, <1>s, <1>6, SessionConstants DEF Consistent, FinishInOrder, IdHeld, Known
<1>8. TurnsAfterCommit(s)'
  BY <1>1, <1>2, <1>3, <1>s, <1>6 DEF Consistent, TurnsAfterCommit, FinishInOrder
<1>9. ClientEndsInOrder(s)'
  BY <1>1, <1>2, <1>3, <1>s, <1>6 DEF Consistent, ClientEndsInOrder, FinishInOrder, TypeOK, Known
<1>10. RoomLeft(s)'
  <2>1. EventsToCome(launching[s], "refused", c) + 1 = EventsToCome(launching[s], "writing", client[s])
    BY <1>2, <1>3 DEF EventsToCome, Count
  <2>2. /\ Len(chan[s]) \in Nat /\ Len(chan'[s]) \in Nat /\ prompts[s] \in Nat
        /\ Len(chan'[s]) <= Len(chan[s]) + 1
    BY <1>s, SessionConstants DEF TypeOK
  <2>3. EventsToCome(launching[s], "refused", c) \in Nat /\ EventsToCome(launching[s], "writing", client[s]) \in Nat
    BY ToComeNat
  <2>4. /\ EventsToCome(launching[s], prompting[s], client[s])' = EventsToCome(launching[s], "refused", c)
        /\ EventsToCome(launching[s], prompting[s], client[s]) = EventsToCome(launching[s], "writing", client[s])
        /\ prompts'[s] = prompts[s]
    BY <1>1, <1>2, <1>6
  <2>5. EventsToCome(launching[s], prompting[s], client[s])' + 1 =
          EventsToCome(launching[s], prompting[s], client[s])
    BY <2>1, <2>4
  <2> QED
    BY <1>4, <2>2, <2>4, <2>5, EventSent DEF Consistent
<1>11. CauseKept(s)'
  <2>0. client'[s].child = client[s].child
    BY <1>3, <1>6
  <2>1. \A i \in 1..Len(chan'[s]) :
          chan'[s][i] \in {"exit", "exitError"} => client'[s].child = chan'[s][i]
    BY <2>0, <1>s DEF Consistent, CauseKept
  <2>2. NothingDropped' /\ client'[s].child \in {"exit", "exitError"} =>
          sess[s].sawProcessExit \/ sess[s].finished
          \/ \E i \in 1..Len(chan'[s]) : chan'[s][i] = client'[s].child
    BY <2>0, <1>s DEF Consistent, CauseKept, NothingDropped
  <2> QED
    BY <1>1, <1>3, <1>6, <2>1, <2>2 DEF Consistent, CauseKept
<1>12. EndingKept(s)'
  BY <1>1, <1>2, <1>3, <1>s, <1>6, EndingStays DEF Consistent
<1> QED
  BY <1>4, <1>5, <1>7, <1>8, <1>9, <1>10, <1>11, <1>12 DEF Consistent

\* The client refuses a prompt.
LEMMA ClientRefusesKeeps ==
  ASSUME TypeOK, NEW s \in Sessions, Consistent(s), ClientRefuses(s)
  PROVE  TypeOK' /\ Consistent(s)' /\ OthersSame(s)
<1>1. UNCHANGED <<registered, sess, launching, drain, finishing, clientClose, hostClose,
                  prompts, canceling, diagnosing, channels, published, client, chan>>
  BY DEF ClientRefuses, hostVars
<1>2. /\ prompting[s] = "calling"
      /\ prompting' = [prompting EXCEPT ![s] = "refused"]
  BY DEF ClientRefuses
<1>4. TypeOK'
  BY <1>1, <1>2, SessionConstants DEF TypeOK
<1>5. OthersSame(s)
  BY <1>1, <1>2, SessionConstants DEF TypeOK, OthersSame, Same
<1>6. prompting'[s] = "refused"
  BY <1>2 DEF TypeOK
<1>7. FinishInOrder(s)' /\ IdHeld(s)'
  BY <1>1, <1>2, <1>6, SessionConstants DEF Consistent, FinishInOrder, IdHeld, Known
<1>8. TurnsAfterCommit(s)'
  BY <1>1, <1>2, <1>6 DEF Consistent, TurnsAfterCommit, FinishInOrder
<1>9. ClientEndsInOrder(s)'
  BY <1>1, <1>2, <1>6 DEF Consistent, ClientEndsInOrder, FinishInOrder, TypeOK, Known
<1>10. RoomLeft(s)'
  <2>1. EventsToCome(launching[s], "calling", client[s]) =
          EventsToCome(launching[s], "refused", client[s]) + 2
    BY DEF EventsToCome, Count
  <2>2. Len(chan[s]) \in Nat /\ prompts[s] \in Nat
    BY SessionConstants DEF TypeOK
  <2>3. EventsToCome(launching[s], "refused", client[s]) \in Nat /\ EventsToCome(launching[s], "calling", client[s]) \in Nat
    BY ToComeNat
  <2>4. /\ EventsToCome(launching[s], prompting[s], client[s])' = EventsToCome(launching[s], "refused", client[s])
        /\ EventsToCome(launching[s], prompting[s], client[s]) = EventsToCome(launching[s], "calling", client[s])
        /\ prompts'[s] = prompts[s]
    BY <1>1, <1>2, <1>6
  <2>5. Len(chan'[s]) + 2 * prompts[s] + EventsToCome(launching[s], prompting[s], client[s])'
        <= Len(chan[s]) + 2 * prompts'[s] + EventsToCome(launching[s], prompting[s], client[s])
    BY <1>1, <2>1, <2>2, <2>3, <2>4
  <2> QED
    BY <1>4, <2>5, RoomKept DEF Consistent
<1>11. CauseKept(s)'
  BY <1>1, <1>2, <1>6, CauseStays DEF Consistent
<1>12. EndingKept(s)'
  BY <1>1, <1>2, <1>6, EndingStays DEF Consistent
<1> QED
  BY <1>4, <1>5, <1>7, <1>8, <1>9, <1>10, <1>11, <1>12 DEF Consistent

\* The client ends a turn.
LEMMA ClientTurnEndsKeeps ==
  ASSUME TypeOK, NEW s \in Sessions, Consistent(s), ClientTurnEnds(s)
  PROVE  TypeOK' /\ Consistent(s)' /\ OthersSame(s)
<1> DEFINE c == [client[s] EXCEPT !.turn = 0, !.ending = client[s].turn]
<1>1. UNCHANGED <<registered, sess, launching, drain, finishing, clientClose, hostClose,
                  prompting, prompts, canceling, diagnosing, channels, published, chan>>
  BY DEF ClientTurnEnds, hostVars
<1>2. /\ client[s].turn # 0 /\ prompting[s] # "writing" /\ client[s].ending = 0
      /\ client' = [client EXCEPT ![s] = c]
  BY DEF ClientTurnEnds
<1>3. /\ c \in ClientStates
      /\ c.turn = 0 /\ c.ending = client[s].turn
      /\ c.child = client[s].child
      /\ c.eof = client[s].eof
  <2>1. client[s] \in ClientStates
    BY DEF TypeOK
  <2>2. 0 \in 0..MaxPrompts /\ client[s].turn \in 0..MaxPrompts
    BY <2>1, SessionConstants DEF ClientStates
  <2> QED
    BY <2>2, <2>1, SessionConstants DEF ClientStates, Fates
<1> HIDE DEF c
<1>4. TypeOK'
  BY <1>1, <1>2, <1>3, SessionConstants DEF TypeOK
<1>5. OthersSame(s)
  BY <1>1, <1>2, SessionConstants DEF TypeOK, OthersSame, Same
<1>6. client'[s] = c
  BY <1>2 DEF TypeOK
<1>7. FinishInOrder(s)' /\ IdHeld(s)'
  BY <1>1, <1>2, <1>3, <1>6, SessionConstants DEF Consistent, FinishInOrder, IdHeld, Known
<1>8. TurnsAfterCommit(s)'
  BY <1>1, <1>2, <1>3, <1>6 DEF Consistent, TurnsAfterCommit, FinishInOrder
<1>9. ClientEndsInOrder(s)'
  BY <1>1, <1>2, <1>3, <1>6 DEF Consistent, ClientEndsInOrder, FinishInOrder, TypeOK, Known
<1>10. RoomLeft(s)'
  <2>1. EventsToCome(launching[s], prompting[s], client[s])' =
          EventsToCome(launching[s], prompting[s], client[s])
    BY <1>1, <1>2, <1>3, <1>6 DEF EventsToCome, Count
  <2> QED
    BY <2>1, <1>1 DEF Consistent, RoomLeft, EventsLeft
<1>11. CauseKept(s)'
  BY <1>1, <1>2, <1>3, <1>6, CauseStays DEF Consistent
<1>12. EndingKept(s)'
  BY <1>1, <1>2, <1>3, <1>6, EndingStays DEF Consistent
<1> QED
  BY <1>4, <1>5, <1>7, <1>8, <1>9, <1>10, <1>11, <1>12 DEF Consistent

\* The client reports the end of a turn.
LEMMA ClientReportsKeeps ==
  ASSUME TypeOK, NEW s \in Sessions, Consistent(s),
         NEW e \in {"completed", "failed"}, ClientReports(s, e)
  PROVE  TypeOK' /\ Consistent(s)' /\ OthersSame(s)
<1> DEFINE c == [client[s] EXCEPT !.ending = 0]
<1>1. UNCHANGED <<registered, sess, launching, drain, finishing, clientClose, hostClose,
                  prompting, prompts, canceling, diagnosing, channels, published>>
  BY DEF ClientReports, hostVars
<1>2. /\ client[s].ending # 0
      /\ client' = [client EXCEPT ![s] = c]
      /\ Send(s, e)
  BY DEF ClientReports
<1>3. /\ c \in ClientStates
      /\ c.ending = 0
      /\ c.turn = client[s].turn
      /\ c.child = client[s].child
      /\ c.eof = client[s].eof
  <2>1. client[s] \in ClientStates
    BY DEF TypeOK
  <2> QED
    BY <2>1, SessionConstants DEF ClientStates, Fates
<1> HIDE DEF c
<1>s. /\ chan' \in [Sessions -> Seq(EventKinds)]
      /\ \A t \in Sessions : Len(chan'[t]) <= ChanCap
      /\ \A t \in Sessions \ {s} : chan'[t] = chan[t]
      /\ Len(chan[s]) \in Nat /\ Len(chan'[s]) \in Nat /\ Len(chan'[s]) <= Len(chan[s]) + 1
      /\ \A i \in 1..Len(chan'[s]) :
           (i \in 1..Len(chan[s]) /\ chan'[s][i] = chan[s][i]) \/ chan'[s][i] = e
      /\ \A i \in 1..Len(chan[s]) : i \in 1..Len(chan'[s]) /\ chan'[s][i] = chan[s][i]
      /\ Len(chan[s]) < ChanCap => \E i \in 1..Len(chan'[s]) : chan'[s][i] = e
  BY <1>2, SendFacts DEF EventKinds
<1>4. TypeOK'
  <2>1. chan' \in [Sessions -> Seq(EventKinds)] /\ \A t \in Sessions : Len(chan'[t]) <= ChanCap
    BY <1>s
  <2>2. client' \in [Sessions -> ClientStates]
    BY <1>2, <1>3 DEF TypeOK
  <2> QED
    BY <1>1, <2>1, <2>2 DEF TypeOK
<1>5. OthersSame(s)
  BY <1>1, <1>2, <1>s, SessionConstants DEF TypeOK, OthersSame, Same
<1>6. client'[s] = c
  BY <1>2 DEF TypeOK
<1>7. FinishInOrder(s)' /\ IdHeld(s)'
  BY <1>1, <1>2, <1>3, <1>s, <1>6, SessionConstants DEF Consistent, FinishInOrder, IdHeld, Known
<1>8. TurnsAfterCommit(s)'
  BY <1>1, <1>2, <1>3, <1>s, <1>6 DEF Consistent, TurnsAfterCommit, FinishInOrder
<1>9. ClientEndsInOrder(s)'
  BY <1>1, <1>2, <1>3, <1>s, <1>6 DEF Consistent, ClientEndsInOrder, FinishInOrder, TypeOK, Known
<1>10. RoomLeft(s)'
  <2>1. EventsToCome(launching[s], prompting[s], c) + 1 = EventsToCome(launching[s], prompting[s], client[s])
    BY <1>2, <1>3 DEF EventsToCome, Count
  <2>2. /\ Len(chan[s]) \in Nat /\ Len(chan'[s]) \in Nat /\ prompts[s] \in Nat
        /\ Len(chan'[s]) <= Len(chan[s]) + 1
    BY <1>s, SessionConstants DEF TypeOK
  <2>3. EventsToCome(launching[s], prompting[s], c) \in Nat /\ EventsToCome(launching[s], prompting[s], client[s]) \in Nat
    BY ToComeNat
  <2>4. /\ EventsToCome(launching[s], prompting[s], client[s])' = EventsToCome(launching[s], prompting[s], c)
        /\ EventsToCome(launching[s], prompting[s], client[s]) = EventsToCome(launching[s], prompting[s], client[s])
        /\ prompts'[s] = prompts[s]
    BY <1>1, <1>2, <1>6
  <2>5. EventsToCome(launching[s], prompting[s], client[s])' + 1 =
          EventsToCome(launching[s], prompting[s], client[s])
    BY <2>1, <2>4
  <2> QED
    BY <1>4, <2>2, <2>4, <2>5, EventSent DEF Consistent
<1>11. CauseKept(s)'
  <2>0. client'[s].child = client[s].child
    BY <1>3, <1>6
  <2>1. \A i \in 1..Len(chan'[s]) :
          chan'[s][i] \in {"exit", "exitError"} => client'[s].child = chan'[s][i]
    BY <2>0, <1>s DEF Consistent, CauseKept
  <2>2. NothingDropped' /\ client'[s].child \in {"exit", "exitError"} =>
          sess[s].sawProcessExit \/ sess[s].finished
          \/ \E i \in 1..Len(chan'[s]) : chan'[s][i] = client'[s].child
    BY <2>0, <1>s DEF Consistent, CauseKept, NothingDropped
  <2> QED
    BY <1>1, <1>3, <1>6, <2>1, <2>2 DEF Consistent, CauseKept
<1>12. EndingKept(s)'
  BY <1>1, <1>2, <1>3, <1>s, <1>6, EndingStays DEF Consistent
<1> QED
  BY <1>4, <1>5, <1>7, <1>8, <1>9, <1>10, <1>11, <1>12 DEF Consistent

\* The agent disconnects, which no event tells ...
LEMMA DisconnectsKeeps ==
  ASSUME TypeOK, NEW s \in Sessions, Consistent(s), NEW e, ClientExits(s, e),
         e = "disconnect"
  PROVE  TypeOK' /\ Consistent(s)' /\ OthersSame(s)
<1> DEFINE c == [client[s] EXCEPT !.child = "disconnect"]
<1>1. UNCHANGED <<registered, sess, launching, drain, finishing, clientClose, hostClose,
                  prompting, prompts, canceling, diagnosing, channels, published, chan>>
  BY DEF ClientExits, hostVars
<1>2. /\ client[s].child = "live"
      /\ client' = [client EXCEPT ![s] = c]
  BY DEF ClientExits
<1>3. /\ c \in ClientStates
      /\ c.child = "disconnect"
      /\ c.turn = client[s].turn
      /\ c.ending = client[s].ending
      /\ c.eof = client[s].eof
  <2>1. client[s] \in ClientStates
    BY DEF TypeOK
  <2> QED
    BY <2>1, SessionConstants DEF ClientStates, Fates
<1> HIDE DEF c
<1>4. TypeOK'
  BY <1>1, <1>2, <1>3, SessionConstants DEF TypeOK
<1>5. OthersSame(s)
  BY <1>1, <1>2, SessionConstants DEF TypeOK, OthersSame, Same
<1>6. client'[s] = c
  BY <1>2 DEF TypeOK
<1>7. FinishInOrder(s)' /\ IdHeld(s)'
  BY <1>1, <1>2, <1>3, <1>6, SessionConstants DEF Consistent, FinishInOrder, IdHeld, Known
<1>8. TurnsAfterCommit(s)'
  BY <1>1, <1>2, <1>3, <1>6 DEF Consistent, TurnsAfterCommit, FinishInOrder
<1>9. ClientEndsInOrder(s)'
  BY <1>1, <1>2, <1>3, <1>6 DEF Consistent, ClientEndsInOrder, FinishInOrder, TypeOK, Known, Fates
<1>10. RoomLeft(s)'
  <2>1. EventsToCome(launching[s], prompting[s], c) + 1 =
          EventsToCome(launching[s], prompting[s], client[s])
    BY <1>2, <1>3 DEF EventsToCome, Count
  <2>2. Len(chan[s]) \in Nat /\ prompts[s] \in Nat
    BY SessionConstants DEF TypeOK
  <2>3. EventsToCome(launching[s], prompting[s], c) \in Nat /\ EventsToCome(launching[s], prompting[s], client[s]) \in Nat
    BY ToComeNat
  <2>4. /\ EventsToCome(launching[s], prompting[s], client[s])' = EventsToCome(launching[s], prompting[s], c)
        /\ EventsToCome(launching[s], prompting[s], client[s]) = EventsToCome(launching[s], prompting[s], client[s])
        /\ prompts'[s] = prompts[s]
    BY <1>1, <1>2, <1>6
  <2>5. Len(chan'[s]) + 2 * prompts[s] + EventsToCome(launching[s], prompting[s], client[s])'
        <= Len(chan[s]) + 2 * prompts'[s] + EventsToCome(launching[s], prompting[s], client[s])
    BY <1>1, <2>1, <2>2, <2>3, <2>4
  <2> QED
    BY <1>4, <2>5, RoomKept DEF Consistent
<1>11. CauseKept(s)'
  <2>1. /\ ~sess[s].sawProcessExit
        /\ \A i \in 1..Len(chan[s]) : chan[s][i] \notin {"exit", "exitError"}
    BY <1>2 DEF Consistent, CauseKept
  <2> QED
    BY <1>1, <1>2, <1>3, <1>6, <2>1 DEF Consistent, CauseKept
<1>12. EndingKept(s)'
  BY <1>1, <1>2, <1>3, <1>6 DEF Consistent, EndingKept, EndingIsCause, NothingDropped,
     FinishInOrder, ClientEndsInOrder, CauseKept, Fates
<1> QED
  BY <1>4, <1>5, <1>7, <1>8, <1>9, <1>10, <1>11, <1>12 DEF Consistent

\* ... or exits, and tells.
LEMMA ExitsKeeps ==
  ASSUME TypeOK, NEW s \in Sessions, Consistent(s),
         NEW e \in {"exit", "exitError"}, ClientExits(s, e)
  PROVE  TypeOK' /\ Consistent(s)' /\ OthersSame(s)
<1> DEFINE c == [client[s] EXCEPT !.child = e]
<1>1. UNCHANGED <<registered, sess, launching, drain, finishing, clientClose, hostClose,
                  prompting, prompts, canceling, diagnosing, channels, published>>
  BY DEF ClientExits, hostVars
<1>2. /\ client[s].child = "live"
      /\ client' = [client EXCEPT ![s] = c]
      /\ Send(s, e)
  BY DEF ClientExits
<1>3. /\ c \in ClientStates
      /\ c.child = e
      /\ c.turn = client[s].turn
      /\ c.ending = client[s].ending
      /\ c.eof = client[s].eof
  <2>1. client[s] \in ClientStates
    BY DEF TypeOK
  <2> QED
    BY <2>1, SessionConstants DEF ClientStates, Fates
<1> HIDE DEF c
<1>s. /\ chan' \in [Sessions -> Seq(EventKinds)]
      /\ \A t \in Sessions : Len(chan'[t]) <= ChanCap
      /\ \A t \in Sessions \ {s} : chan'[t] = chan[t]
      /\ Len(chan[s]) \in Nat /\ Len(chan'[s]) \in Nat /\ Len(chan'[s]) <= Len(chan[s]) + 1
      /\ \A i \in 1..Len(chan'[s]) :
           (i \in 1..Len(chan[s]) /\ chan'[s][i] = chan[s][i]) \/ chan'[s][i] = e
      /\ \A i \in 1..Len(chan[s]) : i \in 1..Len(chan'[s]) /\ chan'[s][i] = chan[s][i]
      /\ Len(chan[s]) < ChanCap => \E i \in 1..Len(chan'[s]) : chan'[s][i] = e
  BY <1>2, SendFacts DEF EventKinds
<1>4. TypeOK'
  <2>1. chan' \in [Sessions -> Seq(EventKinds)] /\ \A t \in Sessions : Len(chan'[t]) <= ChanCap
    BY <1>s
  <2>2. client' \in [Sessions -> ClientStates]
    BY <1>2, <1>3 DEF TypeOK
  <2> QED
    BY <1>1, <2>1, <2>2 DEF TypeOK
<1>5. OthersSame(s)
  BY <1>1, <1>2, <1>s, SessionConstants DEF TypeOK, OthersSame, Same
<1>6. client'[s] = c
  BY <1>2 DEF TypeOK
<1>7. FinishInOrder(s)' /\ IdHeld(s)'
  BY <1>1, <1>2, <1>3, <1>s, <1>6, SessionConstants DEF Consistent, FinishInOrder, IdHeld, Known
<1>8. TurnsAfterCommit(s)'
  BY <1>1, <1>2, <1>3, <1>s, <1>6 DEF Consistent, TurnsAfterCommit, FinishInOrder
<1>9. ClientEndsInOrder(s)'
  BY <1>1, <1>2, <1>3, <1>s, <1>6 DEF Consistent, ClientEndsInOrder, FinishInOrder, TypeOK,
     Known, Fates
<1>10. RoomLeft(s)'
  <2>1. EventsToCome(launching[s], prompting[s], c) + 1 = EventsToCome(launching[s], prompting[s], client[s])
    BY <1>2, <1>3 DEF EventsToCome, Count
  <2>2. /\ Len(chan[s]) \in Nat /\ Len(chan'[s]) \in Nat /\ prompts[s] \in Nat
        /\ Len(chan'[s]) <= Len(chan[s]) + 1
    BY <1>s, SessionConstants DEF TypeOK
  <2>3. EventsToCome(launching[s], prompting[s], c) \in Nat /\ EventsToCome(launching[s], prompting[s], client[s]) \in Nat
    BY ToComeNat
  <2>4. /\ EventsToCome(launching[s], prompting[s], client[s])' = EventsToCome(launching[s], prompting[s], c)
        /\ EventsToCome(launching[s], prompting[s], client[s]) = EventsToCome(launching[s], prompting[s], client[s])
        /\ prompts'[s] = prompts[s]
    BY <1>1, <1>2, <1>6
  <2>5. EventsToCome(launching[s], prompting[s], client[s])' + 1 =
          EventsToCome(launching[s], prompting[s], client[s])
    BY <2>1, <2>4
  <2> QED
    BY <1>4, <2>2, <2>4, <2>5, EventSent DEF Consistent
<1>11. CauseKept(s)'
  <2>1. /\ ~sess[s].sawProcessExit
        /\ \A i \in 1..Len(chan[s]) : chan[s][i] \notin {"exit", "exitError"}
    BY <1>2 DEF Consistent, CauseKept
  <2>2. \A i \in 1..Len(chan'[s]) : chan'[s][i] \in {"exit", "exitError"} => e = chan'[s][i]
    BY <1>s, <2>1
  <2>3. NothingDropped => Len(chan[s]) < ChanCap
    <3>1. EventsToCome(launching[s], prompting[s], client[s]) >= 1
      BY <1>2 DEF EventsToCome, Count
    <3>2. /\ Len(chan[s]) \in Nat /\ ChanCap \in Nat /\ MaxPrompts \in Nat
          /\ prompts[s] \in 0..MaxPrompts
          /\ EventsToCome(launching[s], prompting[s], client[s]) \in Nat
      BY ToComeNat, SessionConstants DEF TypeOK
    <3> QED
      BY <3>1, <3>2 DEF Consistent, RoomLeft, EventsLeft, NothingDropped
  <2>4. NothingDropped => \E i \in 1..Len(chan'[s]) : chan'[s][i] = e
    BY <1>s, <2>3
  <2> QED
    BY <1>1, <1>3, <1>6, <2>1, <2>2, <2>4 DEF Consistent, CauseKept, NothingDropped
<1>12. EndingKept(s)'
  BY <1>1, <1>2, <1>3, <1>s, <1>6 DEF Consistent, EndingKept, EndingIsCause, NothingDropped,
     FinishInOrder, ClientEndsInOrder, CauseKept, Fates
<1> QED
  BY <1>4, <1>5, <1>7, <1>8, <1>9, <1>10, <1>11, <1>12 DEF Consistent

\* The client closes its channel.
LEMMA ClientClosesKeeps ==
  ASSUME TypeOK, NEW s \in Sessions, Consistent(s), ClientCloses(s)
  PROVE  TypeOK' /\ Consistent(s)' /\ OthersSame(s)
<1> DEFINE c == [client[s] EXCEPT !.eof = TRUE]
<1>1. UNCHANGED <<registered, sess, launching, drain, finishing, clientClose, hostClose,
                  prompting, prompts, canceling, diagnosing, channels, published, chan>>
  BY DEF ClientCloses, hostVars
<1>2. /\ client[s].child \in Fates
      /\ client[s].turn = 0 /\ client[s].ending = 0 /\ diagnosing[s] # "malformed"
      /\ client' = [client EXCEPT ![s] = c]
  BY DEF ClientCloses, Gone
<1>3. /\ c \in ClientStates
      /\ c.eof
      /\ c.turn = client[s].turn
      /\ c.ending = client[s].ending
      /\ c.child = client[s].child
  <2>1. client[s] \in ClientStates
    BY DEF TypeOK
  <2> QED
    BY <2>1, SessionConstants DEF ClientStates, Fates
<1> HIDE DEF c
<1>4. TypeOK'
  BY <1>1, <1>2, <1>3, SessionConstants DEF TypeOK
<1>5. OthersSame(s)
  BY <1>1, <1>2, SessionConstants DEF TypeOK, OthersSame, Same
<1>6. client'[s] = c
  BY <1>2 DEF TypeOK
<1>7. FinishInOrder(s)' /\ IdHeld(s)'
  BY <1>1, <1>2, <1>3, <1>6, SessionConstants DEF Consistent, FinishInOrder, IdHeld, Known
<1>8. TurnsAfterCommit(s)'
  BY <1>1, <1>2, <1>3, <1>6 DEF Consistent, TurnsAfterCommit, FinishInOrder
<1>9. ClientEndsInOrder(s)'
  BY <1>1, <1>2, <1>3, <1>6 DEF Consistent, ClientEndsInOrder, FinishInOrder, TypeOK, Known
<1>10. RoomLeft(s)'
  <2>1. EventsToCome(launching[s], prompting[s], client[s])' =
          EventsToCome(launching[s], prompting[s], client[s])
    BY <1>1, <1>2, <1>3, <1>6 DEF EventsToCome, Count
  <2> QED
    BY <2>1, <1>1 DEF Consistent, RoomLeft, EventsLeft
<1>11. CauseKept(s)'
  BY <1>1, <1>2, <1>3, <1>6, CauseStays DEF Consistent
<1>12. EndingKept(s)'
  BY <1>1, <1>2, <1>3, <1>6, EndingStays DEF Consistent
<1> QED
  BY <1>4, <1>5, <1>7, <1>8, <1>9, <1>10, <1>11, <1>12 DEF Consistent

--------------------------------------------------------------------------------
(***************************************************************************)
(* The theorems.                                                           *)
(***************************************************************************)

\* The inductive invariant.
AllConsistent == TypeOK /\ \A s \in Sessions : Consistent(s)

\* The initial state.
LEMMA InitConsistent == Init => AllConsistent
<1> SUFFICES ASSUME Init PROVE AllConsistent
  OBVIOUS
<1>1. TypeOK
  <2>1. NewFields \in Fields
    BY DEF NewFields, Fields, States, Outcomes
  <2>2. [at |-> "idle", event |-> "ready"] \in DrainStates
    BY DEF DrainStates, EventKinds
  <2>3. [launchDone |-> FALSE, eventsClosed |-> FALSE, diagnosticsClosed |-> FALSE,
         done |-> FALSE] \in Latches
    BY DEF Latches
  <2>4. [turn |-> 0, ending |-> 0, child |-> "none", eof |-> FALSE] \in ClientStates
    BY SessionConstants DEF ClientStates
  <2>5. "idle" \in LaunchStages /\ "idle" \in FinishStages /\ 0 \in 0..MaxPrompts
    BY SessionConstants DEF LaunchStages, FinishStages
  <2>6. <<>> \in Seq(EventKinds) /\ Len(<<>>) <= ChanCap
    BY SessionConstants
  <2> QED
    BY <2>1, <2>2, <2>3, <2>4, <2>5, <2>6 DEF Init, TypeOK
<1>2. ASSUME NEW s \in Sessions PROVE Consistent(s)
  <2>1. /\ registered = None /\ s # None /\ sess[s] = NewFields /\ launching[s] = "idle"
        /\ drain[s].at = "idle" /\ finishing[s] = "idle" /\ prompting[s] = "idle"
        /\ prompts[s] = 0 /\ diagnosing[s] = "idle" /\ published[s] = {} /\ chan[s] = <<>>
        /\ ~channels[s].launchDone /\ ~channels[s].eventsClosed
        /\ ~channels[s].diagnosticsClosed /\ ~channels[s].done
        /\ client[s].turn = 0 /\ client[s].ending = 0 /\ client[s].child = "none"
        /\ ~client[s].eof
    BY SessionConstants DEF Init
  <2>2. /\ ~NewFields.finished /\ ~NewFields.launchCommitted /\ NewFields.state = "launching"
        /\ ~NewFields.sawProcessExit /\ NewFields.err = "" /\ NewFields.terminalOutcome = ""
    BY DEF NewFields
  <2>3. 1..Len(chan[s]) = {} /\ Len(chan[s]) = 0
    BY <2>1
  <2>4. FinishInOrder(s) /\ IdHeld(s) /\ TurnsAfterCommit(s) /\ ClientEndsInOrder(s)
    BY <2>1, <2>2, <2>3 DEF FinishInOrder, IdHeld, Known, TurnsAfterCommit, ClientEndsInOrder
  <2>5. RoomLeft(s)
    <3>1. EventsToCome(launching[s], prompting[s], client[s]) = 2
      BY <2>1 DEF EventsToCome, Count
    <3> QED
      BY <2>1, <2>3, <3>1, SessionConstants DEF RoomLeft, EventsLeft
  <2>6. CauseKept(s) /\ EndingKept(s)
    BY <2>1, <2>2, <2>3 DEF CauseKept, EndingKept
  <2> QED
    BY <2>4, <2>5, <2>6 DEF Consistent
<1> QED
  BY <1>1, <1>2 DEF AllConsistent

\* A step of one session keeps it consistent, and the others as they are.
LEMMA StepConsistent ==
  ASSUME TypeOK, NEW s \in Sessions, Consistent(s),
         LaunchStep(s) \/ DrainStep(s) \/ FinishStep(s) \/ HostStep(s) \/ DiagnosticStep(s)
           \/ ClientStep(s)
  PROVE  TypeOK' /\ Consistent(s)' /\ OthersSame(s)
<1> DEFINE Kept == TypeOK' /\ Consistent(s)' /\ OthersSame(s)
<1> HIDE DEF Kept
<1>1. ASSUME LaunchStep(s) PROVE Kept
  <2>1. CASE Register(s)
    BY <2>1, ReserveKeeps, RefuseKeeps DEF Kept
  <2>2. CASE LaunchDone(s)
    BY <2>2, LaunchReturnsKeeps, LaunchGivesUpKeeps DEF Kept
  <2> QED
    BY <1>1, <2>1, <2>2, LaunchCommitKeeps, LaunchAbortKeeps, LaunchFailedKeeps
       DEF LaunchStep, Kept
<1>2. ASSUME DrainStep(s) PROVE Kept
  BY <1>2, DrainObserveKeeps, DrainReadyKeeps, PublishKeeps, DrainEndKeeps DEF DrainStep, Kept
<1>3. ASSUME FinishStep(s) PROVE Kept
  BY <1>3, FinishBeginKeeps, FinishClassifyKeeps, FinishUnregisterKeeps, FinishEventsKeeps,
     FinishDiagnosticsKeeps, FinishDoneKeeps DEF FinishStep, Kept
<1>4. ASSUME HostStep(s) PROVE Kept
  BY <1>4, PromptKeeps, PromptReturnKeeps, CancelKeeps, CloseKeeps, CloseReturnKeeps
     DEF HostStep, Kept
<1>5. ASSUME DiagnosticStep(s) PROVE Kept
  BY <1>5, DiagnosticBeginKeeps, DiagnosticSendKeeps, DiagnosticEndKeeps
     DEF DiagnosticStep, Kept
<1>6. ASSUME ClientStep(s) PROVE Kept
  <2>1. CASE ClientLaunch(s)
    <3>1. CASE Send(s, "ready") /\ ~client[s].eof /\ launching' = [launching EXCEPT ![s] = "committing"]
      BY <2>1, <3>1, LaunchReadyKeeps DEF Kept
    <3>2. ASSUME NEW x \in {"committing", "launchFailed"}, UNCHANGED chan,
                 launching' = [launching EXCEPT ![s] = x]
          PROVE  Kept
      BY <2>1, <3>2, LaunchSilentKeeps DEF Kept
    <3> QED
      BY <2>1, <3>1, <3>2 DEF ClientLaunch
  <2>2. CASE ClientWrites(s)
    BY <2>2, WritesOkKeeps, WritesFailKeeps DEF ClientWrites, Kept
  <2>3. ASSUME NEW e \in ChildFates, ClientExits(s, e) PROVE Kept
    BY <2>3, DisconnectsKeeps, ExitsKeeps, SessionConstants DEF Kept
  <2> QED
    BY <1>6, <2>1, <2>2, <2>3, CloseClientKeeps, ClientClosedKeeps, ClientAdmitsKeeps,
       ClientRefusesKeeps, ClientTurnEndsKeeps, ClientReportsKeeps, ClientClosesKeeps
       DEF ClientStep, Kept
<1> QED
  BY <1>1, <1>2, <1>3, <1>4, <1>5, <1>6 DEF Kept

\* The invariant is inductive.
LEMMA NextConsistent == AllConsistent /\ [Next]_vars => AllConsistent'
<1> SUFFICES ASSUME AllConsistent, [Next]_vars PROVE AllConsistent'
  OBVIOUS
<1>1. CASE Next
  <2>1. PICK s \in Sessions :
          LaunchStep(s) \/ DrainStep(s) \/ FinishStep(s) \/ HostStep(s) \/ DiagnosticStep(s)
            \/ ClientStep(s)
    BY <1>1 DEF Next
  <2>2. TypeOK' /\ Consistent(s)' /\ OthersSame(s)
    BY <2>1, StepConsistent DEF AllConsistent
  <2>3. ASSUME NEW t \in Sessions \ {s} PROVE Consistent(t)'
    BY <2>2, <2>3, SameKeeps DEF AllConsistent, OthersSame
  <2> QED
    BY <2>2, <2>3 DEF AllConsistent
<1>2. CASE UNCHANGED vars
  <2>1. UNCHANGED <<registered, sess, launching, drain, finishing, clientClose, hostClose,
                    prompting, prompts, canceling, diagnosing, channels, published, client, chan>>
    BY <1>2 DEF vars, hostVars
  <2>2. TypeOK'
    BY <2>1 DEF AllConsistent, TypeOK
  <2>3. ASSUME NEW t \in Sessions PROVE Consistent(t)'
    <3>1. Same(t)
      BY <2>1 DEF Same
    <3> QED
      BY <3>1, SameKeeps DEF AllConsistent
  <2> QED
    BY <2>2, <2>3 DEF AllConsistent
<1> QED
  BY <1>1, <1>2

\* The inductive invariant is reached by every behaviour.
LEMMA AlwaysConsistent == Spec => []AllConsistent
  BY InitConsistent, NextConsistent, PTL DEF Spec

\* A finished session is silent and readiness never precedes the commit: the whole
\* of SessionInv, for any number of launches, prompts and events.
THEOREM SessionSafety == Spec => []SessionInv
<1>1. AllConsistent => SessionInv
  <2> SUFFICES ASSUME AllConsistent PROVE SessionInv
    OBVIOUS
  <2>1. DoneMeansQuiet
    BY DEF AllConsistent, Consistent, DoneMeansQuiet, FinishInOrder, IdHeld
  <2>2. ReadyAfterCommit
    BY DEF AllConsistent, Consistent, ReadyAfterCommit, TurnsAfterCommit
  <2> QED
    BY <2>1, <2>2 DEF AllConsistent, Consistent, SessionInv
<1> QED
  BY <1>1, AlwaysConsistent, PTL

\* Two agents never share an id: of two sessions launched under it, one has its
\* client closed (Manager.Launch reserves the id before the client starts, finish
\* gives it back after client.Close).
THEOREM IdHasOneClient == Spec => []OneClientPerId
<1>1. AllConsistent => OneClientPerId
  BY DEF AllConsistent, Consistent, OneClientPerId, IdHeld
<1> QED
  BY <1>1, AlwaysConsistent, PTL

\* A finished session reports what ended it and keeps to that, as long as the
\* client's event channel can hold the events of all its prompts: only a dropped
\* exit event can turn a child's exit into a disconnect.
THEOREM OutcomeReported ==
  ASSUME NothingDropped
  PROVE  Spec => []OutcomeIsCause
<1>1. AllConsistent => OutcomeIsCause
  BY DEF AllConsistent, Consistent, OutcomeIsCause, EndingKept
<1> QED
  BY <1>1, AlwaysConsistent, PTL
================================================================================
