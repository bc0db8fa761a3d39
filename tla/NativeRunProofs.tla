----------------------------- MODULE NativeRunProofs -----------------------------
(***************************************************************************)
(* Proofs about a native run, for any inputs, cancels, channel capacity    *)
(* and amount of output.                                                   *)
(***************************************************************************)
EXTENDS NativeRun, FiniteSetTheorems, SequenceTheorems, TLAPS

EventNames == Kinds \cup {"started", "exited"}

Reasons == {"", "interrupted", "process_exited"}

LogEntries == [what : EventNames, turn : Nat, n : Nat, usage : SUBSET Nat, reason : Reasons]

\* Calls the agent has had or will not have.
Taken == {i \in Inputs : input[i] \in {"running", "returned"}}

\* Types, and the counts that bound what the agent and the wrapper number.
Typed ==
  /\ TypeOK /\ log \in Seq(LogEntries)
  /\ queued + agentTurn <= Cardinality(Taken)
  /\ lastTurn + Len(fanout) + (IF marking THEN 1 ELSE 0) <= produced

\* Who may still report when Run has got how far.
RunInOrder ==
  /\ session = "none" => /\ produced = 0 /\ ~answering /\ runner = None
                         /\ run \in {"starting", "returned"}
  /\ run = "starting" => translator = "off"
  /\ run \in {"waited", "sealed", "joined", "closed", "flushed"} => session = "ended"
  /\ run \in {"aborting", "sealed", "joined", "closed", "flushed"} => inputsClosed
  /\ run \in {"joined", "closed", "flushed"} => inputWG = {}
  /\ fanoutClosed => /\ session = "ended" /\ inputsClosed /\ inputWG = {} /\ ~marking
                     /\ run \in {"closed", "flushed", "returned"}
  /\ run \in {"closed", "flushed"} => fanoutClosed
  /\ translator = "done" => fanoutClosed /\ fanout = << >>
  /\ run = "flushed" \/ (run = "returned" /\ session # "none") =>
       translator = "done" /\ currentTurn = 0
  /\ answering => \/ child = "longLived" /\ session = "live"
                  \/ child = "perTurn" /\ runner # None
  /\ runner # None => child = "perTurn" /\ input[runner] = "running"
  /\ \A i \in Inputs : input[i] = "running" => runner = i
  /\ ~panicked


\* The places of a channel that hold stream events.
Streams(f) == {q \in DOMAIN f : f[q] # typedMarker}

\* A queue of events numbered up to p, in the order of their numbers.
FanoutOK(f, p) ==
  /\ \A q \in Streams(f) : f[q].kind \in StreamKinds /\ f[q].n <= p
  /\ \A i, j \in Streams(f) : i < j => f[i].n < f[j].n

TypedOK(items, p) ==
  /\ \A i \in DOMAIN items : items[i].kind \in TypedKinds /\ items[i].n <= p
  /\ \A i, j \in DOMAIN items : i < j => items[i].n < items[j].n

\* The markers in front of a stream event stand for the typed events before it.
QueuesAgree(f, items) ==
  \A q \in Streams(f), i \in DOMAIN items :
    IF i <= Markers(f, q) THEN items[i].n < f[q].n ELSE f[q].n < items[i].n

\* What the sink has is older than what is queued.
LogOlder(l, f, items, p) ==
  \A k \in DOMAIN l :
    /\ l[k].n <= p
    /\ \A q \in Streams(f) : l[k].n < f[q].n
    /\ \A i \in DOMAIN items : l[k].n < items[i].n

LogInOrder(l) ==
  \A j, k \in DOMAIN l : j < k /\ l[j].n # 0 /\ l[k].n # 0 => l[j].n < l[k].n

\* The two queues hold the agent's output in order, ahead of the log's.
QueuesInOrder ==
  /\ EveryTypedHasMarker
  /\ FanoutOK(fanout, produced) /\ TypedOK(typedItems, produced)
  /\ QueuesAgree(fanout, typedItems)
  /\ LogOlder(log, fanout, typedItems, produced)
  /\ LogInOrder(log)

\* The turns of a log: the last one, the one that is open (0: none), and whether
\* that one has had its terminal event.
Turns(l, last, cur, closing) ==
  /\ cur \in {0, last} /\ (closing => cur # 0)
  /\ \A k \in DOMAIN l : l[k].turn <= last
  /\ Bracketed(l)
  /\ \A t \in 1..last : /\ \E k \in DOMAIN l : l[k].turn = t
                        /\ t < last \/ cur = 0 \/ closing => Ended(l, t)
  /\ cur # 0 /\ ~closing => ~Ended(l, cur)

TurnsInOrder == Turns(log, lastTurn, currentTurn, translator = "closing")

\* Usage is of turns the log has not settled.
Usage(f, carried, l, turn, busy) ==
  /\ \A q \in Streams(f) : f[q].of <= turn
  /\ \A i, j \in Streams(f) : i < j =>
       /\ f[i].of <= f[j].of
       /\ isTurnTerminal(f[i].kind) /\ f[j].kind = "usage" => f[i].of < f[j].of
  /\ busy => \A q \in Streams(f) : isTurnTerminal(f[q].kind) => f[q].of < turn
  /\ \A u \in carried : u <= turn /\ \A q \in Streams(f) : u <= f[q].of
  /\ \A k \in DOMAIN l : \A u \in l[k].usage :
       /\ u <= turn /\ u \notin carried
       /\ busy => u < turn
       /\ \A q \in Streams(f) : f[q].kind = "usage" => u < f[q].of
  /\ \A j, k \in DOMAIN l : j # k => l[j].usage \cap l[k].usage = {}

UsageInOrder == Usage(fanout, turnUsage, log, agentTurn, answering)

\* A mark is a CancelTurn's that has not failed.
MarkedByCancel ==
  interrupted # 0 =>
    \E c \in Cancels : canceledTurn[c] = interrupted /\ canceling[c] # "failed"

IInv == Typed /\ RunInOrder /\ QueuesInOrder /\ TurnsInOrder /\ UsageInOrder /\ MarkedByCancel

--------------------------------------------------------------------------------
(***************************************************************************)
(* Queues and markers.                                                     *)
(***************************************************************************)

Channel == Events \cup {typedMarker}

\* m is l with e at its end; m is l without its head.
Adds(l, e, m) ==
  /\ Len(l) \in Nat /\ DOMAIN l = 1..Len(l)
  /\ Len(m) = Len(l) + 1 /\ DOMAIN m = 1..(Len(l) + 1)
  /\ \A k \in 1..Len(l) : m[k] = l[k]
  /\ m[Len(l) + 1] = e

Drops(l, m) ==
  /\ Len(l) \in Nat /\ DOMAIN l = 1..Len(l) /\ Len(l) > 0
  /\ Len(m) = Len(l) - 1 /\ DOMAIN m = 1..(Len(l) - 1)
  /\ \A k \in 1..(Len(l) - 1) : m[k] = l[k + 1]

\* Append is Adds, on sequences over T.
LEMMA AppendAdds ==
  ASSUME NEW T, NEW l \in Seq(T), NEW e \in T
  PROVE  Append(l, e) \in Seq(T) /\ Adds(l, e, Append(l, e))
<1>1. /\ Append(l, e) \in Seq(T) /\ Len(Append(l, e)) = Len(l) + 1
      /\ \A k \in 1..Len(l) : Append(l, e)[k] = l[k]
      /\ Append(l, e)[Len(l) + 1] = e
  BY AppendProperties
<1>2. Len(l) \in Nat /\ DOMAIN l = 1..Len(l) /\ DOMAIN Append(l, e) = 1..Len(Append(l, e))
  BY <1>1, LenProperties
<1> QED
  BY <1>1, <1>2 DEF Adds

\* Tail is Drops, and the head is the first item.
LEMMA TailDrops ==
  ASSUME NEW T, NEW l \in Seq(T), l # << >>
  PROVE  Tail(l) \in Seq(T) /\ Drops(l, Tail(l)) /\ Head(l) = l[1] /\ 1 \in DOMAIN l /\ l[1] \in T
<1>1. /\ Head(l) \in T /\ Tail(l) \in Seq(T) /\ Len(Tail(l)) = Len(l) - 1
      /\ \A k \in 1..Len(Tail(l)) : Tail(l)[k] = l[k + 1]
  BY HeadTailProperties
<1>2. /\ Len(l) \in Nat /\ DOMAIN l = 1..Len(l) /\ DOMAIN Tail(l) = 1..Len(Tail(l))
      /\ Len(l) # 0
  BY <1>1, LenProperties, EmptySeq
<1>3. Head(l) = l[1]
  OBVIOUS
<1> QED
  BY <1>1, <1>2, <1>3 DEF Drops

\* The events of a sequence have numbers.
Numbered(s) ==
  /\ Len(s) \in Nat /\ DOMAIN s = 1..Len(s)
  /\ \A i \in DOMAIN s : s[i].n \in Nat /\ s[i].of \in Nat

\* The items of a channel carry numbers.
LEMMA QueueNumbered ==
  ASSUME NEW s \in Seq(Channel)
  PROVE  Numbered(s) /\ \A i \in DOMAIN s : s[i] \in Channel
<1>1. Len(s) \in Nat /\ DOMAIN s = 1..Len(s) /\ \A i \in DOMAIN s : s[i] \in Channel
  BY LenProperties, ElementOfSeq
<1>2. ASSUME NEW e \in Channel PROVE e.n \in Nat /\ e.of \in Nat
  <2>1. Cardinality(Inputs) \in Nat
    BY NativeConstants, FS_CardinalityType
  <2> QED
    BY <2>1, NativeConstants DEF Channel, Events, typedMarker
<1> QED
  BY <1>1, <1>2 DEF Numbered

\* The markers of a prefix are counted, and a shorter prefix has no more.
LEMMA MarkersBounds ==
  ASSUME NEW f, NEW q \in Nat
  PROVE  /\ IsFiniteSet({k \in 1..q : f[k] = typedMarker})
         /\ Markers(f, q) \in Nat
         /\ \A p \in 0..q : Markers(f, p) \in Nat /\ Markers(f, p) <= Markers(f, q)
<1> DEFINE M(p) == {k \in 1..p : f[k] = typedMarker}
<1>1. IsFiniteSet(M(q)) /\ Markers(f, q) \in Nat
  <2>1. IsFiniteSet(1..q)
    BY FS_Interval
  <2>2. M(q) \subseteq 1..q
    OBVIOUS
  <2> QED
    BY <2>1, <2>2, FS_Subset, FS_CardinalityType DEF Markers
<1>2. ASSUME NEW p \in 0..q PROVE Markers(f, p) \in Nat /\ Markers(f, p) <= Markers(f, q)
  <2>1. M(p) \subseteq M(q)
    OBVIOUS
  <2> QED
    BY <1>1, <2>1, FS_Subset, FS_CardinalityType DEF Markers
<1> QED
  BY <1>1, <1>2

\* At the end of a channel.
LEMMA MarkersAdd ==
  ASSUME NEW f, NEW e, NEW m, Adds(f, e, m)
  PROVE  /\ \A q \in 0..Len(f) : Markers(m, q) = Markers(f, q)
         /\ Markers(m, Len(m)) = Markers(f, Len(f)) + (IF e = typedMarker THEN 1 ELSE 0)
<1> DEFINE M(g, p) == {k \in 1..p : g[k] = typedMarker}
<1>1. ASSUME NEW q \in 0..Len(f) PROVE Markers(m, q) = Markers(f, q)
  <2>1. M(m, q) = M(f, q)
    BY DEF Adds
  <2> QED
    BY <2>1 DEF Markers
<1>2. Len(f) \in Nat /\ Len(m) = Len(f) + 1 /\ m[Len(f) + 1] = e
  BY DEF Adds
<1>3. IsFiniteSet(M(f, Len(f))) /\ Markers(f, Len(f)) \in Nat
  BY <1>2, MarkersBounds
<1>4. M(m, Len(m)) = M(f, Len(f)) \cup (IF e = typedMarker THEN {Len(f) + 1} ELSE {})
  BY <1>2 DEF Adds
<1>5. Len(f) + 1 \notin M(f, Len(f))
  BY <1>2
<1>6. CASE e = typedMarker
  <2>1. M(m, Len(m)) = M(f, Len(f)) \cup {Len(f) + 1}
    BY <1>4, <1>6
  <2>2. Cardinality(M(m, Len(m))) = Cardinality(M(f, Len(f))) + 1
    BY <1>3, <1>5, <2>1, FS_AddElement
  <2>3. Markers(m, Len(m)) = Markers(f, Len(f)) + 1
    BY <2>2 DEF Markers
  <2> HIDE DEF M
  <2> QED
    BY <1>1, <1>6, <2>3
<1>7. CASE e # typedMarker
  <2>1. M(m, Len(m)) = M(f, Len(f))
    BY <1>4, <1>7
  <2>2. Markers(m, Len(m)) = Markers(f, Len(f))
    BY <2>1 DEF Markers
  <2> HIDE DEF M
  <2> QED
    BY <1>1, <1>3, <1>7, <2>2
<1> QED
  BY <1>6, <1>7

\* At its head.
LEMMA MarkersDrop ==
  ASSUME NEW f, NEW m, Drops(f, m), NEW q \in 0..Len(m)
  PROVE  Markers(f, q + 1) = Markers(m, q) + (IF f[1] = typedMarker THEN 1 ELSE 0)
<1> DEFINE A == {k \in 1..q : m[k] = typedMarker}
           B == {k \in 2..(q + 1) : f[k] = typedMarker}
           C == {k \in 1..(q + 1) : f[k] = typedMarker}
           h == [k \in A |-> k + 1]
<1>1. q \in Nat /\ \A k \in 1..q : m[k] = f[k + 1]
  BY DEF Drops
<1>2. h \in Bijection(A, B)
  <2>1. \A k \in A : h[k] \in B
    BY <1>1
  <2>2. h \in [A -> B]
    BY <2>1
  <2>3. \A j, k \in A : h[j] = h[k] => j = k
    BY <1>1
  <2>4. ASSUME NEW b \in B PROVE \E a \in A : h[a] = b
    <3>1. b - 1 \in A /\ (b - 1) + 1 = b
      BY <1>1
    <3>2. h[b - 1] = b
      BY <3>1
    <3> QED
      BY <3>1, <3>2
  <2> QED
    BY <2>2, <2>3, <2>4 DEF Bijection, Injection, Surjection, IsInjective
<1>3. IsFiniteSet(A) /\ Cardinality(A) \in Nat
  BY <1>1, MarkersBounds, FS_CardinalityType
<1>4. IsFiniteSet(B) /\ Cardinality(B) = Cardinality(A)
  BY <1>2, <1>3, FS_Bijection DEF ExistsBijection
<1>5. C = B \cup (IF f[1] = typedMarker THEN {1} ELSE {}) /\ 1 \notin B
  BY <1>1
<1>6. Markers(f, q + 1) = Cardinality(C) /\ Markers(m, q) = Cardinality(A)
  BY DEF Markers
<1>7. CASE f[1] = typedMarker
  <2>1. Cardinality(B \cup {1}) = Cardinality(B) + 1
    BY <1>4, <1>5, FS_AddElement
  <2> QED
    BY <1>4, <1>5, <1>6, <1>7, <2>1
<1>8. CASE f[1] # typedMarker
  <2>1. C = B
    BY <1>5, <1>8
  <2>2. Markers(f, q + 1) = Cardinality(B)
    BY <1>6, <2>1
  <2> HIDE DEF A, B, C
  <2> QED
    BY <1>3, <1>4, <1>6, <1>8, <2>2
<1> QED
  BY <1>7, <1>8

--------------------------------------------------------------------------------
(***************************************************************************)
(* The log's turns.                                                        *)
(***************************************************************************)

LogTyped(l) ==
  /\ Len(l) \in Nat /\ DOMAIN l = 1..Len(l)
  /\ \A k \in DOMAIN l : l[k].turn \in Nat /\ l[k].n \in Nat /\ l[k].usage \subseteq Nat

\* The entries of a log carry numbers.
LEMMA TypedLog ==
  ASSUME NEW l \in Seq(LogEntries)
  PROVE  LogTyped(l)
<1>1. Len(l) \in Nat /\ DOMAIN l = 1..Len(l) /\ \A i \in DOMAIN l : l[i] \in LogEntries
  BY LenProperties, ElementOfSeq
<1> QED
  BY <1>1 DEF LogTyped, LogEntries

\* An entry that opens a new turn, or stays inside one that is open, keeps a log bracketed.
LEMMA AddBracketed ==
  ASSUME NEW l, NEW e, NEW m, LogTyped(l), Adds(l, e, m), Bracketed(l),
         e.turn # 0 =>
           /\ e.what = "started" <=> \A j \in DOMAIN l : l[j].turn # e.turn
           /\ \A j \in DOMAIN l : /\ l[j].turn <= e.turn
                                  /\ l[j].turn = e.turn => ~isTurnTerminal(l[j].what)
  PROVE  Bracketed(m)
<1> SUFFICES ASSUME NEW k \in DOMAIN m, m[k].turn # 0
             PROVE  /\ m[k].what = "started" <=> \A j \in 1..(k - 1) : m[j].turn # m[k].turn
                    /\ \A j \in 1..(k - 1) : /\ m[j].turn <= m[k].turn
                                             /\ m[j].turn = m[k].turn => ~isTurnTerminal(m[j].what)
  BY DEF Bracketed
<1>1. CASE k = Len(l) + 1
  <2>1. m[k] = e /\ 1..(k - 1) = DOMAIN l /\ \A j \in DOMAIN l : m[j] = l[j]
    BY <1>1 DEF Adds
  <2> QED
    BY <2>1
<1>2. CASE k # Len(l) + 1
  <2>1. k \in DOMAIN l /\ m[k] = l[k] /\ \A j \in 1..(k - 1) : m[j] = l[j]
    BY <1>2 DEF Adds
  <2> QED
    BY <2>1 DEF Bracketed
<1> QED
  BY <1>1, <1>2

\* What the new entry ends, and what has ended already.
LEMMA AddEnded ==
  ASSUME NEW l, NEW e, NEW m, Adds(l, e, m), NEW t
  PROVE  Ended(m, t) <=> Ended(l, t) \/ (e.turn = t /\ isTurnTerminal(e.what))
<1>1. DOMAIN m = DOMAIN l \cup {Len(l) + 1} /\ m[Len(l) + 1] = e
  BY DEF Adds
<1>2. \A k \in DOMAIN l : m[k] = l[k]
  BY DEF Adds
<1> QED
  BY <1>1, <1>2 DEF Ended

\* turn.started opens the next turn once the last one has ended.
LEMMA StartTurn ==
  ASSUME NEW l, NEW e, NEW m, NEW last \in Nat, LogTyped(l), Adds(l, e, m),
         Turns(l, last, 0, FALSE), e.what = "started", e.turn = last + 1
  PROVE  Turns(m, last + 1, last + 1, FALSE)
<1>0. /\ DOMAIN m = DOMAIN l \cup {Len(l) + 1} /\ m[Len(l) + 1] = e
      /\ Len(l) + 1 \notin DOMAIN l
      /\ \A k \in DOMAIN l : m[k] = l[k]
  BY DEF Adds
<1>1. \A k \in DOMAIN l : l[k].turn \in Nat /\ l[k].turn <= last
  BY DEF Turns, LogTyped
<1>2. Bracketed(m)
  BY <1>1, AddBracketed DEF Turns
<1>3. \A k \in DOMAIN m : m[k].turn <= last + 1
  BY <1>0, <1>1
<1>4. ASSUME NEW t \in 1..(last + 1)
      PROVE  \E k \in DOMAIN m : m[k].turn = t
  <2>1. CASE t = last + 1
    BY <1>0, <2>1
  <2>2. CASE t # last + 1
    <3>1. \E k \in DOMAIN l : l[k].turn = t
      BY <2>2 DEF Turns
    <3> QED
      BY <1>0, <3>1
  <2> QED
    BY <2>1, <2>2
<1>5. ASSUME NEW t \in 1..(last + 1), t < last + 1
      PROVE  Ended(m, t)
  BY <1>5, AddEnded DEF Turns
<1>6. ~Ended(m, last + 1)
  <2>1. ~Ended(l, last + 1)
    BY <1>1 DEF Ended
  <2> QED
    BY <2>1, AddEnded DEF isTurnTerminal
<1> QED
  BY <1>2, <1>3, <1>4, <1>5, <1>6 DEF Turns

\* An event of the open turn, which it may end.
LEMMA InOpenTurn ==
  ASSUME NEW l, NEW e, NEW m, NEW last \in Nat, NEW cur \in Nat, LogTyped(l), Adds(l, e, m),
         Turns(l, last, cur, FALSE), cur # 0, e.turn = cur, e.what # "started"
  PROVE  Turns(m, last, cur, isTurnTerminal(e.what))
<1>0. /\ DOMAIN m = DOMAIN l \cup {Len(l) + 1} /\ m[Len(l) + 1] = e
      /\ Len(l) + 1 \notin DOMAIN l
      /\ \A k \in DOMAIN l : m[k] = l[k]
  BY DEF Adds
<1>1. \A k \in DOMAIN l : l[k].turn \in Nat /\ l[k].turn <= last
  BY DEF Turns, LogTyped
<1>2. cur = last /\ cur \in 1..last /\ ~Ended(l, cur)
  BY DEF Turns
<1>3. Bracketed(m)
  <2>1. \E k \in DOMAIN l : l[k].turn = cur
    BY <1>2 DEF Turns
  <2>2. \A k \in DOMAIN l : l[k].turn = cur => ~isTurnTerminal(l[k].what)
    BY <1>2 DEF Ended
  <2> QED
    BY <1>1, <1>2, <2>1, <2>2, AddBracketed DEF Turns
<1>4. \A k \in DOMAIN m : m[k].turn <= last
  BY <1>0, <1>1, <1>2
<1>5. ASSUME NEW t \in 1..last PROVE \E k \in DOMAIN m : m[k].turn = t
  <2>1. \E k \in DOMAIN l : l[k].turn = t
    BY DEF Turns
  <2> QED
    BY <1>0, <2>1
<1>6. ASSUME NEW t \in 1..last, t < last \/ isTurnTerminal(e.what) PROVE Ended(m, t)
  <2>1. CASE t < last
    BY <2>1, AddEnded DEF Turns
  <2>2. CASE t = last /\ isTurnTerminal(e.what)
    BY <1>2, <2>2, AddEnded
  <2> QED
    BY <1>6, <2>1, <2>2
<1>7. ~isTurnTerminal(e.what) => ~Ended(m, cur)
  BY <1>2, AddEnded
<1> QED
  BY <1>2, <1>3, <1>4, <1>5, <1>6, <1>7 DEF Turns

\* An event of no turn.
LEMMA OutsideTurns ==
  ASSUME NEW l, NEW e, NEW m, NEW last \in Nat, NEW cur \in Nat, LogTyped(l), Adds(l, e, m),
         Turns(l, last, cur, FALSE), e.turn = 0
  PROVE  Turns(m, last, cur, FALSE)
<1>0. /\ DOMAIN m = DOMAIN l \cup {Len(l) + 1} /\ m[Len(l) + 1] = e
      /\ Len(l) + 1 \notin DOMAIN l
      /\ \A k \in DOMAIN l : m[k] = l[k]
  BY DEF Adds
<1>1. Bracketed(m)
  BY AddBracketed DEF Turns
<1>2. \A k \in DOMAIN m : m[k].turn <= last
  BY <1>0 DEF Turns
<1>3. ASSUME NEW t \in 1..last PROVE \E k \in DOMAIN m : m[k].turn = t
  <2>1. \E k \in DOMAIN l : l[k].turn = t
    BY DEF Turns
  <2> QED
    BY <1>0, <2>1
<1>4. ASSUME NEW t \in Nat, t # 0 PROVE Ended(m, t) <=> Ended(l, t)
  BY <1>4, AddEnded
<1> QED
  BY <1>1, <1>2, <1>3, <1>4 DEF Turns

\* clearTurn after a terminal event leaves no turn open.
LEMMA TurnClosed ==
  ASSUME NEW l, NEW last \in Nat, NEW cur, Turns(l, last, cur, TRUE)
  PROVE  Turns(l, last, 0, FALSE)
BY DEF Turns

--------------------------------------------------------------------------------
(***************************************************************************)
(* The order of the agent's output.                                        *)
(***************************************************************************)

\* Everything queued and logged, up to number p.
Ordered(f, items, l, p) ==
  /\ FanoutOK(f, p) /\ TypedOK(items, p) /\ QueuesAgree(f, items)
  /\ LogOlder(l, f, items, p)

\* A number that goes nowhere (a full channel) leaves the order as it was.
LEMMA NumberTaken ==
  ASSUME NEW f, NEW items, NEW l, NEW p \in Nat, Numbered(f), Numbered(items), LogTyped(l),
         Ordered(f, items, l, p)
  PROVE  Ordered(f, items, l, p + 1)
<1>1. \A n \in Nat : n <= p => n <= p + 1
  OBVIOUS
<1> QED
  BY <1>1 DEF Ordered, FanoutOK, TypedOK, LogOlder, Numbered, LogTyped, Streams

\* A typed event, numbered next, goes behind every stream event queued.
LEMMA QueueTyped ==
  ASSUME NEW f, NEW items, NEW l, NEW p \in Nat, Numbered(f), Numbered(items), LogTyped(l),
         Ordered(f, items, l, p), Len(items) = Markers(f, Len(f)),
         NEW e, e.n = p + 1, e.kind \in TypedKinds, NEW its, Adds(items, e, its)
  PROVE  Ordered(f, its, l, p + 1)
<1>1. /\ DOMAIN its = DOMAIN items \cup {Len(items) + 1} /\ its[Len(items) + 1] = e
      /\ \A i \in DOMAIN items : its[i] = items[i] /\ i < Len(items) + 1 /\ i \in Nat
  BY DEF Adds, Numbered
<1>2. /\ \A q \in Streams(f) : f[q].n \in Nat /\ f[q].n <= p
      /\ \A i \in DOMAIN items : items[i].n \in Nat /\ items[i].n <= p
      /\ \A k \in DOMAIN l : l[k].n \in Nat /\ l[k].n <= p
  BY DEF Ordered, FanoutOK, TypedOK, LogOlder, Numbered, LogTyped, Streams
<1>3. FanoutOK(f, p + 1)
  BY <1>2 DEF Ordered, FanoutOK
<1>4. TypedOK(its, p + 1)
  <2>1. \A i \in DOMAIN its : its[i].kind \in TypedKinds /\ its[i].n <= p + 1
    BY <1>1, <1>2 DEF Ordered, TypedOK
  <2>2. ASSUME NEW i \in DOMAIN its, NEW j \in DOMAIN its, i < j PROVE its[i].n < its[j].n
    <3>1. i \in DOMAIN items
      BY <1>1, <2>2 DEF Numbered
    <3>2. CASE j \in DOMAIN items
      BY <1>1, <2>2, <3>1, <3>2 DEF Ordered, TypedOK
    <3>3. CASE j = Len(items) + 1
      BY <1>1, <1>2, <3>1, <3>3
    <3> QED
      BY <1>1, <3>2, <3>3
  <2> QED
    BY <2>1, <2>2 DEF TypedOK
<1>5. QueuesAgree(f, its)
  <2> SUFFICES ASSUME NEW q \in Streams(f), NEW i \in DOMAIN its
               PROVE  IF i <= Markers(f, q) THEN its[i].n < f[q].n ELSE f[q].n < its[i].n
    BY DEF QueuesAgree
  <2>1. CASE i \in DOMAIN items
    BY <1>1, <2>1 DEF Ordered, QueuesAgree
  <2>2. CASE i = Len(items) + 1
    <3>1. q \in 0..Len(f) /\ Len(f) \in Nat
      BY DEF Streams, Numbered
    <3>2. Markers(f, q) \in Nat /\ Markers(f, q) <= Len(items) /\ Len(items) \in Nat
      BY <3>1, MarkersBounds DEF Numbered
    <3> QED
      BY <1>1, <1>2, <2>2, <3>2
  <2> QED
    BY <1>1, <2>1, <2>2
<1>6. LogOlder(l, f, its, p + 1)
  BY <1>1, <1>2 DEF Ordered, LogOlder
<1> QED
  BY <1>3, <1>4, <1>5, <1>6 DEF Ordered

\* The marker of a queued typed event changes no order.
LEMMA QueueMarker ==
  ASSUME NEW f, NEW items, NEW l, NEW p \in Nat, Numbered(f),
         Ordered(f, items, l, p), NEW g, Adds(f, typedMarker, g)
  PROVE  Ordered(g, items, l, p)
<1>1. Streams(g) = Streams(f) /\ \A q \in Streams(f) : g[q] = f[q]
  BY DEF Adds, Streams
<1>2. \A q \in Streams(f) : Markers(g, q) = Markers(f, q)
  BY MarkersAdd DEF Streams, Numbered
<1> QED
  BY <1>1, <1>2 DEF Ordered, FanoutOK, QueuesAgree, LogOlder

\* A stream event, numbered next, goes behind every typed event queued.
LEMMA QueueStream ==
  ASSUME NEW f, NEW items, NEW l, NEW p \in Nat, Numbered(f), Numbered(items), LogTyped(l),
         Ordered(f, items, l, p), Len(items) = Markers(f, Len(f)),
         NEW e, e # typedMarker, e.n = p + 1, e.kind \in StreamKinds, NEW g, Adds(f, e, g)
  PROVE  Ordered(g, items, l, p + 1)
<1>1. /\ Streams(g) = Streams(f) \cup {Len(f) + 1} /\ g[Len(f) + 1] = e
      /\ \A q \in Streams(f) : g[q] = f[q] /\ q < Len(f) + 1 /\ q \in Nat
  BY DEF Adds, Streams
<1>2. /\ \A q \in Streams(f) : f[q].n \in Nat /\ f[q].n <= p
      /\ \A i \in DOMAIN items : items[i].n \in Nat /\ items[i].n <= p
      /\ \A k \in DOMAIN l : l[k].n \in Nat /\ l[k].n <= p
  BY DEF Ordered, FanoutOK, TypedOK, LogOlder, Numbered, LogTyped, Streams
<1>3. FanoutOK(g, p + 1)
  <2>1. \A q \in Streams(g) : g[q].kind \in StreamKinds /\ g[q].n <= p + 1
    BY <1>1, <1>2 DEF Ordered, FanoutOK
  <2>2. ASSUME NEW i \in Streams(g), NEW j \in Streams(g), i < j PROVE g[i].n < g[j].n
    <3>1. i \in Streams(f)
      BY <1>1, <2>2 DEF Numbered
    <3>2. CASE j \in Streams(f)
      BY <1>1, <2>2, <3>1, <3>2 DEF Ordered, FanoutOK
    <3>3. CASE j = Len(f) + 1
      <4>1. g[i].n \in Nat /\ g[i].n <= p /\ g[j].n = p + 1
        BY <1>1, <1>2, <3>1, <3>3
      <4> QED
        BY <4>1
    <3> QED
      BY <1>1, <3>2, <3>3
  <2> QED
    BY <2>1, <2>2 DEF FanoutOK
<1>4. TypedOK(items, p + 1)
  BY <1>2 DEF Ordered, TypedOK
<1>5. QueuesAgree(g, items)
  <2> SUFFICES ASSUME NEW q \in Streams(g), NEW i \in DOMAIN items
               PROVE  IF i <= Markers(g, q) THEN items[i].n < g[q].n ELSE g[q].n < items[i].n
    BY DEF QueuesAgree
  <2>1. CASE q \in Streams(f)
    <3>1. Markers(g, q) = Markers(f, q)
      BY <2>1, MarkersAdd DEF Streams, Numbered
    <3> QED
      BY <1>1, <2>1, <3>1 DEF Ordered, QueuesAgree
  <2>2. CASE q = Len(f) + 1
    <3>1. Len(g) = q /\ Len(f) \in Nat /\ Markers(f, Len(f)) \in Nat
      BY <2>2, MarkersBounds DEF Adds
    <3>2. Markers(g, q) = Len(items)
      BY <3>1, MarkersAdd
    <3>3. i <= Len(items)
      BY DEF Numbered
    <3> QED
      BY <1>1, <1>2, <2>2, <3>2, <3>3
  <2> QED
    BY <1>1, <2>1, <2>2
<1>6. LogOlder(l, g, items, p + 1)
  BY <1>1, <1>2 DEF Ordered, LogOlder
<1> QED
  BY <1>3, <1>4, <1>5, <1>6 DEF Ordered

\* The next event is newer than what the log has and older than what stays queued.
IsNext(e, f, items, l, p) ==
  /\ e.n \in Nat /\ e.n <= p
  /\ \A q \in Streams(f) : e.n < f[q].n
  /\ \A i \in DOMAIN items : e.n < items[i].n
  /\ \A k \in DOMAIN l : l[k].n < e.n

\* Dropping the head moves every stream event up by one.
LEMMA DropStreams ==
  ASSUME NEW f, NEW g, Drops(f, g)
  PROVE  \A q \in Streams(g) : q \in Nat /\ q + 1 \in Streams(f) /\ g[q] = f[q + 1] /\ q >= 1
BY DEF Drops, Streams

\* At a marker the first typed event is the oldest queued.
LEMMA TakeTyped ==
  ASSUME NEW f, NEW items, NEW l, NEW p \in Nat, Numbered(f), Numbered(items), LogTyped(l),
         Ordered(f, items, l, p), f[1] = typedMarker,
         NEW g, Drops(f, g), NEW its, Drops(items, its)
  PROVE  Ordered(g, its, l, p) /\ IsNext(items[1], g, its, l, p)
<1>1. \A q \in Streams(g) : q \in Nat /\ q + 1 \in Streams(f) /\ g[q] = f[q + 1] /\ q >= 1
  BY DropStreams
<1>2. \A i \in DOMAIN its : i \in Nat /\ i >= 1 /\ i + 1 \in DOMAIN items /\ its[i] = items[i + 1]
  BY DEF Drops
<1>3. 1 \in DOMAIN items /\ items[1].n \in Nat
  <2>1. 1 \in DOMAIN items
    BY DEF Drops
  <2> QED
    BY <2>1 DEF Numbered
<1>4. ASSUME NEW q \in Streams(g)
      PROVE  Markers(f, q + 1) = Markers(g, q) + 1 /\ Markers(g, q) \in Nat
  <2>1. q \in 0..Len(g)
    BY DEF Streams, Drops
  <2> QED
    BY <1>1, <2>1, MarkersDrop, MarkersBounds
<1>5. FanoutOK(g, p)
  <2>1. \A i, j \in Nat : i < j => i + 1 < j + 1
    OBVIOUS
  <2> QED
    BY <1>1, <2>1 DEF Ordered, FanoutOK
<1>6. TypedOK(its, p)
  <2>1. \A i, j \in Nat : i < j => i + 1 < j + 1
    OBVIOUS
  <2> QED
    BY <1>2, <2>1 DEF Ordered, TypedOK
<1>7. QueuesAgree(g, its)
  <2> SUFFICES ASSUME NEW q \in Streams(g), NEW i \in DOMAIN its
               PROVE  IF i <= Markers(g, q) THEN its[i].n < g[q].n ELSE g[q].n < its[i].n
    BY DEF QueuesAgree
  <2>1. IF i + 1 <= Markers(f, q + 1) THEN items[i + 1].n < f[q + 1].n
                                      ELSE f[q + 1].n < items[i + 1].n
    BY <1>1, <1>2 DEF Ordered, QueuesAgree
  <2>2. i + 1 <= Markers(f, q + 1) <=> i <= Markers(g, q)
    BY <1>2, <1>4
  <2> QED
    BY <1>1, <1>2, <2>1, <2>2
<1>8. LogOlder(l, g, its, p)
  BY <1>1, <1>2 DEF Ordered, LogOlder
<1>9. IsNext(items[1], g, its, l, p)
  <2>1. items[1].n <= p
    BY <1>3 DEF Ordered, TypedOK
  <2>2. ASSUME NEW q \in Streams(g) PROVE items[1].n < g[q].n
    <3>1. 1 <= Markers(f, q + 1)
      BY <1>4
    <3> QED
      BY <1>1, <1>3, <3>1 DEF Ordered, QueuesAgree
  <2>3. ASSUME NEW i \in DOMAIN its PROVE items[1].n < its[i].n
    <3>1. 1 < i + 1
      BY <1>2
    <3> QED
      BY <1>2, <1>3, <3>1 DEF Ordered, TypedOK
  <2>4. \A k \in DOMAIN l : l[k].n < items[1].n
    BY <1>3 DEF Ordered, LogOlder
  <2> QED
    BY <1>3, <2>1, <2>2, <2>3, <2>4 DEF IsNext
<1> QED
  BY <1>5, <1>6, <1>7, <1>8, <1>9 DEF Ordered

\* A stream event at the head of the channel is the oldest queued.
LEMMA TakeStream ==
  ASSUME NEW f, NEW items, NEW l, NEW p \in Nat, Numbered(f), Numbered(items), LogTyped(l),
         Ordered(f, items, l, p), f[1] # typedMarker, NEW g, Drops(f, g)
  PROVE  Ordered(g, items, l, p) /\ IsNext(f[1], g, items, l, p) /\ 1 \in Streams(f)
<1>1. \A q \in Streams(g) : q \in Nat /\ q + 1 \in Streams(f) /\ g[q] = f[q + 1] /\ q >= 1
  BY DropStreams
<1>2. 1 \in Streams(f) /\ f[1].n \in Nat
  BY DEF Drops, Numbered, Streams
<1>3. ASSUME NEW q \in Streams(g)
      PROVE  Markers(f, q + 1) = Markers(g, q)
  <2>1. q \in 0..Len(g)
    BY DEF Streams, Drops
  <2>2. Markers(g, q) \in Nat
    BY <1>1, MarkersBounds
  <2> QED
    BY <2>1, <2>2, MarkersDrop
<1>4. FanoutOK(g, p)
  <2>1. \A i, j \in Nat : i < j => i + 1 < j + 1
    OBVIOUS
  <2> QED
    BY <1>1, <2>1 DEF Ordered, FanoutOK
<1>5. QueuesAgree(g, items)
  BY <1>1, <1>3 DEF Ordered, QueuesAgree
<1>6. LogOlder(l, g, items, p)
  BY <1>1 DEF Ordered, LogOlder
<1>7. IsNext(f[1], g, items, l, p)
  <2>1. f[1].n <= p
    BY <1>2 DEF Ordered, FanoutOK
  <2>2. ASSUME NEW q \in Streams(g) PROVE f[1].n < g[q].n
    <3>1. 1 < q + 1
      BY <1>1
    <3> QED
      BY <1>1, <1>2, <3>1 DEF Ordered, FanoutOK
  <2>3. ASSUME NEW i \in DOMAIN items PROVE f[1].n < items[i].n
    <3>1. {k \in 1..1 : f[k] = typedMarker} = {}
      OBVIOUS
    <3>2. Markers(f, 1) = 0
      BY <3>1, FS_EmptySet DEF Markers
    <3>3. ~(i <= Markers(f, 1))
      BY <3>2 DEF Numbered
    <3> QED
      BY <1>2, <3>3 DEF Ordered, QueuesAgree
  <2>4. \A k \in DOMAIN l : l[k].n < f[1].n
    BY <1>2 DEF Ordered, LogOlder
  <2> QED
    BY <1>2, <2>1, <2>2, <2>3, <2>4 DEF IsNext
<1> QED
  BY <1>2, <1>4, <1>5, <1>6, <1>7 DEF Ordered

\* The log takes the next event.
LEMMA LogNext ==
  ASSUME NEW f, NEW items, NEW l, NEW p, LogTyped(l), Ordered(f, items, l, p), LogInOrder(l),
         NEW e, NEW m, Adds(l, e, m), IsNext(e, f, items, l, p)
  PROVE  Ordered(f, items, m, p) /\ LogInOrder(m)
<1>0. /\ DOMAIN m = DOMAIN l \cup {Len(l) + 1} /\ m[Len(l) + 1] = e
      /\ Len(l) + 1 \notin DOMAIN l
      /\ \A k \in DOMAIN l : m[k] = l[k]
  BY DEF Adds
<1>1. LogOlder(m, f, items, p)
  BY <1>0 DEF Ordered, LogOlder, IsNext
<1>2. ASSUME NEW j \in DOMAIN m, NEW k \in DOMAIN m, j < k, m[j].n # 0, m[k].n # 0
      PROVE  m[j].n < m[k].n
  <2>1. j \in DOMAIN l /\ m[j] = l[j]
    BY <1>2 DEF Adds
  <2>2. CASE k \in DOMAIN l
    BY <1>0, <1>2, <2>1, <2>2 DEF LogInOrder
  <2>3. CASE k = Len(l) + 1
    BY <1>0, <2>1, <2>3 DEF IsNext
  <2> QED
    BY <1>0, <2>2, <2>3
<1> QED
  BY <1>1, <1>2 DEF Ordered, LogInOrder

\* The log takes an event that the agent did not report.
LEMMA LogOwn ==
  ASSUME NEW f, NEW items, NEW l, NEW p \in Nat, LogTyped(l), Ordered(f, items, l, p), LogInOrder(l),
         NEW e, NEW m, Adds(l, e, m), e.n = 0,
         \A q \in Streams(f) : 0 < f[q].n,
         \A i \in DOMAIN items : 0 < items[i].n
  PROVE  Ordered(f, items, m, p) /\ LogInOrder(m)
<1>0. /\ DOMAIN m = DOMAIN l \cup {Len(l) + 1} /\ m[Len(l) + 1] = e
      /\ Len(l) + 1 \notin DOMAIN l
      /\ \A k \in DOMAIN l : m[k] = l[k]
  BY DEF Adds
<1>1. LogOlder(m, f, items, p)
  BY <1>0 DEF Ordered, LogOlder
<1>2. ASSUME NEW j \in DOMAIN m, NEW k \in DOMAIN m, j < k, m[j].n # 0, m[k].n # 0
      PROVE  m[j].n < m[k].n
  <2>1. j \in DOMAIN l /\ m[j] = l[j] /\ k \in DOMAIN l
    BY <1>0, <1>2 DEF Adds
  <2> QED
    BY <1>0, <1>2, <2>1 DEF LogInOrder
<1> QED
  BY <1>1, <1>2 DEF Ordered, LogInOrder

\* It then keeps what is next.
LEMMA StillNext ==
  ASSUME NEW f, NEW items, NEW l, NEW p, NEW h, IsNext(h, f, items, l, p), h.n # 0,
         NEW e, NEW m, Adds(l, e, m), e.n = 0
  PROVE  IsNext(h, f, items, m, p)
<1>0. /\ DOMAIN m = DOMAIN l \cup {Len(l) + 1} /\ m[Len(l) + 1] = e
      /\ Len(l) + 1 \notin DOMAIN l
      /\ \A k \in DOMAIN l : m[k] = l[k]
  BY DEF Adds
<1> QED
  BY <1>0 DEF IsNext

--------------------------------------------------------------------------------
(***************************************************************************)
(* Usage.                                                                  *)
(***************************************************************************)

\* The carried usage is of numbered turns, and so is that of the log.
UsageTyped(f, carried, l, turn) ==
  Numbered(f) /\ LogTyped(l) /\ carried \subseteq Nat /\ turn \in Nat

\* An agent turn begins ahead of all usage reported.
LEMMA UsageBegin ==
  ASSUME NEW f, NEW carried, NEW l, NEW turn, UsageTyped(f, carried, l, turn),
         Usage(f, carried, l, turn, FALSE)
  PROVE  Usage(f, carried, l, turn + 1, TRUE)
<1>1. \A n \in Nat : n <= turn => n <= turn + 1 /\ n < turn + 1
  BY DEF UsageTyped
<1>2. /\ \A q \in Streams(f) : f[q].of \in Nat
      /\ \A u \in carried : u \in Nat
      /\ \A k \in DOMAIN l : \A u \in l[k].usage : u \in Nat
  BY DEF UsageTyped, Numbered, LogTyped, Streams
<1> QED
  BY <1>1, <1>2 DEF Usage

\* What holds while the agent answers holds when it stops.
LEMMA UsageIdle ==
  ASSUME NEW f, NEW carried, NEW l, NEW turn, NEW busy, Usage(f, carried, l, turn, busy)
  PROVE  Usage(f, carried, l, turn, FALSE)
BY DEF Usage

\* A marker carries no usage.
LEMMA UsageMarker ==
  ASSUME NEW f, NEW carried, NEW l, NEW turn, NEW busy, Usage(f, carried, l, turn, busy),
         NEW g, Adds(f, typedMarker, g)
  PROVE  Usage(g, carried, l, turn, busy)
<1>1. Streams(g) = Streams(f) /\ \A q \in Streams(f) : g[q] = f[q]
  BY DEF Adds, Streams
<1> QED
  BY <1>1 DEF Usage

\* An event of the running turn, a terminal one ending it, keeps the usage in order.
LEMMA UsageStream ==
  ASSUME NEW f, NEW carried, NEW l, NEW turn, UsageTyped(f, carried, l, turn),
         Usage(f, carried, l, turn, TRUE),
         NEW e, e.of = turn, NEW g, Adds(f, e, g)
  PROVE  Usage(g, carried, l, turn, ~isTurnTerminal(e.kind))
<1>1. /\ Streams(g) \subseteq Streams(f) \cup {Len(f) + 1} /\ g[Len(f) + 1] = e
      /\ \A q \in Streams(f) : g[q] = f[q] /\ q < Len(f) + 1 /\ q \in Nat /\ f[q].of \in Nat
  BY DEF Adds, Streams, UsageTyped, Numbered
<1>2. turn \in Nat /\ Len(f) \in Nat
  BY DEF UsageTyped, Numbered
<1>3. \A q \in Streams(g) : g[q].of <= turn
  BY <1>1, <1>2 DEF Usage
<1>4. ASSUME NEW i \in Streams(g), NEW j \in Streams(g), i < j
      PROVE  /\ g[i].of <= g[j].of
             /\ isTurnTerminal(g[i].kind) /\ g[j].kind = "usage" => g[i].of < g[j].of
  <2>1. i \in Streams(f)
    BY <1>1, <1>2, <1>4
  <2>2. CASE j \in Streams(f)
    BY <1>1, <1>4, <2>1, <2>2 DEF Usage
  <2>3. CASE j = Len(f) + 1
    BY <1>1, <2>1, <2>3 DEF Usage
  <2> QED
    BY <1>1, <2>2, <2>3
<1>5. ~isTurnTerminal(e.kind) =>
        \A q \in Streams(g) : isTurnTerminal(g[q].kind) => g[q].of < turn
  BY <1>1 DEF Usage
<1>6. \A u \in carried : u <= turn /\ \A q \in Streams(g) : u <= g[q].of
  BY <1>1 DEF Usage
<1>7. \A k \in DOMAIN l : \A u \in l[k].usage :
        /\ u <= turn /\ u \notin carried /\ u < turn
        /\ \A q \in Streams(g) : g[q].kind = "usage" => u < g[q].of
  BY <1>1 DEF Usage
<1> QED
  BY <1>3, <1>4, <1>5, <1>6, <1>7 DEF Usage

\* Taking an event off the channel keeps the usage in order.
LEMMA UsageDrop ==
  ASSUME NEW f, NEW carried, NEW l, NEW turn, NEW busy,
         Usage(f, carried, l, turn, busy), NEW g, Drops(f, g)
  PROVE  Usage(g, carried, l, turn, busy)
<1>1. \A q \in Streams(g) : q \in Nat /\ q + 1 \in Streams(f) /\ g[q] = f[q + 1] /\ q >= 1
  BY DropStreams
<1>2. \A i, j \in Nat : i < j => i + 1 < j + 1
  OBVIOUS
<1> QED
  BY <1>1, <1>2 DEF Usage

\* An entry without usage keeps the usage in order.
LEMMA UsageLogged ==
  ASSUME NEW f, NEW carried, NEW l, NEW turn, NEW busy, Usage(f, carried, l, turn, busy),
         NEW e, NEW m, Adds(l, e, m), e.usage = {}
  PROVE  Usage(f, carried, m, turn, busy)
<1>1. /\ DOMAIN m = DOMAIN l \cup {Len(l) + 1} /\ m[Len(l) + 1] = e
      /\ Len(l) + 1 \notin DOMAIN l
      /\ \A k \in DOMAIN l : m[k] = l[k]
  BY DEF Adds
<1>2. \A k \in DOMAIN m : m[k].usage = {} \/ (k \in DOMAIN l /\ m[k] = l[k])
  BY <1>1
<1>3. \A k \in DOMAIN m : \A u \in m[k].usage : k \in DOMAIN l /\ u \in l[k].usage
  BY <1>2
<1>4. \A j, k \in DOMAIN m : j # k => m[j].usage \cap m[k].usage = {}
  BY <1>2 DEF Usage
<1> QED
  BY <1>3, <1>4 DEF Usage

\* A usage event is added to what is carried.
LEMMA UsageCarried ==
  ASSUME NEW f, NEW carried, NEW l, NEW turn, NEW busy, UsageTyped(f, carried, l, turn),
         Usage(f, carried, l, turn, busy), 1 \in Streams(f), f[1].kind = "usage",
         NEW g, Drops(f, g)
  PROVE  Usage(g, carried \cup {f[1].of}, l, turn, busy)
<1>1. \A q \in Streams(g) : q + 1 \in Streams(f) /\ g[q] = f[q + 1] /\ 1 < q + 1
  BY DropStreams
<1>2. Usage(g, carried, l, turn, busy)
  BY UsageDrop
<1>3. f[1].of <= turn /\ \A q \in Streams(g) : f[1].of <= g[q].of
  BY <1>1 DEF Usage
<1>4. \A k \in DOMAIN l : f[1].of \notin l[k].usage
  <2>1. f[1].of \in Nat
    BY DEF UsageTyped, Numbered, Streams
  <2>2. \A k \in DOMAIN l : \A u \in l[k].usage : u < f[1].of
    BY DEF Usage
  <2> QED
    BY <2>1, <2>2
<1> QED
  BY <1>2, <1>3, <1>4 DEF Usage

\* A terminal event settles it: nothing of these turns can come any more.
LEMMA UsageSettled ==
  ASSUME NEW f, NEW carried, NEW l, NEW turn, NEW busy, UsageTyped(f, carried, l, turn),
         Usage(f, carried, l, turn, busy),
         busy => \A u \in carried : u < turn,
         \A u \in carried, q \in Streams(f) : f[q].kind = "usage" => u < f[q].of,
         NEW e, NEW m, Adds(l, e, m), e.usage = carried
  PROVE  Usage(f, {}, m, turn, busy)
<1>1. /\ DOMAIN m = DOMAIN l \cup {Len(l) + 1} /\ m[Len(l) + 1] = e
      /\ Len(l) + 1 \notin DOMAIN l
      /\ \A k \in DOMAIN l : m[k] = l[k]
  BY DEF Adds
<1>2. ASSUME NEW k \in DOMAIN m, NEW u \in m[k].usage
      PROVE  /\ u <= turn /\ (busy => u < turn)
             /\ \A q \in Streams(f) : f[q].kind = "usage" => u < f[q].of
  <2>1. CASE k \in DOMAIN l
    BY <1>1, <1>2, <2>1 DEF Usage
  <2>2. CASE k = Len(l) + 1
    BY <1>1, <1>2, <2>2 DEF Usage
  <2> QED
    BY <1>1, <2>1, <2>2
<1>3. ASSUME NEW j \in DOMAIN m, NEW k \in DOMAIN m, j # k
      PROVE  m[j].usage \cap m[k].usage = {}
  <2>1. \A i \in DOMAIN l : l[i].usage \cap carried = {}
    BY DEF Usage
  <2>2. CASE j \in DOMAIN l /\ k \in DOMAIN l
    BY <1>1, <1>3, <2>2 DEF Usage
  <2>3. CASE j = Len(l) + 1
    BY <1>1, <1>3, <2>1, <2>3
  <2>4. CASE k = Len(l) + 1
    BY <1>1, <1>3, <2>1, <2>4
  <2> QED
    BY <1>1, <2>2, <2>3, <2>4
<1> QED
  BY <1>2, <1>3 DEF Usage

\* What is carried when the terminal event comes is of that turn or older ones.
LEMMA UsageBeforeEnd ==
  ASSUME NEW f, NEW carried, NEW l, NEW turn, NEW busy, UsageTyped(f, carried, l, turn),
         Usage(f, carried, l, turn, busy), 1 \in Streams(f), isTurnTerminal(f[1].kind),
         NEW g, Drops(f, g)
  PROVE  /\ busy => \A u \in carried : u < turn
         /\ \A u \in carried, q \in Streams(g) : g[q].kind = "usage" => u < g[q].of
<1>1. \A q \in Streams(g) : q + 1 \in Streams(f) /\ g[q] = f[q + 1] /\ 1 < q + 1 /\ f[q + 1].of \in Nat
  BY DropStreams DEF UsageTyped, Numbered, Streams
<1>2. f[1].of \in Nat /\ turn \in Nat /\ \A u \in carried : u \in Nat
  BY DEF UsageTyped, Numbered, Streams
<1>3. \A u \in carried : u <= f[1].of
  BY DEF Usage
<1>4. busy => f[1].of < turn
  BY DEF Usage
<1>5. \A q \in Streams(g) : g[q].kind = "usage" => f[1].of < g[q].of
  BY <1>1 DEF Usage
<1>6. busy => \A u \in carried : u < turn
  BY <1>2, <1>3, <1>4
<1>7. ASSUME NEW u \in carried, NEW q \in Streams(g), g[q].kind = "usage" PROVE u < g[q].of
  BY <1>1, <1>2, <1>3, <1>5, <1>7
<1> QED
  BY <1>6, <1>7

--------------------------------------------------------------------------------
(***************************************************************************)
(* What EmitInTurn does to the log.                                        *)
(***************************************************************************)

\* What it is given.
CanEmit(e, usage, reason) ==
  /\ log \in Seq(LogEntries) /\ lastTurn \in Nat /\ currentTurn \in Nat
  /\ e.kind \in Kinds /\ e.n \in Nat
  /\ usage \subseteq Nat /\ reason \in Reasons
  /\ EmitInTurn(e, usage, reason)

\* Its own entry follows the log as it was, or a turn.started.
LEMMA EmitLogs ==
  ASSUME NEW e, NEW usage, NEW reason, CanEmit(e, usage, reason)
  PROVE  /\ log' \in Seq(LogEntries)
         /\ LogTyped(log) /\ Entry(e, usage, reason) \in LogEntries
         /\ \E l \in Seq(LogEntries) :
              /\ LogTyped(l)
              /\ IF OpensTurn(e.kind) THEN Adds(log, Started, l) ELSE l = log
              /\ Adds(l, Entry(e, usage, reason), log')
<1> DEFINE l == IF OpensTurn(e.kind) THEN Append(log, Started) ELSE log
<1>1. log \in Seq(LogEntries) /\ lastTurn \in Nat /\ currentTurn \in Nat /\ e.kind \in Kinds
      /\ e.n \in Nat /\ usage \subseteq Nat /\ reason \in Reasons
  BY DEF CanEmit
<1>2. log' = Append(l, Entry(e, usage, reason))
  BY DEF CanEmit, EmitInTurn
<1>3. Started \in LogEntries
  <2>1. lastTurn + 1 \in Nat
    BY <1>1
  <2>2. {} \in SUBSET Nat
    OBVIOUS
  <2>3. "started" \in EventNames
    BY DEF EventNames
  <2>4. "" \in Reasons
    BY DEF Reasons
  <2> QED
    BY <2>1, <2>2, <2>3, <2>4 DEF Started, LogEntries
<1>4. TurnOf(e.kind) \in Nat
  BY <1>1 DEF TurnOf
<1>5. Entry(e, usage, reason) \in LogEntries
  BY <1>1, <1>4 DEF Entry, LogEntries, EventNames
<1>6. /\ l \in Seq(LogEntries)
      /\ IF OpensTurn(e.kind) THEN Adds(log, Started, l) ELSE l = log
  <2>1. CASE OpensTurn(e.kind)
    BY <1>1, <1>3, <2>1, AppendAdds
  <2>2. CASE ~OpensTurn(e.kind)
    BY <1>1, <2>2
  <2> QED
    BY <2>1, <2>2
<1> HIDE DEF l
<1>7. log' \in Seq(LogEntries) /\ Adds(l, Entry(e, usage, reason), log')
  BY <1>2, <1>5, <1>6, AppendAdds
<1>8. LogTyped(l) /\ LogTyped(log)
  BY <1>1, <1>6, TypedLog
<1> QED
  BY <1>5, <1>6, <1>7, <1>8

\* EmitInTurn opens a turn where none is open, and a terminal event ends it.
LEMMA EmitTurns ==
  ASSUME NEW e, NEW usage, NEW reason, CanEmit(e, usage, reason),
         Turns(log, lastTurn, currentTurn, FALSE)
  PROVE  Turns(log', lastTurn', currentTurn', isTurnTerminal(e.kind))
<1> DEFINE x == Entry(e, usage, reason)
<1>1. PICK l \in Seq(LogEntries) :
        /\ LogTyped(l)
        /\ IF OpensTurn(e.kind) THEN Adds(log, Started, l) ELSE l = log
        /\ Adds(l, x, log')
  BY EmitLogs
<1>2. LogTyped(log)
  BY EmitLogs
<1>3. lastTurn \in Nat /\ currentTurn \in Nat /\ e.kind \in Kinds
  BY DEF CanEmit
<1>4. /\ currentTurn' = TurnOf(e.kind)
      /\ lastTurn' = IF OpensTurn(e.kind) THEN lastTurn + 1 ELSE lastTurn
  BY DEF CanEmit, EmitInTurn
<1>5. x.turn = TurnOf(e.kind) /\ x.what = e.kind
  BY DEF Entry
<1>6. e.kind # "started"
  BY <1>3 DEF Kinds, TypedKinds, StreamKinds
<1> HIDE DEF x
<1>7. CASE OpensTurn(e.kind)
  <2>1. currentTurn = 0 /\ TurnOf(e.kind) = lastTurn + 1
    BY <1>7 DEF OpensTurn, TurnOf
  <2>2. Started.what = "started" /\ Started.turn = lastTurn + 1
    BY DEF Started
  <2>3. Turns(l, lastTurn + 1, lastTurn + 1, FALSE)
    BY <1>1, <1>2, <1>3, <1>7, <2>1, <2>2, StartTurn
  <2>4. lastTurn + 1 \in Nat /\ lastTurn + 1 # 0
    BY <1>3
  <2>5. Turns(log', lastTurn + 1, lastTurn + 1, isTurnTerminal(x.what))
    BY <1>1, <1>5, <1>6, <2>1, <2>3, <2>4, InOpenTurn
  <2> QED
    BY <1>4, <1>5, <1>7, <2>1, <2>5
<1>8. CASE ~OpensTurn(e.kind) /\ currentTurn # 0
  <2>1. TurnOf(e.kind) = currentTurn /\ l = log
    BY <1>1, <1>8 DEF TurnOf
  <2>2. Turns(log', lastTurn, currentTurn, isTurnTerminal(x.what))
    BY <1>1, <1>2, <1>3, <1>5, <1>6, <1>8, <2>1, InOpenTurn
  <2> QED
    BY <1>4, <1>5, <1>8, <2>1, <2>2
<1>9. CASE ~OpensTurn(e.kind) /\ currentTurn = 0
  <2>1. TurnOf(e.kind) = 0 /\ l = log /\ ~isTurnTerminal(e.kind)
    BY <1>1, <1>9 DEF TurnOf, OpensTurn
  <2>2. Turns(log', lastTurn, 0, FALSE)
    BY <1>1, <1>2, <1>3, <1>5, <1>9, <2>1, OutsideTurns
  <2>3. isTurnTerminal(e.kind) = FALSE
    BY <2>1 DEF isTurnTerminal
  <2> QED
    BY <1>4, <1>9, <2>1, <2>2, <2>3
<1> QED
  BY <1>7, <1>8, <1>9

\* EmitInTurn of the oldest event keeps the log in order.
LEMMA EmitOrder ==
  ASSUME NEW e, NEW usage, NEW reason, CanEmit(e, usage, reason), e.n # 0,
         NEW f, NEW items, NEW p \in Nat, Ordered(f, items, log, p), LogInOrder(log),
         IsNext(e, f, items, log, p),
         \A q \in Streams(f) : 0 < f[q].n,
         \A i \in DOMAIN items : 0 < items[i].n
  PROVE  Ordered(f, items, log', p) /\ LogInOrder(log')
<1> DEFINE x == Entry(e, usage, reason)
<1>1. PICK l \in Seq(LogEntries) :
        /\ LogTyped(l)
        /\ IF OpensTurn(e.kind) THEN Adds(log, Started, l) ELSE l = log
        /\ Adds(l, x, log')
  BY EmitLogs
<1>2. LogTyped(log)
  BY EmitLogs
<1>3. x.n = e.n /\ Started.n = 0
  BY DEF Entry, Started
<1> HIDE DEF x
<1>4. Ordered(f, items, l, p) /\ LogInOrder(l) /\ IsNext(e, f, items, l, p)
  <2>1. CASE OpensTurn(e.kind)
    BY <1>1, <1>2, <1>3, <2>1, LogOwn, StillNext
  <2>2. CASE ~OpensTurn(e.kind)
    BY <1>1, <2>2
  <2> QED
    BY <2>1, <2>2
<1>5. IsNext(x, f, items, l, p)
  BY <1>3, <1>4 DEF IsNext
<1> QED
  BY <1>1, <1>4, <1>5, LogNext

\* EmitInTurn without usage, or with all that is carried by a later terminal event.
LEMMA EmitUsage ==
  ASSUME NEW e, NEW usage, NEW reason, CanEmit(e, usage, reason),
         NEW f, NEW carried, NEW turn, NEW busy, Usage(f, carried, log, turn, busy)
  PROVE  /\ usage = {} => Usage(f, carried, log', turn, busy)
         /\ /\ usage = carried /\ UsageTyped(f, carried, log, turn)
            /\ busy => \A u \in carried : u < turn
            /\ \A u \in carried, q \in Streams(f) : f[q].kind = "usage" => u < f[q].of
            => Usage(f, {}, log', turn, busy)
<1> DEFINE x == Entry(e, usage, reason)
<1>1. PICK l \in Seq(LogEntries) :
        /\ LogTyped(l)
        /\ IF OpensTurn(e.kind) THEN Adds(log, Started, l) ELSE l = log
        /\ Adds(l, x, log')
  BY EmitLogs
<1>2. x.usage = usage /\ Started.usage = {}
  BY DEF Entry, Started
<1> HIDE DEF x
<1>3. Usage(f, carried, l, turn, busy)
  BY <1>1, <1>2, UsageLogged
<1>4. ASSUME usage = {} PROVE Usage(f, carried, log', turn, busy)
  BY <1>1, <1>2, <1>3, <1>4, UsageLogged
<1>5. ASSUME usage = carried, UsageTyped(f, carried, log, turn),
             busy => \A u \in carried : u < turn,
             \A u \in carried, q \in Streams(f) : f[q].kind = "usage" => u < f[q].of
      PROVE  Usage(f, {}, log', turn, busy)
  <2>1. UsageTyped(f, carried, l, turn)
    BY <1>1, <1>5 DEF UsageTyped
  <2> QED
    BY <1>1, <1>2, <1>3, <1>5, <2>1, UsageSettled
<1> QED
  BY <1>4, <1>5

--------------------------------------------------------------------------------
(***************************************************************************)
(* How far Run has come.                                                   *)
(***************************************************************************)

\* The types RunInOrder speaks of.
RunTypes ==
  /\ None \notin Inputs /\ runner \in Inputs \cup {None}
  /\ input \in [Inputs -> {"idle", "admitted", "running", "returned"}]
  /\ answering \in BOOLEAN /\ marking \in BOOLEAN /\ fanoutClosed \in BOOLEAN
  /\ inputsClosed \in BOOLEAN /\ panicked \in BOOLEAN
  /\ session \in {"none", "live", "ended"} /\ child \in {"longLived", "perTurn"}

\* The types the run's order needs.
LEMMA TypesOfRun == ASSUME TypeOK PROVE RunTypes
BY NativeConstants DEF TypeOK, RunTypes

\* Once the channel is closed the agent has nothing more to report.
LEMMA QuietWhenClosed ==
  ASSUME RunTypes, RunInOrder, fanoutClosed, NEW kind
  PROVE  ~Reports(kind)
<1>1. session = "ended" /\ inputWG = {}
  BY DEF RunInOrder
<1>2. runner = None
  BY <1>1 DEF RunInOrder, RunTypes, inputWG
<1>3. ~answering
  BY <1>1, <1>2 DEF RunInOrder
<1> QED
  BY <1>1, <1>2, <1>3 DEF Reports, RunTypes

\* Each step keeps the stages of Run and the liveness of the agent in step.
LEMMA RunOrder ==
  ASSUME RunTypes, RunInOrder, [Next]_vars
  PROVE  RunInOrder'
<1> USE DEF RunTypes, RunInOrder, inputWG, agentVars, queueVars, turnVars, callVars, runVars

<1>1. CASE AgentBegin
  BY <1>1 DEF AgentBegin
<1>2. CASE SendMarker
  BY <1>2 DEF SendMarker
<1>3. CASE SessionEnd
  BY <1>3 DEF SessionEnd
<1>4. ASSUME NEW kind \in TypedKinds, TypedEventCallback(kind) PROVE RunInOrder'
  <2>1. ~fanoutClosed /\ Reports(kind)
    BY <1>4, QuietWhenClosed DEF TypedEventCallback
  <2> QED
    BY <1>4, <2>1 DEF TypedEventCallback, Reports
<1>5. ASSUME NEW kind \in StreamKinds, SendStreamEvent(kind) PROVE RunInOrder'
  <2>1. ~fanoutClosed /\ Reports(kind)
    BY <1>5, QuietWhenClosed DEF SendStreamEvent
  <2> QED
    BY <1>5, <2>1 DEF SendStreamEvent, Reports
<1>6. CASE StartChild
  BY <1>6 DEF StartChild
<1>7. CASE StartFail
  BY <1>7 DEF StartFail
<1>8. CASE RunStarted
  BY <1>8 DEF RunStarted
<1>9. CASE SandboxApplied
  BY <1>9 DEF SandboxApplied
<1>10. CASE SandboxFailed
  BY <1>10 DEF SandboxFailed
<1>11. CASE AbortStop
  BY <1>11 DEF AbortStop
<1>12. CASE WaitReturn
  BY <1>12 DEF WaitReturn
<1>13. CASE closeInputAdmission
  BY <1>13 DEF closeInputAdmission
<1>14. CASE InputsJoined
  BY <1>14 DEF InputsJoined
<1>15. CASE closeFanout
  BY <1>15 DEF closeFanout
<1>16. CASE flushOpenTurn
  BY <1>16 DEF flushOpenTurn
<1>17. CASE RunReturn
  BY <1>17 DEF RunReturn
<1>18. CASE TranslateTyped
  BY <1>18 DEF TranslateTyped, emitProviderObserved, emitObserved
<1>19. CASE TranslateStream
  BY <1>19 DEF TranslateStream, emitProviderObserved, emitObserved
<1>20. CASE TranslateClose
  BY <1>20 DEF TranslateClose
<1>21. CASE TranslatorDone
  BY <1>21 DEF TranslatorDone
<1>22. ASSUME NEW i \in Inputs, SendInput(i) PROVE RunInOrder'
  BY <1>22 DEF SendInput
<1>23. ASSUME NEW i \in Inputs, SendInputRefused(i) PROVE RunInOrder'
  BY <1>23 DEF SendInputRefused
<1>24. ASSUME NEW i \in Inputs, InputDelivered(i) PROVE RunInOrder'
  BY <1>24 DEF InputDelivered
<1>25. ASSUME NEW i \in Inputs, InputRuns(i) PROVE RunInOrder'
  BY <1>25 DEF InputRuns
<1>26. ASSUME NEW i \in Inputs, InputRan(i) PROVE RunInOrder'
  BY <1>26 DEF InputRan
<1>27. ASSUME NEW i \in Inputs, InputFails(i) PROVE RunInOrder'
  BY <1>27 DEF InputFails
<1>28. ASSUME NEW c \in Cancels, CancelTurn(c) PROVE RunInOrder'
  BY <1>28 DEF CancelTurn
<1>29. ASSUME NEW c \in Cancels, InterruptTurn(c) PROVE RunInOrder'
  BY <1>29 DEF InterruptTurn
<1>30. ASSUME NEW c \in Cancels, InterruptAcknowledged(c) PROVE RunInOrder'
  BY <1>30 DEF InterruptAcknowledged
<1>31. ASSUME NEW c \in Cancels, InterruptFails(c) PROVE RunInOrder'
  BY <1>31 DEF InterruptFails
<1>32. CASE Stop
  BY <1>32 DEF Stop
<1>33. CASE UNCHANGED vars
  BY <1>33 DEF vars
<1> QED
  BY <1>1, <1>2, <1>3, <1>4, <1>5, <1>6, <1>7, <1>8, <1>9, <1>10, <1>11, <1>12, <1>13,
     <1>14, <1>15, <1>16, <1>17, <1>18, <1>19, <1>20, <1>21, <1>22, <1>23, <1>24, <1>25,
     <1>26, <1>27, <1>28, <1>29, <1>30, <1>31, <1>32, <1>33 DEF Next, SessionStep, RunStep,
     TranslatorStep, InputStep, CancelStep
--------------------------------------------------------------------------------
(***************************************************************************)
(* The steps that move an event, a turn, its usage or its mark.            *)
(***************************************************************************)

coreVars == <<fanout, typedItems, log, produced, marking, currentTurn, lastTurn, turnUsage,
              agentTurn, answering, open, interrupted, canceledTurn, canceling>>

\* TypedEventCallback up to its marker, before the channel is closed.
Enqueue(kind) ==
  /\ TypedEventCallback(kind) /\ ~fanoutClosed

Core ==
  \/ UNCHANGED coreVars /\ (translator' = "closing" <=> translator = "closing")
  \/ AgentBegin \/ SendMarker \/ SessionEnd
  \/ \E kind \in TypedKinds : Enqueue(kind)
  \/ \E kind \in StreamKinds : SendStreamEvent(kind)
  \/ flushOpenTurn \/ RunReturn
  \/ TranslateTyped \/ TranslateStream \/ TranslateClose
  \/ \E i \in Inputs : InputRuns(i) \/ InputRan(i)
  \/ \E c \in Cancels : CancelStep(c)

\* A step, seen by the flow of events: it is one of Core's.
LEMMA CoreSteps ==
  ASSUME RunTypes, RunInOrder, [Next]_vars
  PROVE  Core
<1> USE DEF coreVars, agentVars, queueVars, turnVars, callVars, runVars
<1>1. CASE SessionStep
  <2>1. ASSUME NEW kind \in TypedKinds, TypedEventCallback(kind) PROVE Enqueue(kind)
    BY <2>1, QuietWhenClosed DEF TypedEventCallback, Enqueue
  <2> QED
    BY <1>1, <2>1 DEF SessionStep, Core
<1>2. CASE RunStep
  <2>1. CASE RunStarted
    BY <2>1 DEF RunStarted, Core, RunInOrder
  <2>2. CASE \/ StartChild \/ StartFail \/ SandboxApplied \/ SandboxFailed \/ AbortStop
             \/ WaitReturn \/ closeInputAdmission \/ InputsJoined \/ closeFanout
    <3>1. UNCHANGED coreVars /\ translator' = translator
      BY <2>2 DEF StartChild, StartFail, SandboxApplied, SandboxFailed, AbortStop, WaitReturn,
         closeInputAdmission, InputsJoined, closeFanout
    <3> QED
      BY <3>1 DEF Core
  <2> QED
    BY <1>2, <2>1, <2>2 DEF RunStep, Core
<1>3. CASE TranslatorStep
  BY <1>3 DEF TranslatorStep, Core, TranslatorDone
<1>4. ASSUME NEW i \in Inputs, InputStep(i) PROVE Core
  BY <1>4 DEF InputStep, Core, SendInput, SendInputRefused, InputDelivered, InputFails
<1>5. CASE \E c \in Cancels : CancelStep(c)
  BY <1>5 DEF Core
<1>6. CASE Stop \/ UNCHANGED vars
  BY <1>6 DEF Core, Stop, vars
<1> QED
  BY <1>1, <1>2, <1>3, <1>4, <1>5, <1>6 DEF Next

\* Typed events carry positive numbers.
LEMMA EventsNumbered ==
  ASSUME NEW s \in Seq(Events)
  PROVE  /\ Numbered(s)
         /\ \A i \in DOMAIN s : s[i] \in Events /\ 0 < s[i].n /\ s[i].kind \in Kinds
<1>1. Len(s) \in Nat /\ DOMAIN s = 1..Len(s) /\ \A i \in DOMAIN s : s[i] \in Events
  BY LenProperties, ElementOfSeq
<1>2. ASSUME NEW e \in Events PROVE e.n \in Nat /\ e.of \in Nat /\ 0 < e.n /\ e.kind \in Kinds
  <2>1. Cardinality(Inputs) \in Nat
    BY NativeConstants, FS_CardinalityType
  <2> QED
    BY <2>1, NativeConstants DEF Events
<1> QED
  BY <1>1, <1>2 DEF Numbered

\* What the invariant says of the sequences, ready to use.
Ready ==
  /\ RunTypes /\ RunInOrder
  /\ Numbered(fanout) /\ Numbered(typedItems) /\ LogTyped(log)
  /\ fanout \in Seq(Channel) /\ typedItems \in Seq(Events) /\ log \in Seq(LogEntries)
  /\ \A q \in Streams(fanout) : 0 < fanout[q].n /\ fanout[q] \in Events
  /\ \A i \in DOMAIN typedItems : 0 < typedItems[i].n /\ typedItems[i] \in Events
  /\ produced \in Nat /\ lastTurn \in Nat /\ currentTurn \in Nat /\ agentTurn \in Nat
  /\ turnUsage \subseteq Nat
  /\ UsageTyped(fanout, turnUsage, log, agentTurn)
  /\ Ordered(fanout, typedItems, log, produced) /\ LogInOrder(log)
  /\ Len(typedItems) = Markers(fanout, Len(fanout)) + (IF marking THEN 1 ELSE 0)
  /\ Markers(fanout, Len(fanout)) \in Nat
  /\ agentTurn \in 0..Cardinality(Inputs) /\ produced <= MaxOutput

\* What the invariant gives to the proofs about the flow of events.
LEMMA IsReady ==
  ASSUME IInv
  PROVE  Ready
<1>1. TypeOK /\ RunInOrder /\ log \in Seq(LogEntries) /\ QueuesInOrder
  BY DEF IInv, Typed
<1>2. Cardinality(Inputs) \in Nat
  BY NativeConstants, FS_CardinalityType
<1>3. fanout \in Seq(Channel) /\ typedItems \in Seq(Events)
  BY <1>1 DEF TypeOK, Channel
<1>4. /\ produced \in Nat /\ lastTurn \in Nat /\ currentTurn \in Nat /\ agentTurn \in Nat
      /\ turnUsage \subseteq Nat /\ agentTurn \in 0..Cardinality(Inputs) /\ produced <= MaxOutput
  BY <1>1, <1>2, NativeConstants DEF TypeOK
<1>5. Numbered(fanout) /\ \A q \in DOMAIN fanout : fanout[q] \in Channel
  BY <1>3, QueueNumbered
<1>6. /\ Numbered(typedItems)
      /\ \A i \in DOMAIN typedItems : 0 < typedItems[i].n /\ typedItems[i] \in Events
  BY <1>3, EventsNumbered
<1>7. \A q \in Streams(fanout) : 0 < fanout[q].n /\ fanout[q] \in Events
  BY <1>5 DEF Streams, Channel, Events
<1>8. LogTyped(log)
  BY <1>1, TypedLog
<1>9. RunTypes
  BY <1>1, TypesOfRun
<1>10. Markers(fanout, Len(fanout)) \in Nat
  BY <1>5, MarkersBounds DEF Numbered
<1>11. Ordered(fanout, typedItems, log, produced) /\ LogInOrder(log)
       /\ Len(typedItems) = Markers(fanout, Len(fanout)) + (IF marking THEN 1 ELSE 0)
  BY <1>1 DEF QueuesInOrder, Ordered, EveryTypedHasMarker
<1>12. UsageTyped(fanout, turnUsage, log, agentTurn)
  BY <1>4, <1>5, <1>8 DEF UsageTyped
<1> QED
  BY <1>1, <1>3, <1>4, <1>5, <1>6, <1>7, <1>8, <1>9, <1>10, <1>11, <1>12 DEF Ready

\* The next report is an event, and no marker.
LEMMA ReportedEvent ==
  ASSUME Ready, NEW kind \in Kinds, Reports(kind)
  PROVE  /\ Reported(kind) \in Events /\ Reported(kind) # typedMarker
         /\ Reported(kind).n = produced + 1 /\ Reported(kind).kind = kind
         /\ Reported(kind).of = agentTurn /\ produced + 1 <= MaxOutput
<1>1. produced + 1 \in 1..MaxOutput /\ produced + 1 # 0
  BY NativeConstants DEF Ready, Reports
<1> QED
  BY <1>1 DEF Ready, Reported, Events, typedMarker

--------------------------------------------------------------------------------
(***************************************************************************)
(* The translator's steps.                                                 *)
(***************************************************************************)

\* The parts of the invariant that an event passing through disturbs.
Flow == QueuesInOrder /\ TurnsInOrder /\ UsageInOrder

\* The flow of events as relations of the queues, the log and the counters.
LEMMA FlowOf ==
  Flow <=>
    /\ EveryTypedHasMarker
    /\ Ordered(fanout, typedItems, log, produced) /\ LogInOrder(log)
    /\ Turns(log, lastTurn, currentTurn, translator = "closing")
    /\ Usage(fanout, turnUsage, log, agentTurn, answering)
BY DEF Flow, QueuesInOrder, TurnsInOrder, UsageInOrder, Ordered

\* The translator takes a typed event at its marker.
LEMMA TypedTaken ==
  ASSUME Ready, Flow, TranslateTyped
  PROVE  /\ Flow' /\ log' \in Seq(LogEntries)
         /\ typedItems # << >> /\ EmitInTurn(typedItems[1], {}, "")
         /\ typedItems[1] \in Events
<1>1. /\ translator = "ranging" /\ fanout # << >> /\ Head(fanout) = typedMarker
      /\ fanout' = Tail(fanout) /\ marking' = marking /\ produced' = produced
      /\ translator' = translator /\ agentTurn' = agentTurn /\ answering' = answering
  BY DEF TranslateTyped, agentVars, runVars
<1>2. Drops(fanout, fanout') /\ fanout[1] = typedMarker /\ fanout' \in Seq(Channel)
  BY <1>1, TailDrops DEF Ready
<1>3. /\ Len(fanout') \in Nat /\ Len(fanout) = Len(fanout') + 1
      /\ Markers(fanout', Len(fanout')) \in Nat
      /\ Markers(fanout, Len(fanout)) = Markers(fanout', Len(fanout')) + 1
  <2>1. Len(fanout') \in Nat /\ Len(fanout) = Len(fanout') + 1 /\ Len(fanout') \in 0..Len(fanout')
    BY <1>2 DEF Drops
  <2>2. Markers(fanout, Len(fanout') + 1) = Markers(fanout', Len(fanout')) + 1
    BY <1>2, <2>1, MarkersDrop
  <2> QED
    BY <2>1, <2>2, MarkersBounds
<1>4. typedItems # << >>
  <2>1. Len(typedItems) > 0
    BY <1>3 DEF Ready
  <2> QED
    BY <2>1, EmptySeq
<1>5. /\ typedItems' = Tail(typedItems) /\ EmitInTurn(typedItems[1], {}, "")
      /\ turnUsage' = turnUsage /\ Drops(typedItems, typedItems') /\ typedItems[1] \in Events
      /\ 1 \in DOMAIN typedItems
  <2>1. Head(typedItems) = typedItems[1] /\ Drops(typedItems, Tail(typedItems))
        /\ typedItems[1] \in Events /\ 1 \in DOMAIN typedItems
    BY <1>4, TailDrops DEF Ready
  <2> QED
    BY <1>4, <2>1 DEF TranslateTyped, emitProviderObserved
<1> DEFINE e == typedItems[1]
<1>6. e.kind \in TypedKinds /\ e.n \in Nat /\ e.n # 0
  <2>1. 1 \in DOMAIN typedItems
    BY <1>5
  <2>2. e.kind \in TypedKinds
    BY <2>1 DEF Ready, Ordered, TypedOK
  <2>3. e.n \in Nat
    BY <2>1 DEF Ready, Numbered
  <2>4. 0 < e.n
    BY <2>1 DEF Ready
  <2> QED
    BY <2>2, <2>3, <2>4
<1>7. CanEmit(e, {}, "")
  BY <1>5, <1>6 DEF CanEmit, Ready, Kinds, Reasons
<1>8. log' \in Seq(LogEntries)
  BY <1>7, EmitLogs
<1>9. Ordered(fanout', typedItems', log, produced) /\ IsNext(e, fanout', typedItems', log, produced)
  BY <1>2, <1>5, TakeTyped DEF Ready
<1>10. /\ \A q \in Streams(fanout') : 0 < fanout'[q].n
       /\ \A i \in DOMAIN typedItems' : 0 < typedItems'[i].n
  <2>1. \A q \in Streams(fanout') : q + 1 \in Streams(fanout) /\ fanout'[q] = fanout[q + 1]
    BY <1>2, DropStreams
  <2>2. \A i \in DOMAIN typedItems' : i + 1 \in DOMAIN typedItems /\ typedItems'[i] = typedItems[i + 1]
    <3>1. Drops(typedItems, typedItems')
      BY <1>5
    <3> QED
      BY <3>1 DEF Drops
  <2> QED
    BY <2>1, <2>2 DEF Ready
<1>11. Ordered(fanout', typedItems', log', produced) /\ LogInOrder(log')
  BY <1>6, <1>7, <1>9, <1>10, EmitOrder DEF Ready
<1>12. Turns(log', lastTurn', currentTurn', translator' = "closing")
  <2>1. Turns(log, lastTurn, currentTurn, FALSE)
    BY <1>1, FlowOf
  <2>2. isTurnTerminal(e.kind) = FALSE /\ (translator' = "closing") = FALSE
    BY <1>1, <1>6 DEF isTurnTerminal, TypedKinds
  <2>3. Turns(log', lastTurn', currentTurn', isTurnTerminal(e.kind))
    BY <1>7, <2>1, EmitTurns
  <2> QED
    BY <2>2, <2>3
<1>13. Usage(fanout', turnUsage', log', agentTurn', answering')
  <2>1. Usage(fanout', turnUsage, log, agentTurn, answering)
    BY <1>2, FlowOf, UsageDrop
  <2>2. Usage(fanout', turnUsage, log', agentTurn, answering)
    BY <1>7, <2>1, EmitUsage
  <2> QED
    BY <1>1, <1>5, <2>2
<1>14. EveryTypedHasMarker'
  <2>1. Len(typedItems') = Len(typedItems) - 1
    BY <1>5 DEF Drops
  <2>2. Len(typedItems) = Markers(fanout, Len(fanout)) + (IF marking THEN 1 ELSE 0)
    BY DEF Ready
  <2>3. Len(typedItems') = Markers(fanout', Len(fanout')) + (IF marking' THEN 1 ELSE 0)
    BY <1>1, <1>3, <2>1, <2>2
  <2> QED
    BY <2>3 DEF EveryTypedHasMarker
<1>15. Flow'
  BY <1>1, <1>11, <1>12, <1>13, <1>14
     DEF Flow, QueuesInOrder, TurnsInOrder, UsageInOrder, Ordered
<1> QED
  BY <1>4, <1>5, <1>8, <1>15

\* The translator takes a stream event.
LEMMA StreamTaken ==
  ASSUME Ready, Flow, TranslateStream
  PROVE  /\ Flow' /\ log' \in Seq(LogEntries) /\ 1 \in Streams(fanout) /\ fanout[1] \in Events
         /\ Head(fanout) = fanout[1]
         /\ fanout[1].kind # "usage" =>
              EmitInTurn(fanout[1], IF isTurnTerminal(fanout[1].kind) THEN turnUsage ELSE {},
                IF /\ fanout[1].kind = "failed"
                   /\ interrupted # 0 /\ interrupted = TurnOf(fanout[1].kind)
                THEN "interrupted" ELSE "")
<1>1. /\ translator = "ranging" /\ fanout # << >> /\ Head(fanout) # typedMarker
      /\ fanout' = Tail(fanout) /\ marking' = marking /\ produced' = produced
      /\ typedItems' = typedItems
      /\ agentTurn' = agentTurn /\ answering' = answering
  BY DEF TranslateStream, agentVars
<1>2. Drops(fanout, fanout') /\ fanout[1] # typedMarker /\ fanout' \in Seq(Channel)
      /\ Head(fanout) = fanout[1]
  BY <1>1, TailDrops DEF Ready
<1> DEFINE e == fanout[1]
<1>3. Ordered(fanout', typedItems, log, produced) /\ IsNext(e, fanout', typedItems, log, produced)
      /\ 1 \in Streams(fanout)
  BY <1>2, TakeStream DEF Ready
<1>4. e \in Events /\ e.kind \in StreamKinds /\ e.n \in Nat /\ e.n # 0
  BY <1>3 DEF Ready, Ordered, FanoutOK, Numbered, Streams
<1>5. EveryTypedHasMarker'
  <2>1. Len(fanout') \in Nat /\ Len(fanout) = Len(fanout') + 1 /\ Len(fanout') \in 0..Len(fanout')
    BY <1>2 DEF Drops
  <2>2. Markers(fanout', Len(fanout')) \in Nat
    BY <2>1, MarkersBounds
  <2>3. Markers(fanout, Len(fanout') + 1) = Markers(fanout', Len(fanout'))
    BY <1>2, <2>1, <2>2, MarkersDrop
  <2>4. Len(typedItems') = Markers(fanout', Len(fanout')) + (IF marking' THEN 1 ELSE 0)
    BY <1>1, <2>1, <2>3 DEF Ready
  <2> QED
    BY <2>4 DEF EveryTypedHasMarker
<1>6. Turns(log, lastTurn, currentTurn, FALSE)
  BY <1>1, FlowOf
<1>7. Usage(fanout, turnUsage, log, agentTurn, answering)
      /\ Usage(fanout', turnUsage, log, agentTurn, answering)
  BY <1>2, FlowOf, UsageDrop
<1>8. CASE e.kind = "usage"
  <2>1. /\ turnUsage' = turnUsage \cup {e.of} /\ log' = log /\ translator' = translator
        /\ currentTurn' = currentTurn /\ lastTurn' = lastTurn
    BY <1>2, <1>8 DEF TranslateStream
  <2>2. Usage(fanout', turnUsage', log', agentTurn', answering')
    BY <1>1, <1>2, <1>3, <1>7, <1>8, <2>1, UsageCarried DEF Ready
  <2>3. (translator' = "closing") = FALSE
    BY <1>1, <2>1
  <2>4. Ordered(fanout', typedItems', log', produced') /\ LogInOrder(log')
    BY <1>1, <1>3, <2>1 DEF Ready
  <2>5. Turns(log', lastTurn', currentTurn', translator' = "closing")
    BY <1>6, <2>1, <2>3
  <2>6. Flow'
    BY <1>5, <2>2, <2>4, <2>5 DEF Flow, QueuesInOrder, TurnsInOrder, UsageInOrder, Ordered
  <2> QED
    BY <1>2, <1>3, <1>4, <1>8, <2>1, <2>6 DEF Ready
<1>9. CASE e.kind # "usage"
  <2> DEFINE u == IF isTurnTerminal(e.kind) THEN turnUsage ELSE {}
             reason == IF e.kind = "failed" /\ interrupted # 0 /\ interrupted = TurnOf(e.kind)
                       THEN "interrupted" ELSE ""
  <2>1. /\ EmitInTurn(e, u, reason)
        /\ turnUsage' = IF isTurnTerminal(e.kind) THEN {} ELSE turnUsage
        /\ translator' = IF isTurnTerminal(e.kind) THEN "closing" ELSE "ranging"
    BY <1>2, <1>9 DEF TranslateStream, emitObserved
  <2>2. u \subseteq Nat /\ reason \in Reasons
    BY DEF Ready, Reasons
  <2>3. u = {} \/ (isTurnTerminal(e.kind) /\ u = turnUsage)
    OBVIOUS
  <2>4. isTurnTerminal(e.kind) => u = turnUsage
    OBVIOUS
  <2>5. ~isTurnTerminal(e.kind) => u = {}
    OBVIOUS
  <2>6. EmitInTurn(fanout[1], IF isTurnTerminal(fanout[1].kind) THEN turnUsage ELSE {},
                IF /\ fanout[1].kind = "failed"
                   /\ interrupted # 0 /\ interrupted = TurnOf(fanout[1].kind)
                THEN "interrupted" ELSE "")
    BY <2>1
  <2> HIDE DEF u, reason
  <2>7. CanEmit(e, u, reason)
    BY <1>4, <2>1, <2>2 DEF CanEmit, Ready, Kinds
  <2>8. log' \in Seq(LogEntries)
    BY <2>7, EmitLogs
  <2>9. /\ \A q \in Streams(fanout') : 0 < fanout'[q].n
        /\ \A i \in DOMAIN typedItems : 0 < typedItems[i].n
    <3>1. \A q \in Streams(fanout') : q + 1 \in Streams(fanout) /\ fanout'[q] = fanout[q + 1]
      BY <1>2, DropStreams
    <3> QED
      BY <3>1 DEF Ready
  <2>10. Ordered(fanout', typedItems, log', produced) /\ LogInOrder(log')
    BY <1>3, <1>4, <2>7, <2>9, EmitOrder DEF Ready
  <2>11. Turns(log', lastTurn', currentTurn', translator' = "closing")
    <3>1. (translator' = "closing") = isTurnTerminal(e.kind)
      BY <2>1 DEF isTurnTerminal
    <3>2. Turns(log', lastTurn', currentTurn', isTurnTerminal(e.kind))
      BY <1>6, <2>7, EmitTurns
    <3> QED
      BY <3>1, <3>2
  <2>12. CASE ~isTurnTerminal(e.kind)
    <3>1. Usage(fanout', turnUsage, log', agentTurn, answering)
      BY <1>7, <2>5, <2>7, <2>12, EmitUsage
    <3>2. Usage(fanout', turnUsage', log', agentTurn', answering')
      BY <1>1, <2>1, <2>12, <3>1
    <3>3. Flow'
      BY <1>1, <1>5, <2>10, <2>11, <3>2
         DEF Flow, QueuesInOrder, TurnsInOrder, UsageInOrder, Ordered
    <3> QED
      BY <1>2, <1>3, <1>4, <2>6, <2>8, <3>3
  <2>13. CASE isTurnTerminal(e.kind)
    <3>1. /\ answering => \A v \in turnUsage : v < agentTurn
          /\ \A v \in turnUsage, q \in Streams(fanout') : fanout'[q].kind = "usage" => v < fanout'[q].of
      BY <1>2, <1>3, <1>7, <2>13, UsageBeforeEnd DEF Ready
    <3>2. UsageTyped(fanout', turnUsage, log, agentTurn)
      <4>1. Numbered(fanout')
        BY <1>2, QueueNumbered
      <4> QED
        BY <4>1 DEF UsageTyped, Ready
    <3>3. Usage(fanout', {}, log', agentTurn, answering)
      BY <1>7, <2>4, <2>7, <2>13, <3>1, <3>2, EmitUsage
    <3>4. Usage(fanout', turnUsage', log', agentTurn', answering')
      BY <1>1, <2>1, <2>13, <3>3
    <3>5. Flow'
      BY <1>1, <1>5, <2>10, <2>11, <3>4
         DEF Flow, QueuesInOrder, TurnsInOrder, UsageInOrder, Ordered
    <3> QED
      BY <1>2, <1>3, <1>4, <2>6, <2>8, <3>5
  <2> QED
    BY <2>12, <2>13
<1> QED
  BY <1>8, <1>9

--------------------------------------------------------------------------------
(***************************************************************************)
(* Every step keeps the flow of events in order.                           *)
(***************************************************************************)

flowVars == <<fanout, typedItems, log, produced, marking, currentTurn, lastTurn>>

\* The agent's turn begins or ends: only the usage is concerned.
LEMMA TurnFlow ==
  ASSUME Flow, UNCHANGED flowVars, translator' = translator,
         Usage(fanout, turnUsage', log, agentTurn', answering')
  PROVE  Flow'
<1>1. QueuesInOrder'
  BY DEF flowVars, Flow, QueuesInOrder, EveryTypedHasMarker
<1>2. TurnsInOrder'
  BY DEF flowVars, Flow, TurnsInOrder
<1>3. UsageInOrder'
  BY DEF flowVars, UsageInOrder
<1> QED
  BY <1>1, <1>2, <1>3 DEF Flow

\* A step that touches neither queue nor log.
LEMMA SameFlow ==
  ASSUME Flow, UNCHANGED flowVars, (translator' = "closing") <=> (translator = "closing"),
         UNCHANGED <<turnUsage, agentTurn, answering>>
  PROVE  Flow'
<1>1. QueuesInOrder'
  BY DEF flowVars, Flow, QueuesInOrder, EveryTypedHasMarker
<1>2. TurnsInOrder'
  <2>1. (translator' = "closing") = (translator = "closing")
    OBVIOUS
  <2> QED
    BY <2>1 DEF flowVars, Flow, TurnsInOrder
<1>3. UsageInOrder'
  BY DEF flowVars, Flow, UsageInOrder
<1> QED
  BY <1>1, <1>2, <1>3 DEF Flow

\* The agent starts to answer an input.
LEMMA TurnBegins ==
  ASSUME Ready, Flow, AgentBegin \/ \E i \in Inputs : InputRuns(i)
  PROVE  Flow'
<1>1. /\ ~answering /\ answering' = TRUE /\ agentTurn' = agentTurn + 1 /\ turnUsage' = turnUsage
      /\ UNCHANGED flowVars /\ translator' = translator
  BY DEF Ready, RunTypes, RunInOrder, AgentBegin, InputRuns, flowVars, queueVars, turnVars, runVars
<1>2. Usage(fanout, turnUsage, log, agentTurn, FALSE)
  BY FlowOf, UsageIdle
<1>3. Usage(fanout, turnUsage, log, agentTurn + 1, TRUE)
  BY <1>2, UsageBegin DEF Ready
<1> QED
  BY <1>1, <1>3, TurnFlow

\* The agent stops without a terminal event.
LEMMA TurnStops ==
  ASSUME Ready, Flow, SessionEnd \/ \E i \in Inputs : InputRan(i)
  PROVE  Flow'
<1>1. /\ answering' = answering \/ answering' = FALSE
      /\ agentTurn' = agentTurn /\ turnUsage' = turnUsage
      /\ UNCHANGED flowVars /\ translator' = translator
  BY DEF Ready, RunTypes, SessionEnd, InputRan, flowVars, queueVars, turnVars, runVars
<1>2. Usage(fanout, turnUsage, log, agentTurn, answering)
      /\ Usage(fanout, turnUsage, log, agentTurn, FALSE)
  BY FlowOf, UsageIdle
<1> QED
  BY <1>1, <1>2, TurnFlow

\* The marker gets its place in the channel.
LEMMA MarkerSent ==
  ASSUME Ready, Flow, SendMarker
  PROVE  Flow'
<1>1. /\ marking /\ marking' = FALSE /\ fanout' = Append(fanout, typedMarker)
      /\ UNCHANGED <<typedItems, log, produced, currentTurn, lastTurn, turnUsage, agentTurn,
                     answering, translator>>
  BY DEF SendMarker, agentVars, turnVars, runVars
<1>2. typedMarker \in Channel
  BY DEF Channel
<1>3. Adds(fanout, typedMarker, fanout')
  BY <1>1, <1>2, AppendAdds DEF Ready
<1>4. Ordered(fanout', typedItems, log, produced)
  BY <1>3, QueueMarker DEF Ready
<1>5. EveryTypedHasMarker'
  <2>1. Markers(fanout', Len(fanout')) = Markers(fanout, Len(fanout)) + 1
    BY <1>3, MarkersAdd
  <2>2. Len(typedItems) = Markers(fanout, Len(fanout)) + 1
    BY <1>1 DEF Ready
  <2>3. Markers(fanout, Len(fanout)) \in Nat
    BY DEF Ready
  <2>4. Len(typedItems') = Markers(fanout', Len(fanout')) + (IF marking' THEN 1 ELSE 0)
    BY <1>1, <2>1, <2>2, <2>3
  <2> QED
    BY <2>4 DEF EveryTypedHasMarker
<1>6. Usage(fanout', turnUsage, log, agentTurn, answering)
  BY <1>3, FlowOf, UsageMarker
<1>7. QueuesInOrder'
  BY <1>1, <1>4, <1>5 DEF Ready, QueuesInOrder, Ordered
<1>8. TurnsInOrder'
  BY <1>1 DEF Flow, TurnsInOrder
<1>9. UsageInOrder'
  BY <1>1, <1>6 DEF UsageInOrder
<1> QED
  BY <1>7, <1>8, <1>9 DEF Flow

\* A typed event is queued, its marker pending.
LEMMA TypedQueued ==
  ASSUME Ready, Flow, NEW kind \in TypedKinds, Enqueue(kind)
  PROVE  Flow'
<1>1. /\ ~marking /\ marking' = TRUE /\ typedItems' = Append(typedItems, Reported(kind))
      /\ Reports(kind) /\ produced' = produced + 1
      /\ UNCHANGED <<fanout, log, currentTurn, lastTurn, turnUsage, agentTurn,
                     answering, translator>>
  BY DEF Enqueue, TypedEventCallback, Reports, agentVars, turnVars, runVars
<1>2. Reported(kind) \in Events /\ Reported(kind).n = produced + 1 /\ Reported(kind).kind = kind
  BY <1>1, ReportedEvent DEF Kinds
<1>3. Adds(typedItems, Reported(kind), typedItems')
  BY <1>1, <1>2, AppendAdds DEF Ready
<1>4. Len(typedItems) = Markers(fanout, Len(fanout))
  BY <1>1 DEF Ready
<1>5. Ordered(fanout, typedItems', log, produced + 1)
  BY <1>2, <1>3, <1>4, QueueTyped DEF Ready
<1>6. EveryTypedHasMarker'
  <2>1. Len(typedItems') = Len(typedItems) + 1
    BY <1>3 DEF Adds
  <2>2. Len(typedItems') = Markers(fanout', Len(fanout')) + (IF marking' THEN 1 ELSE 0)
    BY <1>1, <1>4, <2>1
  <2> QED
    BY <2>2 DEF EveryTypedHasMarker
<1>7. QueuesInOrder'
  BY <1>1, <1>5, <1>6 DEF Ready, QueuesInOrder, Ordered
<1>8. TurnsInOrder'
  BY <1>1 DEF Flow, TurnsInOrder
<1>9. UsageInOrder'
  BY <1>1 DEF Flow, UsageInOrder
<1> QED
  BY <1>7, <1>8, <1>9 DEF Flow

\* A stream event is sent, or dropped by a full channel.
LEMMA StreamSent ==
  ASSUME Ready, Flow, NEW kind \in StreamKinds, SendStreamEvent(kind)
  PROVE  Flow'
<1>1. /\ ~marking /\ marking' = marking /\ Reports(kind) /\ produced' = produced + 1
      /\ answering' = (answering /\ ~isTurnTerminal(kind))
      /\ \/ fanout' = fanout
         \/ fanout' = Append(fanout, Reported(kind))
      /\ UNCHANGED <<typedItems, log, currentTurn, lastTurn, turnUsage, agentTurn, translator>>
  BY DEF SendStreamEvent, Reports, turnVars, runVars
<1>2. /\ Reported(kind) \in Events /\ Reported(kind).n = produced + 1
      /\ Reported(kind).kind = kind /\ Reported(kind).of = agentTurn /\ Reported(kind) # typedMarker
  BY <1>1, ReportedEvent DEF Kinds
<1>3. answering
  BY <1>1 DEF Reports, StreamKinds
<1>4. Len(typedItems) = Markers(fanout, Len(fanout))
  BY <1>1 DEF Ready
<1>5. answering = TRUE /\ answering' = ~isTurnTerminal(kind)
  BY <1>1, <1>3 DEF Ready, RunTypes
<1>6. Usage(fanout, turnUsage, log, agentTurn, TRUE)
  BY <1>5, FlowOf
<1>7. /\ Ordered(fanout', typedItems, log, produced + 1)
      /\ Usage(fanout', turnUsage, log, agentTurn, ~isTurnTerminal(kind))
      /\ Markers(fanout', Len(fanout')) = Markers(fanout, Len(fanout))
  <2>1. CASE fanout' = fanout
    <3>1. Ordered(fanout, typedItems, log, produced + 1)
      BY NumberTaken DEF Ready
    <3>2. Usage(fanout, turnUsage, log, agentTurn, FALSE)
      BY <1>6, UsageIdle
    <3>3. Usage(fanout, turnUsage, log, agentTurn, ~isTurnTerminal(kind))
      BY <1>6, <3>2 DEF isTurnTerminal
    <3> QED
      BY <2>1, <3>1, <3>3
  <2>2. CASE fanout' = Append(fanout, Reported(kind))
    <3>1. Reported(kind) \in Channel
      BY <1>2 DEF Channel
    <3>2. Adds(fanout, Reported(kind), fanout')
      BY <2>2, <3>1, AppendAdds DEF Ready
    <3>3. Ordered(fanout', typedItems, log, produced + 1)
      BY <1>2, <1>4, <3>2, QueueStream DEF Ready
    <3>4. Usage(fanout', turnUsage, log, agentTurn, ~isTurnTerminal(Reported(kind).kind))
      BY <1>2, <1>6, <3>2, UsageStream DEF Ready
    <3>5. Markers(fanout', Len(fanout')) = Markers(fanout, Len(fanout))
      <4>1. Markers(fanout', Len(fanout')) = Markers(fanout, Len(fanout)) + 0
        BY <1>2, <3>2, MarkersAdd
      <4> QED
        BY <4>1 DEF Ready
    <3> QED
      BY <1>2, <3>3, <3>4, <3>5
  <2> QED
    BY <1>1, <2>1, <2>2
<1>8. EveryTypedHasMarker'
  <2>1. Len(typedItems') = Markers(fanout', Len(fanout')) + (IF marking' THEN 1 ELSE 0)
    BY <1>1, <1>7 DEF Ready
  <2> QED
    BY <2>1 DEF EveryTypedHasMarker
<1>9. QueuesInOrder'
  BY <1>1, <1>7, <1>8 DEF Ready, QueuesInOrder, Ordered
<1>10. TurnsInOrder'
  BY <1>1 DEF Flow, TurnsInOrder
<1>11. UsageInOrder'
  BY <1>1, <1>5, <1>7 DEF UsageInOrder
<1> QED
  BY <1>9, <1>10, <1>11 DEF Flow

\* Run's own entries come when the translator is done.
LEMMA DoneIsQuiet ==
  ASSUME Ready, translator = "done"
  PROVE  fanoutClosed /\ Streams(fanout) = {} /\ answering = FALSE
<1>1. fanoutClosed /\ fanout = << >>
  BY DEF Ready, RunInOrder
<1>2. Streams(fanout) = {}
  BY <1>1 DEF Streams
<1>3. ~answering
  <2>1. session = "ended" /\ inputWG = {}
    BY <1>1 DEF Ready, RunInOrder
  <2>2. runner = None
    BY <2>1 DEF Ready, RunInOrder, RunTypes, inputWG
  <2> QED
    BY <2>1, <2>2 DEF Ready, RunInOrder
<1> QED
  BY <1>1, <1>2, <1>3 DEF Ready, RunTypes

\* flushOpenTurn ends the turn left open; the agent is quiet by then.
LEMMA TurnFlushed ==
  ASSUME Ready, Flow, flushOpenTurn
  PROVE  Flow' /\ log' \in Seq(LogEntries)
<1>1. /\ translator = "done" /\ turnUsage' = {}
      /\ UNCHANGED <<fanout, typedItems, produced, marking, lastTurn, agentTurn, answering, translator>>
  BY DEF flushOpenTurn, queueVars, agentVars
<1>2. Streams(fanout) = {} /\ answering = FALSE
  BY <1>1, DoneIsQuiet
<1>3. Turns(log, lastTurn, currentTurn, FALSE) /\ Usage(fanout, turnUsage, log, agentTurn, FALSE)
  BY <1>1, <1>2, FlowOf
<1>4. /\ Ordered(fanout, typedItems, log', produced) /\ LogInOrder(log')
      /\ Turns(log', lastTurn, currentTurn', FALSE)
      /\ Usage(fanout, {}, log', agentTurn, FALSE)
      /\ log' \in Seq(LogEntries)
  <2>1. CASE currentTurn = 0
    <3>1. log' = log /\ currentTurn' = currentTurn
      BY <2>1 DEF flushOpenTurn
    <3>2. Usage(fanout, {}, log, agentTurn, FALSE)
      BY <1>3 DEF Usage
    <3> QED
      BY <1>3, <3>1, <3>2 DEF Ready
  <2>2. CASE currentTurn # 0
    <3> DEFINE e == [what |-> "failed", turn |-> currentTurn, n |-> 0,
                     usage |-> turnUsage, reason |-> "process_exited"]
    <3>1. log' = Append(log, e) /\ currentTurn' = 0
      BY <2>2 DEF flushOpenTurn
    <3>2. /\ e.what = "failed" /\ e.turn = currentTurn /\ e.n = 0 /\ e.usage = turnUsage
          /\ isTurnTerminal(e.what) = TRUE /\ e.what # "started"
      BY DEF isTurnTerminal
    <3>3. e \in LogEntries
      BY DEF Ready, LogEntries, EventNames, Kinds, StreamKinds, Reasons
    <3> HIDE DEF e
    <3>4. Adds(log, e, log') /\ log' \in Seq(LogEntries)
      BY <3>1, <3>3, AppendAdds DEF Ready
    <3>5. Turns(log', lastTurn, currentTurn, isTurnTerminal(e.what))
      BY <1>3, <2>2, <3>2, <3>4, InOpenTurn DEF Ready
    <3>6. Turns(log', lastTurn, 0, FALSE)
      BY <3>2, <3>5, TurnClosed DEF Ready
    <3>7. Ordered(fanout, typedItems, log', produced) /\ LogInOrder(log')
      BY <3>2, <3>4, LogOwn DEF Ready
    <3>8. Usage(fanout, {}, log', agentTurn, FALSE)
      BY <1>2, <1>3, <3>2, <3>4, UsageSettled DEF Ready
    <3> QED
      BY <3>1, <3>4, <3>6, <3>7, <3>8
  <2> QED
    BY <2>1, <2>2
<1>5. QueuesInOrder'
  <2>1. EveryTypedHasMarker'
    BY <1>1 DEF Flow, QueuesInOrder, EveryTypedHasMarker
  <2> QED
    BY <1>1, <1>4, <2>1 DEF QueuesInOrder, Ordered
<1>6. TurnsInOrder'
  <2>1. (translator' = "closing") = FALSE
    BY <1>1
  <2> QED
    BY <1>1, <1>4, <2>1 DEF TurnsInOrder
<1>7. UsageInOrder'
  BY <1>1, <1>2, <1>4 DEF UsageInOrder
<1> QED
  BY <1>4, <1>5, <1>6, <1>7 DEF Flow

\* process.exited, which belongs to no turn.
LEMMA ExitLogged ==
  ASSUME Ready, Flow, RunReturn
  PROVE  Flow' /\ log' \in Seq(LogEntries)
<1> DEFINE e == [what |-> "exited", turn |-> 0, n |-> 0, usage |-> {}, reason |-> ""]
<1>1. /\ translator = "done" /\ log' = Append(log, e)
      /\ UNCHANGED <<fanout, typedItems, produced, marking, currentTurn, lastTurn, turnUsage,
                     agentTurn, answering, translator>>
  BY DEF RunReturn, queueVars, agentVars, Ready, RunInOrder
<1>2. e.turn = 0 /\ e.n = 0 /\ e.usage = {} /\ e.reason = ""
  OBVIOUS
<1>3. e \in LogEntries
  <2>1. "exited" \in EventNames
    BY DEF EventNames
  <2>2. "" \in Reasons
    BY DEF Reasons
  <2> QED
    BY <2>1, <2>2 DEF LogEntries
<1> HIDE DEF e
<1>4. Adds(log, e, log') /\ log' \in Seq(LogEntries)
  BY <1>1, <1>3, AppendAdds DEF Ready
<1>5. Turns(log, lastTurn, currentTurn, FALSE)
  BY <1>1, FlowOf
<1>6. Turns(log', lastTurn, currentTurn, FALSE)
  BY <1>2, <1>4, <1>5, OutsideTurns DEF Ready
<1>7. Ordered(fanout, typedItems, log', produced) /\ LogInOrder(log')
  BY <1>2, <1>4, LogOwn DEF Ready
<1>8. Usage(fanout, turnUsage, log', agentTurn, answering)
  BY <1>2, <1>4, FlowOf, UsageLogged
<1>9. QueuesInOrder'
  <2>1. EveryTypedHasMarker'
    BY <1>1 DEF Flow, QueuesInOrder, EveryTypedHasMarker
  <2> QED
    BY <1>1, <1>7, <2>1 DEF QueuesInOrder, Ordered
<1>10. TurnsInOrder'
  <2>1. (translator' = "closing") = FALSE
    BY <1>1
  <2> QED
    BY <1>1, <1>6, <2>1 DEF TurnsInOrder
<1>11. UsageInOrder'
  BY <1>1, <1>8 DEF UsageInOrder
<1> QED
  BY <1>4, <1>9, <1>10, <1>11 DEF Flow

\* The turn of the terminal event emitted is closed.
LEMMA TurnEnded ==
  ASSUME Ready, Flow, TranslateClose
  PROVE  Flow'
<1>1. /\ translator = "closing" /\ translator' = "ranging" /\ currentTurn' = 0
      /\ UNCHANGED <<fanout, typedItems, log, produced, marking, lastTurn, turnUsage,
                     agentTurn, answering>>
  BY DEF TranslateClose, queueVars, agentVars
<1>2. Turns(log, lastTurn, currentTurn, TRUE)
  BY <1>1, FlowOf
<1>3. Turns(log, lastTurn, 0, FALSE)
  BY <1>2, TurnClosed DEF Ready
<1>4. TurnsInOrder'
  <2>1. (translator' = "closing") = FALSE
    BY <1>1
  <2> QED
    BY <1>1, <1>3, <2>1 DEF TurnsInOrder
<1>5. QueuesInOrder'
  BY <1>1 DEF Flow, QueuesInOrder, EveryTypedHasMarker
<1>6. UsageInOrder'
  BY <1>1 DEF Flow, UsageInOrder
<1> QED
  BY <1>4, <1>5, <1>6 DEF Flow

\* Every step keeps the flow of events in order.
LEMMA FlowStep ==
  ASSUME Ready, Flow, Core
  PROVE  Flow' /\ log' \in Seq(LogEntries)
<1>1. CASE UNCHANGED coreVars /\ (translator' = "closing" <=> translator = "closing")
  BY <1>1, SameFlow DEF coreVars, flowVars, Ready
<1>2. ASSUME NEW c \in Cancels, CancelStep(c) PROVE Flow' /\ log' \in Seq(LogEntries)
  <2>1. UNCHANGED flowVars /\ translator' = translator /\ UNCHANGED <<turnUsage, agentTurn, answering>>
    BY <1>2 DEF CancelStep, CancelTurn, InterruptTurn, InterruptAcknowledged, InterruptFails,
       flowVars, agentVars, queueVars, turnVars, runVars
  <2> QED
    BY <2>1, SameFlow DEF flowVars, Ready
<1>3. CASE AgentBegin \/ \E i \in Inputs : InputRuns(i)
  <2>1. log' = log
    BY <1>3 DEF AgentBegin, InputRuns, turnVars
  <2> QED
    BY <1>3, <2>1, TurnBegins DEF Ready
<1>4. CASE SessionEnd \/ \E i \in Inputs : InputRan(i)
  <2>1. log' = log
    BY <1>4 DEF SessionEnd, InputRan, turnVars
  <2> QED
    BY <1>4, <2>1, TurnStops DEF Ready
<1>5. CASE SendMarker
  BY <1>5, MarkerSent DEF SendMarker, turnVars, Ready
<1>6. ASSUME NEW kind \in TypedKinds, Enqueue(kind) PROVE Flow' /\ log' \in Seq(LogEntries)
  BY <1>6, TypedQueued DEF Enqueue, TypedEventCallback, turnVars, Ready
<1>7. ASSUME NEW kind \in StreamKinds, SendStreamEvent(kind) PROVE Flow' /\ log' \in Seq(LogEntries)
  BY <1>7, StreamSent DEF SendStreamEvent, turnVars, Ready
<1>8. CASE flushOpenTurn \/ RunReturn
  BY <1>8, TurnFlushed, ExitLogged
<1>9. CASE TranslateTyped \/ TranslateStream
  BY <1>9, TypedTaken, StreamTaken
<1>10. CASE TranslateClose
  BY <1>10, TurnEnded DEF TranslateClose, Ready
<1> QED
  BY <1>1, <1>2, <1>3, <1>4, <1>5, <1>6, <1>7, <1>8, <1>9, <1>10 DEF Core

--------------------------------------------------------------------------------
(***************************************************************************)
(* Types and counts.                                                       *)
(***************************************************************************)

PlaceTypes ==
  /\ child \in Children /\ session \in {"none", "live", "ended"}
  /\ stopped \in BOOLEAN /\ answering \in BOOLEAN /\ marking \in BOOLEAN
  /\ fanoutClosed \in BOOLEAN /\ panicked \in BOOLEAN
  /\ inputsClosed \in BOOLEAN
  /\ runner \in Inputs \cup {None} /\ interruptedBy \in Cancels \cup {None}
  /\ run \in {"starting", "started", "waiting", "aborting", "waited", "sealed", "joined",
              "closed", "flushed", "returned"}
  /\ translator \in {"off", "ranging", "closing", "done"}
  /\ input \in [Inputs -> {"idle", "admitted", "running", "returned"}]
  /\ canceling \in [Cancels -> {"idle", "marked", "asked", "ok", "failed"}]

\* Every step keeps the types of what is neither queue nor log.
LEMMA PlacesTyped ==
  ASSUME PlaceTypes, [Next]_vars
  PROVE  PlaceTypes'
<1> USE DEF PlaceTypes, agentVars, queueVars, turnVars, callVars, runVars

<1>1. CASE AgentBegin
  BY <1>1 DEF AgentBegin
<1>2. CASE SendMarker
  <2>1. /\ UNCHANGED <<child, session, stopped, answering, panicked, fanoutClosed, inputsClosed,
                       runner, interruptedBy, run, input, canceling>>
        /\ marking' = FALSE /\ translator' = translator
    BY <1>2 DEF SendMarker
  <2>2. marking' \in BOOLEAN
    BY <2>1
  <2> QED
    BY <2>1, <2>2
<1>3. CASE SessionEnd
  BY <1>3 DEF SessionEnd
<1>4. ASSUME NEW kind \in TypedKinds, TypedEventCallback(kind) PROVE PlaceTypes'
  <2>1. /\ UNCHANGED <<child, session, stopped, answering, panicked, fanoutClosed, inputsClosed,
                       runner, interruptedBy, run, input, canceling>>
        /\ marking' \in {marking, TRUE} /\ translator' = translator
    BY <1>4 DEF TypedEventCallback
  <2>2. marking' \in BOOLEAN
    BY <2>1
  <2> QED
    BY <2>1, <2>2
<1>5. ASSUME NEW kind \in StreamKinds, SendStreamEvent(kind) PROVE PlaceTypes'
  BY <1>5 DEF SendStreamEvent
<1>6. CASE StartChild
  BY <1>6 DEF StartChild
<1>7. CASE StartFail
  BY <1>7 DEF StartFail
<1>8. CASE RunStarted
  BY <1>8 DEF RunStarted
<1>9. CASE SandboxApplied
  BY <1>9 DEF SandboxApplied
<1>10. CASE SandboxFailed
  BY <1>10 DEF SandboxFailed
<1>11. CASE AbortStop
  BY <1>11 DEF AbortStop
<1>12. CASE WaitReturn
  BY <1>12 DEF WaitReturn
<1>13. CASE closeInputAdmission
  BY <1>13 DEF closeInputAdmission
<1>14. CASE InputsJoined
  BY <1>14 DEF InputsJoined
<1>15. CASE closeFanout
  BY <1>15 DEF closeFanout
<1>16. CASE flushOpenTurn
  BY <1>16 DEF flushOpenTurn
<1>17. CASE RunReturn
  <2>1. /\ UNCHANGED <<child, session, stopped, answering, marking, panicked, fanoutClosed,
                       inputsClosed, runner, interruptedBy, translator, input, canceling>>
        /\ run' = "returned"
    BY <1>17 DEF RunReturn
  <2> QED
    BY <2>1
<1>18. CASE TranslateTyped
  <2>1. /\ UNCHANGED <<child, session, stopped, answering, panicked, fanoutClosed, inputsClosed,
                       runner, interruptedBy, run, input, canceling>>
        /\ marking' = marking /\ translator' = translator
    BY <1>18 DEF TranslateTyped
  <2>2. marking' \in BOOLEAN
    BY <2>1
  <2> QED
    BY <2>1, <2>2
<1>19. CASE TranslateStream
  <2>1. /\ UNCHANGED <<child, session, stopped, answering, panicked, fanoutClosed, inputsClosed,
                       runner, interruptedBy, run, input, canceling>>
        /\ marking' = marking /\ translator' \in {"closing", "ranging"}
    BY <1>19 DEF TranslateStream
  <2>2. marking' \in BOOLEAN
    BY <2>1
  <2> QED
    BY <2>1, <2>2
<1>20. CASE TranslateClose
  BY <1>20 DEF TranslateClose
<1>21. CASE TranslatorDone
  BY <1>21 DEF TranslatorDone
<1>22. ASSUME NEW i \in Inputs, SendInput(i) PROVE PlaceTypes'
  BY <1>22 DEF SendInput
<1>23. ASSUME NEW i \in Inputs, SendInputRefused(i) PROVE PlaceTypes'
  BY <1>23 DEF SendInputRefused
<1>24. ASSUME NEW i \in Inputs, InputDelivered(i) PROVE PlaceTypes'
  BY <1>24 DEF InputDelivered
<1>25. ASSUME NEW i \in Inputs, InputRuns(i) PROVE PlaceTypes'
  BY <1>25 DEF InputRuns
<1>26. ASSUME NEW i \in Inputs, InputRan(i) PROVE PlaceTypes'
  <2>1. /\ UNCHANGED <<child, session, stopped, marking, panicked, fanoutClosed, inputsClosed,
                       interruptedBy, run, translator, canceling>>
        /\ answering' = FALSE /\ runner' = None
        /\ input' = [input EXCEPT ![i] = "returned"]
    BY <1>26 DEF InputRan
  <2>2. input' \in [Inputs -> {"idle", "admitted", "running", "returned"}]
    BY <2>1
  <2>3. answering' \in BOOLEAN
    BY <2>1
  <2> QED
    BY <2>1, <2>2, <2>3
<1>27. ASSUME NEW i \in Inputs, InputFails(i) PROVE PlaceTypes'
  BY <1>27 DEF InputFails
<1>28. ASSUME NEW c \in Cancels, CancelTurn(c) PROVE PlaceTypes'
  BY <1>28 DEF CancelTurn
<1>29. ASSUME NEW c \in Cancels, InterruptTurn(c) PROVE PlaceTypes'
  BY <1>29 DEF InterruptTurn
<1>30. ASSUME NEW c \in Cancels, InterruptAcknowledged(c) PROVE PlaceTypes'
  BY <1>30 DEF InterruptAcknowledged
<1>31. ASSUME NEW c \in Cancels, InterruptFails(c) PROVE PlaceTypes'
  BY <1>31 DEF InterruptFails
<1>32. CASE Stop
  BY <1>32 DEF Stop
<1>33. CASE UNCHANGED vars
  BY <1>33 DEF vars
<1> QED
  BY <1>1, <1>2, <1>3, <1>4, <1>5, <1>6, <1>7, <1>8, <1>9, <1>10, <1>11, <1>12, <1>13,
     <1>14, <1>15, <1>16, <1>17, <1>18, <1>19, <1>20, <1>21, <1>22, <1>23, <1>24, <1>25,
     <1>26, <1>27, <1>28, <1>29, <1>30, <1>31, <1>32, <1>33 DEF Next, SessionStep, RunStep,
     TranslatorStep, InputStep, CancelStep

\* No more inputs are queued or answered than were taken.
InputCounts ==
  queued \in Nat /\ agentTurn \in Nat /\ queued + agentTurn <= Cardinality(Taken)

\* Inputs taken are counted.
LEMMA TakenFinite ==
  PlaceTypes => /\ IsFiniteSet(Taken) /\ Cardinality(Taken) \in Nat
                /\ Cardinality(Taken) <= Cardinality(Inputs) /\ Cardinality(Inputs) \in Nat
BY NativeConstants, FS_Subset, FS_CardinalityType DEF Taken

\* An agent turn is one input's, so there are no more of them than inputs.
LEMMA InputsCounted ==
  ASSUME PlaceTypes, PlaceTypes', InputCounts, [Next]_vars
  PROVE  InputCounts'
<1> USE DEF agentVars, queueVars, turnVars, callVars, runVars
<1>1. /\ IsFiniteSet(Taken) /\ Cardinality(Taken) \in Nat
      /\ IsFiniteSet(Taken') /\ Cardinality(Taken') \in Nat
  BY NativeConstants, FS_Subset, FS_CardinalityType DEF Taken
<1>2. ASSUME UNCHANGED <<queued, agentTurn>>, Taken \subseteq Taken' PROVE InputCounts'
  <2>1. Cardinality(Taken) <= Cardinality(Taken')
    BY <1>1, <1>2, FS_Subset
  <2> QED
    BY <1>1, <1>2, <2>1 DEF InputCounts
<1>3. ASSUME NEW i \in Inputs, Taken' = Taken \cup {i}, i \notin Taken,
             \/ queued' = queued + 1 /\ agentTurn' = agentTurn
             \/ queued' = queued /\ agentTurn' = agentTurn + 1
      PROVE  InputCounts'
  <2>1. Cardinality(Taken') = Cardinality(Taken) + 1
    BY <1>1, <1>3, FS_AddElement
  <2> QED
    BY <1>1, <1>3, <2>1 DEF InputCounts
<1>4. CASE AgentBegin
  <2>1. queued' = queued - 1 /\ agentTurn' = agentTurn + 1 /\ queued > 0 /\ Taken' = Taken
    BY <1>4 DEF AgentBegin, Taken
  <2> QED
    BY <1>1, <2>1 DEF InputCounts
<1>5. ASSUME NEW i \in Inputs, InputDelivered(i) \/ InputRuns(i) PROVE InputCounts'
  <2>1. /\ \/ queued' = queued + 1 /\ agentTurn' = agentTurn
           \/ queued' = queued /\ agentTurn' = agentTurn + 1
        /\ Taken' = Taken \cup {i} /\ i \notin Taken
    BY <1>5 DEF InputDelivered, InputRuns, Taken, PlaceTypes
  <2> QED
    BY <1>3, <2>1
<1>6. ASSUME NEW i \in Inputs,
             SendInput(i) \/ SendInputRefused(i) \/ InputRan(i) \/ InputFails(i)
      PROVE  InputCounts'
  <2>1. UNCHANGED <<queued, agentTurn>> /\ Taken \subseteq Taken'
    BY <1>6 DEF SendInput, SendInputRefused, InputRan, InputFails, Taken, PlaceTypes
  <2> QED
    BY <1>2, <2>1
<1>7. ASSUME UNCHANGED <<queued, agentTurn, input>> PROVE InputCounts'
  BY <1>2, <1>7 DEF Taken
<1>8. ASSUME NEW c \in Cancels, CancelStep(c) PROVE InputCounts'
  <2>1. UNCHANGED <<queued, agentTurn, input>>
    BY <1>8 DEF CancelStep, CancelTurn, InterruptTurn, InterruptAcknowledged, InterruptFails
  <2> QED
    BY <1>7, <2>1
<1>9. ASSUME TranslatorStep \/ RunStep \/ Stop \/ UNCHANGED vars PROVE InputCounts'
  <2>1. CASE TranslatorStep \/ Stop \/ UNCHANGED vars
    <3>1. UNCHANGED <<queued, agentTurn, input>>
      BY <2>1 DEF TranslatorStep, TranslateTyped, TranslateStream, TranslateClose, TranslatorDone,
         Stop, vars
    <3> QED
      BY <1>7, <3>1
  <2>2. CASE RunStep
    <3>1. UNCHANGED <<queued, agentTurn, input>>
      BY <2>2 DEF RunStep, StartChild, StartFail, RunStarted, SandboxApplied, SandboxFailed,
         AbortStop, WaitReturn, closeInputAdmission, InputsJoined, closeFanout, flushOpenTurn,
         RunReturn
    <3> QED
      BY <1>7, <3>1
  <2> QED
    BY <1>9, <2>1, <2>2
<1>10. ASSUME SendMarker \/ SessionEnd PROVE InputCounts'
  <2>1. UNCHANGED <<queued, agentTurn, input>>
    BY <1>10 DEF SendMarker, SessionEnd
  <2> QED
    BY <1>7, <2>1
<1>11. ASSUME NEW kind, TypedEventCallback(kind) \/ SendStreamEvent(kind) PROVE InputCounts'
  <2>1. UNCHANGED <<queued, agentTurn, input>>
    BY <1>11 DEF TypedEventCallback, SendStreamEvent
  <2> QED
    BY <1>7, <2>1
<1> QED
  BY <1>4, <1>5, <1>6, <1>8, <1>9, <1>10, <1>11 DEF Next, SessionStep, InputStep

\* What is numbered never exceeds what the agent has produced.
FlowTypes ==
  /\ produced \in 0..MaxOutput
  /\ fanout \in Seq(Channel) /\ Len(fanout) <= FanoutCap
  /\ typedItems \in Seq(Events)
  /\ lastTurn \in Nat
  /\ lastTurn + Len(fanout) + (IF marking THEN 1 ELSE 0) <= produced
  /\ currentTurn \in 0..MaxOutput /\ open \in 0..MaxOutput /\ interrupted \in 0..MaxOutput
  /\ canceledTurn \in [Cancels -> 0..MaxOutput]
  /\ turnUsage \subseteq 0..Cardinality(Inputs)

\* The types, part by part.
LEMMA TypesSplit ==
  Typed <=> PlaceTypes /\ InputCounts /\ FlowTypes /\ log \in Seq(LogEntries)
<1>1. ASSUME Typed PROVE PlaceTypes /\ InputCounts /\ FlowTypes /\ log \in Seq(LogEntries)
  <2>1. Cardinality(Inputs) \in Nat /\ MaxOutput \in Nat
    BY NativeConstants, FS_CardinalityType
  <2>2. PlaceTypes /\ log \in Seq(LogEntries)
    BY <1>1 DEF Typed, TypeOK, PlaceTypes
  <2>3. InputCounts
    BY <1>1, <2>1 DEF Typed, TypeOK, InputCounts
  <2>4. FlowTypes
    BY <1>1, <2>1 DEF Typed, TypeOK, FlowTypes, Channel
  <2> QED
    BY <2>2, <2>3, <2>4
<1>2. ASSUME PlaceTypes, InputCounts, FlowTypes, log \in Seq(LogEntries) PROVE Typed
  <2>1. /\ Cardinality(Taken) \in Nat /\ Cardinality(Taken) <= Cardinality(Inputs)
        /\ Cardinality(Inputs) \in Nat /\ MaxOutput \in Nat
    BY <1>2, TakenFinite, NativeConstants
  <2>2. queued \in 0..Cardinality(Inputs) /\ agentTurn \in 0..Cardinality(Inputs)
    BY <1>2, <2>1 DEF InputCounts
  <2>3. Len(fanout) \in Nat
    BY <1>2, LenProperties DEF FlowTypes
  <2>4. lastTurn \in 0..MaxOutput
    BY <1>2, <2>1, <2>3 DEF FlowTypes
  <2> QED
    BY <1>2, <2>1, <2>2, <2>4 DEF Typed, TypeOK, PlaceTypes, InputCounts, FlowTypes, Channel
<1> QED
  BY <1>1, <1>2

\* An event that leaves the channel may open a turn: the count is kept.
LEMMA EmitCounts ==
  ASSUME FlowTypes, NEW e, NEW usage, NEW reason, EmitInTurn(e, usage, reason),
         Drops(fanout, fanout'), fanout' \in Seq(Channel), marking' = marking,
         marking \in BOOLEAN, produced' = produced, interrupted' = interrupted,
         canceledTurn' = canceledTurn, turnUsage' \subseteq 0..Cardinality(Inputs),
         typedItems' \in Seq(Events)
  PROVE  FlowTypes'
<1>1. /\ Len(fanout) \in Nat /\ Len(fanout') = Len(fanout) - 1 /\ Len(fanout) > 0
      /\ MaxOutput \in Nat /\ FanoutCap \in Nat
  BY NativeConstants DEF Drops
<1>2. /\ \/ lastTurn' = lastTurn + 1 /\ currentTurn' = lastTurn + 1 /\ open' = lastTurn + 1
         \/ lastTurn' = lastTurn /\ currentTurn' = currentTurn /\ open' = open
  BY DEF EmitInTurn, TurnOf
<1>f. /\ lastTurn \in Nat /\ produced \in 0..MaxOutput
      /\ lastTurn + Len(fanout) + (IF marking THEN 1 ELSE 0) <= produced
      /\ Len(fanout) <= FanoutCap
  BY DEF FlowTypes
<1>3. /\ lastTurn' \in Nat
      /\ lastTurn' + Len(fanout') + (IF marking THEN 1 ELSE 0) <= produced
  BY <1>1, <1>2, <1>f
<1>4. lastTurn' \in 0..MaxOutput /\ Len(fanout') <= FanoutCap
  BY <1>1, <1>3, <1>f
<1>5. currentTurn' \in 0..MaxOutput /\ open' \in 0..MaxOutput
  BY <1>2, <1>4 DEF FlowTypes
<1>6. produced' \in 0..MaxOutput /\ interrupted' \in 0..MaxOutput
      /\ canceledTurn' \in [Cancels -> 0..MaxOutput]
  BY DEF FlowTypes
<1> QED
  BY <1>3, <1>4, <1>5, <1>6 DEF FlowTypes

\* Every step keeps the types of queues, counters and turns.
LEMMA FlowTyped ==
  ASSUME Ready, Flow, FlowTypes, Core
  PROVE  FlowTypes'
<1> USE DEF agentVars, queueVars, turnVars, callVars, runVars
<1>1. /\ marking \in BOOLEAN /\ MaxOutput \in Nat /\ FanoutCap \in Nat
      /\ Len(fanout) \in Nat /\ Cardinality(Inputs) \in Nat
  BY NativeConstants, FS_CardinalityType DEF Ready, RunTypes, Numbered
<1>2. ASSUME UNCHANGED <<fanout, typedItems, produced, marking, currentTurn, lastTurn, turnUsage,
                         open, interrupted, canceledTurn>>
      PROVE  FlowTypes'
  BY <1>2 DEF FlowTypes
<1>3. CASE \/ UNCHANGED coreVars
           \/ AgentBegin \/ SessionEnd \/ RunReturn
           \/ \E i \in Inputs : InputRuns(i) \/ InputRan(i)
  <2>1. UNCHANGED <<fanout, typedItems, produced, marking, currentTurn, lastTurn, turnUsage,
                    open, interrupted, canceledTurn>>
    BY <1>3 DEF coreVars, AgentBegin, SessionEnd, RunReturn, InputRuns, InputRan
  <2> QED
    BY <1>2, <2>1
<1>4. CASE SendMarker
  <2>1. /\ marking /\ marking' = FALSE /\ fanout' = Append(fanout, typedMarker)
        /\ Len(fanout) < FanoutCap
        /\ UNCHANGED <<typedItems, produced, currentTurn, lastTurn, turnUsage, open,
                       interrupted, canceledTurn>>
    BY <1>4 DEF SendMarker
  <2>2. typedMarker \in Channel
    BY DEF Channel
  <2>3. fanout' \in Seq(Channel) /\ Len(fanout') = Len(fanout) + 1
    BY <2>1, <2>2, AppendAdds DEF FlowTypes, Adds
  <2>4. lastTurn + Len(fanout') + (IF marking' THEN 1 ELSE 0) <= produced /\ Len(fanout') <= FanoutCap
    BY <1>1, <2>1, <2>3 DEF FlowTypes
  <2> QED
    BY <2>1, <2>3, <2>4 DEF FlowTypes
<1>5. ASSUME NEW kind \in TypedKinds, Enqueue(kind) PROVE FlowTypes'
  <2>1. /\ ~marking /\ marking' = TRUE /\ typedItems' = Append(typedItems, Reported(kind))
        /\ Reports(kind) /\ produced' = produced + 1
        /\ UNCHANGED <<fanout, currentTurn, lastTurn, turnUsage, open, interrupted, canceledTurn>>
    BY <1>5 DEF Enqueue, TypedEventCallback, Reports
  <2>2. Reported(kind) \in Events /\ produced + 1 <= MaxOutput
    BY <2>1, ReportedEvent DEF Kinds
  <2>3. typedItems' \in Seq(Events)
    BY <2>1, <2>2, AppendAdds DEF FlowTypes
  <2>4. /\ produced' \in 0..MaxOutput
        /\ lastTurn + Len(fanout) + (IF marking' THEN 1 ELSE 0) <= produced'
    BY <1>1, <2>1, <2>2 DEF FlowTypes
  <2> QED
    BY <2>1, <2>3, <2>4 DEF FlowTypes
<1>6. ASSUME NEW kind \in StreamKinds, SendStreamEvent(kind) PROVE FlowTypes'
  <2>1. /\ marking' = marking /\ Reports(kind) /\ produced' = produced + 1
        /\ \/ fanout' = fanout
           \/ fanout' = Append(fanout, Reported(kind)) /\ Len(fanout) < FanoutCap
        /\ UNCHANGED <<typedItems, currentTurn, lastTurn, turnUsage, open, interrupted,
                       canceledTurn>>
    BY <1>6 DEF SendStreamEvent
  <2>2. Reported(kind) \in Events /\ produced + 1 <= MaxOutput
    BY <2>1, ReportedEvent DEF Kinds
  <2>3. Reported(kind) \in Channel
    BY <2>2 DEF Channel
  <2>4. fanout' \in Seq(Channel) /\ Len(fanout') \in Nat /\ Len(fanout') <= Len(fanout) + 1
        /\ Len(fanout') <= FanoutCap
    <3>1. CASE fanout' = fanout
      BY <1>1, <3>1 DEF FlowTypes
    <3>2. CASE fanout' = Append(fanout, Reported(kind)) /\ Len(fanout) < FanoutCap
      <4>1. fanout' \in Seq(Channel) /\ Len(fanout') = Len(fanout) + 1
        BY <2>3, <3>2, AppendAdds DEF FlowTypes, Adds
      <4> QED
        BY <1>1, <3>2, <4>1
    <3> QED
      BY <2>1, <3>1, <3>2
  <2>5. /\ produced' \in 0..MaxOutput
        /\ lastTurn + Len(fanout') + (IF marking THEN 1 ELSE 0) <= produced'
    BY <1>1, <2>1, <2>2, <2>4 DEF FlowTypes
  <2> QED
    BY <2>1, <2>4, <2>5 DEF FlowTypes
<1>7. CASE flushOpenTurn \/ TranslateClose
  <2>1. /\ UNCHANGED <<fanout, typedItems, produced, marking, lastTurn, canceledTurn>>
        /\ currentTurn' = 0 \/ currentTurn' = currentTurn
        /\ open' = 0 \/ open' = open
        /\ interrupted' = 0 \/ interrupted' = interrupted
        /\ turnUsage' = {} \/ turnUsage' = turnUsage
    BY <1>7 DEF flushOpenTurn, TranslateClose, MarksClosed
  <2>2. 0 \in 0..MaxOutput
    BY <1>1
  <2>3. currentTurn' \in 0..MaxOutput
    BY <2>1, <2>2 DEF FlowTypes
  <2>4. open' \in 0..MaxOutput /\ interrupted' \in 0..MaxOutput
    BY <2>1, <2>2 DEF FlowTypes
  <2>5. turnUsage' \subseteq 0..Cardinality(Inputs)
    BY <2>1 DEF FlowTypes
  <2> QED
    BY <2>1, <2>3, <2>4, <2>5 DEF FlowTypes
<1>8. CASE TranslateTyped
  <2>1. /\ fanout # << >> /\ fanout' = Tail(fanout) /\ typedItems # << >>
        /\ typedItems' = Tail(typedItems)
        /\ UNCHANGED <<marking, produced, interrupted, canceledTurn, turnUsage>>
    BY <1>8, TypedTaken DEF TranslateTyped, emitProviderObserved
  <2>2. Drops(fanout, fanout') /\ fanout' \in Seq(Channel)
    BY <2>1, TailDrops DEF Ready
  <2>3. typedItems' \in Seq(Events)
    BY <2>1, TailDrops DEF Ready
  <2>4. EmitInTurn(typedItems[1], {}, "")
    BY <1>8, TypedTaken
  <2>5. turnUsage' \subseteq 0..Cardinality(Inputs)
    BY <2>1 DEF FlowTypes
  <2> QED
    BY <1>1, <2>1, <2>2, <2>3, <2>4, <2>5, EmitCounts
<1>9. CASE TranslateStream
  <2>1. /\ fanout # << >> /\ fanout' = Tail(fanout)
        /\ UNCHANGED <<typedItems, marking, produced, interrupted, canceledTurn>>
        /\ Head(fanout) = fanout[1] /\ fanout[1] \in Events
    BY <1>9, StreamTaken DEF TranslateStream, emitObserved
  <2>2. Drops(fanout, fanout') /\ fanout' \in Seq(Channel)
    BY <2>1, TailDrops DEF Ready
  <2>3. CASE fanout[1].kind = "usage"
    <3>1. /\ turnUsage' = turnUsage \cup {fanout[1].of}
          /\ UNCHANGED <<currentTurn, lastTurn, open>>
      BY <1>9, <2>1, <2>3 DEF TranslateStream
    <3>2. turnUsage' \subseteq 0..Cardinality(Inputs)
      BY <2>1, <3>1 DEF FlowTypes, Events
    <3>3. Len(fanout') \in Nat /\ Len(fanout') < Len(fanout)
      BY <2>2 DEF Drops
    <3>4. /\ lastTurn + Len(fanout') + (IF marking THEN 1 ELSE 0) <= produced
          /\ Len(fanout') <= FanoutCap
      BY <1>1, <3>3 DEF FlowTypes
    <3> QED
      BY <2>1, <2>2, <3>1, <3>2, <3>4 DEF FlowTypes
  <2>4. CASE fanout[1].kind # "usage"
    <3>1. turnUsage' \subseteq 0..Cardinality(Inputs)
      BY <1>9, <2>1, <2>4 DEF TranslateStream, emitObserved, FlowTypes
    <3>2. PICK usage, reason : EmitInTurn(fanout[1], usage, reason)
      BY <1>9, <2>4, StreamTaken
    <3>3. typedItems' \in Seq(Events)
      BY <2>1 DEF FlowTypes
    <3> QED
      BY <1>1, <2>1, <2>2, <3>1, <3>2, <3>3, EmitCounts
  <2> QED
    BY <2>3, <2>4
<1>10. ASSUME NEW c \in Cancels, CancelStep(c) PROVE FlowTypes'
  <2>1. /\ UNCHANGED <<fanout, typedItems, produced, marking, currentTurn, lastTurn, turnUsage, open>>
        /\ interrupted' \in {0, open, interrupted}
        /\ canceledTurn' = canceledTurn \/ canceledTurn' = [canceledTurn EXCEPT ![c] = open]
    BY <1>10 DEF CancelStep, CancelTurn, InterruptTurn, InterruptAcknowledged, InterruptFails
  <2>2. interrupted' \in 0..MaxOutput
    BY <1>1, <2>1 DEF FlowTypes
  <2>3. canceledTurn' \in [Cancels -> 0..MaxOutput]
    BY <2>1 DEF FlowTypes
  <2> QED
    BY <2>1, <2>2, <2>3 DEF FlowTypes
<1> QED
  BY <1>3, <1>4, <1>5, <1>6, <1>7, <1>8, <1>9, <1>10 DEF Core

--------------------------------------------------------------------------------
(***************************************************************************)
(* The marks of CancelTurn.                                                *)
(***************************************************************************)

LEMMA MarksKept ==
  ASSUME FlowTypes, PlaceTypes, Ready, Flow, MarkedByCancel, Core
  PROVE  MarkedByCancel'
<1> USE DEF agentVars, queueVars, turnVars, callVars, runVars
<1>1. ASSUME interrupted' \in {0, interrupted}, UNCHANGED <<canceledTurn, canceling>>
      PROVE  MarkedByCancel'
  BY <1>1 DEF MarkedByCancel
<1>2. CASE \/ UNCHANGED coreVars
           \/ AgentBegin \/ SessionEnd \/ RunReturn \/ SendMarker
           \/ \E i \in Inputs : InputRuns(i) \/ InputRan(i)
  <2>1. UNCHANGED <<interrupted, canceledTurn, canceling>>
    BY <1>2 DEF coreVars, AgentBegin, SessionEnd, RunReturn, SendMarker, InputRuns, InputRan
  <2> QED
    BY <1>1, <2>1
<1>3. ASSUME NEW kind, Enqueue(kind) \/ SendStreamEvent(kind) PROVE MarkedByCancel'
  <2>1. UNCHANGED <<interrupted, canceledTurn, canceling>>
    BY <1>3 DEF Enqueue, TypedEventCallback, SendStreamEvent
  <2> QED
    BY <1>1, <2>1
<1>4. CASE flushOpenTurn \/ TranslateClose
  <2>1. interrupted' \in {0, interrupted} /\ UNCHANGED <<canceledTurn, canceling>>
    BY <1>4 DEF flushOpenTurn, TranslateClose, MarksClosed
  <2> QED
    BY <1>1, <2>1
<1>5. CASE TranslateTyped \/ TranslateStream
  <2>1. interrupted' = interrupted /\ UNCHANGED <<canceledTurn, canceling>>
    BY <1>5 DEF TranslateTyped, TranslateStream, emitProviderObserved, emitObserved
  <2> QED
    BY <1>1, <2>1
<1>6. ASSUME NEW c \in Cancels, CancelStep(c) PROVE MarkedByCancel'
  <2>1. CASE CancelTurn(c)
    BY <2>1 DEF CancelTurn, MarkedByCancel, FlowTypes, PlaceTypes
  <2>2. CASE InterruptTurn(c) \/ InterruptAcknowledged(c)
    <3>1. /\ UNCHANGED <<interrupted, canceledTurn>>
          /\ \A d \in Cancels : canceling'[d] = "failed" => canceling[d] = "failed"
      BY <2>2 DEF InterruptTurn, InterruptAcknowledged, PlaceTypes
    <3> QED
      BY <3>1 DEF MarkedByCancel
  <2>3. CASE InterruptFails(c)
    <3>1. /\ canceledTurn' = canceledTurn
          /\ interrupted' = IF interrupted = canceledTurn[c] THEN 0 ELSE interrupted
          /\ \A d \in Cancels \ {c} : canceling'[d] = canceling[d]
      BY <2>3 DEF InterruptFails, PlaceTypes
    <3> QED
      BY <3>1 DEF MarkedByCancel
  <2> QED
    BY <1>6, <2>1, <2>2, <2>3 DEF CancelStep
<1> QED
  BY <1>2, <1>3, <1>4, <1>5, <1>6 DEF Core

--------------------------------------------------------------------------------
(***************************************************************************)
(* The inductive invariant.                                                *)
(***************************************************************************)

LEMMA Initially ==
  ASSUME Init
  PROVE  IInv
<1>1. log = << >> /\ fanout = << >> /\ typedItems = << >> /\ turnUsage = {} /\ lastTurn = 0
      /\ currentTurn = 0 /\ marking = FALSE /\ produced = 0 /\ translator = "off" /\ interrupted = 0
  BY DEF Init
<1>2. Len(<< >>) = 0 /\ DOMAIN << >> = {}
  OBVIOUS
<1>3. /\ << >> \in Seq(Channel) /\ << >> \in Seq(Events) /\ << >> \in Seq(LogEntries)
  OBVIOUS
<1>4. PlaceTypes
  BY DEF Init, PlaceTypes
<1>5. InputCounts
  <2>1. Cardinality(Taken) \in Nat
    BY <1>4, TakenFinite
  <2> QED
    BY <2>1 DEF Init, InputCounts
<1>6. FlowTypes
  <2>1. canceledTurn = [c \in Cancels |-> 0] /\ open = 0
    BY DEF Init
  <2>2. FanoutCap \in Nat /\ MaxOutput \in Nat /\ 0 \in 0..MaxOutput
    BY NativeConstants
  <2> QED
    BY <1>1, <1>2, <1>3, <2>1, <2>2 DEF FlowTypes
<1>7. Typed
  BY <1>1, <1>3, <1>4, <1>5, <1>6, TypesSplit
<1>8. RunInOrder
  BY DEF Init, RunInOrder
<1>9. QueuesInOrder
  <2>1. Markers(<< >>, 0) = 0
    <3>1. {k \in 1..0 : << >>[k] = typedMarker} = {}
      OBVIOUS
    <3> QED
      BY <3>1, FS_EmptySet DEF Markers
  <2>2. EveryTypedHasMarker
    BY <1>1, <1>2, <2>1 DEF EveryTypedHasMarker
  <2> QED
    BY <1>1, <1>2, <2>2
       DEF QueuesInOrder, FanoutOK, TypedOK, QueuesAgree, LogOlder, LogInOrder, Streams
<1>10. TurnsInOrder
  BY <1>1, <1>2 DEF TurnsInOrder, Turns, Bracketed, Ended
<1>11. UsageInOrder
  BY <1>1, <1>2 DEF UsageInOrder, Usage, Streams
<1>12. MarkedByCancel
  BY <1>1 DEF MarkedByCancel
<1> QED
  BY <1>7, <1>8, <1>9, <1>10, <1>11, <1>12 DEF IInv

\* The invariant is inductive: the flow of events rests on the order of the run.
LEMMA Step ==
  ASSUME IInv, [Next]_vars
  PROVE  IInv'
<1>1. Ready /\ Flow /\ RunTypes /\ RunInOrder
  BY IsReady DEF IInv, Flow, Ready
<1>2. PlaceTypes /\ InputCounts /\ FlowTypes /\ log \in Seq(LogEntries)
  BY TypesSplit DEF IInv
<1>3. Core
  BY <1>1, CoreSteps
<1>4. RunInOrder'
  BY <1>1, RunOrder
<1>5. PlaceTypes'
  BY <1>2, PlacesTyped
<1>6. InputCounts'
  BY <1>2, <1>5, InputsCounted
<1>7. Flow' /\ (log \in Seq(LogEntries))'
  BY <1>1, <1>3, FlowStep
<1>8. FlowTypes'
  BY <1>1, <1>2, <1>3, FlowTyped
<1>9. MarkedByCancel'
  BY <1>1, <1>2, <1>3, MarksKept DEF IInv
<1>10. Typed'
  <2>1. (PlaceTypes /\ InputCounts /\ FlowTypes /\ log \in Seq(LogEntries))' => Typed'
    BY TypesSplit, PTL
  <2> QED
    BY <1>5, <1>6, <1>7, <1>8, <2>1
<1> QED
  BY <1>4, <1>7, <1>9, <1>10 DEF IInv, Flow

\* The inductive invariant of a native run (wrapper.go Run, typed_order.go, turn_interrupt.go):
\* who may report at each stage, and queues, turns and usage in order.
THEOREM NativeInvariant == Spec => []IInv
<1>1. IInv /\ [Next]_vars => IInv'
  BY Step
<1> QED
  BY Initially, <1>1, PTL DEF Spec

\* Every typed event keeps a marker, nothing is sent on the closed fanout channel
\* (typed_order.go, closeFanout), and no agent turn's usage rides on two terminal
\* events, whatever the channel's capacity.
THEOREM QueuesStayConsistent == Spec => []NativeInv
<1>1. IInv => NativeInv
  <2> SUFFICES ASSUME IInv PROVE NativeInv
    OBVIOUS
  <2>1. TypeOK /\ EveryTypedHasMarker /\ NoSendOnClosed
    BY DEF IInv, Typed, QueuesInOrder, RunInOrder, NoSendOnClosed
  <2>2. DOMAIN log = 1..Len(log)
    BY LenProperties DEF IInv, Typed
  <2>3. UsageCountedOnce
    BY <2>2 DEF IInv, UsageInOrder, Usage, UsageCountedOnce
  <2> QED
    BY <2>1, <2>3 DEF NativeInv
<1> QED
  BY NativeInvariant, <1>1, PTL

\* Turns are bracketed in what the sink receives, and all have ended when Run
\* has returned (emitObserved, flushOpenTurn).
THEOREM TurnsAreBracketed == Spec => []TurnsBracketed
<1>1. IInv => TurnsBracketed
  <2> SUFFICES ASSUME IInv PROVE TurnsBracketed
    OBVIOUS
  <2>1. Turns(log, lastTurn, currentTurn, translator = "closing")
    BY DEF IInv, TurnsInOrder
  <2>2. ASSUME run = "returned", NEW t \in 1..lastTurn PROVE Ended(log, t)
    <3>1. lastTurn \in Nat /\ produced \in Nat /\ Len(fanout) \in Nat
          /\ lastTurn + Len(fanout) + (IF marking THEN 1 ELSE 0) <= produced
      BY IsReady DEF Ready, Numbered, IInv, Typed
    <3>2. session # "none"
      BY <3>1 DEF IInv, RunInOrder
    <3>3. currentTurn = 0
      BY <2>2, <3>2 DEF IInv, RunInOrder
    <3> QED
      BY <2>1, <3>3 DEF Turns
  <2> QED
    BY <2>1, <2>2 DEF Turns, TurnsBracketed
<1> QED
  BY NativeInvariant, <1>1, PTL

\* The sink sees typed and stream events in the order of the agent's output
\* (typedQueue.enqueue and the translator's markers).
THEOREM SinkKeepsOrder == Spec => []SinkInOrder
<1>1. IInv => SinkInOrder
  <2> SUFFICES ASSUME IInv PROVE SinkInOrder
    OBVIOUS
  <2>1. DOMAIN log = 1..Len(log)
    BY LenProperties DEF IInv, Typed
  <2> QED
    BY <2>1 DEF IInv, QueuesInOrder, LogInOrder, SinkInOrder
<1> QED
  BY NativeInvariant, <1>1, PTL

\* The new entries of an emission are its own and turn.started.
LEMMA EmitNew ==
  ASSUME NEW e, NEW usage, NEW reason, CanEmit(e, usage, reason),
         NEW k \in (Len(log) + 1)..Len(log')
  PROVE  \/ log'[k].reason = ""
         \/ log'[k].reason = reason /\ log'[k].turn = TurnOf(e.kind)
<1>1. PICK l \in Seq(LogEntries) :
        /\ LogTyped(l)
        /\ IF OpensTurn(e.kind) THEN Adds(log, Started, l) ELSE l = log
        /\ Adds(l, Entry(e, usage, reason), log')
  BY EmitLogs
<1>2. /\ Entry(e, usage, reason).reason = reason /\ Entry(e, usage, reason).turn = TurnOf(e.kind)
      /\ Started.reason = ""
  BY DEF Entry, Started
<1>3. CASE OpensTurn(e.kind)
  <2>1. Len(l) = Len(log) + 1 /\ l[Len(log) + 1] = Started /\ Len(log) \in Nat
    BY <1>1, <1>3 DEF Adds
  <2>2. /\ Len(log') = Len(l) + 1 /\ log'[Len(l) + 1] = Entry(e, usage, reason)
        /\ \A j \in 1..Len(l) : log'[j] = l[j]
    BY <1>1 DEF Adds
  <2>3. k = Len(l) + 1 \/ (k = Len(log) + 1 /\ k \in 1..Len(l))
    BY <2>1, <2>2
  <2> QED
    BY <1>2, <2>1, <2>2, <2>3
<1>4. CASE ~OpensTurn(e.kind)
  <2>1. /\ Len(log') = Len(log) + 1 /\ log'[Len(log) + 1] = Entry(e, usage, reason) /\ Len(log) \in Nat
    BY <1>1, <1>4 DEF Adds
  <2>2. k = Len(log) + 1
    BY <2>1
  <2> QED
    BY <1>2, <2>1, <2>2
<1> QED
  BY <1>3, <1>4

\* A turn.failed is said to be interrupted only if a CancelTurn that marked that
\* very turn has not failed (turnMarks, emitObserved).
THEOREM InterruptIsNotInvented == Spec => InterruptNotInvented
<1> USE DEF agentVars, queueVars, turnVars, callVars, runVars
<1>1. ASSUME IInv, [Next]_vars
      PROVE  \A k \in (Len(log) + 1)..Len(log') : log'[k].reason = "interrupted" =>
               \E c \in Cancels : canceledTurn[c] = log'[k].turn /\ canceling[c] # "failed"
  <2> SUFFICES ASSUME NEW k \in (Len(log) + 1)..Len(log'), log'[k].reason = "interrupted"
               PROVE  \E c \in Cancels : canceledTurn[c] = log'[k].turn /\ canceling[c] # "failed"
    OBVIOUS
  <2>1. Ready /\ Flow /\ RunTypes /\ RunInOrder
    BY <1>1, IsReady DEF IInv, Flow, Ready
  <2>2. Core
    BY <1>1, <2>1, CoreSteps
  <2>3. Len(log) \in Nat
    BY <2>1 DEF Ready, LogTyped
  <2>4. log' # log
    BY <2>3
  <2>5. \/ flushOpenTurn \/ RunReturn \/ TranslateTyped \/ TranslateStream
    BY <2>2, <2>4 DEF Core, coreVars, AgentBegin, SendMarker, SessionEnd, Enqueue,
       TypedEventCallback,
       SendStreamEvent, TranslateClose, InputRuns, InputRan, CancelStep, CancelTurn, InterruptTurn,
       InterruptAcknowledged, InterruptFails
  <2>6. ASSUME NEW e, e.reason # "interrupted", e \in LogEntries, log' = Append(log, e) PROVE FALSE
    <3>1. Adds(log, e, log')
      BY <2>1, <2>6, AppendAdds DEF Ready
    <3>2. k = Len(log) + 1 /\ log'[Len(log) + 1] = e
      BY <2>3, <3>1 DEF Adds
    <3> QED
      BY <2>6, <3>2
  <2>7. ~flushOpenTurn
    <3> SUFFICES ASSUME flushOpenTurn PROVE FALSE
      OBVIOUS
    <3> DEFINE e == [what |-> "failed", turn |-> currentTurn, n |-> 0,
                     usage |-> turnUsage, reason |-> "process_exited"]
    <3>1. log' = Append(log, e)
      BY <2>4 DEF flushOpenTurn
    <3>2. e \in LogEntries /\ e.reason # "interrupted"
      BY <2>1 DEF Ready, LogEntries, EventNames, Kinds, StreamKinds, Reasons
    <3> QED
      BY <2>6, <3>1, <3>2
  <2>8. ~RunReturn
    <3> SUFFICES ASSUME RunReturn PROVE FALSE
      OBVIOUS
    <3> DEFINE e == [what |-> "exited", turn |-> 0, n |-> 0, usage |-> {}, reason |-> ""]
    <3>1. log' = Append(log, e)
      BY DEF RunReturn
    <3>2. e \in LogEntries /\ e.reason # "interrupted"
      BY DEF LogEntries, EventNames, Reasons
    <3> QED
      BY <2>6, <3>1, <3>2
  <2>9. ~TranslateTyped
    <3> SUFFICES ASSUME TranslateTyped PROVE FALSE
      OBVIOUS
    <3>1. EmitInTurn(typedItems[1], {}, "") /\ typedItems[1] \in Events
      BY <2>1, TypedTaken
    <3>2. CanEmit(typedItems[1], {}, "")
      <4>1. typedItems[1].kind \in Kinds /\ typedItems[1].n \in Nat
        <5>1. \A e \in Events : e.kind \in Kinds /\ e.n \in Nat
          BY NativeConstants DEF Events
        <5> QED
          BY <3>1, <5>1
      <4>2. {} \subseteq Nat /\ "" \in Reasons
        BY DEF Reasons
      <4> QED
        BY <2>1, <3>1, <4>1, <4>2 DEF CanEmit, Ready
    <3>3. log'[k].reason = ""
      BY <3>2, EmitNew
    <3> QED
      BY <3>3
  <2>10. CASE TranslateStream
    <3> DEFINE e == fanout[1]
               u == IF isTurnTerminal(e.kind) THEN turnUsage ELSE {}
               reason == IF e.kind = "failed" /\ interrupted # 0 /\ interrupted = TurnOf(e.kind)
                         THEN "interrupted" ELSE ""
    <3>1. e \in Events /\ Head(fanout) = e
      BY <2>1, <2>10, StreamTaken
    <3>2. e.kind # "usage"
      BY <2>4, <2>10, <3>1 DEF TranslateStream
    <3>3. EmitInTurn(e, u, reason)
      BY <2>10, <3>1, <3>2 DEF TranslateStream, emitObserved
    <3>4. u \subseteq Nat /\ reason \in Reasons
      BY <2>1 DEF Ready, Reasons
    <3>5. reason = "interrupted" => interrupted # 0 /\ interrupted = TurnOf(e.kind)
      OBVIOUS
    <3> HIDE DEF u, reason
    <3>6. CanEmit(e, u, reason)
      <4>1. e.kind \in Kinds /\ e.n \in Nat
        <5>1. \A x \in Events : x.kind \in Kinds /\ x.n \in Nat
          BY NativeConstants DEF Events
        <5> QED
          BY <3>1, <5>1
      <4> QED
        BY <2>1, <3>3, <3>4, <4>1 DEF CanEmit, Ready
    <3>7. log'[k].reason = reason /\ log'[k].turn = TurnOf(e.kind)
      BY <3>6, EmitNew
    <3>8. interrupted # 0 /\ interrupted = log'[k].turn
      BY <3>5, <3>7
    <3> QED
      BY <1>1, <3>8 DEF IInv, MarkedByCancel
  <2> QED
    BY <2>5, <2>7, <2>8, <2>9, <2>10
<1>2. IInv /\ [Next]_vars =>
        [\A k \in (Len(log) + 1)..Len(log') : log'[k].reason = "interrupted" =>
           \E c \in Cancels : canceledTurn[c] = log'[k].turn /\ canceling[c] # "failed"]_vars
  BY <1>1
<1> QED
  BY NativeInvariant, <1>2, PTL DEF Spec, InterruptNotInvented

=============================================================================
