--------------------------- MODULE TurnOutputProofs ---------------------------
(***************************************************************************)
(* The reducer of turn output, for sessions and memories of any length.    *)
(* First what a turn keeps as its events arrive: its blocks lie in the     *)
(* order they began, and each signal and call splits them at the point     *)
(* where it happened, whatever was dropped since.  Then what it keeps of   *)
(* those events while there is room for them: every call with its first    *)
(* result and its refusal, and the signal of every event that asks, so     *)
(* that its kind is what they say.  Then what the reducer keeps: its turns *)
(* are told apart, none of them was reported lately, and what it remembers *)
(* of the last end is what it reported.                                    *)
(***************************************************************************)
EXTENDS TurnOutput, SequenceTheorems, FiniteSetTheorems, WellFoundedInduction, TLAPS

-----------------------------------------------------------------------------
(* What turns and reducers are made of *)

\* Ids, kinds and stop reasons.
Named   == CallIds \cup {""}
Kinds   == {"question", "approval"}
AnyStop == Stops \cup {""}
AnyErr  == {"", "e"}
Dones   == [stop : AnyStop, text : BOOLEAN]
\* Blocks, calls, signals and the events of a log.
Blocks  == [id : {"", "b"}, final : BOOLEAN, parts : SUBSET Nat, begun : Nat]
Facts   == [has : BOOLEAN, isError : BOOLEAN, at : Nat, refused : BOOLEAN]
Tools   == [id : Named, blocksAt : Nat, seq : Nat, question : BOOLEAN, facts : Facts, called : Nat]
Earlies == [id : CallIds, facts : Facts]
Signals == [kind : Kinds, said : BOOLEAN, byTool : BOOLEAN, toolID : Named, toolCall : BOOLEAN,
            at : Nat, seq : Nat, raised : Nat]
Entries == [ev : {"delta", "mark", "asked", "requested"}]
             \cup [ev : {"tool"}, id : Named, question : BOOLEAN]
             \cup [ev : {"result"}, id : CallIds, isError : BOOLEAN]
             \cup [ev : {"denied"}, id : Named]
             \cup [ev : {"resolved"}, request : Nat, allowed : BOOLEAN]
\* Turns.
TurnSet == [id : Nat, blocks : Seq(Blocks), anonOpen : BOOLEAN, usageStop : AnyStop,
            seq : Nat, tools : Seq(Tools), early : Seq(Earlies), signals : Seq(Signals),
            pending : Seq(Signals), log : Seq(Entries)]

\* A position splits the blocks at a point of the log: those after it, and only
\* those, began after the point.
Split(blocks, at, point) ==
    /\ at \in 0..Len(blocks)
    /\ \A i \in 1..Len(blocks) : i > at <=> blocks[i].begun > point

\* A block holds deltas of the turn, from the one it began with.
BlocksOK(blocks, n) == \A i \in 1..Len(blocks) :
    blocks[i].begun \in 1..n /\ blocks[i].parts \subseteq blocks[i].begun..n

\* A signal that has its own place stands where it was raised, ...
SignalsOK(blocks, sigs, n) == \A i \in 1..Len(sigs) :
    ~sigs[i].byTool => sigs[i].raised \in 0..n /\ Split(blocks, sigs[i].at, sigs[i].raised)

\* ... and a call where it was made.
CalledOK(blocks, tools, log) == \A i \in 1..Len(tools) :
    /\ tools[i].called \in Events(log, "tool") /\ log[tools[i].called].id = tools[i].id
    /\ Split(blocks, tools[i].blocksAt, tools[i].called)

\* The last call made is the last one held.
LastCalled(tools, log) ==
    IF tools = <<>> THEN Events(log, "tool") = {}
    ELSE /\ tools[Len(tools)].called \in Events(log, "tool")
         /\ \A e \in Events(log, "tool") : e <= tools[Len(tools)].called

\* Ids name one call, and all calls are held as long as there is room.
CallsOK(tools, log) ==
    /\ \A i, j \in Events(log, "tool") : log[i].id = log[j].id /\ log[i].id # "" => i = j
    /\ Cardinality(Events(log, "tool")) <= MaxTools =>
          /\ Len(tools) = Cardinality(Events(log, "tool"))
          /\ \A e \in Events(log, "tool") : \E i \in 1..Len(tools) : tools[i].id = log[e].id

\* A turn within its bounds, but for its blocks.
Bounded(t) ==
    /\ Len(t.tools) <= MaxTools
    /\ Len(t.early) <= MaxEarly /\ Len(t.signals) <= MaxSignals
    /\ Len(t.pending) <= MaxPending
    /\ t.anonOpen => t.blocks # <<>> /\ t.blocks[Len(t.blocks)].id = ""

\* Everything in a turn is within bounds and where it happened.
Placed(t) ==
    /\ t \in TurnSet /\ Bounded(t)
    /\ BlocksOK(t.blocks, Len(t.log))
    /\ SignalsOK(t.blocks, t.signals, Len(t.log)) /\ SignalsOK(t.blocks, t.pending, Len(t.log))
    /\ CalledOK(t.blocks, t.tools, t.log) /\ LastCalled(t.tools, t.log) /\ CallsOK(t.tools, t.log)

\* A turn as it is between events.
TurnOK(t) == Placed(t) /\ Len(t.blocks) <= MaxBlocks

\* Stamp s and place p of the log part the turn's calls at the same point.
Tied(t, s, p) ==
    /\ s \in 0..t.seq /\ p \in 0..Len(t.log)
    /\ \A i \in 1..Len(t.tools) : t.tools[i].seq > s <=> t.tools[i].called > p

\* Every call is held once, as it was made.
CallsRecorded(t) ==
    /\ \A e \in Events(t.log, "tool") : \E i \in 1..Len(t.tools) : t.tools[i].called = e
    /\ \A i, j \in 1..Len(t.tools) : t.tools[i].called = t.tools[j].called => i = j
    /\ \A i \in 1..Len(t.tools) :
          /\ t.tools[i].question = t.log[t.tools[i].called].question
          /\ Tied(t, t.tools[i].seq, t.tools[i].called)

\* What is known of a call: whether it was refused, and its first result.
Learned(t, id, f) ==
    /\ f.refused <=> DeniedOf(t.log, id) # {}
    /\ f.has <=> ResultOf(t.log, id) # {}
    /\ f.has => LET k == Min(ResultOf(t.log, id)) IN
                f.isError = t.log[k].isError /\ Tied(t, f.at, k)

\* Early facts are told apart, and a call without id has none.
Apart(early) == \A i, j \in 1..Len(early) : early[i].id = early[j].id => i = j
Nameless(t)  == \A i \in 1..Len(t.tools) : t.tools[i].id \notin CallIds => t.tools[i].facts = NoFacts

FactsRecorded(t) ==
    Apart(t.early) /\ Nameless(t) /\ \A id \in CallIds : Learned(t, id, FactsFor(t, id))

\* The events that ask for the user, and the requests refused and still open.
Answered(log, e)  == \E j \in Events(log, "resolved") : log[j].request = e
Allowed(log, e)   == \E j \in Events(log, "resolved") : log[j].request = e /\ log[j].allowed
Unanswered(log)   == {e \in Events(log, "requested") : ~Answered(log, e)}
Raising(log) ==
    Events(log, "asked") \cup Events(log, "denied") \cup {e \in Events(log, "tool") : log[e].question}
      \cup {e \in Events(log, "requested") : Answered(log, e) /\ ~Allowed(log, e)}

\* A signal says what the event that raised it asked, and stands there unless
\* it goes with a call.
Says(sig, e) ==
    CASE e.ev = "asked"  -> /\ sig.kind = "question" /\ ~sig.byTool /\ ~sig.toolCall
      [] e.ev = "tool"   -> /\ sig.kind = "question" /\ (sig.byTool <=> e.id \in CallIds) /\ sig.toolCall
                            /\ sig.toolID = e.id
      [] e.ev = "denied" -> /\ sig.kind = "approval" /\ sig.byTool /\ ~sig.toolCall
                            /\ sig.toolID = e.id
      [] OTHER           -> sig.kind = "approval" /\ ~sig.byTool /\ ~sig.toolCall

Records(t, sig) ==
    /\ Says(sig, t.log[sig.raised])
    /\ ~sig.byTool => Tied(t, sig.seq, sig.raised)

\* The sequence holds the signals of these events and of no others.
Holds(t, sigs, events) ==
    /\ \A i \in 1..Len(sigs) : sigs[i].raised \in events /\ Records(t, sigs[i])
    /\ \A e \in events : \E i \in 1..Len(sigs) : sigs[i].raised = e

SignalsRecorded(t) ==
    /\ Holds(t, t.signals, Raising(t.log)) /\ Holds(t, t.pending, Unanswered(t.log))
    /\ \A i, j \in 1..Len(t.pending) : t.pending[i].raised = t.pending[j].raised => i = j

\* The events a turn may need room for in each of its memories.
Learnt(log)    == Events(log, "result") \cup Events(log, "denied")
Signalled(log) == UNION {Events(log, e) : e \in {"tool", "denied", "asked", "resolved"}}

Counted(t) ==
    /\ Len(t.signals) <= Cardinality(Signalled(t.log))
    /\ Len(t.pending) <= Cardinality(Events(t.log, "requested"))
    /\ Len(t.early) <= Cardinality(Learnt(t.log))

\* All of it.
Recorded(t) == CallsRecorded(t) /\ FactsRecorded(t) /\ SignalsRecorded(t) /\ Counted(t)

\* A turn keeps its events while there is room for them.
Mindful(t) == Remembered(t.log) => Recorded(t)

\* A turn between events, with all there was room to keep of them.
TurnKept(t) == TurnOK(t) /\ Mindful(t)

\* The same turn, with the same events.
SameTurn(u, t) == u.id = t.id /\ u.usageStop = t.usageStop /\ u.log = t.log

\* Reducers and terminal events.
Reducers == [open : Seq(TurnSet), finished : Seq(Nat), settled : BOOLEAN,
             lastDone : Dones, heldStop : AnyStop,
             lastError : AnyErr, pendingStop : AnyStop, minted : Nat]

Terms == [failed : BOOLEAN, err : AnyErr, cut : BOOLEAN,
          reason : {"", "interrupted", "process_exited"}, stop : {"", Cancelled}, text : BOOLEAN]

\* Turns are told apart by their ids, and no open turn was reported lately.
IdsOK(q, f, rep) ==
    /\ \A i, j \in 1..Len(q.open) : q.open[i].id = q.open[j].id => i = j
    /\ \A i \in 1..Len(q.open), j \in 1..Len(q.finished) : q.open[i].id # q.finished[j]
    /\ \A i \in 1..Len(q.open) : q.open[i].id # NoId
    /\ f = "idless" =>
          /\ \A i \in 1..Len(q.open) : q.open[i].id <= Minted(q.minted)
          /\ \A i \in 1..Len(rep) : rep[i] <= Minted(q.minted)

\* The Reducer remembers the turns reported last, and how the last one ended.
MemoryOK(q, rep, o) ==
    /\ q.finished = AtMost(rep, FinishedMemory)
    /\ o.kind # "none" /\ ~o.term.failed => q.lastDone = [stop |-> o.stop, text |-> o.term.text]
    /\ q.settled => q.open = <<>> /\ q.pendingStop = "" /\ o.kind # "none"

\* A reducer of a feed that reported rep, and o last.
RedOK(q, f, rep, o) ==
    /\ q \in Reducers /\ Len(q.open) <= MaxOpenTurns
    /\ \A i \in 1..Len(q.open) : TurnKept(q.open[i])
    /\ IdsOK(q, f, rep) /\ MemoryOK(q, rep, o)

\* An Output says what its turn was.
OutMade ==
    out.kind # "none" => /\ TurnKept(out.turn) /\ out.term \in Terms
                         /\ out.kind = KindOf(out.turn, out.term)
                         /\ out.text = TextOf(out.turn, out.term)

\* The inductive invariant.
IInv ==
    /\ feed \in {"envelope", "idless"} /\ reported \in Seq(Nat)
    /\ RedOK(r, feed, reported, out) /\ OutMade /\ OncePerTurn

-----------------------------------------------------------------------------
\* The last n entries of a sequence.
LEMMA AtMostKeepsTheLast ==
  ASSUME NEW S, NEW s \in Seq(S), NEW n \in Nat \ {0}
  PROVE  /\ AtMost(s, n) \in Seq(S)
         /\ Len(AtMost(s, n)) = IF Len(s) > n THEN n ELSE Len(s)
         /\ \A i \in 1..Len(AtMost(s, n)) :
               AtMost(s, n)[i] = s[i + Len(s) - Len(AtMost(s, n))]
<1>1. CASE Len(s) > n
  <2> DEFINE m == Len(s) - n + 1
  <2>1. m \in 1..Len(s) /\ Len(s) \in Nat /\ Len(s) - m + 1 = n
    BY <1>1
  <2>2. \A i \in m..Len(s) : s[i] \in S
    BY <2>1, ElementOfSeq
  <2>3. /\ SubSeq(s, m, Len(s)) \in Seq(S)
        /\ Len(SubSeq(s, m, Len(s))) = IF m <= Len(s) THEN Len(s) - m + 1 ELSE 0
        /\ \A i \in 1..Len(s) - m + 1 : SubSeq(s, m, Len(s))[i] = s[m + i - 1]
    BY <2>1, <2>2, SubSeqProperties
  <2>4. AtMost(s, n) = SubSeq(s, m, Len(s))
    BY <1>1 DEF AtMost
  <2>5. \A i \in 1..n : m + i - 1 = i + Len(s) - n
    BY <2>1
  <2> HIDE DEF m
  <2> QED
    BY <1>1, <2>1, <2>3, <2>4, <2>5
<1>2. CASE ~ (Len(s) > n)
  <2>1. AtMost(s, n) = s
    BY <1>2 DEF AtMost
  <2>2. \A i \in 1..Len(s) : i + Len(s) - Len(s) = i
    OBVIOUS
  <2> QED
    BY <1>2, <2>1, <2>2
<1> QED
  BY <1>1, <1>2

\* What q is after e was added to s, when it may hold n entries.
IsPushed(S, q, s, e, n) ==
    /\ q \in Seq(S) /\ Len(q) \in 1..n /\ q # <<>>
    /\ Len(q) <= Len(s) + 1
    /\ q[Len(q)] = e
    /\ \A i \in 1..Len(q) : i # Len(q) =>
          i + Len(s) + 1 - Len(q) \in 1..Len(s) /\ q[i] = s[i + Len(s) + 1 - Len(q)]
    /\ Len(s) < n => Len(q) = Len(s) + 1 /\ q = Append(s, e)

\* A bounded queue after an entry is added: the entry is its last, the others
\* were there before, and all of them still are when there was room.
LEMMA Pushed ==
  ASSUME NEW S, NEW s \in Seq(S), NEW e \in S, NEW n \in Nat \ {0},
         NEW q, q = AtMost(Append(s, e), n)
  PROVE  IsPushed(S, q, s, e, n)
<1> DEFINE p == Append(s, e)
<1>1. /\ p \in Seq(S) /\ Len(p) = Len(s) + 1 /\ p[Len(s) + 1] = e
      /\ \A i \in 1..Len(s) : p[i] = s[i]
      /\ Len(s) \in Nat
  BY AppendProperties
<1>0. q = AtMost(p, n)
  OBVIOUS
<1> HIDE DEF p
<1>2. /\ q \in Seq(S) /\ Len(q) = IF Len(p) > n THEN n ELSE Len(p)
      /\ \A i \in 1..Len(q) : q[i] = p[i + Len(p) - Len(q)]
  <2>1. /\ AtMost(p, n) \in Seq(S) /\ Len(AtMost(p, n)) = IF Len(p) > n THEN n ELSE Len(p)
        /\ \A i \in 1..Len(AtMost(p, n)) : AtMost(p, n)[i] = p[i + Len(p) - Len(AtMost(p, n))]
    BY <1>1, AtMostKeepsTheLast
  <2> QED
    BY <1>0, <2>1, Zenon
<1>3. Len(s) < n => q = p
  BY <1>0, <1>1 DEF AtMost
<1>4. Len(q) \in 1..n /\ Len(q) <= Len(s) + 1 /\ (Len(s) < n => Len(q) = Len(s) + 1)
  BY <1>1, <1>2
<1>5. q[Len(q)] = e
  <2>1. Len(q) \in 1..Len(q) /\ Len(q) + Len(p) - Len(q) = Len(s) + 1
    BY <1>1, <1>4
  <2>2. q[Len(q)] = p[Len(q) + Len(p) - Len(q)]
    BY <1>2, <2>1
  <2> QED
    BY <1>1, <2>1, <2>2
<1>6. ASSUME NEW i \in 1..Len(q), i # Len(q)
      PROVE  i + Len(s) + 1 - Len(q) \in 1..Len(s) /\ q[i] = s[i + Len(s) + 1 - Len(q)]
  <2>1. i + Len(s) + 1 - Len(q) \in 1..Len(s)
    BY <1>1, <1>4, <1>6
  <2>2. i + Len(p) - Len(q) = i + Len(s) + 1 - Len(q)
    BY <1>1, <1>4
  <2>3. q[i] = p[i + Len(p) - Len(q)]
    BY <1>2
  <2> QED
    BY <1>1, <2>1, <2>2, <2>3
<1>7. q # <<>>
  BY <1>2, <1>4
<1> QED
  BY <1>2, <1>3, <1>4, <1>5, <1>6, <1>7 DEF p, IsPushed

\* A sequence without the entry at i.
LEMMA Removed ==
  ASSUME NEW S, NEW s \in Seq(S), NEW i \in 1..Len(s)
  PROVE  /\ RemoveAt(s, i) \in Seq(S)
         /\ Len(RemoveAt(s, i)) = Len(s) - 1
         /\ \A j \in 1..Len(s) - 1 : RemoveAt(s, i)[j] = IF j < i THEN s[j] ELSE s[j + 1]
<1> DEFINE a == SubSeq(s, 1, i - 1)
           b == SubSeq(s, i + 1, Len(s))
<1>1. Len(s) \in Nat /\ i \in Int /\ \A j \in 1..Len(s) : s[j] \in S
  BY ElementOfSeq
<1>2. /\ a \in Seq(S) /\ Len(a) = IF 1 <= i - 1 THEN i - 1 - 1 + 1 ELSE 0
      /\ \A j \in 1..i - 1 - 1 + 1 : a[j] = s[1 + j - 1]
  <2>1. \A j \in 1..i - 1 : s[j] \in S
    BY <1>1
  <2> HIDE DEF a
  <2> QED
    BY <1>1, <2>1, SubSeqProperties DEF a
<1>3. /\ b \in Seq(S) /\ Len(b) = IF i + 1 <= Len(s) THEN Len(s) - (i + 1) + 1 ELSE 0
      /\ \A j \in 1..Len(s) - (i + 1) + 1 : b[j] = s[i + 1 + j - 1]
  <2>1. \A j \in i + 1..Len(s) : s[j] \in S
    BY <1>1
  <2> HIDE DEF b
  <2> QED
    BY <1>1, <2>1, SubSeqProperties DEF b
<1>4. RemoveAt(s, i) = a \o b
  BY DEF RemoveAt
<1> HIDE DEF a, b
<1>5. Len(a) = i - 1 /\ Len(b) = Len(s) - i
  BY <1>1, <1>2, <1>3
<1>6. /\ a \o b \in Seq(S) /\ Len(a \o b) = Len(a) + Len(b)
      /\ \A j \in 1..Len(a) + Len(b) :
            (a \o b)[j] = IF j <= Len(a) THEN a[j] ELSE b[j - Len(a)]
  BY <1>2, <1>3, ConcatProperties
<1>7. ASSUME NEW j \in 1..Len(s) - 1
      PROVE  (a \o b)[j] = IF j < i THEN s[j] ELSE s[j + 1]
  <2>1. j \in 1..Len(a) + Len(b)
    BY <1>1, <1>5
  <2>2. CASE j < i
    <3>1. j <= Len(a) /\ j \in 1..i - 1 - 1 + 1 /\ 1 + j - 1 = j
      BY <1>1, <1>5, <2>2
    <3> QED
      BY <1>2, <1>6, <2>1, <2>2, <3>1
  <2>3. CASE ~ (j < i)
    <3>1. ~ (j <= Len(a)) /\ j - Len(a) \in 1..Len(s) - (i + 1) + 1
            /\ i + 1 + (j - Len(a)) - 1 = j + 1
      BY <1>1, <1>5, <2>3
    <3> QED
      BY <1>3, <1>6, <2>1, <2>3, <3>1
  <2> QED
    BY <2>2, <2>3
<1> QED
  BY <1>1, <1>4, <1>5, <1>6, <1>7

\* A sequence that is not empty has a last entry.
LEMMA NonEmpty ==
  ASSUME NEW S, NEW s \in Seq(S)
  PROVE  /\ s # <<>> <=> Len(s) \in 1..Len(s)
         /\ s # <<>> <=> Len(s) >= 1
         /\ s = <<>> <=> Len(s) = 0
BY EmptySeq, LenProperties

\* A set of indices has a last one.
LEMMA LastExists ==
  ASSUME NEW n \in Nat, NEW I, I \subseteq 1..n, I # {}
  PROVE  \E i \in I : \A j \in I : j <= i
<1> DEFINE T == {n - i : i \in I}
<1>1. T \subseteq Nat /\ T # {}
  <2>1. \A i \in I : i \in 1..n
    OBVIOUS
  <2>2. \A i \in 1..n : n - i \in Nat
    OBVIOUS
  <2> QED
    BY <2>1, <2>2, Zenon
<1> DEFINE R == OpToRel(<, Nat)
<1>2. \A x, y \in Nat : x < y => <<x, y>> \in R
  BY DEF OpToRel
<1>3. IsWellFoundedOn(R, Nat)
  BY NatLessThanWellFounded
<1> HIDE DEF R
<1>4. PICK x \in T : \A y \in T : ~ (<<y, x>> \in R)
  <2> HIDE DEF T
  <2> QED
    BY <1>1, <1>3, WFMin
<1>5. PICK i \in I : x = n - i
  BY <1>4
<1>6. ASSUME NEW j \in I PROVE j <= i
  <2>1. n - j \in T /\ n - j \in Nat /\ x \in Nat
    BY <1>1, <1>4
  <2>2. ~ (n - j < x)
    BY <1>2, <1>4, <2>1
  <2> QED
    BY <1>5, <2>2
<1> QED
  BY <1>6

\* ... and a set of naturals a first.
LEMMA FirstExists ==
  ASSUME NEW I, I \subseteq Nat, I # {}
  PROVE  \E i \in I : \A j \in I : i <= j
<1> DEFINE R == OpToRel(<, Nat)
<1>1. \A x, y \in Nat : x < y => <<x, y>> \in R
  BY DEF OpToRel
<1>2. IsWellFoundedOn(R, Nat)
  BY NatLessThanWellFounded
<1> HIDE DEF R
<1>3. PICK i \in I : \A j \in I : ~ (<<j, i>> \in R)
  BY <1>2, WFMin
<1>4. ASSUME NEW j \in I PROVE i <= j
  <2>1. i \in Nat /\ j \in Nat
    OBVIOUS
  <2>2. ~ (j < i)
    BY <1>1, <1>3, <2>1
  <2> QED
    BY <2>1, <2>2
<1> QED
  BY <1>4

\* The greatest of a set of indices, ...
LEMMA MaxIsLast ==
  ASSUME NEW n \in Nat, NEW I, I \subseteq 1..n, I # {}
  PROVE  Max(I) \in I /\ \A j \in I : j <= Max(I)
<1>1. \E i \in I : \A j \in I : i >= j
  BY LastExists
<1> QED
  BY <1>1 DEF Max

\* ... and the least of a set of naturals.
LEMMA MinIsFirst ==
  ASSUME NEW I, I \subseteq Nat, I # {}
  PROVE  Min(I) \in I /\ \A j \in I : Min(I) <= j
BY FirstExists DEF Min

\* A function on 1..n is a sequence.
LEMMA FunctionIsSeq ==
  ASSUME NEW S, NEW n \in Nat, NEW f \in [1..n -> S]
  PROVE  f \in Seq(S) /\ Len(f) = n
BY SeqDef

-----------------------------------------------------------------------------
(* Positions among the blocks *)

\* Every memory has room for something.
LEMMA ConstantFacts ==
  /\ MaxBlocks \in Nat \ {0} /\ MaxTools \in Nat \ {0} /\ MaxSignals \in Nat \ {0}
  /\ MaxEarly \in Nat \ {0} /\ MaxPending \in Nat \ {0} /\ MaxOpenTurns \in Nat \ {0}
  /\ FinishedMemory \in Nat \ {0}
BY OutputConstants

\* Signals moved k blocks back are signals.
LEMMA SignalsShift ==
  ASSUME NEW sigs \in Seq(Signals), NEW k \in Nat
  PROVE  LET q == SignalsShifted(sigs, k) IN
         /\ q \in Seq(Signals) /\ Len(q) = Len(sigs)
         /\ \A i \in 1..Len(sigs) : q[i] = [sigs[i] EXCEPT !.at = Shift(@, k)]
<1>1. DOMAIN sigs = 1..Len(sigs) /\ Len(sigs) \in Nat /\ \A i \in 1..Len(sigs) : sigs[i] \in Signals
  BY LenProperties, ElementOfSeq
<1>2. ASSUME NEW s \in Signals PROVE [s EXCEPT !.at = Shift(@, k)] \in Signals
  <2>1. Shift(s.at, k) \in Nat
    BY DEF Signals, Shift
  <2> QED
    BY <2>1 DEF Signals
<1> DEFINE q == SignalsShifted(sigs, k)
<1>3. q \in [1..Len(sigs) -> Signals]
  BY <1>1, <1>2, Zenon DEF SignalsShifted
<1>4. \A i \in 1..Len(sigs) : q[i] = [sigs[i] EXCEPT !.at = Shift(@, k)]
  BY <1>1, Zenon DEF SignalsShifted
<1> HIDE DEF q
<1>5. q \in Seq(Signals) /\ Len(q) = Len(sigs)
  BY <1>1, <1>3, FunctionIsSeq
<1> QED
  BY <1>4, <1>5 DEF q

\* Calls moved k blocks back are calls.
LEMMA ToolsShift ==
  ASSUME NEW tools \in Seq(Tools), NEW k \in Nat
  PROVE  LET q == ToolsShifted(tools, k) IN
         /\ q \in Seq(Tools) /\ Len(q) = Len(tools)
         /\ \A i \in 1..Len(tools) : q[i] = [tools[i] EXCEPT !.blocksAt = Shift(@, k)]
<1>1. DOMAIN tools = 1..Len(tools) /\ Len(tools) \in Nat /\ \A i \in 1..Len(tools) : tools[i] \in Tools
  BY LenProperties, ElementOfSeq
<1>2. ASSUME NEW s \in Tools PROVE [s EXCEPT !.blocksAt = Shift(@, k)] \in Tools
  <2>1. Shift(s.blocksAt, k) \in Nat
    BY DEF Tools, Shift
  <2> QED
    BY <2>1 DEF Tools
<1> DEFINE q == ToolsShifted(tools, k)
<1>3. q \in [1..Len(tools) -> Tools]
  BY <1>1, <1>2, Zenon DEF ToolsShifted
<1>4. \A i \in 1..Len(tools) : q[i] = [tools[i] EXCEPT !.blocksAt = Shift(@, k)]
  BY <1>1, Zenon DEF ToolsShifted
<1> HIDE DEF q
<1>5. q \in Seq(Tools) /\ Len(q) = Len(tools)
  BY <1>1, <1>3, FunctionIsSeq
<1> QED
  BY <1>4, <1>5 DEF q

\* A position keeps its place when the oldest blocks go.
LEMMA SplitShifts ==
  ASSUME NEW blocks \in Seq(Blocks), NEW at, NEW point \in Nat, Split(blocks, at, point),
         NEW kept \in Seq(Blocks), Len(kept) <= Len(blocks),
         \A i \in 1..Len(kept) : kept[i] = blocks[i + Len(blocks) - Len(kept)]
  PROVE  Split(kept, Shift(at, Len(blocks) - Len(kept)), point)
<1> DEFINE k == Len(blocks) - Len(kept)
<1>1. k \in Nat /\ Len(kept) \in Nat /\ Len(blocks) \in Nat /\ at \in 0..Len(blocks)
  BY DEF Split
<1>2. Shift(at, k) \in 0..Len(kept)
  BY <1>1 DEF Shift
<1>3. ASSUME NEW i \in 1..Len(kept) PROVE i > Shift(at, k) <=> kept[i].begun > point
  <2>1. i + k \in 1..Len(blocks) /\ i + Len(blocks) - Len(kept) = i + k
    BY <1>1
  <2>2. i > Shift(at, k) <=> i + k > at
    BY <1>1 DEF Shift
  <2>3. kept[i] = blocks[i + k]
    BY <2>1
  <2> QED
    BY <2>1, <2>2, <2>3 DEF Split
<1> QED
  BY <1>2, <1>3 DEF Split

\* A position keeps its place when blocks that have begun are only continued.
LEMMA SplitKept ==
  ASSUME NEW blocks, NEW at, NEW point, Split(blocks, at, point),
         NEW grown, Len(grown) = Len(blocks),
         \A i \in 1..Len(blocks) : grown[i].begun = blocks[i].begun
  PROVE  Split(grown, at, point)
BY DEF Split

\* ... and when a block begins later.
LEMMA SplitAppend ==
  ASSUME NEW blocks \in Seq(Blocks), NEW at, NEW point, Split(blocks, at, point),
         NEW b \in Blocks, b.begun > point
  PROVE  Split(Append(blocks, b), at, point)
<1>1. /\ Len(Append(blocks, b)) = Len(blocks) + 1 /\ Len(blocks) \in Nat
      /\ \A i \in 1..Len(blocks) : Append(blocks, b)[i] = blocks[i]
      /\ Append(blocks, b)[Len(blocks) + 1] = b
  BY AppendProperties
<1>2. at \in 0..Len(blocks)
  BY DEF Split
<1>3. ASSUME NEW i \in 1..Len(blocks) + 1
      PROVE  i > at <=> Append(blocks, b)[i].begun > point
  <2>1. CASE i = Len(blocks) + 1
    BY <1>1, <1>2, <2>1
  <2>2. CASE i # Len(blocks) + 1
    <3>1. i \in 1..Len(blocks)
      BY <1>1, <2>2
    <3> QED
      BY <1>1, <3>1 DEF Split
  <2> QED
    BY <2>1, <2>2
<1> QED
  BY <1>1, <1>2, <1>3 DEF Split

\* The end of the blocks is a position for everything that has happened.
LEMMA SplitHere ==
  ASSUME NEW blocks \in Seq(Blocks), NEW n \in Nat, BlocksOK(blocks, n)
  PROVE  Split(blocks, Len(blocks), n)
BY DEF Split, BlocksOK

\* What a turn is made of.
LEMMA TurnParts ==
  ASSUME NEW t \in TurnSet
  PROVE  /\ t.blocks \in Seq(Blocks) /\ t.tools \in Seq(Tools) /\ t.early \in Seq(Earlies)
         /\ t.signals \in Seq(Signals) /\ t.pending \in Seq(Signals) /\ t.log \in Seq(Entries)
         /\ t.seq \in Nat /\ t.id \in Nat /\ Len(t.log) \in Nat
         /\ Len(t.blocks) \in Nat /\ Len(t.tools) \in Nat /\ Len(t.early) \in Nat
         /\ Len(t.signals) \in Nat /\ Len(t.pending) \in Nat
         /\ t.usageStop \in AnyStop /\ t.anonOpen \in BOOLEAN
<1>1. /\ t.blocks \in Seq(Blocks) /\ t.tools \in Seq(Tools) /\ t.early \in Seq(Earlies)
      /\ t.signals \in Seq(Signals) /\ t.pending \in Seq(Signals) /\ t.log \in Seq(Entries)
      /\ t.seq \in Nat /\ t.id \in Nat /\ t.usageStop \in AnyStop /\ t.anonOpen \in BOOLEAN
  BY Zenon DEF TurnSet
<1>2. /\ Len(t.log) \in Nat /\ Len(t.blocks) \in Nat /\ Len(t.tools) \in Nat
      /\ Len(t.early) \in Nat /\ Len(t.signals) \in Nat /\ Len(t.pending) \in Nat
  BY <1>1, LenProperties
<1> QED
  BY <1>1, <1>2

\* Signals keep their place when the oldest blocks go.
LEMMA SignalsKeepPlace ==
  ASSUME NEW blocks \in Seq(Blocks), NEW sigs \in Seq(Signals), NEW n \in Nat,
         SignalsOK(blocks, sigs, n),
         NEW kept \in Seq(Blocks), Len(kept) <= Len(blocks),
         \A i \in 1..Len(kept) : kept[i] = blocks[i + Len(blocks) - Len(kept)]
  PROVE  SignalsOK(kept, SignalsShifted(sigs, Len(blocks) - Len(kept)), n)
<1> DEFINE k == Len(blocks) - Len(kept)
           q == SignalsShifted(sigs, k)
<1>1. k \in Nat
  OBVIOUS
<1>2. /\ q \in Seq(Signals) /\ Len(q) = Len(sigs)
      /\ \A i \in 1..Len(sigs) : q[i] = [sigs[i] EXCEPT !.at = Shift(@, k)]
  BY <1>1, SignalsShift
<1> HIDE DEF q
<1>3. ASSUME NEW i \in 1..Len(sigs), ~q[i].byTool
      PROVE  q[i].raised \in 0..n /\ Split(kept, q[i].at, q[i].raised)
  <2>0. sigs[i] \in Signals
    BY ElementOfSeq
  <2>1. /\ q[i].at = Shift(sigs[i].at, k) /\ q[i].raised = sigs[i].raised
        /\ q[i].byTool = sigs[i].byTool
    BY <1>2, <2>0 DEF Signals
  <2>2. sigs[i].raised \in 0..n /\ Split(blocks, sigs[i].at, sigs[i].raised)
    BY <1>3, <2>1 DEF SignalsOK
  <2>3. Split(kept, Shift(sigs[i].at, k), sigs[i].raised)
    BY <2>0, <2>2, SplitShifts
  <2> QED
    BY <2>1, <2>2, <2>3
<1>4. SignalsOK(kept, q, n)
  BY <1>2, <1>3 DEF SignalsOK
<1> QED
  BY <1>4 DEF q

\* Calls, and logs, with the same ids.
SameIds(calls, tools) ==
    Len(calls) = Len(tools) /\ \A i \in 1..Len(tools) : calls[i].id = tools[i].id
SameCalls(new, log) ==
    /\ Events(new, "tool") = Events(log, "tool")
    /\ \A e \in Events(log, "tool") : new[e].id = log[e].id

\* Calls with the ids of a log's calls are its calls.
LEMMA CallsAs ==
  ASSUME NEW tools, NEW log, CallsOK(tools, log), NEW calls, SameIds(calls, tools),
         NEW new, SameCalls(new, log)
  PROVE  CallsOK(calls, new)
<1> DEFINE tool == Events(log, "tool")
<1>1. /\ \A i, j \in tool : log[i].id = log[j].id /\ log[i].id # "" => i = j
      /\ Cardinality(tool) <= MaxTools =>
            /\ Len(tools) = Cardinality(tool)
            /\ \A e \in tool : \E i \in 1..Len(tools) : tools[i].id = log[e].id
  BY DEF CallsOK
<1>2. Events(new, "tool") = tool /\ \A e \in tool : new[e].id = log[e].id
  BY DEF SameCalls
<1>a. Len(calls) = Len(tools) /\ \A i \in 1..Len(tools) : calls[i].id = tools[i].id
  BY DEF SameIds
<1> HIDE DEF tool
<1>3. ASSUME Cardinality(tool) <= MaxTools, NEW e \in tool
      PROVE  \E i \in 1..Len(calls) : calls[i].id = new[e].id
  <2>1. PICK i \in 1..Len(tools) : tools[i].id = log[e].id
    BY <1>1, <1>3
  <2>2. i \in 1..Len(calls) /\ calls[i].id = new[e].id
    BY <1>2, <1>a, <2>1
  <2> QED
    BY <2>2
<1>4. ASSUME NEW i \in tool, NEW j \in tool, new[i].id = new[j].id, new[i].id # ""
      PROVE  i = j
  <2>1. log[i].id = log[j].id /\ log[i].id # ""
    BY <1>2, <1>4, Zenon
  <2> QED
    BY <1>1, <2>1, Zenon
<1>5. Cardinality(tool) <= MaxTools => Len(calls) = Cardinality(tool)
  BY <1>1, <1>a
<1> QED
  BY <1>2, <1>3, <1>4, <1>5 DEF CallsOK

\* trim keeps a turn what it is, and gives it no more than MaxBlocks blocks.
LEMMA TrimKeeps ==
  ASSUME NEW t, Placed(t)
  PROVE  TurnOK(Trim(t)) /\ SameTurn(Trim(t), t)
<1>0. t \in TurnSet
  BY DEF Placed
<1>a. /\ t.blocks \in Seq(Blocks) /\ t.tools \in Seq(Tools) /\ t.log \in Seq(Entries)
      /\ t.signals \in Seq(Signals) /\ t.pending \in Seq(Signals)
      /\ Len(t.log) \in Nat /\ Len(t.blocks) \in Nat /\ Len(t.tools) \in Nat
  BY <1>0, TurnParts
<1>b. \A i \in 1..Len(t.tools) : t.tools[i] \in Tools
  BY <1>a, ElementOfSeq
<1>1. CASE Len(t.blocks) <= MaxBlocks
  BY <1>1 DEF Trim, TurnOK, SameTurn
<1>2. CASE ~ (Len(t.blocks) <= MaxBlocks)
  <2> DEFINE kept == AtMost(t.blocks, MaxBlocks)
             k == Len(t.blocks) - MaxBlocks
             tools == ToolsShifted(t.tools, k)
             signals == SignalsShifted(t.signals, k)
             pending == SignalsShifted(t.pending, k)
             u == [t EXCEPT !.blocks = kept, !.tools = tools, !.signals = signals, !.pending = pending]
  <2>1. Trim(t) = u
    BY <1>0, <1>2, Zenon DEF Trim, BlocksShifted, TurnSet
  <2>2. /\ kept \in Seq(Blocks) /\ Len(kept) = MaxBlocks
        /\ \A i \in 1..Len(kept) : kept[i] = t.blocks[i + Len(t.blocks) - Len(kept)]
    BY <1>a, <1>2, ConstantFacts, AtMostKeepsTheLast
  <2> HIDE DEF kept, tools, signals, pending, u
  <2>3. k \in Nat /\ k = Len(t.blocks) - Len(kept) /\ Len(kept) <= Len(t.blocks)
    BY <1>a, <1>2, <2>2, ConstantFacts
  <2>4. /\ tools \in Seq(Tools) /\ Len(tools) = Len(t.tools)
        /\ \A i \in 1..Len(t.tools) : tools[i] = [t.tools[i] EXCEPT !.blocksAt = Shift(@, k)]
    BY <1>a, <2>3, ToolsShift DEF tools
  <2>5. signals \in Seq(Signals) /\ Len(signals) = Len(t.signals)
    BY <1>a, <2>3, SignalsShift DEF signals
  <2>6. pending \in Seq(Signals) /\ Len(pending) = Len(t.pending)
    BY <1>a, <2>3, SignalsShift DEF pending
  <2>7. SignalsOK(kept, signals, Len(t.log))
    BY <1>a, <2>2, <2>3, SignalsKeepPlace DEF Placed, signals, k
  <2>8. SignalsOK(kept, pending, Len(t.log))
    BY <1>a, <2>2, <2>3, SignalsKeepPlace DEF Placed, pending, k
  <2>9. ASSUME NEW i \in 1..Len(tools)
        PROVE  /\ tools[i].called \in Events(t.log, "tool") /\ t.log[tools[i].called].id = tools[i].id
               /\ Split(kept, tools[i].blocksAt, tools[i].called)
    <3>0. t.tools[i] \in Tools /\ tools[i] = [t.tools[i] EXCEPT !.blocksAt = Shift(@, k)]
      BY <1>b, <2>4
    <3>1. /\ tools[i].id = t.tools[i].id /\ tools[i].called = t.tools[i].called
          /\ tools[i].blocksAt = Shift(t.tools[i].blocksAt, k)
      BY <3>0 DEF Tools
    <3>2. /\ t.tools[i].called \in Events(t.log, "tool") /\ t.log[t.tools[i].called].id = t.tools[i].id
          /\ Split(t.blocks, t.tools[i].blocksAt, t.tools[i].called)
      BY <2>4 DEF Placed, CalledOK
    <3>4. t.tools[i].called \in Nat
      BY <3>0 DEF Tools
    <3>3. Split(kept, Shift(t.tools[i].blocksAt, k), t.tools[i].called)
      BY <1>a, <2>2, <2>3, <3>4, <3>2, SplitShifts
    <3> QED
      BY <3>1, <3>2, <3>3
  <2>10. /\ \A i \in 1..Len(t.tools) : tools[i].id = t.tools[i].id /\ tools[i].called = t.tools[i].called
    BY <1>b, <2>4 DEF Tools
  <2> HIDE DEF tools, signals, pending, k
  <2>11. CalledOK(kept, tools, t.log)
    BY <2>9 DEF CalledOK
  <2>12. LastCalled(tools, t.log)
    <3>1. tools = <<>> <=> t.tools = <<>>
      BY <1>a, <2>4
    <3>2. tools # <<>> => Len(t.tools) \in 1..Len(t.tools)
      BY <1>a, <2>4
    <3> QED
      BY <2>4, <2>10, <3>1, <3>2 DEF Placed, LastCalled
  <2>13. CallsOK(tools, t.log)
    <3>1. CallsOK(t.tools, t.log)
      BY DEF Placed
    <3>2. SameIds(tools, t.tools)
      BY <2>4, <2>10 DEF SameIds
    <3>3. SameCalls(t.log, t.log)
      BY DEF SameCalls
    <3> QED
      BY <3>1, <3>2, <3>3, CallsAs
  <2>14. BlocksOK(kept, Len(t.log))
    <3>1. ASSUME NEW i \in 1..Len(kept)
          PROVE  i + Len(t.blocks) - Len(kept) \in 1..Len(t.blocks)
      BY <1>a, <2>2, <2>3, ConstantFacts
    <3> QED
      BY <2>2, <3>1 DEF Placed, BlocksOK
  <2>15. t.anonOpen => kept # <<>> /\ kept[Len(kept)].id = ""
    <3>1. Len(kept) \in 1..Len(kept) /\ Len(kept) + Len(t.blocks) - Len(kept) = Len(t.blocks)
      BY <1>a, <2>2, ConstantFacts
    <3>2. kept[Len(kept)] = t.blocks[Len(t.blocks)]
      BY <2>2, <3>1
    <3>3. kept # <<>>
      BY <2>2, <3>1
    <3> QED
      BY <3>2, <3>3 DEF Placed, Bounded
  <2>16. u \in TurnSet
    BY <1>0, <2>2, <2>4, <2>5, <2>6 DEF TurnSet, u
  <2>17. /\ u.blocks = kept /\ u.tools = tools /\ u.signals = signals /\ u.pending = pending
         /\ u.early = t.early /\ u.log = t.log /\ u.anonOpen = t.anonOpen
         /\ u.id = t.id /\ u.usageStop = t.usageStop
    BY <1>0 DEF TurnSet, u
  <2>18. Bounded(u)
    BY <2>4, <2>5, <2>6, <2>15, <2>17 DEF Placed, Bounded
  <2>19. Placed(u) /\ Len(u.blocks) <= MaxBlocks
    BY <2>2, <2>7, <2>8, <2>11, <2>12, <2>13, <2>14, <2>16, <2>17, <2>18, ConstantFacts DEF Placed
  <2> QED
    BY <2>1, <2>17, <2>19 DEF TurnOK, SameTurn
<1> QED
  BY <1>1, <1>2

-----------------------------------------------------------------------------
(* What an event does to a turn *)

\* Nothing stands where the log ends: what the event at its end begins comes
\* after everything else.
Ahead(t) ==
    /\ Len(t.log) >= 1
    /\ \A i \in 1..Len(t.signals) : ~t.signals[i].byTool => t.signals[i].raised < Len(t.log)
    /\ \A i \in 1..Len(t.pending) : ~t.pending[i].byTool => t.pending[i].raised < Len(t.log)
    /\ \A i \in 1..Len(t.tools) : t.tools[i].called < Len(t.log)

\* An event of another sort leaves the events of a sort what they were.
LEMMA EventsOfOthers ==
  ASSUME NEW log \in Seq(Entries), NEW e \in Entries, NEW ev, e.ev # ev
  PROVE  /\ Events(Append(log, e), ev) = Events(log, ev)
         /\ \A i \in Events(log, ev) : Append(log, e)[i] = log[i]
<1>1. /\ Append(log, e) \in Seq(Entries) /\ Len(Append(log, e)) = Len(log) + 1 /\ Len(log) \in Nat
      /\ \A i \in 1..Len(log) : Append(log, e)[i] = log[i]
      /\ Append(log, e)[Len(log) + 1] = e
  BY AppendProperties
<1>2. DOMAIN log = 1..Len(log) /\ DOMAIN Append(log, e) = 1..Len(log) + 1
  BY <1>1, LenProperties
<1> QED
  BY <1>1, <1>2 DEF Events

\* The event itself is one of its sort, and the last.
LEMMA EventsOfItsSort ==
  ASSUME NEW log \in Seq(Entries), NEW e \in Entries
  PROVE  /\ Events(Append(log, e), e.ev) = Events(log, e.ev) \cup {Len(log) + 1}
         /\ \A i \in Events(log, e.ev) : Append(log, e)[i] = log[i]
         /\ Append(log, e)[Len(log) + 1] = e
<1>1. /\ Append(log, e) \in Seq(Entries) /\ Len(Append(log, e)) = Len(log) + 1 /\ Len(log) \in Nat
      /\ \A i \in 1..Len(log) : Append(log, e)[i] = log[i]
      /\ Append(log, e)[Len(log) + 1] = e
  BY AppendProperties
<1>2. DOMAIN log = 1..Len(log) /\ DOMAIN Append(log, e) = 1..Len(log) + 1
  BY <1>1, LenProperties
<1> QED
  BY <1>1, <1>2 DEF Events

\* Events are places in the log.
LEMMA EventsArePlaces ==
  ASSUME NEW log \in Seq(Entries), NEW ev
  PROVE  /\ Events(log, ev) \subseteq 1..Len(log) /\ IsFiniteSet(Events(log, ev))
         /\ Cardinality(Events(log, ev)) \in Nat
         /\ \A i \in Events(log, ev) : log[i] \in Entries /\ log[i].ev = ev
<1>1. DOMAIN log = 1..Len(log) /\ Len(log) \in Nat /\ \A i \in 1..Len(log) : log[i] \in Entries
  BY LenProperties, ElementOfSeq
<1>2. Events(log, ev) \subseteq 1..Len(log) /\ \A i \in Events(log, ev) : log[i].ev = ev
  BY <1>1, Zenon DEF Events
<1>3. IsFiniteSet(1..Len(log))
  BY <1>1, FS_Interval
<1> QED
  BY <1>1, <1>2, <1>3, FS_Subset, FS_CardinalityType

\* A turn after an event is logged that is not a call.
LEMMA LoggedKeeps ==
  ASSUME NEW t, TurnOK(t), NEW e \in Entries, e.ev # "tool"
  PROVE  /\ TurnOK(Logged(t, e)) /\ Ahead(Logged(t, e))
         /\ Logged(t, e).id = t.id /\ Logged(t, e).usageStop = t.usageStop
         /\ Logged(t, e).log = Append(t.log, e)
<1> DEFINE u == Logged(t, e)
<1>1. Placed(t) /\ t \in TurnSet
  BY DEF TurnOK, Placed
<1>2. /\ t.blocks \in Seq(Blocks) /\ t.tools \in Seq(Tools) /\ t.log \in Seq(Entries)
      /\ t.signals \in Seq(Signals) /\ t.pending \in Seq(Signals) /\ Len(t.log) \in Nat
  BY <1>1, TurnParts
<1>3. /\ u \in TurnSet /\ u.blocks = t.blocks /\ u.tools = t.tools /\ u.signals = t.signals
      /\ u.pending = t.pending /\ u.early = t.early /\ u.anonOpen = t.anonOpen
      /\ u.id = t.id /\ u.usageStop = t.usageStop /\ u.log = Append(t.log, e)
  <2>1. Append(t.log, e) \in Seq(Entries)
    BY <1>2, AppendProperties
  <2> QED
    BY <1>1, <2>1 DEF TurnSet, Logged
<1>4. Len(u.log) = Len(t.log) + 1
  BY <1>2, <1>3, AppendProperties
<1>5. /\ Events(u.log, "tool") = Events(t.log, "tool")
      /\ \A i \in Events(t.log, "tool") : u.log[i] = t.log[i]
      /\ Events(t.log, "tool") \subseteq 1..Len(t.log)
  BY <1>2, <1>3, EventsOfOthers, EventsArePlaces
<1> HIDE DEF u
<1>6. BlocksOK(u.blocks, Len(u.log))
  BY <1>1, <1>2, <1>3, <1>4 DEF Placed, BlocksOK
<1>7. SignalsOK(u.blocks, u.signals, Len(u.log)) /\ SignalsOK(u.blocks, u.pending, Len(u.log))
  BY <1>1, <1>2, <1>3, <1>4 DEF Placed, SignalsOK
<1>8. CalledOK(u.blocks, u.tools, u.log)
  BY <1>1, <1>3, <1>5 DEF Placed, CalledOK
<1>9. LastCalled(u.tools, u.log)
  BY <1>1, <1>3, <1>5 DEF Placed, LastCalled
<1>10. CallsOK(u.tools, u.log)
  <2>1. CallsOK(t.tools, t.log)
    BY <1>1 DEF Placed
  <2>2. SameCalls(u.log, t.log)
    BY <1>5 DEF SameCalls
  <2>3. SameIds(u.tools, t.tools)
    BY <1>3 DEF SameIds
  <2> QED
    BY <2>1, <2>2, <2>3, CallsAs
<1>11. Ahead(u)
  BY <1>1, <1>2, <1>3, <1>4, <1>5 DEF Placed, SignalsOK, CalledOK, Ahead
<1>12. TurnOK(u)
  BY <1>1, <1>3, <1>6, <1>7, <1>8, <1>9, <1>10 DEF TurnOK, Placed, Bounded
<1> QED
  BY <1>3, <1>11, <1>12 DEF u

\* Signals keep their place when blocks change only at their end.
LEMMA SignalsStay ==
  ASSUME NEW blocks, NEW grown, NEW sigs, NEW n \in Nat,
         SignalsOK(blocks, sigs, n),
         \A i \in 1..Len(sigs) : ~sigs[i].byTool =>
            (Split(blocks, sigs[i].at, sigs[i].raised) => Split(grown, sigs[i].at, sigs[i].raised))
  PROVE  SignalsOK(grown, sigs, n)
BY DEF SignalsOK

\* addDelta keeps a turn what it is.
LEMMA AddDeltaKeeps ==
  ASSUME NEW t, TurnOK(t), Ahead(t), NEW d \in Deltas
  PROVE  TurnOK(AddDelta(t, d)) /\ SameTurn(AddDelta(t, d), t)
<1> DEFINE n == Len(t.log)
           parts == IF d.blank THEN {} ELSE {Here(t)}
           into  == IF d.block # "" THEN {i \in DOMAIN t.blocks : t.blocks[i].id = d.block}
                    ELSE IF t.anonOpen THEN {Len(t.blocks)} ELSE {}
           more(b) == [b EXCEPT !.parts = @ \cup parts, !.final = @ \/ d.final]
           grown == [i \in DOMAIN t.blocks |->
                        IF i \notin into THEN t.blocks[i]
                        ELSE [t.blocks[i] EXCEPT !.parts = @ \cup parts, !.final = @ \/ d.final]]
           fresh == [id |-> d.block, final |-> d.final, parts |-> parts, begun |-> Here(t)]
           blocks == IF into = {} THEN Append(t.blocks, fresh) ELSE grown
           u == [t EXCEPT !.blocks = blocks, !.anonOpen = d.block = ""]
<1>0. AddDelta(t, d) = Trim(u)
  BY DEF AddDelta
<1>1. Placed(t) /\ t \in TurnSet
  BY DEF TurnOK, Placed
<1>2. /\ t.blocks \in Seq(Blocks) /\ t.tools \in Seq(Tools) /\ t.log \in Seq(Entries)
      /\ t.signals \in Seq(Signals) /\ t.pending \in Seq(Signals) /\ Len(t.log) \in Nat
      /\ Len(t.blocks) \in Nat /\ DOMAIN t.blocks = 1..Len(t.blocks)
  BY <1>1, TurnParts, LenProperties
<1>3. d.block \in {"", "b"} /\ d.final \in BOOLEAN /\ d.blank \in BOOLEAN
  BY DEF Deltas
<1>4. n \in Nat /\ n >= 1 /\ Here(t) = n /\ parts \subseteq {n}
  BY <1>2 DEF Here, Ahead
<1> HIDE DEF parts
<1>5. fresh \in Blocks /\ fresh.begun = n /\ fresh.id = d.block /\ fresh.parts = parts
  BY <1>3, <1>4 DEF Blocks
<1>6. ASSUME NEW b \in Blocks
      PROVE  /\ more(b) \in Blocks /\ more(b).begun = b.begun /\ more(b).id = b.id
             /\ more(b).parts = b.parts \cup parts
  <2>1. b.parts \cup parts \in SUBSET Nat /\ (b.final \/ d.final) \in BOOLEAN
    BY <1>3, <1>4 DEF Blocks
  <2> QED
    BY <2>1 DEF Blocks
<1>7. /\ grown \in Seq(Blocks) /\ Len(grown) = Len(t.blocks)
      /\ \A i \in 1..Len(t.blocks) :
            /\ grown[i].begun = t.blocks[i].begun /\ grown[i].id = t.blocks[i].id
            /\ grown[i].parts \subseteq t.blocks[i].parts \cup parts
  <2>1. \A i \in 1..Len(t.blocks) : t.blocks[i] \in Blocks
    BY <1>2, ElementOfSeq
  <2>2. \A i \in 1..Len(t.blocks) : grown[i] = IF i \notin into THEN t.blocks[i] ELSE more(t.blocks[i])
    BY <1>2, Zenon
  <2>3. grown \in [1..Len(t.blocks) -> Blocks]
    BY <1>2, <1>6, <2>1, Zenon
  <2> HIDE DEF grown, more, into
  <2>4. grown \in Seq(Blocks) /\ Len(grown) = Len(t.blocks)
    BY <1>2, <2>3, FunctionIsSeq
  <2> QED
    BY <1>6, <2>1, <2>2, <2>4
<1>8. /\ Append(t.blocks, fresh) \in Seq(Blocks) /\ Len(Append(t.blocks, fresh)) = Len(t.blocks) + 1
      /\ \A i \in 1..Len(t.blocks) : Append(t.blocks, fresh)[i] = t.blocks[i]
      /\ Append(t.blocks, fresh)[Len(t.blocks) + 1] = fresh
      /\ Append(t.blocks, fresh) # <<>>
  BY <1>2, <1>5, AppendProperties
<1> HIDE DEF grown, fresh, more
<1>9. blocks \in Seq(Blocks)
  BY <1>7, <1>8
<1>10. ASSUME NEW at, NEW point, point < n, Split(t.blocks, at, point)
       PROVE  Split(blocks, at, point)
  <2>1. CASE into = {}
    BY <1>2, <1>5, <1>10, <2>1, SplitAppend
  <2>2. CASE into # {}
    BY <1>7, <1>10, <2>2, SplitKept
  <2> QED
    BY <2>1, <2>2
<1>11. BlocksOK(blocks, n)
  <2>1. BlocksOK(t.blocks, n)
    BY <1>1 DEF Placed
  <2>2. BlocksOK(grown, n)
    <3>1. ASSUME NEW i \in 1..Len(grown)
          PROVE  grown[i].begun \in 1..n /\ grown[i].parts \subseteq grown[i].begun..n
      <4>1. /\ t.blocks[i].begun \in 1..n /\ t.blocks[i].parts \subseteq t.blocks[i].begun..n
            /\ grown[i].begun = t.blocks[i].begun
            /\ grown[i].parts \subseteq t.blocks[i].parts \cup parts
        BY <1>7, <2>1 DEF BlocksOK
      <4>2. parts \subseteq t.blocks[i].begun..n
        BY <1>4, <4>1
      <4> QED
        BY <4>1, <4>2
    <3> QED
      BY <3>1 DEF BlocksOK
  <2>3. BlocksOK(Append(t.blocks, fresh), n)
    <3>1. ASSUME NEW i \in 1..Len(t.blocks) + 1
          PROVE  /\ Append(t.blocks, fresh)[i].begun \in 1..n
                 /\ Append(t.blocks, fresh)[i].parts \subseteq Append(t.blocks, fresh)[i].begun..n
      <4>1. CASE i = Len(t.blocks) + 1
        BY <1>4, <1>5, <1>8, <4>1
      <4>2. CASE i # Len(t.blocks) + 1
        <5>1. i \in 1..Len(t.blocks)
          BY <1>2, <4>2
        <5> QED
          BY <1>8, <2>1, <5>1 DEF BlocksOK
      <4> QED
        BY <4>1, <4>2
    <3> QED
      BY <1>8, <3>1 DEF BlocksOK
  <2> QED
    BY <2>2, <2>3
<1>12. d.block = "" => blocks # <<>> /\ blocks[Len(blocks)].id = ""
  <2>1. CASE into = {}
    BY <1>2, <1>5, <1>8, <2>1
  <2>2. CASE into # {}
    <3>1. ASSUME d.block = "" PROVE blocks # <<>> /\ blocks[Len(blocks)].id = ""
      <4>1. t.anonOpen
        BY <2>2, <3>1
      <4>2. t.blocks # <<>> /\ t.blocks[Len(t.blocks)].id = ""
        BY <1>1, <4>1 DEF Placed, Bounded
      <4>3. Len(t.blocks) \in 1..Len(t.blocks)
        BY <1>2, <4>2, NonEmpty
      <4>4. grown # <<>>
        BY <1>7, <4>3, NonEmpty
      <4> QED
        BY <1>7, <2>2, <4>2, <4>3, <4>4
    <3> QED
      BY <3>1
  <2> QED
    BY <2>1, <2>2
<1> HIDE DEF blocks, into
<1>13. /\ u \in TurnSet /\ u.blocks = blocks /\ u.tools = t.tools /\ u.signals = t.signals
       /\ u.pending = t.pending /\ u.early = t.early /\ u.anonOpen = (d.block = "")
       /\ u.id = t.id /\ u.usageStop = t.usageStop /\ u.log = t.log
  BY <1>1, <1>9 DEF TurnSet
<1> HIDE DEF u
<1>14. SignalsOK(blocks, t.signals, n) /\ SignalsOK(blocks, t.pending, n)
  <2>1. SignalsOK(t.blocks, t.signals, n) /\ SignalsOK(t.blocks, t.pending, n)
    BY <1>1 DEF Placed
  <2>2. \A i \in 1..Len(t.signals) : ~t.signals[i].byTool =>
          (Split(t.blocks, t.signals[i].at, t.signals[i].raised)
             => Split(blocks, t.signals[i].at, t.signals[i].raised))
    BY <1>10 DEF Ahead
  <2>3. \A i \in 1..Len(t.pending) : ~t.pending[i].byTool =>
          (Split(t.blocks, t.pending[i].at, t.pending[i].raised)
             => Split(blocks, t.pending[i].at, t.pending[i].raised))
    BY <1>10 DEF Ahead
  <2> HIDE DEF n
  <2> QED
    BY <1>4, <2>1, <2>2, <2>3, SignalsStay
<1>15. CalledOK(blocks, t.tools, t.log)
  BY <1>1, <1>10 DEF Placed, CalledOK, Ahead
<1>16. Bounded(u)
  BY <1>1, <1>12, <1>13 DEF Placed, Bounded
<1>17. Placed(u)
  BY <1>1, <1>11, <1>13, <1>14, <1>15, <1>16 DEF Placed
<1>18. TurnOK(Trim(u)) /\ SameTurn(Trim(u), u)
  BY <1>17, TrimKeeps
<1> QED
  BY <1>0, <1>13, <1>18 DEF SameTurn, u

\* Ending a run of anonymous text changes nothing else.
LEMMA BoundaryKeeps ==
  ASSUME NEW t, TurnOK(t), Ahead(t)
  PROVE  /\ TurnOK(Boundary(t)) /\ Ahead(Boundary(t)) /\ SameTurn(Boundary(t), t)
<1>1. Placed(t) /\ t \in TurnSet
  BY DEF TurnOK, Placed
<1> DEFINE u == Boundary(t)
<1>2. /\ u \in TurnSet /\ u.blocks = t.blocks /\ u.tools = t.tools /\ u.signals = t.signals
      /\ u.pending = t.pending /\ u.early = t.early /\ ~u.anonOpen
      /\ u.id = t.id /\ u.usageStop = t.usageStop /\ u.log = t.log
  BY <1>1 DEF TurnSet, Boundary
<1> HIDE DEF u
<1>3. TurnOK(u)
  BY <1>1, <1>2 DEF TurnOK, Placed, Bounded
<1>4. Ahead(u)
  BY <1>2 DEF Ahead
<1> QED
  BY <1>2, <1>3, <1>4 DEF u, SameTurn

\* A signal that says truly where it was raised.
Standing(t, sig) ==
    /\ sig \in Signals
    /\ ~sig.byTool => sig.raised \in 0..Len(t.log) /\ Split(t.blocks, sig.at, sig.raised)

\* A signal raised now does.
LEMMA RaisedNow ==
  ASSUME NEW t, TurnOK(t), NEW kind \in Kinds, NEW said \in BOOLEAN, NEW byTool \in BOOLEAN,
         NEW id \in Named, NEW toolCall \in BOOLEAN
  PROVE  Standing(t, Signal(t, kind, said, byTool, id, toolCall))
<1>1. Placed(t) /\ t \in TurnSet
  BY DEF TurnOK, Placed
<1>2. t.blocks \in Seq(Blocks) /\ Len(t.blocks) \in Nat /\ Len(t.log) \in Nat /\ t.seq \in Nat
  BY <1>1, TurnParts
<1>3. Split(t.blocks, Len(t.blocks), Len(t.log))
  BY <1>1, <1>2, SplitHere DEF Placed
<1> DEFINE s == Signal(t, kind, said, byTool, id, toolCall)
<1>4. /\ s \in Signals /\ s.at = Len(t.blocks) /\ s.raised = Len(t.log)
  BY <1>2 DEF Signal, Signals, Here
<1> HIDE DEF s
<1>5. Standing(t, s)
  BY <1>2, <1>3, <1>4 DEF Standing
<1> QED
  BY <1>5 DEF s

\* A bounded queue of signals keeps their places when one is added.
LEMMA SignalAdded ==
  ASSUME NEW t, TurnOK(t), NEW sig, Standing(t, sig), NEW max \in Nat \ {0},
         NEW sigs \in Seq(Signals), SignalsOK(t.blocks, sigs, Len(t.log))
  PROVE  /\ AtMost(Append(sigs, sig), max) \in Seq(Signals)
         /\ Len(AtMost(Append(sigs, sig), max)) <= max
         /\ SignalsOK(t.blocks, AtMost(Append(sigs, sig), max), Len(t.log))
<1> DEFINE q == AtMost(Append(sigs, sig), max)
<1>0. sig \in Signals
  BY DEF Standing
<1>1. /\ q \in Seq(Signals) /\ Len(q) \in 1..max
      /\ q[Len(q)] = sig
      /\ \A i \in 1..Len(q) : i # Len(q) =>
            i + Len(sigs) + 1 - Len(q) \in 1..Len(sigs) /\ q[i] = sigs[i + Len(sigs) + 1 - Len(q)]
  <2>1. q = AtMost(Append(sigs, sig), max)
    OBVIOUS
  <2> HIDE DEF q
  <2>2. IsPushed(Signals, q, sigs, sig, max)
    BY <1>0, <2>1, Pushed
  <2> QED
    BY <2>2 DEF IsPushed
<1> HIDE DEF q
<1>2. ASSUME NEW i \in 1..Len(q), ~q[i].byTool
      PROVE  q[i].raised \in 0..Len(t.log) /\ Split(t.blocks, q[i].at, q[i].raised)
  <2>1. CASE i = Len(q)
    BY <1>1, <1>2, <2>1 DEF Standing
  <2>2. CASE i # Len(q)
    BY <1>1, <1>2, <2>2 DEF SignalsOK
  <2> QED
    BY <2>1, <2>2
<1>3. SignalsOK(t.blocks, q, Len(t.log))
  BY <1>2 DEF SignalsOK
<1>4. Len(q) <= max
  BY <1>1
<1> QED
  BY <1>1, <1>3, <1>4 DEF q

\* addSignal, and the queue of requests, keep a turn what it is.
LEMMA AddSignalKeeps ==
  ASSUME NEW t, TurnOK(t), NEW sig, Standing(t, sig)
  PROVE  TurnOK(AddSignal(t, sig)) /\ SameTurn(AddSignal(t, sig), t)
<1>1. Placed(t) /\ t \in TurnSet
  BY DEF TurnOK, Placed
<1> DEFINE q == AtMost(Append(t.signals, sig), MaxSignals)
           u == [t EXCEPT !.signals = q]
<1>2. q \in Seq(Signals) /\ Len(q) <= MaxSignals /\ SignalsOK(t.blocks, q, Len(t.log))
  BY <1>1, SignalAdded, TurnParts, ConstantFacts DEF Placed
<1>3. AddSignal(t, sig) = u
  BY DEF AddSignal
<1> HIDE DEF q
<1>4. /\ u \in TurnSet /\ u.blocks = t.blocks /\ u.tools = t.tools /\ u.signals = q
      /\ u.pending = t.pending /\ u.early = t.early /\ u.anonOpen = t.anonOpen
      /\ u.id = t.id /\ u.usageStop = t.usageStop /\ u.log = t.log
  BY <1>1, <1>2 DEF TurnSet
<1> HIDE DEF u
<1>5. TurnOK(u)
  BY <1>1, <1>2, <1>4 DEF TurnOK, Placed, Bounded
<1> QED
  BY <1>3, <1>4, <1>5 DEF SameTurn

\* A request waits where it was raised.
LEMMA RequestKeeps ==
  ASSUME NEW t, TurnOK(t)
  PROVE  TurnOK(Request(t)) /\ SameTurn(Request(t), t)
<1>1. Placed(t) /\ t \in TurnSet
  BY DEF TurnOK, Placed
<1> DEFINE sig == Signal(t, "approval", TRUE, FALSE, "", FALSE)
           q == AtMost(Append(t.pending, sig), MaxPending)
           u == [t EXCEPT !.pending = q]
<1>2. Standing(t, sig)
  BY RaisedNow DEF Kinds, Named
<1> HIDE DEF sig
<1>3. q \in Seq(Signals) /\ Len(q) <= MaxPending /\ SignalsOK(t.blocks, q, Len(t.log))
  BY <1>1, <1>2, SignalAdded, TurnParts, ConstantFacts DEF Placed
<1>4. Request(t) = u
  BY DEF Request, sig
<1> HIDE DEF q
<1>5. /\ u \in TurnSet /\ u.blocks = t.blocks /\ u.tools = t.tools /\ u.signals = t.signals
      /\ u.pending = q /\ u.early = t.early /\ u.anonOpen = t.anonOpen
      /\ u.id = t.id /\ u.usageStop = t.usageStop /\ u.log = t.log
  BY <1>1, <1>3 DEF TurnSet
<1> HIDE DEF u
<1>6. TurnOK(u)
  BY <1>1, <1>3, <1>5 DEF TurnOK, Placed, Bounded
<1> QED
  BY <1>4, <1>5, <1>6 DEF SameTurn

\* Calls whose facts change are the same calls.
LEMMA ToolsWithFacts ==
  ASSUME NEW s \in Seq(Tools), NEW I, NEW f \in Facts
  PROVE  /\ WithFacts(s, I, f) \in Seq(Tools) /\ Len(WithFacts(s, I, f)) = Len(s)
         /\ \A i \in 1..Len(s) :
               /\ WithFacts(s, I, f)[i].id = s[i].id
               /\ WithFacts(s, I, f)[i].blocksAt = s[i].blocksAt
               /\ WithFacts(s, I, f)[i].seq = s[i].seq
               /\ WithFacts(s, I, f)[i].question = s[i].question
               /\ WithFacts(s, I, f)[i].called = s[i].called
               /\ WithFacts(s, I, f)[i].facts = IF i \in I THEN f ELSE s[i].facts
<1>1. DOMAIN s = 1..Len(s) /\ Len(s) \in Nat /\ \A i \in 1..Len(s) : s[i] \in Tools
  BY LenProperties, ElementOfSeq
<1> DEFINE w == WithFacts(s, I, f)
<1>2. \A x \in Tools : [x EXCEPT !.facts = f] \in Tools
  BY DEF Tools
<1>3. w \in [1..Len(s) -> Tools]
  BY <1>1, <1>2, Zenon DEF WithFacts
<1>4. \A i \in 1..Len(s) : w[i] = IF i \in I THEN [s[i] EXCEPT !.facts = f] ELSE s[i]
  BY <1>1, Zenon DEF WithFacts
<1> HIDE DEF w
<1>5. w \in Seq(Tools) /\ Len(w) = Len(s)
  BY <1>1, <1>3, FunctionIsSeq
<1>6. \A x \in Tools : LET y == [x EXCEPT !.facts = f] IN
         /\ y.id = x.id /\ y.blocksAt = x.blocksAt /\ y.seq = x.seq /\ y.question = x.question
         /\ y.called = x.called /\ y.facts = f
  BY DEF Tools
<1>7. ASSUME NEW i \in 1..Len(s)
      PROVE  /\ w[i].id = s[i].id /\ w[i].blocksAt = s[i].blocksAt /\ w[i].seq = s[i].seq
             /\ w[i].question = s[i].question /\ w[i].called = s[i].called
             /\ w[i].facts = IF i \in I THEN f ELSE s[i].facts
  <2>1. CASE i \in I
    <3>1. w[i] = [s[i] EXCEPT !.facts = f] /\ s[i] \in Tools
      BY <1>1, <1>4, <2>1
    <3> QED
      BY <1>6, <2>1, <3>1, Zenon
  <2>2. CASE i \notin I
    BY <1>4, <2>2
  <2> QED
    BY <2>1, <2>2
<1> QED
  BY <1>5, <1>7 DEF w

\* ... and so are the places their facts wait at.
LEMMA EarliesWithFacts ==
  ASSUME NEW s \in Seq(Earlies), NEW I, NEW f \in Facts
  PROVE  /\ WithFacts(s, I, f) \in Seq(Earlies) /\ Len(WithFacts(s, I, f)) = Len(s)
         /\ \A i \in 1..Len(s) :
               /\ WithFacts(s, I, f)[i].id = s[i].id
               /\ WithFacts(s, I, f)[i].facts = IF i \in I THEN f ELSE s[i].facts
<1>1. DOMAIN s = 1..Len(s) /\ Len(s) \in Nat /\ \A i \in 1..Len(s) : s[i] \in Earlies
  BY LenProperties, ElementOfSeq
<1> DEFINE w == WithFacts(s, I, f)
<1>2. \A x \in Earlies : [x EXCEPT !.facts = f] \in Earlies
  BY DEF Earlies
<1>3. w \in [1..Len(s) -> Earlies]
  BY <1>1, <1>2, Zenon DEF WithFacts
<1>4. \A i \in 1..Len(s) : w[i] = IF i \in I THEN [s[i] EXCEPT !.facts = f] ELSE s[i]
  BY <1>1, Zenon DEF WithFacts
<1> HIDE DEF w
<1>5. w \in Seq(Earlies) /\ Len(w) = Len(s)
  BY <1>1, <1>3, FunctionIsSeq
<1>6. \A x \in Earlies : LET y == [x EXCEPT !.facts = f] IN y.id = x.id /\ y.facts = f
  BY DEF Earlies
<1>7. ASSUME NEW i \in 1..Len(s)
      PROVE  w[i].id = s[i].id /\ w[i].facts = IF i \in I THEN f ELSE s[i].facts
  <2>1. CASE i \in I
    <3>1. w[i] = [s[i] EXCEPT !.facts = f] /\ s[i] \in Earlies
      BY <1>1, <1>4, <2>1
    <3> QED
      BY <1>6, <2>1, <3>1, Zenon
  <2>2. CASE i \notin I
    BY <1>4, <2>2
  <2> QED
    BY <2>1, <2>2
<1> QED
  BY <1>5, <1>7 DEF w

\* A turn in which the facts of calls change, and what else does not matter to
\* the places of its signals and calls.
LEMMA CallsKept ==
  ASSUME NEW t, TurnOK(t), NEW u \in TurnSet, SameTurn(u, t),
         u.blocks = t.blocks, u.signals = t.signals, u.pending = t.pending,
         u.anonOpen = t.anonOpen,
         Len(u.tools) = Len(t.tools), Len(u.early) <= MaxEarly,
         \A i \in 1..Len(t.tools) : /\ u.tools[i].id = t.tools[i].id
                                    /\ u.tools[i].blocksAt = t.tools[i].blocksAt
                                    /\ u.tools[i].called = t.tools[i].called
  PROVE  TurnOK(u)
<1>1. Placed(t) /\ t \in TurnSet
  BY DEF TurnOK, Placed
<1>2. /\ t.tools \in Seq(Tools) /\ u.tools \in Seq(Tools) /\ Len(t.tools) \in Nat
      /\ u.log = t.log
  BY <1>1, TurnParts DEF SameTurn
<1>3. (u.tools = <<>> <=> t.tools = <<>>) /\ (t.tools # <<>> => Len(t.tools) \in 1..Len(t.tools))
  BY <1>2, NonEmpty
<1>4. CalledOK(u.blocks, u.tools, u.log)
  BY <1>1, <1>2 DEF Placed, CalledOK
<1>5. LastCalled(u.tools, u.log)
  BY <1>1, <1>2, <1>3 DEF Placed, LastCalled
<1>6. CallsOK(u.tools, u.log)
  <2>1. CallsOK(t.tools, t.log)
    BY <1>1 DEF Placed
  <2>2. SameIds(u.tools, t.tools)
    BY DEF SameIds
  <2>3. SameCalls(u.log, t.log)
    BY <1>2 DEF SameCalls
  <2> QED
    BY <2>1, <2>2, <2>3, CallsAs
<1>7. Bounded(u)
  BY <1>1 DEF Placed, Bounded
<1> QED
  BY <1>1, <1>2, <1>4, <1>5, <1>6, <1>7 DEF TurnOK, Placed

\* Where the facts of a call are looked for.
LEMMA IndexFacts ==
  ASSUME NEW t \in TurnSet, NEW id
  PROVE  /\ ToolIndex(t, id) \subseteq 1..Len(t.tools)
         /\ EarlyIndex(t, id) \subseteq 1..Len(t.early)
         /\ \A i \in ToolIndex(t, id) : t.tools[i].id = id
         /\ \A i, j \in ToolIndex(t, id) : i = j
<1>1. /\ DOMAIN t.tools = 1..Len(t.tools) /\ DOMAIN t.early = 1..Len(t.early)
      /\ Len(t.tools) \in Nat
  BY TurnParts, LenProperties
<1>2. EarlyIndex(t, id) \subseteq 1..Len(t.early)
  BY <1>1, Zenon DEF EarlyIndex
<1>3. /\ ToolIndex(t, id) \subseteq 1..Len(t.tools)
      /\ \A i \in ToolIndex(t, id) : t.tools[i].id = id
      /\ \A i, j \in ToolIndex(t, id) : j <= i
  BY <1>1, Zenon DEF ToolIndex
<1>4. \A i, j \in ToolIndex(t, id) : i \in Int /\ j \in Int /\ i <= j /\ j <= i
  BY <1>1, <1>3
<1>5. \A i, j \in ToolIndex(t, id) : i = j
  BY <1>4
<1> QED
  BY <1>2, <1>3, <1>5

\* The facts of a call are facts.
LEMMA FactsForType ==
  ASSUME NEW t \in TurnSet, NEW id
  PROVE  FactsFor(t, id) \in Facts
<1>1. /\ t.tools \in Seq(Tools) /\ t.early \in Seq(Earlies)
  BY TurnParts
<1>2. \A i \in 1..Len(t.tools) : t.tools[i].facts \in Facts
  <2>1. \A i \in 1..Len(t.tools) : t.tools[i] \in Tools
    BY <1>1, ElementOfSeq
  <2> QED
    BY <2>1 DEF Tools
<1>3. \A i \in 1..Len(t.early) : t.early[i].facts \in Facts
  <2>1. \A i \in 1..Len(t.early) : t.early[i] \in Earlies
    BY <1>1, ElementOfSeq
  <2> QED
    BY <2>1 DEF Earlies
<1>4. ToolIndex(t, id) # {} => t.tools[CHOOSE i \in ToolIndex(t, id) : TRUE].facts \in Facts
  BY <1>2, IndexFacts
<1>5. EarlyIndex(t, id) # {} => t.early[CHOOSE i \in EarlyIndex(t, id) : TRUE].facts \in Facts
  BY <1>3, IndexFacts
<1>6. NoFacts \in Facts
  BY DEF NoFacts, Facts
<1> QED
  BY <1>4, <1>5, <1>6 DEF FactsFor

\* factsFor keeps a turn what it is, whatever is learned.
LEMMA SetFactsKeeps ==
  ASSUME NEW t, TurnOK(t), NEW id \in CallIds, NEW f \in Facts
  PROVE  /\ TurnOK(SetFacts(t, id, f)) /\ SameTurn(SetFacts(t, id, f), t)
         /\ SetFacts(t, id, f).signals = t.signals /\ SetFacts(t, id, f).pending = t.pending
         /\ SetFacts(t, id, f).blocks = t.blocks
<1>1. Placed(t) /\ t \in TurnSet
  BY DEF TurnOK, Placed
<1>2. t.tools \in Seq(Tools) /\ t.early \in Seq(Earlies) /\ Len(t.tools) \in Nat /\ Len(t.early) <= MaxEarly
  BY <1>1, TurnParts DEF Placed, Bounded
<1>3. CASE ToolIndex(t, id) # {}
  <2> DEFINE w == WithFacts(t.tools, ToolIndex(t, id), f)
             u == [t EXCEPT !.tools = w]
  <2>1. SetFacts(t, id, f) = u
    BY <1>3 DEF SetFacts
  <2>2. /\ w \in Seq(Tools) /\ Len(w) = Len(t.tools)
        /\ \A i \in 1..Len(t.tools) : /\ w[i].id = t.tools[i].id /\ w[i].blocksAt = t.tools[i].blocksAt
                                      /\ w[i].called = t.tools[i].called
    BY <1>2, ToolsWithFacts
  <2> HIDE DEF w
  <2>3. /\ u \in TurnSet /\ u.blocks = t.blocks /\ u.tools = w /\ u.signals = t.signals
        /\ u.pending = t.pending /\ u.early = t.early /\ u.anonOpen = t.anonOpen
        /\ u.id = t.id /\ u.usageStop = t.usageStop /\ u.log = t.log
    BY <1>1, <2>2 DEF TurnSet
  <2> HIDE DEF u
  <2>4. SameTurn(u, t)
    BY <2>3 DEF SameTurn
  <2>5. TurnOK(u)
    BY <1>2, <2>2, <2>3, <2>4, CallsKept
  <2> QED
    BY <2>1, <2>3, <2>4, <2>5
<1>4. CASE ToolIndex(t, id) = {}
  <2> DEFINE w == IF EarlyIndex(t, id) # {} THEN WithFacts(t.early, EarlyIndex(t, id), f)
                  ELSE AtMost(Append(t.early, [id |-> id, facts |-> f]), MaxEarly)
             u == [t EXCEPT !.early = w]
  <2>1. SetFacts(t, id, f) = u
    BY <1>4 DEF SetFacts
  <2>2. w \in Seq(Earlies) /\ Len(w) <= MaxEarly
    <3>1. CASE EarlyIndex(t, id) # {}
      BY <1>2, <3>1, EarliesWithFacts
    <3>2. CASE EarlyIndex(t, id) = {}
      <4> DEFINE e == [id |-> id, facts |-> f]
      <4>1. e \in Earlies
        BY DEF Earlies
      <4>2. IsPushed(Earlies, AtMost(Append(t.early, e), MaxEarly), t.early, e, MaxEarly)
        <5> HIDE DEF e
        <5> QED
          BY <1>2, <4>1, Pushed, ConstantFacts
      <4> QED
        BY <3>2, <4>2, ConstantFacts DEF IsPushed
    <3> QED
      BY <3>1, <3>2
  <2> HIDE DEF w
  <2>3. /\ u \in TurnSet /\ u.blocks = t.blocks /\ u.tools = t.tools /\ u.signals = t.signals
        /\ u.pending = t.pending /\ u.early = w /\ u.anonOpen = t.anonOpen
        /\ u.id = t.id /\ u.usageStop = t.usageStop /\ u.log = t.log
    BY <1>1, <2>2 DEF TurnSet
  <2> HIDE DEF u
  <2>4. SameTurn(u, t)
    BY <2>3 DEF SameTurn
  <2>5. TurnOK(u)
    BY <1>2, <2>2, <2>3, <2>4, CallsKept
  <2> QED
    BY <2>1, <2>3, <2>4, <2>5
<1> QED
  BY <1>3, <1>4

\* toolResult keeps a turn what it is.
LEMMA ToolResultKeeps ==
  ASSUME NEW t, TurnOK(t), NEW id \in CallIds, NEW isError \in BOOLEAN
  PROVE  TurnOK(ToolResult(t, id, isError)) /\ SameTurn(ToolResult(t, id, isError), t)
<1>1. Placed(t) /\ t \in TurnSet /\ t.seq \in Nat
  BY TurnParts DEF TurnOK, Placed
<1>2. CASE id = "" \/ FactsFor(t, id).has
  BY <1>2 DEF ToolResult, SameTurn
<1>3. CASE ~ (id = "" \/ FactsFor(t, id).has)
  <2> DEFINE u == [t EXCEPT !.seq = @ + 1]
             f == [FactsFor(t, id) EXCEPT !.has = TRUE, !.isError = isError, !.at = t.seq + 1]
  <2>1. ToolResult(t, id, isError) = SetFacts(u, id, f)
    BY <1>3 DEF ToolResult
  <2>2. f \in Facts
    <3>1. FactsFor(t, id) \in Facts
      BY <1>1, FactsForType
    <3>2. \A g \in Facts, n \in Nat :
            [g EXCEPT !.has = TRUE, !.isError = isError, !.at = n] \in Facts
      BY DEF Facts
    <3>3. t.seq + 1 \in Nat
      BY <1>1
    <3> QED
      BY <3>1, <3>2, <3>3, Zenon
  <2> HIDE DEF f
  <2>3. /\ u \in TurnSet /\ u.blocks = t.blocks /\ u.tools = t.tools /\ u.signals = t.signals
        /\ u.pending = t.pending /\ u.early = t.early /\ u.anonOpen = t.anonOpen
        /\ u.id = t.id /\ u.usageStop = t.usageStop /\ u.log = t.log
    <3>1. \A n \in Nat : [t EXCEPT !.seq = n] \in TurnSet
      BY <1>1 DEF TurnSet
    <3>2. t.seq + 1 \in Nat
      BY <1>1
    <3>3. u \in TurnSet
      BY <3>1, <3>2
    <3> QED
      BY <1>1, <3>3 DEF TurnSet
  <2> HIDE DEF u
  <2>4. TurnOK(u) /\ SameTurn(u, t)
    BY <1>1, <2>3, CallsKept DEF SameTurn, Placed, Bounded
  <2>5. TurnOK(SetFacts(u, id, f)) /\ SameTurn(SetFacts(u, id, f), u)
    BY <2>2, <2>4, SetFactsKeeps
  <2> QED
    BY <2>1, <2>4, <2>5 DEF SameTurn
<1> QED
  BY <1>2, <1>3

\* raiseApproval keeps a turn what it is: its signal stands where the call does.
LEMMA RaiseApprovalKeeps ==
  ASSUME NEW t, TurnOK(t), NEW id \in Named
  PROVE  TurnOK(RaiseApproval(t, id)) /\ SameTurn(RaiseApproval(t, id), t)
<1> DEFINE f == [FactsFor(t, id) EXCEPT !.refused = TRUE]
           u == IF id = "" THEN t ELSE SetFacts(t, id, f)
           s == Signal(u, "approval", TRUE, TRUE, id, FALSE)
           sig == [s EXCEPT !.at = 0, !.seq = 0]
<1>1. t \in TurnSet
  BY DEF TurnOK, Placed
<1>2. f \in Facts
  <2>1. FactsFor(t, id) \in Facts
    BY <1>1, FactsForType
  <2> QED
    BY <2>1 DEF Facts
<1>3. RaiseApproval(t, id) = AddSignal(u, sig)
  BY DEF RaiseApproval
<1> HIDE DEF f
<1>4. TurnOK(u) /\ SameTurn(u, t)
  <2>1. CASE id = ""
    BY <2>1 DEF SameTurn
  <2>2. CASE id # ""
    BY <1>2, <2>2, SetFactsKeeps DEF Named
  <2> QED
    BY <2>1, <2>2
<1> HIDE DEF u
<1>5. s \in Signals /\ s.byTool
  BY <1>4, RaisedNow DEF Standing, Kinds, Signal
<1> HIDE DEF s
<1>6. sig \in Signals /\ sig.byTool
  BY <1>5 DEF Signals
<1> HIDE DEF sig
<1>7. Standing(u, sig)
  BY <1>6 DEF Standing
<1>8. TurnOK(AddSignal(u, sig)) /\ SameTurn(AddSignal(u, sig), u)
  BY <1>4, <1>7, AddSignalKeeps
<1> QED
  BY <1>3, <1>4, <1>8 DEF SameTurn

\* resolve keeps a turn what it is: a refused request stands where it was made.
LEMMA ResolveKeeps ==
  ASSUME NEW t, TurnOK(t), NEW request, NEW allowed \in BOOLEAN
  PROVE  TurnOK(Resolve(t, request, allowed)) /\ SameTurn(Resolve(t, request, allowed), t)
<1> DEFINE named == {i \in DOMAIN t.pending : t.pending[i].raised = request}
           i     == IF named # {} THEN Min(named) ELSE 1
           sig   == IF t.pending = <<>> THEN Signal(t, "approval", TRUE, FALSE, "", FALSE)
                    ELSE t.pending[i]
           u     == IF t.pending = <<>> THEN t ELSE [t EXCEPT !.pending = RemoveAt(@, i)]
<1>1. Placed(t) /\ t \in TurnSet
  BY DEF TurnOK, Placed
<1>2. /\ t.pending \in Seq(Signals) /\ Len(t.pending) \in Nat /\ DOMAIN t.pending = 1..Len(t.pending)
      /\ SignalsOK(t.blocks, t.pending, Len(t.log)) /\ Len(t.pending) <= MaxPending
  BY <1>1, TurnParts, LenProperties DEF Placed, Bounded
<1>3. Resolve(t, request, allowed) = IF allowed THEN u ELSE AddSignal(u, sig)
  BY DEF Resolve
<1>4. CASE t.pending = <<>>
  <2>1. u = t /\ sig = Signal(t, "approval", TRUE, FALSE, "", FALSE)
    BY <1>4
  <2>2. Standing(t, Signal(t, "approval", TRUE, FALSE, "", FALSE))
    BY RaisedNow DEF Kinds, Named
  <2> HIDE DEF u, sig
  <2>3. Standing(u, sig)
    BY <2>1, <2>2
  <2>4. TurnOK(u) /\ SameTurn(u, t)
    BY <2>1 DEF SameTurn
  <2>5. TurnOK(AddSignal(u, sig)) /\ SameTurn(AddSignal(u, sig), u)
    BY <2>3, <2>4, AddSignalKeeps
  <2> QED
    BY <1>3, <2>4, <2>5 DEF SameTurn
<1>5. CASE t.pending # <<>>
  <2>1. i \in 1..Len(t.pending)
    <3>1. 1 \in 1..Len(t.pending)
      BY <1>2, <1>5, NonEmpty
    <3>2. named # {} => Min(named) \in named
      <4>1. named \subseteq Nat
        BY <1>2
      <4> HIDE DEF named
      <4> QED
        BY <4>1, MinIsFirst
    <3> QED
      BY <1>2, <3>1, <3>2
  <2> HIDE DEF i
  <2> DEFINE q == RemoveAt(t.pending, i)
  <2>2. /\ q \in Seq(Signals) /\ Len(q) = Len(t.pending) - 1
        /\ \A j \in 1..Len(t.pending) - 1 : q[j] = IF j < i THEN t.pending[j] ELSE t.pending[j + 1]
    BY <1>2, <2>1, Removed
  <2>3. sig = t.pending[i] /\ u = [t EXCEPT !.pending = q]
    BY <1>5
  <2> HIDE DEF q, sig, u
  <2>4. /\ u \in TurnSet /\ u.blocks = t.blocks /\ u.tools = t.tools /\ u.signals = t.signals
        /\ u.pending = q /\ u.early = t.early /\ u.anonOpen = t.anonOpen
        /\ u.id = t.id /\ u.usageStop = t.usageStop /\ u.log = t.log
    BY <1>1, <2>2, <2>3 DEF TurnSet
  <2>5. SignalsOK(t.blocks, q, Len(t.log))
    <3>1. ASSUME NEW j \in 1..Len(q), ~q[j].byTool
          PROVE  q[j].raised \in 0..Len(t.log) /\ Split(t.blocks, q[j].at, q[j].raised)
      <4>1. PICK k \in 1..Len(t.pending) : q[j] = t.pending[k]
        <5>1. j \in 1..Len(t.pending) - 1 /\ j \in 1..Len(t.pending) /\ j + 1 \in 1..Len(t.pending)
          BY <1>2, <2>2
        <5> QED
          BY <2>2, <5>1
      <4> QED
        BY <1>2, <3>1, <4>1 DEF SignalsOK
    <3> QED
      BY <3>1 DEF SignalsOK
  <2>6. TurnOK(u) /\ SameTurn(u, t)
    <3>1. Len(q) <= MaxPending
      BY <1>2, <2>2, ConstantFacts
    <3> QED
      BY <1>1, <2>4, <2>5, <3>1 DEF TurnOK, Placed, Bounded, SameTurn
  <2>7. Standing(u, sig)
    <3>1. t.pending[i] \in Signals
      BY <1>2, <2>1, ElementOfSeq
    <3> QED
      BY <1>2, <2>1, <2>3, <2>4, <3>1 DEF Standing, SignalsOK
  <2> QED
    BY <1>3, <2>6, <2>7, AddSignalKeeps DEF SameTurn
<1> QED
  BY <1>4, <1>5

\* forgetEarly takes one entry out, or none.
LEMMA ForgetEarlyKeeps ==
  ASSUME NEW t \in TurnSet, NEW id, Len(t.early) <= MaxEarly
  PROVE  /\ ForgetEarly(t, id) \in TurnSet /\ Len(ForgetEarly(t, id).early) <= MaxEarly
         /\ ForgetEarly(t, id) = [t EXCEPT !.early = ForgetEarly(t, id).early]
<1>1. t.early \in Seq(Earlies) /\ Len(t.early) \in Nat
  BY TurnParts
<1>2. CASE EarlyIndex(t, id) = {}
  <2>1. [t EXCEPT !.early = t.early] = t
    BY DEF TurnSet
  <2> QED
    BY <1>2, <2>1 DEF ForgetEarly
<1>3. CASE EarlyIndex(t, id) # {}
  <2> DEFINE i == CHOOSE i \in EarlyIndex(t, id) : TRUE
             q == RemoveAt(t.early, i)
  <2>1. i \in 1..Len(t.early)
    BY <1>3, IndexFacts
  <2> HIDE DEF i
  <2>2. q \in Seq(Earlies) /\ Len(q) = Len(t.early) - 1
    BY <1>1, <2>1, Removed
  <2>3. ForgetEarly(t, id) = [t EXCEPT !.early = q]
    BY <1>3 DEF ForgetEarly, i
  <2> HIDE DEF q
  <2>4. [t EXCEPT !.early = q] \in TurnSet /\ [t EXCEPT !.early = q].early = q
    BY <2>2 DEF TurnSet
  <2>5. Len(q) <= MaxEarly
    BY <1>1, <2>2, ConstantFacts
  <2> QED
    BY <2>3, <2>4, <2>5
<1> QED
  BY <1>2, <1>3

\* The call itself, added by its own event.
Calling(id, question) == [ev |-> "tool", id |-> id, question |-> question]

\* No call of the log has the id.
Uncalled(log, id) == \A j \in Events(log, "tool") : id = "" \/ log[j].id # id

\* addTool keeps a turn what it is: the call is the last of the turn's calls,
\* and stands where the blocks end.
LEMMA AddToolKeeps ==
  ASSUME NEW t, TurnOK(t), NEW id \in Named, NEW question \in BOOLEAN, Uncalled(t.log, id)
  PROVE  LET w == AddTool(Boundary(Logged(t, Calling(id, question))), id, question) IN
         /\ TurnOK(w) /\ w.id = t.id /\ w.usageStop = t.usageStop
         /\ w.log = Append(t.log, Calling(id, question))
<1> DEFINE e == Calling(id, question)
           v == Boundary(Logged(t, e))
           facts == IF EarlyIndex(v, id) = {} THEN NoFacts
                    ELSE v.early[CHOOSE i \in EarlyIndex(v, id) : TRUE].facts
           tool == [id |-> id, blocksAt |-> Len(v.blocks), seq |-> v.seq + 1,
                    question |-> question, facts |-> facts, called |-> Here(v)]
           x == ForgetEarly(v, id)
           q == AtMost(Append(x.tools, tool), MaxTools)
           w == [x EXCEPT !.seq = @ + 1, !.tools = q]
           n == Len(t.log) + 1
<1>0. AddTool(v, id, question) = w
  BY DEF AddTool
<1>1. Placed(t) /\ t \in TurnSet
  BY DEF TurnOK, Placed
<1>2. /\ t.blocks \in Seq(Blocks) /\ t.tools \in Seq(Tools) /\ t.log \in Seq(Entries)
      /\ t.signals \in Seq(Signals) /\ t.pending \in Seq(Signals) /\ Len(t.log) \in Nat
      /\ Len(t.tools) \in Nat /\ Len(t.blocks) \in Nat /\ t.seq \in Nat
  BY <1>1, TurnParts
<1>3. e \in Entries /\ e.ev = "tool" /\ e.id = id
  BY DEF Calling, Entries
<1> HIDE DEF e
<1>4. /\ v \in TurnSet /\ v.blocks = t.blocks /\ v.tools = t.tools /\ v.signals = t.signals
      /\ v.pending = t.pending /\ v.early = t.early /\ v.anonOpen = FALSE /\ v.seq = t.seq
      /\ v.id = t.id /\ v.usageStop = t.usageStop /\ v.log = Append(t.log, e)
  <2>1. Append(t.log, e) \in Seq(Entries)
    BY <1>2, <1>3, AppendProperties
  <2> QED
    BY <1>1, <2>1 DEF TurnSet, Logged, Boundary
<1>5. Len(v.log) = n /\ n \in Nat /\ n >= 1 /\ Here(v) = n /\ v.log[n] = e
  BY <1>2, <1>3, <1>4, AppendProperties DEF Here
<1> HIDE DEF v
<1>6. tool \in Tools /\ tool.id = id /\ tool.called = n /\ tool.blocksAt = Len(t.blocks)
  <2>1. facts \in Facts
    <3>1. v.early \in Seq(Earlies)
      BY <1>4, TurnParts
    <3>2. \A i \in 1..Len(v.early) : v.early[i].facts \in Facts
      <4>1. \A i \in 1..Len(v.early) : v.early[i] \in Earlies
        BY <3>1, ElementOfSeq
      <4> QED
        BY <4>1 DEF Earlies
    <3>3. NoFacts \in Facts
      BY DEF NoFacts, Facts
    <3> QED
      BY <1>4, <3>2, <3>3, IndexFacts
  <2> HIDE DEF facts
  <2>2. v.seq + 1 \in Nat /\ Len(v.blocks) \in Nat
    BY <1>2, <1>4
  <2> QED
    BY <1>4, <1>5, <2>1, <2>2 DEF Tools
<1> HIDE DEF tool, facts
<1>7. /\ x \in TurnSet /\ Len(x.early) <= MaxEarly
      /\ x.blocks = t.blocks /\ x.tools = t.tools /\ x.signals = t.signals /\ x.pending = t.pending
      /\ x.anonOpen = FALSE /\ x.id = t.id /\ x.usageStop = t.usageStop /\ x.log = v.log
      /\ x.seq \in Nat
  <2>1. /\ x \in TurnSet /\ Len(x.early) <= MaxEarly /\ x = [v EXCEPT !.early = x.early]
    <3>1. Len(v.early) <= MaxEarly
      BY <1>1, <1>4 DEF Placed, Bounded
    <3> QED
      BY <1>4, <3>1, ForgetEarlyKeeps
  <2> HIDE DEF x
  <2> QED
    BY <1>2, <1>4, <2>1 DEF TurnSet
<1> HIDE DEF x
<1>8. IsPushed(Tools, q, t.tools, tool, MaxTools)
  BY <1>2, <1>6, <1>7, Pushed, ConstantFacts
<1> HIDE DEF q
<1>9. /\ w \in TurnSet /\ w.blocks = t.blocks /\ w.tools = q /\ w.signals = t.signals
      /\ w.pending = t.pending /\ w.early = x.early /\ w.anonOpen = FALSE
      /\ w.id = t.id /\ w.usageStop = t.usageStop /\ w.log = v.log
  <2>1. q \in Seq(Tools)
    BY <1>8 DEF IsPushed
  <2>2. \A k \in Nat : [x EXCEPT !.seq = k, !.tools = q] \in TurnSet
    BY <1>7, <2>1 DEF TurnSet
  <2>3. x.seq + 1 \in Nat
    BY <1>7
  <2>4. w \in TurnSet
    BY <2>2, <2>3
  <2> QED
    BY <1>7, <2>4 DEF TurnSet
<1> HIDE DEF w
<1> DEFINE old == Events(t.log, "tool")
           new == Events(v.log, "tool")
<1>10. /\ new = old \cup {n} /\ \A i \in old : v.log[i] = t.log[i]
       /\ old \subseteq 1..Len(t.log) /\ IsFiniteSet(old) /\ n \notin old
  <2>1. /\ new = old \cup {n} /\ \A i \in old : v.log[i] = t.log[i]
    <3>1. /\ Events(Append(t.log, e), e.ev) = Events(t.log, e.ev) \cup {Len(t.log) + 1}
          /\ \A i \in Events(t.log, e.ev) : Append(t.log, e)[i] = t.log[i]
      BY <1>2, <1>3, EventsOfItsSort
    <3> QED
      BY <1>3, <1>4, <3>1
  <2>2. old \subseteq 1..Len(t.log) /\ IsFiniteSet(old)
    BY <1>2, EventsArePlaces
  <2> QED
    BY <1>2, <2>1, <2>2
<1> HIDE DEF old, new
<1>11. BlocksOK(t.blocks, n)
  BY <1>1, <1>2 DEF Placed, BlocksOK
<1>12. SignalsOK(t.blocks, t.signals, n) /\ SignalsOK(t.blocks, t.pending, n)
  <2>1. SignalsOK(t.blocks, t.signals, n)
    BY <1>1, <1>2 DEF Placed, SignalsOK
  <2>2. SignalsOK(t.blocks, t.pending, n)
    BY <1>1, <1>2 DEF Placed, SignalsOK
  <2> QED
    BY <2>1, <2>2
<1> HIDE DEF n
<1>13. \A i \in 1..Len(t.tools) :
         /\ t.tools[i].called \in new /\ v.log[t.tools[i].called].id = t.tools[i].id
         /\ Split(t.blocks, t.tools[i].blocksAt, t.tools[i].called)
  BY <1>1, <1>10 DEF Placed, CalledOK, old
<1>14. tool.called \in new /\ v.log[tool.called].id = id /\ Split(t.blocks, tool.blocksAt, tool.called)
  BY <1>2, <1>3, <1>5, <1>6, <1>10, <1>11, SplitHere
<1>15. CalledOK(t.blocks, q, v.log)
  <2>1. ASSUME NEW i \in 1..Len(q)
        PROVE  /\ q[i].called \in new /\ v.log[q[i].called].id = q[i].id
               /\ Split(t.blocks, q[i].blocksAt, q[i].called)
    <3>1. CASE i = Len(q)
      BY <1>6, <1>8, <1>14, <3>1 DEF IsPushed
    <3>2. CASE i # Len(q)
      <4>1. PICK j \in 1..Len(t.tools) : q[i] = t.tools[j]
        BY <1>8, <3>2 DEF IsPushed
      <4> QED
        BY <1>13, <4>1
    <3> QED
      BY <3>1, <3>2
  <2> QED
    BY <2>1 DEF CalledOK, new
<1>16. LastCalled(q, v.log)
  <2>1. q # <<>> /\ q[Len(q)] = tool
    BY <1>8 DEF IsPushed
  <2>2. \A i \in new : i <= n
    BY <1>2, <1>5, <1>10 DEF n
  <2> QED
    BY <1>6, <1>14, <2>1, <2>2 DEF LastCalled, new
<1>17. CallsOK(q, v.log)
  <2>1. ASSUME NEW i \in new, NEW j \in new, v.log[i].id = v.log[j].id, v.log[i].id # ""
        PROVE  i = j
    <3>1. \A k \in old : id = "" \/ v.log[k].id # id
      BY <1>10 DEF Uncalled, old
    <3>2. \A k, l \in old : v.log[k].id = v.log[l].id /\ v.log[k].id # "" => k = l
      BY <1>1, <1>10 DEF Placed, CallsOK, old
    <3>3. v.log[n].id = id
      BY <1>3, <1>5
    <3> QED
      BY <1>10, <2>1, <3>1, <3>2, <3>3
  <2>2. ASSUME Cardinality(new) <= MaxTools
        PROVE  /\ Len(q) = Cardinality(new)
               /\ \A i \in new : \E j \in 1..Len(q) : q[j].id = v.log[i].id
    <3>1. Cardinality(new) = Cardinality(old) + 1 /\ Cardinality(old) \in Nat
      BY <1>10, FS_AddElement, FS_CardinalityType
    <3>2. Cardinality(old) <= MaxTools /\ Cardinality(old) < MaxTools
      BY <2>2, <3>1, ConstantFacts
    <3>3. /\ Len(t.tools) = Cardinality(old)
          /\ \A i \in old : \E j \in 1..Len(t.tools) : t.tools[j].id = t.log[i].id
      BY <1>1, <3>2 DEF Placed, CallsOK, old
    <3>4. Len(q) = Len(t.tools) + 1 /\ q = Append(t.tools, tool)
      BY <3>2, <3>3, <1>8 DEF IsPushed
    <3>5. /\ \A j \in 1..Len(t.tools) : q[j] = t.tools[j]
          /\ q[Len(t.tools) + 1] = tool
      BY <1>2, <1>6, <3>4, AppendProperties
    <3>6. ASSUME NEW i \in new PROVE \E j \in 1..Len(q) : q[j].id = v.log[i].id
      <4>1. CASE i = n
        <5>1. Len(t.tools) + 1 \in 1..Len(q)
          BY <1>2, <3>4
        <5>2. q[Len(t.tools) + 1].id = v.log[i].id
          BY <1>3, <1>5, <1>6, <3>5, <4>1
        <5> QED
          BY <5>1, <5>2
      <4>2. CASE i # n
        <5>1. i \in old
          BY <1>10, <4>2
        <5>2. PICK j \in 1..Len(t.tools) : t.tools[j].id = t.log[i].id
          BY <3>3, <5>1
        <5>3. j \in 1..Len(q) /\ q[j].id = v.log[i].id
          BY <1>2, <1>10, <3>4, <3>5, <5>1, <5>2
        <5> QED
          BY <5>3
      <4> QED
        BY <4>1, <4>2
    <3> QED
      BY <3>1, <3>3, <3>4, <3>6
  <2> QED
    BY <2>1, <2>2 DEF CallsOK, new
<1>18. Bounded(w)
  <2>1. Len(q) <= MaxTools
    BY <1>8, ConstantFacts DEF IsPushed
  <2> QED
    BY <1>1, <1>7, <1>9, <2>1 DEF Placed, Bounded
<1>19. TurnOK(w)
  BY <1>1, <1>5, <1>9, <1>11, <1>12, <1>15, <1>16, <1>17, <1>18 DEF TurnOK, Placed
<1>20. /\ TurnOK(w) /\ w.id = t.id /\ w.usageStop = t.usageStop /\ w.log = Append(t.log, e)
  BY <1>4, <1>9, <1>19
<1> QED
  BY <1>0, <1>20 DEF w, x, v, e, q, tool, facts

\* A call that asks is a signal too.
LEMMA ToolUseKeeps ==
  ASSUME NEW t, TurnOK(t), NEW id \in Named, NEW question \in BOOLEAN, NEW said \in BOOLEAN,
         Uncalled(t.log, id)
  PROVE  LET w == ToolUse(Logged(t, Calling(id, question)), id, question, said) IN
         TurnOK(w) /\ w.id = t.id /\ w.usageStop = t.usageStop
<1> DEFINE u == AddTool(Boundary(Logged(t, Calling(id, question))), id, question)
           sig == Signal(u, "question", said, id # "", id, TRUE)
<1>1. TurnOK(u) /\ u.id = t.id /\ u.usageStop = t.usageStop
  BY AddToolKeeps
<1>2. ToolUse(Logged(t, Calling(id, question)), id, question, said)
        = IF question THEN AddSignal(u, sig) ELSE u
  BY DEF ToolUse
<1> HIDE DEF u
<1>3. Standing(u, sig)
  BY <1>1, RaisedNow DEF Kinds
<1> HIDE DEF sig
<1>4. TurnOK(AddSignal(u, sig)) /\ SameTurn(AddSignal(u, sig), u)
  BY <1>1, <1>3, AddSignalKeeps
<1> QED
  BY <1>1, <1>2, <1>4 DEF SameTurn

-----------------------------------------------------------------------------
(* The text of a turn that ends on a signal *)

\* What a turn ends on is one of its signals or requests.
LEMMA EndsOnSignal ==
  ASSUME NEW t, TurnOK(t), EndedOn(t) # {}
  PROVE  LET s == CHOOSE sig \in EndedOn(t) : TRUE IN
         /\ s \in EndedOn(t) /\ Standing(t, s)
         /\ \E i \in 1..Len(AllSignals(t)) : s = AllSignals(t)[i] /\ Open(t, s)
<1> DEFINE s == CHOOSE sig \in EndedOn(t) : TRUE
           all == AllSignals(t)
<1>1. Placed(t) /\ t \in TurnSet
  BY DEF TurnOK, Placed
<1>2. /\ t.signals \in Seq(Signals) /\ t.pending \in Seq(Signals)
      /\ Len(t.signals) \in Nat /\ Len(t.pending) \in Nat
  BY <1>1, TurnParts
<1>3. /\ all \in Seq(Signals) /\ Len(all) = Len(t.signals) + Len(t.pending)
      /\ \A i \in 1..Len(t.signals) + Len(t.pending) : all[i] =
            IF i <= Len(t.signals) THEN t.signals[i] ELSE t.pending[i - Len(t.signals)]
  BY <1>2, ConcatProperties DEF AllSignals
<1>4. DOMAIN all = 1..Len(all) /\ Len(all) \in Nat
  BY <1>3, LenProperties
<1> HIDE DEF all
<1>5. ASSUME NEW kind, OpenSignal(t, kind) # {}
      PROVE  \E i \in 1..Len(all) : i = Max(OpenSignal(t, kind)) /\ Open(t, all[i]) /\ all[i].kind = kind
  <2>1. OpenSignal(t, kind) \subseteq 1..Len(all)
    BY <1>4, Zenon DEF OpenSignal, all
  <2>2. Max(OpenSignal(t, kind)) \in OpenSignal(t, kind)
    BY <1>4, <1>5, <2>1, MaxIsLast
  <2> QED
    BY <2>1, <2>2, Zenon DEF OpenSignal, all
<1>6. \E i \in 1..Len(all) : EndedOn(t) = {all[i]} /\ Open(t, all[i])
  <2>1. CASE OpenSignal(t, "question") # {}
    BY <1>5, <2>1, Zenon DEF EndedOn, all
  <2>2. CASE OpenSignal(t, "question") = {}
    <3>1. OpenSignal(t, "approval") # {}
      BY <2>2 DEF EndedOn
    <3>2. EndedOn(t) = {all[Max(OpenSignal(t, "approval"))]}
      BY <2>2, <3>1, Zenon DEF EndedOn, all
    <3> QED
      BY <1>5, <3>1, <3>2, Zenon
  <2> QED
    BY <2>1, <2>2
<1>7. PICK i \in 1..Len(all) : EndedOn(t) = {all[i]} /\ Open(t, all[i])
  BY <1>6
<1>8. s = all[i]
  BY <1>7
<1> HIDE DEF s
<1>9. Standing(t, all[i])
  <2>1. all[i] \in Signals
    BY <1>3, ElementOfSeq
  <2>2. SignalsOK(t.blocks, t.signals, Len(t.log)) /\ SignalsOK(t.blocks, t.pending, Len(t.log))
    BY <1>1 DEF Placed
  <2>3. CASE i <= Len(t.signals)
    <3>1. i \in 1..Len(t.signals) /\ all[i] = t.signals[i]
      <4>1. i \in 1..Len(t.signals) + Len(t.pending)
        BY <1>3
      <4>2. all[i] = IF i <= Len(t.signals) THEN t.signals[i] ELSE t.pending[i - Len(t.signals)]
        BY <1>3, <4>1, Zenon
      <4>3. i \in 1..Len(t.signals)
        BY <1>2, <2>3, <4>1
      <4> QED
        BY <2>3, <4>2, <4>3
    <3> QED
      BY <2>1, <2>2, <3>1 DEF Standing, SignalsOK
  <2>4. CASE ~ (i <= Len(t.signals))
    <3>1. i - Len(t.signals) \in 1..Len(t.pending) /\ all[i] = t.pending[i - Len(t.signals)]
      <4>1. i \in 1..Len(t.signals) + Len(t.pending)
        BY <1>3
      <4>2. all[i] = IF i <= Len(t.signals) THEN t.signals[i] ELSE t.pending[i - Len(t.signals)]
        BY <1>3, <4>1, Zenon
      <4>3. i - Len(t.signals) \in 1..Len(t.pending)
        <5>1. \A a, b \in Nat : \A k \in 1..a + b : ~ (k <= a) => k - a \in 1..b
          OBVIOUS
        <5> QED
          BY <1>2, <2>4, <4>1, <5>1, Zenon
      <4> QED
        BY <2>4, <4>2, <4>3
    <3> QED
      BY <2>1, <2>2, <3>1 DEF Standing, SignalsOK
  <2> QED
    BY <2>3, <2>4
<1>10. s \in EndedOn(t) /\ Standing(t, s) /\ \E j \in 1..Len(all) : s = all[j] /\ Open(t, s)
  BY <1>7, <1>8, <1>9
<1> QED
  BY <1>10 DEF s, all

\* Where a signal is placed is where it stands among the events.
LEMMA PlacedWhereItStands ==
  ASSUME NEW t, TurnOK(t), Remembered(t.log), NEW s, Standing(t, s)
  PROVE  Split(t.blocks, Place(t, s).at, StandsAt(t.log, s))
<1>1. Placed(t) /\ t \in TurnSet
  BY DEF TurnOK, Placed
<1>2. /\ t.tools \in Seq(Tools) /\ t.log \in Seq(Entries) /\ Len(t.tools) \in Nat
      /\ Len(t.log) \in Nat /\ Len(t.blocks) \in Nat
  BY <1>1, TurnParts
<1> DEFINE calls == Events(t.log, "tool")
<1>3. calls \subseteq 1..Len(t.log)
  BY <1>2, EventsArePlaces
<1>4. Split(t.blocks, 0, 0)
  BY <1>1, <1>2 DEF Placed, BlocksOK, Split
<1>5. \A i \in 1..Len(t.tools) :
         /\ t.tools[i].called \in calls /\ t.log[t.tools[i].called].id = t.tools[i].id
         /\ Split(t.blocks, t.tools[i].blocksAt, t.tools[i].called)
  BY <1>1 DEF Placed, CalledOK
<1>6. CASE ~s.byTool
  BY <1>6 DEF Standing, Place, StandsAt
<1>7. CASE s.byTool /\ s.toolID = ""
  <2>1. StandsAt(t.log, s) = Latest(calls)
    BY <1>7 DEF StandsAt
  <2>2. CASE t.tools = <<>>
    <3>1. calls = {}
      BY <1>1, <2>2 DEF Placed, LastCalled
    <3>2. Place(t, s).at = 0
      BY <1>7, <2>2 DEF Place
    <3>3. Latest(calls) = 0
      BY <3>1 DEF Latest
    <3> QED
      BY <1>4, <2>1, <3>2, <3>3
  <2>3. CASE t.tools # <<>>
    <3> DEFINE l == t.tools[Len(t.tools)]
    <3>1. l.called \in calls /\ \A c \in calls : c <= l.called
      BY <1>1, <2>3 DEF Placed, LastCalled
    <3>2. Len(t.tools) \in 1..Len(t.tools)
      BY <1>2, <2>3, NonEmpty
    <3>3. Place(t, s).at = l.blocksAt
      BY <1>7, <2>3 DEF Place, Last
    <3>4. Split(t.blocks, l.blocksAt, l.called)
      BY <1>5, <3>2
    <3> HIDE DEF l
    <3>5. Latest(calls) = l.called
      <4> HIDE DEF calls
      <4>1. Max(calls) \in calls /\ \A c \in calls : c <= Max(calls)
        BY <1>2, <1>3, <3>1, MaxIsLast
      <4>2. Max(calls) = l.called
        <5>1. Max(calls) <= l.called /\ l.called <= Max(calls)
          BY <3>1, <4>1
        <5>2. Max(calls) \in 1..Len(t.log) /\ l.called \in 1..Len(t.log)
          BY <1>3, <3>1, <4>1, Zenon
        <5> QED
          BY <5>1, <5>2
      <4> QED
        BY <3>1, <4>2 DEF Latest
    <3> QED
      BY <2>1, <3>3, <3>4, <3>5
  <2> QED
    BY <2>2, <2>3
<1>8. CASE s.byTool /\ s.toolID # ""
  <2> DEFINE I == ToolIndex(t, s.toolID)
             C == CallOf(t.log, s.toolID)
             i == CHOOSE j \in I : TRUE
  <2>1. StandsAt(t.log, s) = Earliest(C)
    BY <1>8 DEF StandsAt
  <2>2. C = {c \in calls : t.log[c].id = s.toolID}
    BY <1>8 DEF CallOf
  <2>3. CASE I = {}
    <3>1. \A j \in 1..Len(t.tools) : t.tools[j].id # s.toolID
      <4> DEFINE J == {j \in 1..Len(t.tools) : t.tools[j].id = s.toolID}
      <4>1. CASE J # {}
        <5>1. Max(J) \in J /\ \A j \in J : j <= Max(J)
          BY <1>2, <4>1, MaxIsLast
        <5>2. DOMAIN t.tools = 1..Len(t.tools)
          BY <1>2, LenProperties
        <5>3. Max(J) \in I
          <6>1. Max(J) \in 1..Len(t.tools) /\ t.tools[Max(J)].id = s.toolID
            BY <5>1
          <6>2. \A j \in 1..Len(t.tools) : t.tools[j].id = s.toolID => j <= Max(J)
            BY <5>1
          <6> HIDE DEF J
          <6> QED
            BY <1>8, <5>2, <6>1, <6>2, Zenon DEF ToolIndex
        <5> QED
          BY <2>3, <5>3
      <4>2. CASE J = {}
        BY <4>2
      <4> QED
        BY <4>1, <4>2
    <3>2. \A c \in calls : \E j \in 1..Len(t.tools) : t.tools[j].id = t.log[c].id
      BY <1>1 DEF Placed, CallsOK, Remembered
    <3>3. C = {}
      <4>1. ASSUME NEW c \in C PROVE FALSE
        <5>1. c \in calls /\ t.log[c].id = s.toolID
          BY <2>2
        <5> QED
          BY <3>1, <3>2, <5>1
      <4> QED
        BY <4>1
    <3>4. Place(t, s).at = 0
      BY <1>8, <2>3 DEF Place
    <3>5. Earliest(C) = 0
      BY <3>3 DEF Earliest
    <3> QED
      BY <1>4, <2>1, <3>4, <3>5
  <2>4. CASE I # {}
    <3>1. i \in 1..Len(t.tools) /\ t.tools[i].id = s.toolID
      BY <1>1, <2>4, IndexFacts
    <3>2. Place(t, s).at = t.tools[i].blocksAt
      BY <1>8, <2>4 DEF Place
    <3> HIDE DEF i
    <3> DEFINE c == t.tools[i].called
    <3>3. c \in C /\ Split(t.blocks, t.tools[i].blocksAt, c)
      BY <1>5, <2>2, <3>1
    <3>4. C = {c}
      <4>1. \A x, y \in calls : t.log[x].id = t.log[y].id /\ t.log[x].id # "" => x = y
        BY <1>1 DEF Placed, CallsOK
      <4>2. \A x \in C : x \in calls /\ t.log[x].id = s.toolID
        BY <2>2
      <4> HIDE DEF c, C, calls
      <4>3. ASSUME NEW x \in C PROVE x = c
        <5>1. /\ x \in calls /\ t.log[x].id = s.toolID
              /\ c \in calls /\ t.log[c].id = s.toolID
          BY <3>3, <4>2
        <5> QED
          BY <1>8, <4>1, <5>1
      <4> QED
        BY <3>3, <4>3
    <3> HIDE DEF c, C
    <3>5. Earliest(C) = c
      <4>1. c \in Nat
        BY <1>3, <2>2, <3>3
      <4> QED
        BY <3>4, <4>1, MinIsFirst DEF Earliest
    <3> QED
      BY <2>1, <3>2, <3>3, <3>5 DEF C
  <2> QED
    BY <2>3, <2>4
<1>9. s.byTool \in BOOLEAN
  BY DEF Standing, Signals
<1> QED
  BY <1>6, <1>7, <1>8, <1>9

\* A signal stands among the events, or before them.
LEMMA StandsAtType ==
  ASSUME NEW t, TurnOK(t), NEW s, Standing(t, s)
  PROVE  StandsAt(t.log, s) \in Nat
<1>1. t.log \in Seq(Entries) /\ Len(t.log) \in Nat
  BY TurnParts DEF TurnOK, Placed
<1> DEFINE calls == Events(t.log, "tool")
<1>2. calls \subseteq 1..Len(t.log) /\ CallOf(t.log, s.toolID) \subseteq 1..Len(t.log)
  BY <1>1, EventsArePlaces DEF CallOf
<1>3. Latest(calls) \in Nat
  <2>1. calls # {} => Max(calls) \in 1..Len(t.log)
    <3>1. calls # {} => Max(calls) \in calls
      BY <1>1, <1>2, MaxIsLast
    <3> QED
      BY <1>2, <3>1, Zenon
  <2> HIDE DEF calls
  <2> QED
    BY <1>1, <2>1 DEF Latest
<1>4. Earliest(CallOf(t.log, s.toolID)) \in Nat
  <2> DEFINE C == CallOf(t.log, s.toolID)
  <2>1. C \subseteq Nat
    BY <1>1, <1>2
  <2> HIDE DEF C
  <2>2. C # {} => Min(C) \in C
    BY <2>1, MinIsFirst
  <2>3. Earliest(C) \in Nat
    BY <2>1, <2>2 DEF Earliest
  <2> QED
    BY <2>3 DEF C
<1>5. s.byTool \in BOOLEAN /\ (~s.byTool => s.raised \in Nat)
  BY <1>1 DEF Standing, Signals
<1> QED
  BY <1>3, <1>4, <1>5 DEF StandsAt

\* The text picked after a position is the terminal event's, or one block's that
\* stands after it.
LEMMA PickedAfter ==
  ASSUME NEW t, TurnOK(t), NEW from \in Nat, NEW term,
         term.text \in BOOLEAN,
         \E i \in from + 1 .. Len(t.blocks) : t.blocks[i].parts # {}
  PROVE  \/ Pick(t, from, term).source = "terminal"
         \/ \E i \in 1..Len(t.blocks) : i > from /\ Pick(t, from, term) =
                [source |-> "block", parts |-> t.blocks[i].parts]
<1> DEFINE said  == {i \in from + 1 .. Len(t.blocks) : t.blocks[i].parts # {}}
           final == {i \in said : t.blocks[i].final}
           best  == IF final # {} THEN final ELSE said
<1>1. Len(t.blocks) \in Nat
  BY TurnParts DEF TurnOK, Placed
<1>2. said # {} /\ said \subseteq 1..Len(t.blocks) /\ \A i \in said : i > from
  BY <1>1
<1>3. best # {} /\ best \subseteq said
  BY <1>2
<1>4. CASE term.text
  BY <1>4 DEF Pick
<1>5. CASE ~term.text
  <2>1. Pick(t, from, term) = [source |-> "block", parts |-> t.blocks[Max(best)].parts]
    BY <1>2, <1>5, Zenon DEF Pick
  <2> HIDE DEF best, said
  <2>2. Max(best) \in best
    BY <1>1, <1>2, <1>3, MaxIsLast
  <2>3. Max(best) \in 1..Len(t.blocks) /\ Max(best) > from
    BY <1>2, <1>3, <2>2
  <2> QED
    BY <2>1, <2>3
<1> QED
  BY <1>4, <1>5

\* The text of a question or an approval comes after its signal.
LEMMA TextComesAfter ==
  ASSUME NEW t, TurnOK(t), Remembered(t.log), NEW term \in Terms,
         KindOf(t, term) \in {"question", "approval"}
  PROVE  LET s  == CHOOSE sig \in EndedOn(t) : TRUE
             at == StandsAt(t.log, s)
             text == TextOf(t, term)
         IN  /\ t.blocks # <<>> /\ Last(t.blocks).begun > at /\ Last(t.blocks).parts # {}
                   => text.source \in {"block", "terminal"}
             /\ text.source = "block" /\ s.said => \A p \in text.parts : p > at
<1> DEFINE s  == CHOOSE sig \in EndedOn(t) : TRUE
           at == StandsAt(t.log, s)
           place == Place(t, s).at
           text == TextOf(t, term)
           later == \E i \in place + 1 .. Len(t.blocks) : t.blocks[i].parts # {}
<1>1. Placed(t) /\ t \in TurnSet
  BY DEF TurnOK, Placed
<1>2. t.blocks \in Seq(Blocks) /\ Len(t.blocks) \in Nat /\ Len(t.log) \in Nat
  BY <1>1, TurnParts
<1>3. EndedOn(t) # {}
  BY DEF KindOf
<1>4. Standing(t, s)
  BY <1>3, EndsOnSignal
<1>5. text = SignalText(t, s, term)
  BY DEF TextOf
<1> HIDE DEF s
<1>6. Split(t.blocks, place, at)
  BY <1>4, PlacedWhereItStands
<1>7. place \in 0..Len(t.blocks) /\ \A i \in 1..Len(t.blocks) : i > place <=> t.blocks[i].begun > at
  BY <1>6 DEF Split
<1>8. SignalText(t, s, term) =
        IF later THEN Pick(t, place, term)
        ELSE CASE term.text /\ t.blocks = <<>> -> [source |-> "terminal", parts |-> {}]
               [] OTHER -> IF s.said THEN [source |-> "signal", parts |-> {}] ELSE Pick(t, 0, term)
  BY DEF SignalText
<1> HIDE DEF text, at, place
<1>9. term.text \in BOOLEAN
  BY DEF Terms
<1>10. CASE later
  <2>1. place \in Nat
    BY <1>2, <1>7
  <2>2. \/ text.source = "terminal"
        \/ \E i \in 1..Len(t.blocks) : i > place /\ text = [source |-> "block", parts |-> t.blocks[i].parts]
    BY <1>5, <1>8, <1>9, <1>10, <2>1, PickedAfter
  <2>3. ASSUME NEW i \in 1..Len(t.blocks), i > place,
               text = [source |-> "block", parts |-> t.blocks[i].parts]
        PROVE  text.source = "block" /\ \A p \in text.parts : p > at
    <3>1. /\ t.blocks[i].begun \in 1..Len(t.log)
          /\ t.blocks[i].parts \subseteq t.blocks[i].begun..Len(t.log)
      BY <1>1 DEF Placed, BlocksOK
    <3>2. t.blocks[i].begun > at
      BY <1>7, <2>3
    <3>3. \A p \in t.blocks[i].parts : p >= t.blocks[i].begun /\ p \in Int
      BY <1>2, <3>1
    <3>4. at \in Int
      <4>1. at \in Nat
        BY <1>4, StandsAtType DEF at
      <4> QED
        BY <4>1
    <3>5. \A p \in t.blocks[i].parts : p > at
      BY <3>1, <3>2, <3>3, <3>4
    <3> QED
      BY <2>3, <3>5
  <2>4. text.source = "terminal" => text.source # "block"
    OBVIOUS
  <2>5. /\ text.source \in {"block", "terminal"}
        /\ text.source = "block" => \A p \in text.parts : p > at
    BY <2>2, <2>3, <2>4
  <2> QED
    BY <2>5 DEF text, at, s
<1>11. CASE ~later
  <2>1. ~ (t.blocks # <<>> /\ Last(t.blocks).begun > at /\ Last(t.blocks).parts # {})
    <3>1. ASSUME t.blocks # <<>>, Last(t.blocks).begun > at, Last(t.blocks).parts # {}
          PROVE  FALSE
      <4>1. Len(t.blocks) \in 1..Len(t.blocks)
        BY <1>2, <3>1, NonEmpty
      <4>2. Len(t.blocks) > place
        BY <1>7, <3>1, <4>1 DEF Last
      <4>3. Len(t.blocks) \in place + 1 .. Len(t.blocks)
        BY <1>2, <1>7, <4>2
      <4> QED
        BY <1>11, <3>1, <4>3 DEF Last
    <3> QED
      BY <3>1
  <2>2. ~ (text.source = "block" /\ s.said)
    BY <1>5, <1>8, <1>11
  <2>3. /\ t.blocks # <<>> /\ Last(t.blocks).begun > at /\ Last(t.blocks).parts # {}
               => text.source \in {"block", "terminal"}
        /\ text.source = "block" /\ s.said => \A p \in text.parts : p > at
    BY <2>1, <2>2
  <2> QED
    BY <2>3 DEF text, at, s
<1> QED
  BY <1>10, <1>11

-----------------------------------------------------------------------------
(* Stamps and logs that grow *)

\* An empty log has no events.
LEMMA NoEvents == \A ev : Events(<<>>, ev) = {}
<1>1. <<>> \in Seq({}) /\ Len(<<>>) = 0
  BY EmptySeq
<1>2. DOMAIN <<>> = 1..0
  BY <1>1, LenProperties
<1>3. DOMAIN <<>> = {}
  BY <1>2
<1> QED
  BY <1>3, Zenon DEF Events

\* A turn whose later calls have later stamps and places.
Grows(u, t) ==
    /\ t.seq \in Nat /\ u.seq \in Nat /\ t.seq <= u.seq
    /\ Len(t.log) \in Nat /\ Len(u.log) \in Nat /\ Len(t.log) <= Len(u.log)
    /\ \A i \in 1..Len(u.tools) :
          /\ u.tools[i].seq \in Nat /\ u.tools[i].called \in Nat
          /\ \/ /\ i \in 1..Len(t.tools)
                /\ u.tools[i].seq = t.tools[i].seq /\ u.tools[i].called = t.tools[i].called
             \/ u.tools[i].seq > t.seq /\ u.tools[i].called > Len(t.log)

\* What was tied stays tied, ...
LEMMA TiedStays ==
  ASSUME NEW t, NEW u, Grows(u, t), NEW s, NEW p, Tied(t, s, p)
  PROVE  Tied(u, s, p)
<1>1. s \in 0..u.seq /\ p \in 0..Len(u.log)
  BY DEF Grows, Tied
<1>2. /\ s \in Nat /\ p \in Nat /\ s <= t.seq /\ p <= Len(t.log)
      /\ t.seq \in Nat /\ Len(t.log) \in Nat
  BY DEF Grows, Tied
<1>3. ASSUME NEW i \in 1..Len(u.tools) PROVE u.tools[i].seq > s <=> u.tools[i].called > p
  <2>1. u.tools[i].seq \in Nat /\ u.tools[i].called \in Nat
    BY DEF Grows
  <2>2. CASE i \in 1..Len(t.tools) /\ u.tools[i].seq = t.tools[i].seq /\ u.tools[i].called = t.tools[i].called
    <3>1. t.tools[i].seq > s <=> t.tools[i].called > p
      BY <2>2 DEF Tied
    <3> QED
      BY <2>2, <3>1, Zenon
  <2>3. CASE u.tools[i].seq > t.seq /\ u.tools[i].called > Len(t.log)
    BY <1>2, <2>1, <2>3
  <2> QED
    BY <2>2, <2>3 DEF Grows
<1> QED
  BY <1>1, <1>3 DEF Tied

\* ... and what is now is tied to what is last.
LEMMA TiedNow ==
  ASSUME NEW u, NEW s \in 0..u.seq, NEW p \in 0..Len(u.log), u.seq \in Nat, Len(u.log) \in Nat,
         \A i \in 1..Len(u.tools) : /\ u.tools[i].seq \in Nat /\ u.tools[i].called \in Nat
                                    /\ u.tools[i].seq <= s /\ u.tools[i].called <= p
  PROVE  Tied(u, s, p)
<1>1. \A i \in 1..Len(u.tools) : ~(u.tools[i].seq > s) /\ ~(u.tools[i].called > p)
  OBVIOUS
<1> QED
  BY <1>1 DEF Tied

\* A log with one event more.
Extended(new, log, e) ==
    /\ log \in Seq(Entries) /\ new \in Seq(Entries) /\ e \in Entries
    /\ Len(log) \in Nat /\ Len(new) = Len(log) + 1
    /\ new[Len(log) + 1] = e /\ \A i \in 1..Len(log) : new[i] = log[i]
    /\ \A ev : /\ Events(log, ev) \subseteq 1..Len(log)
               /\ e.ev = ev => Events(new, ev) = Events(log, ev) \cup {Len(log) + 1}
               /\ e.ev # ev => Events(new, ev) = Events(log, ev)
               /\ \A i \in Events(log, ev) : new[i] = log[i]

\* Logging an event extends the log by it.
LEMMA LogGrows ==
  ASSUME NEW log \in Seq(Entries), NEW e \in Entries
  PROVE  Extended(Append(log, e), log, e)
<1> DEFINE new == Append(log, e)
<1>1. /\ new \in Seq(Entries) /\ Len(new) = Len(log) + 1 /\ Len(log) \in Nat
      /\ \A i \in 1..Len(log) : new[i] = log[i]
      /\ new[Len(log) + 1] = e
  BY AppendProperties
<1>2. \A ev : Events(log, ev) \subseteq 1..Len(log)
  BY EventsArePlaces
<1>3. \A ev : /\ e.ev = ev => Events(new, ev) = Events(log, ev) \cup {Len(log) + 1}
              /\ e.ev # ev => Events(new, ev) = Events(log, ev)
  BY EventsOfItsSort, EventsOfOthers
<1> HIDE DEF new
<1>4. \A ev : \A i \in Events(log, ev) : new[i] = log[i]
  BY <1>1, <1>2
<1> QED
  BY <1>1, <1>2, <1>3, <1>4 DEF Extended, new

\* The events of some sorts, and how many they are.
Of(log, sorts) == UNION {Events(log, ev) : ev \in sorts}

More(new, log, e, sorts) ==
    /\ Cardinality(Of(log, sorts)) \in Nat /\ Cardinality(Of(new, sorts)) \in Nat
    /\ Cardinality(Of(log, sorts)) <= Cardinality(Of(new, sorts))
    /\ e.ev \in sorts => Cardinality(Of(new, sorts)) = Cardinality(Of(log, sorts)) + 1

\* One more of a sort than before.
LEMMA OneMore ==
  ASSUME NEW new, NEW log, NEW e, Extended(new, log, e), NEW sorts
  PROVE  More(new, log, e, sorts)
<1> DEFINE n == Len(log) + 1
           A == Of(log, sorts)
           B == Of(new, sorts)
<1>1. /\ Len(log) \in Nat /\ Len(new) = n /\ new \in Seq(Entries)
      /\ \A ev : /\ Events(log, ev) \subseteq 1..Len(log)
                 /\ e.ev = ev => Events(new, ev) = Events(log, ev) \cup {n}
                 /\ e.ev # ev => Events(new, ev) = Events(log, ev)
  BY DEF Extended
<1>2. \A ev : Events(new, ev) \subseteq 1..n
  BY <1>1, EventsArePlaces
<1>3. A \subseteq 1..Len(log) /\ B \subseteq 1..n
  BY <1>1, <1>2 DEF Of
<1>4. IsFiniteSet(1..Len(log)) /\ IsFiniteSet(1..n)
  BY <1>1, FS_Interval
<1>5. IsFiniteSet(A) /\ IsFiniteSet(B) /\ Cardinality(A) \in Nat /\ Cardinality(B) \in Nat
  BY <1>3, <1>4, FS_Subset, FS_CardinalityType
<1>6. A \subseteq B
  <2>1. \A ev : Events(log, ev) \subseteq Events(new, ev)
    BY <1>1
  <2> QED
    BY <2>1 DEF Of
<1>7. Cardinality(A) <= Cardinality(B)
  BY <1>5, <1>6, FS_Subset
<1>8. ASSUME e.ev \in sorts PROVE Cardinality(B) = Cardinality(A) + 1
  <2>1. n \in B
    BY <1>1, <1>8 DEF Of
  <2>2. B \subseteq A \cup {n}
    BY <1>1 DEF Of
  <2>3. n \notin A
    BY <1>1, <1>3
  <2>4. B = A \cup {n}
    BY <1>6, <2>1, <2>2
  <2> HIDE DEF A, B, n
  <2> QED
    BY <1>5, <2>3, <2>4, FS_AddElement
<1> QED
  BY <1>5, <1>7, <1>8 DEF More

\* A log that is remembered was so before its last event.
LEMMA RememberedBefore ==
  ASSUME NEW new, NEW log, NEW e, Extended(new, log, e), Remembered(new)
  PROVE  Remembered(log)
<1> DEFINE n == Len(log) + 1
<1>1. /\ Len(log) \in Nat
      /\ \A i \in 1..Len(log) : new[i] = log[i]
      /\ \A ev : /\ Events(log, ev) \subseteq 1..Len(log)
                 /\ e.ev = ev => Events(new, ev) = Events(log, ev) \cup {n}
                 /\ e.ev # ev => Events(new, ev) = Events(log, ev)
  BY DEF Extended
<1>2. ASSUME NEW sorts, NEW max \in Nat, Cardinality(Of(new, sorts)) <= max
      PROVE  Cardinality(Of(log, sorts)) <= max
  <2>1. More(new, log, e, sorts)
    BY OneMore
  <2> QED
    BY <1>2, <2>1 DEF More
<1>3. \A l, ev : Of(l, {ev}) = Events(l, ev)
  BY DEF Of
<1>4. \A l : Of(l, {"result", "denied"}) = Events(l, "result") \cup Events(l, "denied")
  BY DEF Of
<1>5. Cardinality(Events(log, "tool")) <= MaxTools /\ Cardinality(Events(log, "requested")) <= MaxPending
  BY <1>2, <1>3, ConstantFacts DEF Remembered
<1>6. Cardinality(Events(log, "result") \cup Events(log, "denied")) <= MaxEarly
  BY <1>2, <1>4, ConstantFacts DEF Remembered
<1>7. Cardinality(UNION {Events(log, ev) : ev \in {"tool", "denied", "asked", "resolved"}}) <= MaxSignals
  BY <1>2, ConstantFacts DEF Remembered, Of
<1>8. ASSUME NEW i \in Events(log, "resolved")
      PROVE  /\ log[i].request \in Events(log, "requested") /\ log[i].request < i
             /\ \A j \in Events(log, "resolved") : log[j].request = log[i].request => i = j
  <2>1. Events(log, "resolved") \subseteq Events(new, "resolved")
    BY <1>1
  <2>2. \A j \in Events(log, "resolved") : new[j] = log[j]
    BY <1>1
  <2>3. /\ new[i].request \in Events(new, "requested") /\ new[i].request < i
        /\ \A j \in Events(new, "resolved") : new[j].request = new[i].request => i = j
    BY <2>1 DEF Remembered
  <2>4. new[i].request # n
    BY <1>1, <2>3
  <2>5. new[i].request \in Events(log, "requested")
    BY <1>1, <2>3, <2>4
  <2> QED
    BY <2>1, <2>2, <2>3, <2>5
<1> QED
  BY <1>5, <1>6, <1>7, <1>8 DEF Remembered

\* As long as a log is remembered, there is room for what its last event brings.
LEMMA Room ==
  ASSUME NEW t, Counted(t), NEW new, NEW e, Extended(new, t.log, e), Remembered(new),
         Len(t.signals) \in Nat, Len(t.pending) \in Nat, Len(t.early) \in Nat
  PROVE  /\ e.ev \in {"tool", "denied", "asked", "resolved"} =>
               Len(t.signals) < MaxSignals /\ Len(t.signals) + 1 <= Cardinality(Signalled(new))
         /\ e.ev = "requested" => /\ Len(t.pending) < MaxPending
                                  /\ Len(t.pending) + 1 <= Cardinality(Events(new, "requested"))
         /\ e.ev \in {"result", "denied"} =>
               Len(t.early) < MaxEarly /\ Len(t.early) + 1 <= Cardinality(Learnt(new))
         /\ Len(t.signals) <= Cardinality(Signalled(new))
         /\ Len(t.pending) <= Cardinality(Events(new, "requested"))
         /\ Len(t.early) <= Cardinality(Learnt(new))
<1>1. \A l : /\ Signalled(l) = Of(l, {"tool", "denied", "asked", "resolved"})
             /\ Events(l, "requested") = Of(l, {"requested"})
             /\ Learnt(l) = Of(l, {"result", "denied"})
  BY DEF Signalled, Learnt, Of
<1>2. /\ Cardinality(Signalled(new)) <= MaxSignals
      /\ Cardinality(Events(new, "requested")) <= MaxPending
      /\ Cardinality(Learnt(new)) <= MaxEarly
  BY DEF Remembered, Signalled, Learnt
<1>3. /\ Len(t.signals) <= Cardinality(Signalled(t.log))
      /\ Len(t.pending) <= Cardinality(Events(t.log, "requested"))
      /\ Len(t.early) <= Cardinality(Learnt(t.log))
  BY DEF Counted
<1>4. \A sorts :
         /\ Cardinality(Of(t.log, sorts)) \in Nat /\ Cardinality(Of(new, sorts)) \in Nat
         /\ Cardinality(Of(t.log, sorts)) <= Cardinality(Of(new, sorts))
         /\ e.ev \in sorts => Cardinality(Of(new, sorts)) = Cardinality(Of(t.log, sorts)) + 1
  <2>1. \A sorts : More(new, t.log, e, sorts)
    BY OneMore
  <2> QED
    BY <2>1 DEF More
<1>5. /\ e.ev \in {"tool", "denied", "asked", "resolved"} =>
               Len(t.signals) < MaxSignals /\ Len(t.signals) + 1 <= Cardinality(Signalled(new))
      /\ Len(t.signals) <= Cardinality(Signalled(new))
  <2> DEFINE c == Cardinality(Signalled(t.log))
             d == Cardinality(Signalled(new))
  <2>1. c \in Nat /\ d \in Nat /\ c <= d /\ (e.ev \in {"tool", "denied", "asked", "resolved"} => d = c + 1)
    BY <1>1, <1>4, Zenon
  <2>2. Len(t.signals) <= c /\ d <= MaxSignals
    BY <1>2, <1>3, Zenon
  <2> HIDE DEF c, d
  <2>3. /\ e.ev \in {"tool", "denied", "asked", "resolved"} =>
              Len(t.signals) < MaxSignals /\ Len(t.signals) + 1 <= d
        /\ Len(t.signals) <= d
    BY <2>1, <2>2, ConstantFacts
  <2> QED
    BY <2>3, Zenon DEF d
<1>6. /\ e.ev = "requested" => /\ Len(t.pending) < MaxPending
                               /\ Len(t.pending) + 1 <= Cardinality(Events(new, "requested"))
      /\ Len(t.pending) <= Cardinality(Events(new, "requested"))
  <2> DEFINE c == Cardinality(Events(t.log, "requested"))
             d == Cardinality(Events(new, "requested"))
  <2>1. c \in Nat /\ d \in Nat /\ c <= d /\ (e.ev \in {"requested"} => d = c + 1)
    <3>1. c = Cardinality(Of(t.log, {"requested"})) /\ d = Cardinality(Of(new, {"requested"}))
      BY <1>1
    <3> HIDE DEF c, d
    <3> QED
      BY <1>4, <3>1, Zenon
  <2>2. Len(t.pending) <= c /\ d <= MaxPending
    BY <1>2, <1>3, Zenon
  <2> HIDE DEF c, d
  <2>3. /\ e.ev = "requested" => Len(t.pending) < MaxPending /\ Len(t.pending) + 1 <= d
        /\ Len(t.pending) <= d
    BY <2>1, <2>2, ConstantFacts
  <2> QED
    BY <2>3, Zenon DEF d
<1>7. /\ e.ev \in {"result", "denied"} =>
               Len(t.early) < MaxEarly /\ Len(t.early) + 1 <= Cardinality(Learnt(new))
      /\ Len(t.early) <= Cardinality(Learnt(new))
  <2> DEFINE c == Cardinality(Learnt(t.log))
             d == Cardinality(Learnt(new))
  <2>1. c \in Nat /\ d \in Nat /\ c <= d /\ (e.ev \in {"result", "denied"} => d = c + 1)
    BY <1>1, <1>4, Zenon
  <2>2. Len(t.early) <= c /\ d <= MaxEarly
    BY <1>2, <1>3, Zenon
  <2> HIDE DEF c, d
  <2>3. /\ e.ev \in {"result", "denied"} => Len(t.early) < MaxEarly /\ Len(t.early) + 1 <= d
        /\ Len(t.early) <= d
    BY <2>1, <2>2, ConstantFacts
  <2> QED
    BY <2>3, Zenon DEF d
<1> QED
  BY <1>5, <1>6, <1>7

\* An event logged, and what of the turn it left alone.
Advances(u, t, e) ==
    TurnOK(t) /\ u \in TurnSet /\ Extended(u.log, t.log, e) /\ t.seq <= u.seq

SameTools(u, t) ==
    /\ Len(u.tools) = Len(t.tools)
    /\ \A i \in 1..Len(t.tools) :
          /\ u.tools[i].id = t.tools[i].id /\ u.tools[i].seq = t.tools[i].seq
          /\ u.tools[i].called = t.tools[i].called /\ u.tools[i].question = t.tools[i].question

SameToolFacts(u, t) == \A i \in 1..Len(t.tools) : u.tools[i].facts = t.tools[i].facts

\* The calls held are numbers, texts and facts.
LEMMA ToolParts ==
  ASSUME NEW t \in TurnSet
  PROVE  /\ DOMAIN t.tools = 1..Len(t.tools) /\ Len(t.tools) \in Nat
         /\ \A i \in 1..Len(t.tools) :
               /\ t.tools[i] \in Tools /\ t.tools[i].seq \in Nat /\ t.tools[i].called \in Nat
               /\ t.tools[i].id \in Named /\ t.tools[i].facts \in Facts
               /\ t.tools[i].question \in BOOLEAN
<1>1. t.tools \in Seq(Tools) /\ Len(t.tools) \in Nat
  BY TurnParts
<1>2. DOMAIN t.tools = 1..Len(t.tools) /\ \A i \in 1..Len(t.tools) : t.tools[i] \in Tools
  BY <1>1, LenProperties, ElementOfSeq
<1> QED
  BY <1>1, <1>2 DEF Tools

\* A turn that advances with the same calls grows.
LEMMA SameToolsGrow ==
  ASSUME NEW u, NEW t, NEW e, Advances(u, t, e), SameTools(u, t)
  PROVE  Grows(u, t)
<1>1. t \in TurnSet /\ u \in TurnSet /\ t.seq <= u.seq /\ Extended(u.log, t.log, e)
  BY DEF Advances, TurnOK, Placed
<1>2. t.seq \in Nat /\ u.seq \in Nat /\ Len(t.log) \in Nat /\ Len(u.log) \in Nat
  BY <1>1, TurnParts
<1>3. Len(t.log) <= Len(u.log)
  BY <1>1, <1>2 DEF Extended
<1>4. \A i \in 1..Len(u.tools) :
         /\ u.tools[i].seq \in Nat /\ u.tools[i].called \in Nat
         /\ i \in 1..Len(t.tools) /\ u.tools[i].seq = t.tools[i].seq /\ u.tools[i].called = t.tools[i].called
  BY <1>1, ToolParts DEF SameTools
<1> QED
  BY <1>1, <1>2, <1>3, <1>4 DEF Grows

\* The calls of a turn are in its log.
LEMMA CalledParts ==
  ASSUME NEW t, TurnOK(t)
  PROVE  \A i \in 1..Len(t.tools) : /\ t.tools[i].called \in Events(t.log, "tool")
                                    /\ t.log[t.tools[i].called].id = t.tools[i].id
BY DEF TurnOK, Placed, CalledOK

\* Calls stay recorded when another event comes.
LEMMA CallsStay ==
  ASSUME NEW u, NEW t, NEW e, Advances(u, t, e), SameTools(u, t), CallsRecorded(t), e.ev # "tool"
  PROVE  CallsRecorded(u)
<1>1. Extended(u.log, t.log, e) /\ TurnOK(t)
  BY DEF Advances
<1>2. /\ Events(u.log, "tool") = Events(t.log, "tool")
      /\ \A i \in Events(t.log, "tool") : u.log[i] = t.log[i]
  BY <1>1 DEF Extended
<1>3. Grows(u, t)
  BY SameToolsGrow
<1>4. ASSUME NEW i \in 1..Len(u.tools)
      PROVE  /\ u.tools[i].question = u.log[u.tools[i].called].question
             /\ Tied(u, u.tools[i].seq, u.tools[i].called)
  <2>1. i \in 1..Len(t.tools) /\ t.tools[i].called \in Events(t.log, "tool")
    BY <1>1, CalledParts DEF SameTools
  <2>2. /\ t.tools[i].question = t.log[t.tools[i].called].question
        /\ Tied(t, t.tools[i].seq, t.tools[i].called)
    BY <2>1 DEF CallsRecorded
  <2>3. Tied(u, t.tools[i].seq, t.tools[i].called)
    BY <1>3, <2>2, TiedStays
  <2>4. /\ u.tools[i].seq = t.tools[i].seq /\ u.tools[i].called = t.tools[i].called
        /\ u.tools[i].question = t.tools[i].question
    BY <2>1 DEF SameTools
  <2> QED
    BY <1>2, <2>1, <2>2, <2>3, <2>4
<1>5. \A ev \in Events(u.log, "tool") : \E i \in 1..Len(u.tools) : u.tools[i].called = ev
  BY <1>2 DEF CallsRecorded, SameTools
<1>6. \A i, j \in 1..Len(u.tools) : u.tools[i].called = u.tools[j].called => i = j
  BY DEF CallsRecorded, SameTools
<1> QED
  BY <1>4, <1>5, <1>6 DEF CallsRecorded

\* Where a call's facts are looked for does not depend on what they are.
LEMMA SameIndex ==
  ASSUME NEW t \in TurnSet, NEW u \in TurnSet, SameTools(u, t), NEW id
  PROVE  ToolIndex(u, id) = ToolIndex(t, id)
<1>1. DOMAIN u.tools = 1..Len(t.tools) /\ DOMAIN t.tools = 1..Len(t.tools)
  BY ToolParts DEF SameTools
<1>2. \A i \in 1..Len(t.tools) : u.tools[i].id = t.tools[i].id
  BY DEF SameTools
<1> QED
  BY <1>1, <1>2, Zenon DEF ToolIndex

\* Facts are found alike when calls and early facts are the same.
LEMMA FactsForSame ==
  ASSUME NEW t \in TurnSet, NEW u \in TurnSet, SameTools(u, t), SameToolFacts(u, t), u.early = t.early,
         NEW id
  PROVE  FactsFor(u, id) = FactsFor(t, id)
<1>1. ToolIndex(u, id) = ToolIndex(t, id) /\ EarlyIndex(u, id) = EarlyIndex(t, id)
  BY SameIndex DEF EarlyIndex
<1>2. CASE ToolIndex(t, id) = {}
  BY <1>1, <1>2 DEF FactsFor
<1>3. CASE ToolIndex(t, id) # {}
  <2> DEFINE i == CHOOSE j \in ToolIndex(t, id) : TRUE
  <2>1. i \in 1..Len(t.tools)
    BY <1>3, IndexFacts
  <2>2. u.tools[i].facts = t.tools[i].facts
    BY <2>1 DEF SameToolFacts
  <2> QED
    BY <1>1, <1>3, <2>2 DEF FactsFor
<1> QED
  BY <1>2, <1>3

\* What was learned stays so when no result and no refusal of the call comes.
LEMMA LearnedStays ==
  ASSUME NEW u, NEW t, NEW e, Advances(u, t, e), Grows(u, t), NEW id \in CallIds, NEW f, Learned(t, id, f),
         e.ev \in {"result", "denied"} => e.id # id
  PROVE  Learned(u, id, f)
<1>1. Extended(u.log, t.log, e)
  BY DEF Advances
<1>2. \A ev \in {"result", "denied"} : \A k : k \in Events(u.log, ev) /\ u.log[k].id = id
         <=> k \in Events(t.log, ev) /\ t.log[k].id = id
  <2> TAKE ev \in {"result", "denied"}
  <2> TAKE k
  <2>1. CASE e.ev = ev
    <3>1. Events(u.log, ev) = Events(t.log, ev) \cup {Len(t.log) + 1} /\ u.log[Len(t.log) + 1] = e
      BY <1>1, <2>1 DEF Extended
    <3>2. e.id # id
      BY <2>1
    <3>3. \A i \in Events(t.log, ev) : u.log[i] = t.log[i]
      BY <1>1 DEF Extended
    <3> QED
      BY <3>1, <3>2, <3>3
  <2>2. CASE e.ev # ev
    <3>1. Events(u.log, ev) = Events(t.log, ev) /\ \A i \in Events(t.log, ev) : u.log[i] = t.log[i]
      BY <1>1, <2>2 DEF Extended
    <3> QED
      BY <3>1
  <2> QED
    BY <2>1, <2>2
<1>3. ResultOf(u.log, id) = ResultOf(t.log, id) /\ DeniedOf(u.log, id) = DeniedOf(t.log, id)
  BY <1>2 DEF ResultOf, DeniedOf
<1>4. ASSUME f.has, NEW k, k = Min(ResultOf(t.log, id))
      PROVE  f.isError = u.log[k].isError /\ Tied(u, f.at, k)
  <2>1. f.isError = t.log[k].isError /\ Tied(t, f.at, k) /\ ResultOf(t.log, id) # {}
    BY <1>4 DEF Learned
  <2>2. Events(t.log, "result") \subseteq 1..Len(t.log)
    BY <1>1 DEF Extended
  <2>3. k \in ResultOf(t.log, id)
    <3>1. ResultOf(t.log, id) \subseteq Nat
      BY <2>2 DEF ResultOf
    <3> QED
      BY <1>4, <2>1, <3>1, MinIsFirst
  <2>4. u.log[k] = t.log[k]
    BY <1>1, <2>3 DEF ResultOf, Extended
  <2>5. Tied(u, f.at, k)
    BY <2>1, TiedStays
  <2> QED
    BY <2>1, <2>4, <2>5
<1> QED
  BY <1>3, <1>4 DEF Learned

\* Facts stay recorded when neither a result nor a refusal comes, ...
LEMMA FactsStay ==
  ASSUME NEW u, NEW t, NEW e, Advances(u, t, e), Grows(u, t), FactsRecorded(t),
         e.ev \notin {"result", "denied"}, Apart(u.early), Nameless(u),
         \A id \in CallIds : FactsFor(u, id) = FactsFor(t, id)
  PROVE  FactsRecorded(u)
<1>1. ASSUME NEW id \in CallIds PROVE Learned(u, id, FactsFor(t, id))
  <2>1. Learned(t, id, FactsFor(t, id))
    BY DEF FactsRecorded
  <2> QED
    BY <2>1, LearnedStays
<1> QED
  BY <1>1 DEF FactsRecorded

\* ... and when one does, if it is recorded with its call.
LEMMA FactsLearn ==
  ASSUME NEW u, NEW t, NEW e, Advances(u, t, e), Grows(u, t), FactsRecorded(t),
         e.ev \in {"result", "denied"}, Apart(u.early), Nameless(u),
         \A id \in CallIds : id # e.id => FactsFor(u, id) = FactsFor(t, id),
         e.id \in CallIds => Learned(u, e.id, FactsFor(u, e.id))
  PROVE  FactsRecorded(u)
<1>1. ASSUME NEW id \in CallIds, id # e.id PROVE Learned(u, id, FactsFor(t, id))
  <2>1. Learned(t, id, FactsFor(t, id))
    BY DEF FactsRecorded
  <2> QED
    BY <1>1, <2>1, LearnedStays
<1> QED
  BY <1>1 DEF FactsRecorded

\* A refusal is known from now on.
LEMMA LearnDenied ==
  ASSUME NEW u, NEW t, NEW e, Advances(u, t, e), Grows(u, t), NEW id \in CallIds,
         NEW f \in Facts, Learned(t, id, f), e.ev = "denied", e.id = id
  PROVE  Learned(u, id, [f EXCEPT !.refused = TRUE])
<1> DEFINE g == [f EXCEPT !.refused = TRUE]
           n == Len(t.log) + 1
<1>1. Extended(u.log, t.log, e)
  BY DEF Advances
<1>2. /\ Events(u.log, "denied") = Events(t.log, "denied") \cup {n} /\ u.log[n] = e
      /\ Events(u.log, "result") = Events(t.log, "result")
      /\ \A i \in Events(t.log, "result") : u.log[i] = t.log[i]
  BY <1>1 DEF Extended
<1>3. ResultOf(u.log, id) = ResultOf(t.log, id)
  BY <1>2 DEF ResultOf
<1>4. n \in DeniedOf(u.log, id)
  <2>1. id # ""
    BY OutputConstants
  <2> QED
    BY <1>2, <2>1 DEF DeniedOf
<1>5. g.refused /\ g.has = f.has /\ g.isError = f.isError /\ g.at = f.at
  BY DEF Facts
<1> HIDE DEF g, n
<1>6. ASSUME f.has, NEW k, k = Min(ResultOf(t.log, id))
      PROVE  f.isError = u.log[k].isError /\ Tied(u, f.at, k)
  <2>1. f.isError = t.log[k].isError /\ Tied(t, f.at, k) /\ ResultOf(t.log, id) # {}
    BY <1>6 DEF Learned
  <2>2. ResultOf(t.log, id) \subseteq Nat
    BY <1>1 DEF Extended, ResultOf
  <2>3. k \in ResultOf(t.log, id)
    BY <1>6, <2>1, <2>2, MinIsFirst
  <2>4. u.log[k] = t.log[k]
    BY <1>2, <2>3 DEF ResultOf
  <2>5. Tied(u, f.at, k)
    BY <2>1, TiedStays
  <2> QED
    BY <2>1, <2>4, <2>5
<1>7. f.has <=> ResultOf(t.log, id) # {}
  BY DEF Learned
<1>8. Learned(u, id, g)
  BY <1>3, <1>4, <1>5, <1>6, <1>7 DEF Learned
<1> QED
  BY <1>8 DEF g

\* The first result of a call is known from now on.
LEMMA LearnResult ==
  ASSUME NEW u, NEW t, NEW e, Advances(u, t, e), SameTools(u, t), NEW id \in CallIds,
         NEW f \in Facts, Learned(t, id, f), e.ev = "result", e.id = id, CallsRecorded(t)
  PROVE  /\ f.has => Learned(u, id, f)
         /\ ~f.has /\ u.seq = t.seq + 1 =>
               Learned(u, id, [f EXCEPT !.has = TRUE, !.isError = e.isError, !.at = t.seq + 1])
<1> DEFINE n == Len(t.log) + 1
<1>1. Extended(u.log, t.log, e) /\ TurnOK(t) /\ t \in TurnSet /\ u \in TurnSet /\ Grows(u, t)
  BY SameToolsGrow DEF Advances, TurnOK, Placed
<1>2. /\ Events(u.log, "result") = Events(t.log, "result") \cup {n} /\ u.log[n] = e
      /\ Events(u.log, "denied") = Events(t.log, "denied")
      /\ \A i \in Events(t.log, "denied") : u.log[i] = t.log[i]
      /\ \A i \in Events(t.log, "result") : u.log[i] = t.log[i]
      /\ Events(t.log, "result") \subseteq 1..Len(t.log) /\ Len(t.log) \in Nat /\ Len(u.log) = n
  BY <1>1 DEF Extended
<1>3. DeniedOf(u.log, id) = DeniedOf(t.log, id)
  BY <1>2 DEF DeniedOf
<1>4. ResultOf(u.log, id) = ResultOf(t.log, id) \cup {n} /\ ResultOf(t.log, id) \subseteq 1..Len(t.log)
  BY <1>2 DEF ResultOf
<1>5. f.refused <=> DeniedOf(u.log, id) # {}
  BY <1>3 DEF Learned
<1>6. ASSUME f.has PROVE Learned(u, id, f)
  <2> DEFINE k == Min(ResultOf(t.log, id))
  <2>1. f.isError = t.log[k].isError /\ Tied(t, f.at, k) /\ ResultOf(t.log, id) # {}
    BY <1>6 DEF Learned
  <2>2. k \in ResultOf(t.log, id) /\ \A j \in ResultOf(t.log, id) : k <= j
    BY <1>4, <2>1, MinIsFirst
  <2> HIDE DEF k
  <2>3. k = Min(ResultOf(u.log, id))
    <3>1. k \in ResultOf(u.log, id) /\ \A j \in ResultOf(u.log, id) : k <= j
      BY <1>2, <1>4, <2>2
    <3>2. ResultOf(u.log, id) \subseteq Nat
      BY <1>2, <1>4
    <3>3. /\ Min(ResultOf(u.log, id)) \in ResultOf(u.log, id)
          /\ \A j \in ResultOf(u.log, id) : Min(ResultOf(u.log, id)) <= j
      BY <3>1, <3>2, MinIsFirst
    <3> QED
      BY <3>1, <3>2, <3>3
  <2>4. u.log[k] = t.log[k]
    BY <1>2, <2>2 DEF ResultOf
  <2>5. Tied(u, f.at, k)
    BY <1>1, <2>1, TiedStays DEF k
  <2>6. f.isError = u.log[k].isError /\ ResultOf(u.log, id) # {}
    BY <1>4, <2>1, <2>4 DEF k
  <2> QED
    BY <1>5, <1>6, <2>3, <2>5, <2>6 DEF Learned
<1>7. ASSUME ~f.has, u.seq = t.seq + 1
      PROVE  Learned(u, id, [f EXCEPT !.has = TRUE, !.isError = e.isError, !.at = t.seq + 1])
  <2> DEFINE g == [f EXCEPT !.has = TRUE, !.isError = e.isError, !.at = t.seq + 1]
  <2>1. g.has /\ g.isError = e.isError /\ g.at = t.seq + 1 /\ g.refused = f.refused
    BY DEF Facts
  <2> HIDE DEF g
  <2>2. ResultOf(u.log, id) = {n}
    BY <1>4, <1>7 DEF Learned
  <2>3. Min({n}) = n
    <3>1. n \in Nat
      BY <1>2
    <3> HIDE DEF n
    <3> QED
      BY <3>1, MinIsFirst
  <2>4. Tied(u, g.at, n)
    <3>1. t.seq \in Nat /\ u.seq \in Nat
      BY <1>1, TurnParts
    <3>2. \A i \in 1..Len(u.tools) : /\ u.tools[i].seq \in Nat /\ u.tools[i].called \in Nat
                                     /\ u.tools[i].seq <= g.at /\ u.tools[i].called <= n
      <4> TAKE i \in 1..Len(u.tools)
      <4>1. i \in 1..Len(t.tools) /\ u.tools[i].seq = t.tools[i].seq /\ u.tools[i].called = t.tools[i].called
        BY DEF SameTools
      <4>2. Tied(t, t.tools[i].seq, t.tools[i].called)
        BY <4>1 DEF CallsRecorded
      <4>3. u.tools[i].seq \in 0..t.seq /\ u.tools[i].called \in 0..Len(t.log)
        BY <4>1, <4>2 DEF Tied
      <4> QED
        BY <1>2, <2>1, <3>1, <4>3
    <3>3. g.at \in 0..u.seq /\ n \in 0..Len(u.log) /\ Len(u.log) \in Nat
      BY <1>2, <1>7, <2>1, <3>1
    <3> HIDE DEF n
    <3> QED
      BY <3>1, <3>2, <3>3, TiedNow
  <2>5. Learned(u, id, g)
    BY <1>2, <1>5, <2>1, <2>2, <2>3, <2>4 DEF Learned
  <2> QED
    BY <2>5 DEF g
<1> QED
  BY <1>6, <1>7

\* Early facts are of calls by their ids.
LEMMA EarlyParts ==
  ASSUME NEW t \in TurnSet
  PROVE  /\ DOMAIN t.early = 1..Len(t.early) /\ Len(t.early) \in Nat /\ t.early \in Seq(Earlies)
         /\ \A i \in 1..Len(t.early) : t.early[i] \in Earlies /\ t.early[i].id \in CallIds
<1>1. t.early \in Seq(Earlies) /\ Len(t.early) \in Nat
  BY TurnParts
<1>2. DOMAIN t.early = 1..Len(t.early) /\ \A i \in 1..Len(t.early) : t.early[i] \in Earlies
  BY <1>1, LenProperties, ElementOfSeq
<1> QED
  BY <1>1, <1>2 DEF Earlies

\* The early facts of a call are those that carry its id.
LEMMA EarlyIndexOf ==
  ASSUME NEW t \in TurnSet, NEW id \in CallIds
  PROVE  EarlyIndex(t, id) = {i \in 1..Len(t.early) : t.early[i].id = id}
<1>1. id # ""
  BY OutputConstants
<1>2. DOMAIN t.early = 1..Len(t.early)
  BY EarlyParts
<1> QED
  BY <1>1, <1>2, Zenon DEF EarlyIndex

\* The facts of a call are those found where they are looked for.
LEMMA FactsForAgree ==
  ASSUME NEW t, NEW u, NEW id, ToolIndex(u, id) = ToolIndex(t, id),
         EarlyIndex(u, id) = EarlyIndex(t, id),
         \A i \in ToolIndex(t, id) : u.tools[i].facts = t.tools[i].facts,
         ToolIndex(t, id) = {} => \A i \in EarlyIndex(t, id) : u.early[i].facts = t.early[i].facts
  PROVE  FactsFor(u, id) = FactsFor(t, id)
<1> DEFINE A == ToolIndex(t, id)
           B == EarlyIndex(t, id)
           i == CHOOSE k \in A : TRUE
           j == CHOOSE k \in B : TRUE
<1>1. FactsFor(u, id) = IF A # {} THEN u.tools[i].facts ELSE IF B # {} THEN u.early[j].facts ELSE NoFacts
  BY Zenon DEF FactsFor
<1>2. FactsFor(t, id) = IF A # {} THEN t.tools[i].facts ELSE IF B # {} THEN t.early[j].facts ELSE NoFacts
  BY Zenon DEF FactsFor
<1>3. (A # {} => i \in A) /\ (B # {} => j \in B)
  OBVIOUS
<1> HIDE DEF A, B, i, j
<1>4. A # {} => u.tools[i].facts = t.tools[i].facts
  BY <1>3 DEF A
<1>5. A = {} /\ B # {} => u.early[j].facts = t.early[j].facts
  BY <1>3 DEF A, B
<1> QED
  BY <1>1, <1>2, <1>4, <1>5

\* What factsFor hands out is what was put there, for the one call only.
LEMMA FactsForSet ==
  ASSUME NEW t \in TurnSet, NEW id \in CallIds, NEW f \in Facts, Len(t.early) < MaxEarly, Apart(t.early),
         NEW u, u = SetFacts(t, id, f), u \in TurnSet
  PROVE  /\ SameTools(u, t) /\ u.seq = t.seq
         /\ FactsFor(u, id) = f
         /\ \A other \in CallIds : other # id => FactsFor(u, other) = FactsFor(t, other)
         /\ Apart(u.early) /\ (Nameless(t) => Nameless(u))
         /\ Len(u.early) <= Len(t.early) + 1
<1>1. /\ t.tools \in Seq(Tools) /\ t.early \in Seq(Earlies) /\ Len(t.early) \in Nat
      /\ DOMAIN t.tools = 1..Len(t.tools) /\ DOMAIN t.early = 1..Len(t.early)
  BY TurnParts, ToolParts, EarlyParts
<1>2. CASE ToolIndex(t, id) # {}
  <2> DEFINE I == ToolIndex(t, id)
             w == WithFacts(t.tools, I, f)
  <2>1. u = [t EXCEPT !.tools = w]
    BY <1>2 DEF SetFacts
  <2>2. /\ Len(w) = Len(t.tools)
        /\ \A i \in 1..Len(t.tools) : /\ w[i].id = t.tools[i].id /\ w[i].seq = t.tools[i].seq
                                      /\ w[i].question = t.tools[i].question
                                      /\ w[i].called = t.tools[i].called
                                      /\ w[i].facts = IF i \in I THEN f ELSE t.tools[i].facts
    BY <1>1, ToolsWithFacts
  <2> HIDE DEF w
  <2>3. u.tools = w /\ u.seq = t.seq /\ u.early = t.early
    BY <2>1 DEF TurnSet
  <2>4. SameTools(u, t)
    BY <2>2, <2>3 DEF SameTools
  <2>5. \A x : ToolIndex(u, x) = ToolIndex(t, x) /\ EarlyIndex(u, x) = EarlyIndex(t, x)
    BY <2>3, <2>4, SameIndex DEF EarlyIndex
  <2>6. I \subseteq 1..Len(t.tools) /\ \A i \in I : t.tools[i].id = id
    BY IndexFacts
  <2>7. FactsFor(u, id) = f
    <3>1. (CHOOSE i \in I : TRUE) \in I
      BY <1>2
    <3>2. u.tools[CHOOSE i \in I : TRUE].facts = f
      BY <2>2, <2>3, <2>6, <3>1
    <3> QED
      BY <1>2, <2>5, <3>2 DEF FactsFor
  <2>8. ASSUME NEW other \in CallIds, other # id PROVE FactsFor(u, other) = FactsFor(t, other)
    <3>1. \A j \in ToolIndex(t, other) : j \in 1..Len(t.tools) /\ j \notin I
      BY <2>6, <2>8, IndexFacts
    <3>2. \A j \in ToolIndex(t, other) : u.tools[j].facts = t.tools[j].facts
      BY <2>2, <2>3, <3>1
    <3> QED
      BY <2>3, <2>5, <3>2, FactsForAgree
  <2>9. Nameless(t) => Nameless(u)
    BY <2>2, <2>3, <2>6 DEF Nameless
  <2> QED
    BY <1>1, <2>3, <2>4, <2>7, <2>8, <2>9
<1>3. CASE ToolIndex(t, id) = {} /\ EarlyIndex(t, id) # {}
  <2> DEFINE I == EarlyIndex(t, id)
             w == WithFacts(t.early, I, f)
  <2>1. u = [t EXCEPT !.early = w]
    BY <1>3 DEF SetFacts
  <2>2. /\ Len(w) = Len(t.early)
        /\ \A i \in 1..Len(t.early) : /\ w[i].id = t.early[i].id
                                      /\ w[i].facts = IF i \in I THEN f ELSE t.early[i].facts
    BY <1>1, EarliesWithFacts
  <2> HIDE DEF w
  <2>3. u.tools = t.tools /\ u.seq = t.seq /\ u.early = w
    BY <2>1 DEF TurnSet
  <2>4. SameTools(u, t) /\ \A x : ToolIndex(u, x) = ToolIndex(t, x)
    BY <2>3 DEF SameTools, ToolIndex
  <2>5. \A x \in CallIds : EarlyIndex(u, x) = EarlyIndex(t, x)
    <3> TAKE x \in CallIds
    <3>1. EarlyIndex(u, x) = {i \in 1..Len(u.early) : u.early[i].id = x}
      BY EarlyIndexOf
    <3>2. EarlyIndex(t, x) = {i \in 1..Len(t.early) : t.early[i].id = x}
      BY EarlyIndexOf
    <3> QED
      BY <2>2, <2>3, <3>1, <3>2
  <2>6. \A x \in CallIds : EarlyIndex(t, x) = {i \in 1..Len(t.early) : t.early[i].id = x}
    BY EarlyIndexOf
  <2>7. FactsFor(u, id) = f
    <3>1. (CHOOSE i \in I : TRUE) \in I
      BY <1>3
    <3>2. u.early[CHOOSE i \in I : TRUE].facts = f
      BY <2>2, <2>3, <2>6, <3>1
    <3> QED
      BY <1>3, <2>4, <2>5, <3>2 DEF FactsFor
  <2>8. ASSUME NEW other \in CallIds, other # id PROVE FactsFor(u, other) = FactsFor(t, other)
    <3>1. \A j \in EarlyIndex(t, other) : j \in 1..Len(t.early) /\ j \notin I
      BY <2>6, <2>8
    <3>2. \A j \in EarlyIndex(t, other) : u.early[j].facts = t.early[j].facts
      BY <2>2, <2>3, <3>1
    <3> QED
      BY <2>3, <2>4, <2>5, <3>2, FactsForAgree
  <2>9. (Nameless(t) => Nameless(u)) /\ Apart(u.early)
    BY <2>2, <2>3 DEF Nameless, Apart
  <2> QED
    BY <1>1, <2>2, <2>3, <2>4, <2>7, <2>8, <2>9
<1>4. CASE ToolIndex(t, id) = {} /\ EarlyIndex(t, id) = {}
  <2> DEFINE e == [id |-> id, facts |-> f]
             w == AtMost(Append(t.early, e), MaxEarly)
             n == Len(t.early) + 1
  <2>1. u = [t EXCEPT !.early = w]
    BY <1>4 DEF SetFacts
  <2>2. e \in Earlies /\ e.id = id /\ e.facts = f
    BY DEF Earlies
  <2> HIDE DEF e
  <2>3. w = Append(t.early, e)
    <3>1. IsPushed(Earlies, w, t.early, e, MaxEarly)
      BY <1>1, <2>2, Pushed, ConstantFacts
    <3> QED
      BY <3>1 DEF IsPushed
  <2>4. Len(w) = n /\ w[n] = e /\ \A i \in 1..Len(t.early) : w[i] = t.early[i]
    BY <1>1, <2>2, <2>3, AppendProperties
  <2> HIDE DEF w
  <2>5. u.tools = t.tools /\ u.seq = t.seq /\ u.early = w
    BY <2>1 DEF TurnSet
  <2>6. SameTools(u, t) /\ \A x : ToolIndex(u, x) = ToolIndex(t, x)
    BY <2>5 DEF SameTools, ToolIndex
  <2>7. \A x \in CallIds : /\ EarlyIndex(t, x) = {i \in 1..Len(t.early) : t.early[i].id = x}
                           /\ EarlyIndex(u, x) = {i \in 1..Len(u.early) : u.early[i].id = x}
    BY EarlyIndexOf
  <2>8. EarlyIndex(u, id) = {n} /\ \A x \in CallIds : x # id => EarlyIndex(u, x) = EarlyIndex(t, x)
    <3>1. \A i \in 1..Len(t.early) : t.early[i].id # id
      BY <1>4, <2>7
    <3>2. 1..n = (1..Len(t.early)) \cup {n} /\ n \notin 1..Len(t.early)
      BY <1>1
    <3> HIDE DEF n
    <3>3. EarlyIndex(u, id) = {i \in 1..n : w[i].id = id}
      BY <2>4, <2>5, <2>7
    <3>4. EarlyIndex(u, id) = {n}
      BY <2>2, <2>4, <3>1, <3>2, <3>3
    <3>5. ASSUME NEW x \in CallIds, x # id PROVE EarlyIndex(u, x) = EarlyIndex(t, x)
      <4>1. EarlyIndex(u, x) = {i \in 1..n : w[i].id = x}
        BY <2>4, <2>5, <2>7
      <4> QED
        BY <2>2, <2>4, <2>7, <3>2, <3>5, <4>1
    <3> QED
      BY <3>4, <3>5
  <2>9. FactsFor(u, id) = f
    <3>1. (CHOOSE i \in {n} : TRUE) = n
      OBVIOUS
    <3> QED
      BY <1>4, <2>2, <2>4, <2>5, <2>6, <2>8, <3>1 DEF FactsFor
  <2>10. ASSUME NEW other \in CallIds, other # id PROVE FactsFor(u, other) = FactsFor(t, other)
    <3>1. \A j \in EarlyIndex(t, other) : u.early[j].facts = t.early[j].facts
      BY <2>4, <2>5, <2>7
    <3> QED
      BY <2>5, <2>6, <2>8, <2>10, <3>1, FactsForAgree
  <2>11. Nameless(t) => Nameless(u)
    BY <2>5 DEF Nameless
  <2>12. Apart(u.early)
    <3>1. \A i \in 1..Len(t.early) : w[i].id # id
      BY <1>4, <2>4, <2>7
    <3>2. \A i \in 1..n : i = n \/ i \in 1..Len(t.early)
      BY <1>1
    <3> HIDE DEF n
    <3> QED
      BY <2>2, <2>4, <2>5, <3>1, <3>2 DEF Apart
  <2> QED
    BY <1>1, <2>4, <2>5, <2>6, <2>9, <2>10, <2>11, <2>12
<1> QED
  BY <1>2, <1>3, <1>4

-----------------------------------------------------------------------------
(* Signals that are kept *)

\* Signals that differ in their position only.
Same(s, z) ==
    /\ s.kind = z.kind /\ s.byTool = z.byTool /\ s.toolID = z.toolID /\ s.toolCall = z.toolCall
    /\ s.seq = z.seq /\ s.raised = z.raised

SameSignals(sigs, old) == Len(sigs) = Len(old) /\ \A i \in 1..Len(old) : Same(sigs[i], old[i])

\* The events of a turn's signals are in its log.
LEMMA RaisingArePlaces ==
  ASSUME NEW new, NEW log, NEW e, Extended(new, log, e)
  PROVE  Raising(log) \subseteq 1..Len(log) /\ Unanswered(log) \subseteq 1..Len(log)
BY DEF Extended, Raising, Unanswered

\* Signals are kept when an event comes.
LEMMA HoldsStay ==
  ASSUME NEW t, NEW u, NEW e, Grows(u, t), Extended(u.log, t.log, e),
         NEW sigs, NEW new, NEW events, Holds(t, sigs, events), SameSignals(new, sigs),
         events \subseteq 1..Len(t.log)
  PROVE  Holds(u, new, events)
<1>1. ASSUME NEW i \in 1..Len(new) PROVE new[i].raised \in events /\ Records(u, new[i])
  <2>1. i \in 1..Len(sigs) /\ Same(new[i], sigs[i])
    BY DEF SameSignals
  <2>2. sigs[i].raised \in events /\ Records(t, sigs[i])
    BY <2>1 DEF Holds
  <2>3. u.log[sigs[i].raised] = t.log[sigs[i].raised]
    BY <2>2 DEF Extended
  <2>4. Says(new[i], u.log[new[i].raised])
    BY <2>1, <2>2, <2>3 DEF Same, Records, Says
  <2>5. ~new[i].byTool => Tied(u, new[i].seq, new[i].raised)
    BY <2>1, <2>2, TiedStays DEF Same, Records
  <2> QED
    BY <2>1, <2>2, <2>4, <2>5 DEF Same, Records
<1>2. ASSUME NEW ev \in events PROVE \E i \in 1..Len(new) : new[i].raised = ev
  BY DEF Holds, SameSignals, Same
<1> QED
  BY <1>1, <1>2 DEF Holds

\* ... and one more with it.
LEMMA HoldsMore ==
  ASSUME NEW u, NEW sigs \in Seq(Signals), NEW events, Holds(u, sigs, events),
         NEW sig \in Signals, Records(u, sig)
  PROVE  Holds(u, Append(sigs, sig), events \cup {sig.raised})
<1> DEFINE new == Append(sigs, sig)
<1>1. /\ Len(sigs) \in Nat /\ Len(new) = Len(sigs) + 1 /\ new[Len(sigs) + 1] = sig
      /\ \A i \in 1..Len(sigs) : new[i] = sigs[i]
  BY AppendProperties
<1> HIDE DEF new
<1>2. \A i \in 1..Len(new) : i = Len(sigs) + 1 \/ i \in 1..Len(sigs)
  BY <1>1
<1>3. Len(sigs) + 1 \in 1..Len(new) /\ \A i \in 1..Len(sigs) : i \in 1..Len(new)
  BY <1>1
<1>4. \A i \in 1..Len(new) : new[i].raised \in events \cup {sig.raised} /\ Records(u, new[i])
  BY <1>1, <1>2 DEF Holds
<1>5. ASSUME NEW ev \in events \cup {sig.raised} PROVE \E i \in 1..Len(new) : new[i].raised = ev
  <2>1. CASE ev \in events
    BY <1>1, <1>3, <2>1 DEF Holds
  <2>2. CASE ev = sig.raised
    BY <1>1, <1>3, <2>2
  <2> QED
    BY <2>1, <2>2
<1>6. Holds(u, new, events \cup {sig.raised})
  BY <1>4, <1>5 DEF Holds
<1> QED
  BY <1>6 DEF new

\* No answer names a request that has not come.
LEMMA NotYetAnswered ==
  ASSUME NEW new, NEW log, NEW e, Extended(new, log, e), Remembered(log)
  PROVE  ~Answered(log, Len(log) + 1)
<1>1. ASSUME NEW j \in Events(log, "resolved") PROVE log[j].request # Len(log) + 1
  <2>1. log[j].request \in Events(log, "requested")
    BY DEF Remembered
  <2> QED
    BY <2>1 DEF Extended
<1> QED
  BY <1>1 DEF Answered

\* Answers stay what they were when no answer comes.
LEMMA AnswersStay ==
  ASSUME NEW new, NEW log, NEW e, Extended(new, log, e), e.ev # "resolved"
  PROVE  \A x : Answered(new, x) = Answered(log, x) /\ Allowed(new, x) = Allowed(log, x)
<1>1. /\ Events(new, "resolved") = Events(log, "resolved")
      /\ \A i \in Events(log, "resolved") : new[i] = log[i]
  BY DEF Extended
<1>2. \A x : (Answered(new, x) <=> Answered(log, x)) /\ (Allowed(new, x) <=> Allowed(log, x))
  BY <1>1 DEF Answered, Allowed
<1> QED
  BY <1>2 DEF Answered, Allowed

\* An event that asks for the user there and then.
Asks(e) == e.ev \in {"asked", "denied"} \/ (e.ev = "tool" /\ e.question)

\* What an event that is no answer adds to those that ask.
LEMMA RaisingGrows ==
  ASSUME NEW new, NEW log, NEW e, Extended(new, log, e), Remembered(log), e.ev # "resolved"
  PROVE  /\ Raising(new) = Raising(log) \cup (IF Asks(e) THEN {Len(log) + 1} ELSE {})
         /\ Unanswered(new) = Unanswered(log)
                                \cup (IF e.ev = "requested" THEN {Len(log) + 1} ELSE {})
<1> DEFINE n == Len(log) + 1
<1>1. /\ Len(log) \in Nat /\ new[n] = e
      /\ \A ev : /\ Events(log, ev) \subseteq 1..Len(log)
                 /\ e.ev = ev => Events(new, ev) = Events(log, ev) \cup {n}
                 /\ e.ev # ev => Events(new, ev) = Events(log, ev)
                 /\ \A i \in Events(log, ev) : new[i] = log[i]
  BY DEF Extended
<1>2. \A x : Answered(new, x) = Answered(log, x) /\ Allowed(new, x) = Allowed(log, x)
  BY AnswersStay
<1>3. ~Answered(new, n)
  BY <1>2, NotYetAnswered
<1> DEFINE Q(l) == {x \in Events(l, "tool") : l[x].question}
           R(l) == {x \in Events(l, "requested") : Answered(l, x) /\ ~Allowed(l, x)}
<1>4. \A l : Raising(l) = Events(l, "asked") \cup Events(l, "denied") \cup Q(l) \cup R(l)
  BY Zenon DEF Raising
<1>5. R(new) = R(log)
  BY <1>1, <1>2, <1>3
<1>6. Q(new) = Q(log) \cup (IF e.ev = "tool" /\ e.question THEN {n} ELSE {})
  <2>1. CASE e.ev = "tool"
    <3>1. Events(new, "tool") = Events(log, "tool") \cup {n}
      BY <1>1, <2>1
    <3>2. \A i \in Events(log, "tool") : new[i] = log[i]
      BY <1>1
    <3> QED
      BY <1>1, <2>1, <3>1, <3>2
  <2>2. CASE e.ev # "tool"
    BY <1>1, <2>2
  <2> QED
    BY <2>1, <2>2
<1>7. /\ Events(new, "asked") = Events(log, "asked") \cup (IF e.ev = "asked" THEN {n} ELSE {})
      /\ Events(new, "denied") = Events(log, "denied") \cup (IF e.ev = "denied" THEN {n} ELSE {})
      /\ Events(new, "requested") = Events(log, "requested") \cup (IF e.ev = "requested" THEN {n} ELSE {})
  BY <1>1
<1> HIDE DEF Q, R, n
<1>8. Raising(new) = Raising(log) \cup (IF Asks(e) THEN {n} ELSE {})
  BY <1>4, <1>5, <1>6, <1>7 DEF Asks
<1>9. Unanswered(new) = Unanswered(log) \cup (IF e.ev = "requested" THEN {n} ELSE {})
  BY <1>2, <1>3, <1>7 DEF Unanswered
<1> QED
  BY <1>8, <1>9 DEF n

\* What an answer does: the request it names was open.
LEMMA RaisingAnswered ==
  ASSUME NEW new, NEW log, NEW e, Extended(new, log, e), Remembered(new), e.ev = "resolved",
         e.allowed \in BOOLEAN
  PROVE  /\ e.request \in Unanswered(log)
         /\ Unanswered(new) = Unanswered(log) \ {e.request}
         /\ Raising(new) = Raising(log) \cup (IF e.allowed THEN {} ELSE {e.request})
<1> DEFINE n == Len(log) + 1
<1>1. /\ Len(log) \in Nat /\ new[n] = e
      /\ \A ev : /\ Events(log, ev) \subseteq 1..Len(log)
                 /\ e.ev = ev => Events(new, ev) = Events(log, ev) \cup {n}
                 /\ e.ev # ev => Events(new, ev) = Events(log, ev)
                 /\ \A i \in Events(log, ev) : new[i] = log[i]
  BY DEF Extended
<1>2. /\ Events(new, "resolved") = Events(log, "resolved") \cup {n} /\ n \notin Events(log, "resolved")
      /\ Events(new, "requested") = Events(log, "requested")
      /\ Events(new, "tool") = Events(log, "tool")
      /\ Events(new, "asked") = Events(log, "asked") /\ Events(new, "denied") = Events(log, "denied")
      /\ \A i \in Events(log, "resolved") : new[i] = log[i]
      /\ \A i \in Events(log, "tool") : new[i] = log[i]
  <2>1. n \notin Events(log, "resolved")
    BY <1>1
  <2> QED
    BY <1>1, <2>1
<1>3. /\ e.request \in Events(log, "requested")
      /\ \A j \in Events(log, "resolved") : log[j].request # e.request
  <2>1. /\ new[n].request \in Events(new, "requested")
        /\ \A j \in Events(new, "resolved") : new[j].request = new[n].request => n = j
    BY <1>2 DEF Remembered
  <2> QED
    BY <1>1, <1>2, <2>1
<1> HIDE DEF n
<1>4. ~Answered(log, e.request)
  BY <1>3 DEF Answered
<1>5. /\ \A x : Answered(new, x) <=> Answered(log, x) \/ x = e.request
      /\ \A x : x # e.request => (Allowed(new, x) <=> Allowed(log, x))
      /\ Allowed(new, e.request) <=> e.allowed
  <2>1. \A x : Answered(new, x) <=> Answered(log, x) \/ x = e.request
    BY <1>1, <1>2 DEF Answered
  <2>2. \A x : x # e.request => (Allowed(new, x) <=> Allowed(log, x))
    BY <1>1, <1>2 DEF Allowed
  <2>3. Allowed(new, e.request) <=> e.allowed
    BY <1>1, <1>2, <1>3 DEF Allowed
  <2> QED
    BY <2>1, <2>2, <2>3
<1>6. e.request \in Unanswered(log) /\ Unanswered(new) = Unanswered(log) \ {e.request}
  BY <1>2, <1>3, <1>4, <1>5 DEF Unanswered
<1> DEFINE Q(l) == {x \in Events(l, "tool") : l[x].question}
           R(l) == {x \in Events(l, "requested") : Answered(l, x) /\ ~Allowed(l, x)}
<1>7. Raising(new) = Events(new, "asked") \cup Events(new, "denied") \cup Q(new) \cup R(new)
      /\ Raising(log) = Events(log, "asked") \cup Events(log, "denied") \cup Q(log) \cup R(log)
  BY DEF Raising
<1>8. Q(new) = Q(log)
  BY <1>2
<1>9. R(new) = R(log) \cup (IF e.allowed THEN {} ELSE {e.request})
  <2>1. \A x : x \in R(new) <=> x \in R(log) \/ (x = e.request /\ ~e.allowed)
    BY <1>2, <1>3, <1>4, <1>5
  <2> HIDE DEF R
  <2> QED
    BY <2>1
<1> HIDE DEF Q, R
<1>10. Raising(new) = Raising(log) \cup (IF e.allowed THEN {} ELSE {e.request})
  BY <1>2, <1>7, <1>8, <1>9
<1> QED
  BY <1>6, <1>10

\* The signals of a turn stay recorded when nothing asks or answers, ...
LEMMA SignalsRecordedStay ==
  ASSUME NEW u, NEW t, NEW e, Advances(u, t, e), Grows(u, t), SignalsRecorded(t), Remembered(t.log),
         e.ev \in {"delta", "mark", "result", "tool"}, e.ev = "tool" => ~e.question,
         SameSignals(u.signals, t.signals), SameSignals(u.pending, t.pending)
  PROVE  SignalsRecorded(u)
<1>1. Extended(u.log, t.log, e)
  BY DEF Advances
<1>2. Raising(u.log) = Raising(t.log) /\ Unanswered(u.log) = Unanswered(t.log)
  <2>1. ~Asks(e) /\ e.ev # "requested" /\ e.ev # "resolved"
    BY DEF Asks
  <2>2. /\ Raising(u.log) = Raising(t.log) \cup (IF Asks(e) THEN {Len(t.log) + 1} ELSE {})
        /\ Unanswered(u.log) = Unanswered(t.log)
                                 \cup (IF e.ev = "requested" THEN {Len(t.log) + 1} ELSE {})
    BY <1>1, <2>1, RaisingGrows
  <2> QED
    BY <2>1, <2>2
<1>3. Raising(t.log) \subseteq 1..Len(t.log) /\ Unanswered(t.log) \subseteq 1..Len(t.log)
  BY <1>1, RaisingArePlaces
<1>4. Holds(u, u.signals, Raising(u.log))
  BY <1>1, <1>2, <1>3, HoldsStay DEF SignalsRecorded
<1>5. Holds(u, u.pending, Unanswered(u.log))
  BY <1>1, <1>2, <1>3, HoldsStay DEF SignalsRecorded
<1>6. \A i, j \in 1..Len(u.pending) : u.pending[i].raised = u.pending[j].raised => i = j
  BY DEF SignalsRecorded, SameSignals, Same
<1> QED
  BY <1>4, <1>5, <1>6 DEF SignalsRecorded

\* A sequence is the same as itself.
LEMMA SameAsItself == \A sigs : SameSignals(sigs, sigs)
BY DEF SameSignals, Same

\* ... when an event asks and its signal is added, ...
LEMMA SignalsRecordedMore ==
  ASSUME NEW u, NEW t, NEW e, Advances(u, t, e), Grows(u, t), SignalsRecorded(t), Remembered(t.log),
         e.ev \in {"asked", "denied", "tool"}, e.ev = "tool" => e.question,
         NEW sig \in Signals, Records(u, sig), sig.raised = Len(t.log) + 1,
         u.signals = Append(t.signals, sig), u.pending = t.pending
  PROVE  SignalsRecorded(u)
<1>1. Extended(u.log, t.log, e) /\ t \in TurnSet /\ t.signals \in Seq(Signals)
  BY TurnParts DEF Advances, TurnOK, Placed
<1>2. /\ Raising(u.log) = Raising(t.log) \cup {Len(t.log) + 1}
      /\ Unanswered(u.log) = Unanswered(t.log)
  <2>1. Asks(e) /\ e.ev # "requested" /\ e.ev # "resolved"
    BY DEF Asks
  <2>2. /\ Raising(u.log) = Raising(t.log) \cup (IF Asks(e) THEN {Len(t.log) + 1} ELSE {})
        /\ Unanswered(u.log) = Unanswered(t.log)
                                 \cup (IF e.ev = "requested" THEN {Len(t.log) + 1} ELSE {})
    BY <1>1, <2>1, RaisingGrows
  <2> QED
    BY <2>1, <2>2
<1>3. Raising(t.log) \subseteq 1..Len(t.log) /\ Unanswered(t.log) \subseteq 1..Len(t.log)
  BY <1>1, RaisingArePlaces
<1>4. Holds(u, t.signals, Raising(t.log)) /\ Holds(u, t.pending, Unanswered(t.log))
  BY <1>1, <1>3, HoldsStay, SameAsItself DEF SignalsRecorded
<1>5. Holds(u, u.signals, Raising(u.log))
  BY <1>1, <1>2, <1>4, HoldsMore
<1> QED
  BY <1>2, <1>4, <1>5 DEF SignalsRecorded

\* ... when a request is kept until it is answered, ...
LEMMA SignalsRecordedPending ==
  ASSUME NEW u, NEW t, NEW e, Advances(u, t, e), Grows(u, t), SignalsRecorded(t), Remembered(t.log),
         e.ev = "requested", NEW sig \in Signals, Records(u, sig), sig.raised = Len(t.log) + 1,
         u.pending = Append(t.pending, sig), u.signals = t.signals
  PROVE  SignalsRecorded(u)
<1>1. Extended(u.log, t.log, e) /\ t \in TurnSet /\ t.pending \in Seq(Signals)
  BY TurnParts DEF Advances, TurnOK, Placed
<1>2. /\ Raising(u.log) = Raising(t.log)
      /\ Unanswered(u.log) = Unanswered(t.log) \cup {Len(t.log) + 1}
  <2>1. ~Asks(e) /\ e.ev # "resolved"
    BY DEF Asks
  <2>2. /\ Raising(u.log) = Raising(t.log) \cup (IF Asks(e) THEN {Len(t.log) + 1} ELSE {})
        /\ Unanswered(u.log) = Unanswered(t.log)
                                 \cup (IF e.ev = "requested" THEN {Len(t.log) + 1} ELSE {})
    BY <1>1, <2>1, RaisingGrows
  <2> QED
    BY <2>1, <2>2
<1>3. Raising(t.log) \subseteq 1..Len(t.log) /\ Unanswered(t.log) \subseteq 1..Len(t.log)
  BY <1>1, RaisingArePlaces
<1>4. Holds(u, t.signals, Raising(t.log)) /\ Holds(u, t.pending, Unanswered(t.log))
  BY <1>1, <1>3, HoldsStay, SameAsItself DEF SignalsRecorded
<1>5. Holds(u, u.pending, Unanswered(u.log))
  BY <1>1, <1>2, <1>4, HoldsMore
<1>6. ASSUME NEW i \in 1..Len(u.pending), NEW j \in 1..Len(u.pending),
             u.pending[i].raised = u.pending[j].raised
      PROVE  i = j
  <2>1. /\ Len(t.pending) \in Nat /\ Len(u.pending) = Len(t.pending) + 1
        /\ u.pending[Len(t.pending) + 1] = sig
        /\ \A k \in 1..Len(t.pending) : u.pending[k] = t.pending[k]
    BY <1>1, AppendProperties
  <2>2. \A k \in 1..Len(t.pending) : t.pending[k].raised # sig.raised
    BY <1>1, <1>3, <1>4 DEF Holds, Extended
  <2>3. \A k \in 1..Len(u.pending) : k = Len(t.pending) + 1 \/ k \in 1..Len(t.pending)
    BY <2>1
  <2>4. \A k, l \in 1..Len(t.pending) : t.pending[k].raised = t.pending[l].raised => k = l
    BY DEF SignalsRecorded
  <2> QED
    BY <1>6, <2>1, <2>2, <2>3, <2>4
<1> QED
  BY <1>2, <1>4, <1>5, <1>6 DEF SignalsRecorded

\* ... and when it is answered.
LEMMA SignalsRecordedAnswer ==
  ASSUME NEW u, NEW t, NEW e, Advances(u, t, e), Grows(u, t), SignalsRecorded(t), Remembered(u.log),
         e.ev = "resolved", e.allowed \in BOOLEAN,
         NEW i \in 1..Len(t.pending), t.pending[i].raised = e.request,
         u.pending = RemoveAt(t.pending, i),
         u.signals = IF e.allowed THEN t.signals ELSE Append(t.signals, t.pending[i])
  PROVE  SignalsRecorded(u)
<1>1. /\ Extended(u.log, t.log, e) /\ t \in TurnSet
      /\ t.pending \in Seq(Signals) /\ t.signals \in Seq(Signals) /\ Len(t.pending) \in Nat
  BY TurnParts DEF Advances, TurnOK, Placed
<1>2. /\ Unanswered(u.log) = Unanswered(t.log) \ {e.request}
      /\ Raising(u.log) = Raising(t.log) \cup (IF e.allowed THEN {} ELSE {e.request})
  BY <1>1, RaisingAnswered
<1>3. Raising(t.log) \subseteq 1..Len(t.log) /\ Unanswered(t.log) \subseteq 1..Len(t.log)
  BY <1>1, RaisingArePlaces
<1>4. Holds(u, t.signals, Raising(t.log)) /\ Holds(u, t.pending, Unanswered(t.log))
  BY <1>1, <1>3, HoldsStay, SameAsItself DEF SignalsRecorded
<1>5. t.pending[i] \in Signals /\ Records(u, t.pending[i])
  BY <1>1, <1>4, ElementOfSeq DEF Holds
<1>6. Holds(u, u.signals, Raising(u.log))
  <2>1. CASE e.allowed
    BY <1>2, <1>4, <2>1
  <2>2. CASE ~e.allowed
    BY <1>1, <1>2, <1>4, <1>5, <2>2, HoldsMore
  <2> QED
    BY <2>1, <2>2
<1> DEFINE p == RemoveAt(t.pending, i)
<1>7. Len(p) = Len(t.pending) - 1 /\ \A j \in 1..Len(p) : p[j] = t.pending[IF j < i THEN j ELSE j + 1]
  BY <1>1, Removed
<1> HIDE DEF p
<1>8. u.pending = p
  BY DEF p
<1>9. \A k, l \in 1..Len(t.pending) : t.pending[k].raised = t.pending[l].raised => k = l
  BY DEF SignalsRecorded
<1>10. \A j \in 1..Len(p) : LET k == IF j < i THEN j ELSE j + 1 IN
           k \in 1..Len(t.pending) /\ k # i
  BY <1>1, <1>7
<1>11. Holds(u, p, Unanswered(u.log))
  <2>1. ASSUME NEW j \in 1..Len(p) PROVE p[j].raised \in Unanswered(u.log) /\ Records(u, p[j])
    <3> DEFINE k == IF j < i THEN j ELSE j + 1
    <3>1. k \in 1..Len(t.pending) /\ k # i /\ p[j] = t.pending[k]
      BY <1>7, <1>10
    <3> HIDE DEF k
    <3>2. t.pending[k].raised \in Unanswered(t.log) /\ Records(u, t.pending[k])
      BY <1>4, <3>1 DEF Holds
    <3>3. t.pending[k].raised # e.request
      BY <1>9, <3>1
    <3> QED
      BY <1>2, <3>1, <3>2, <3>3
  <2>2. ASSUME NEW ev \in Unanswered(u.log) PROVE \E j \in 1..Len(p) : p[j].raised = ev
    <3>1. PICK k \in 1..Len(t.pending) : t.pending[k].raised = ev
      BY <1>2, <1>4 DEF Holds
    <3>2. k # i
      BY <1>2, <3>1
    <3> DEFINE j == IF k < i THEN k ELSE k - 1
    <3>3. j \in 1..Len(p) /\ k = IF j < i THEN j ELSE j + 1
      BY <1>1, <1>7, <3>2
    <3> HIDE DEF j
    <3>4. p[j] = t.pending[k]
      BY <1>7, <3>3
    <3> QED
      BY <3>1, <3>3, <3>4
  <2> QED
    BY <2>1, <2>2 DEF Holds
<1>12. ASSUME NEW j \in 1..Len(p), NEW l \in 1..Len(p), p[j].raised = p[l].raised PROVE j = l
  <2> DEFINE k == IF j < i THEN j ELSE j + 1
             m == IF l < i THEN l ELSE l + 1
  <2>1. /\ k \in 1..Len(t.pending) /\ p[j] = t.pending[k]
        /\ m \in 1..Len(t.pending) /\ p[l] = t.pending[m]
    BY <1>7, <1>10
  <2>2. k = m
    <3> HIDE DEF k, m
    <3> QED
      BY <1>9, <1>12, <2>1
  <2> QED
    BY <1>7, <2>2
<1> QED
  BY <1>6, <1>8, <1>11, <1>12 DEF SignalsRecorded

-----------------------------------------------------------------------------
(* What an event does to what a turn keeps *)

\* The same but for the text.
Passes(v, t) ==
    /\ v.tools = t.tools /\ v.early = t.early /\ v.signals = t.signals /\ v.pending = t.pending
    /\ v.seq = t.seq

\* A turn with an event logged, and a text run ended or not.
LEMMA LoggedIs ==
  ASSUME NEW t, TurnOK(t), NEW e \in Entries, NEW v, v \in {Logged(t, e), Boundary(Logged(t, e))}
  PROVE  /\ Advances(v, t, e) /\ Passes(v, t) /\ v.log = Append(t.log, e) /\ Here(v) = Len(t.log) + 1
         /\ v \in TurnSet /\ t \in TurnSet
<1>1. t \in TurnSet /\ t.log \in Seq(Entries) /\ t.seq \in Nat
  BY TurnParts DEF TurnOK, Placed
<1>2. Append(t.log, e) \in Seq(Entries) /\ Len(Append(t.log, e)) = Len(t.log) + 1
  BY <1>1, AppendProperties
<1>3. Logged(t, e) \in TurnSet /\ Passes(Logged(t, e), t) /\ Logged(t, e).log = Append(t.log, e)
  BY <1>1, <1>2 DEF Logged, TurnSet, Passes
<1>4. ASSUME NEW w \in TurnSet
      PROVE  Boundary(w) \in TurnSet /\ Passes(Boundary(w), w) /\ Boundary(w).log = w.log
  BY DEF Boundary, TurnSet, Passes
<1>5. v \in TurnSet /\ Passes(v, t) /\ v.log = Append(t.log, e)
  BY <1>3, <1>4 DEF Passes
<1>6. Extended(v.log, t.log, e)
  BY <1>1, <1>5, LogGrows
<1>7. Advances(v, t, e)
  BY <1>1, <1>5, <1>6 DEF Advances, Passes
<1> QED
  BY <1>1, <1>2, <1>5, <1>7 DEF Here

\* What else stays the same.
Unmoved(u, t) ==
    /\ SameTools(u, t) /\ SameToolFacts(u, t) /\ u.early = t.early /\ u.seq = t.seq
    /\ SameSignals(u.signals, t.signals) /\ SameSignals(u.pending, t.pending)

\* An event that passes moves nothing.
LEMMA PassesUnmoved ==
  ASSUME NEW u, NEW t, Passes(u, t)
  PROVE  Unmoved(u, t)
<1>1. SameTools(u, t) /\ SameToolFacts(u, t)
  BY DEF Passes, SameTools, SameToolFacts
<1>2. SameSignals(u.signals, t.signals) /\ SameSignals(u.pending, t.pending)
  BY SameAsItself DEF Passes
<1> QED
  BY <1>1, <1>2 DEF Passes, Unmoved

\* Moving positions moves nothing else.
LEMMA SignalsMoved ==
  ASSUME NEW sigs \in Seq(Signals), NEW k
  PROVE  SameSignals(SignalsShifted(sigs, k), sigs)
<1> DEFINE q == SignalsShifted(sigs, k)
           n == Len(sigs)
<1>1. DOMAIN sigs = 1..n /\ n \in Nat /\ \A i \in 1..n : sigs[i] \in Signals
  BY LenProperties, ElementOfSeq
<1>2. /\ q = [i \in 1..n |-> q[i]]
      /\ \A i \in 1..n : q[i] = [sigs[i] EXCEPT !.at = Shift(@, k)]
  BY <1>1, Zenon DEF SignalsShifted
<1> HIDE DEF q, n
<1>3. Len(q) = n
  <2>1. q \in [1..n -> {q[i] : i \in 1..n}]
    BY <1>2
  <2> QED
    BY <1>1, <2>1, FunctionIsSeq
<1>4. ASSUME NEW s \in Signals PROVE Same([s EXCEPT !.at = Shift(@, k)], s)
  BY DEF Signals, Same
<1>5. SameSignals(q, sigs)
  BY <1>1, <1>2, <1>3, <1>4 DEF SameSignals, n
<1> QED
  BY <1>5 DEF q

\* The calls of a turn whose blocks moved are those it had.
LEMMA ToolsMoved ==
  ASSUME NEW t \in TurnSet, NEW k, NEW u, u.tools = ToolsShifted(t.tools, k)
  PROVE  SameTools(u, t) /\ SameToolFacts(u, t)
<1> DEFINE tools == t.tools
           q == ToolsShifted(tools, k)
           n == Len(tools)
<1>1. DOMAIN tools = 1..n /\ n \in Nat /\ \A i \in 1..n : tools[i] \in Tools
  BY ToolParts
<1>2. /\ q = [i \in 1..n |-> q[i]]
      /\ \A i \in 1..n : q[i] = [tools[i] EXCEPT !.blocksAt = Shift(@, k)]
  BY <1>1, Zenon DEF ToolsShifted
<1>0. u.tools = q
  OBVIOUS
<1> HIDE DEF q, n, tools
<1>3. Len(q) = n
  <2>1. q \in [1..n -> {q[i] : i \in 1..n}]
    BY <1>2
  <2> QED
    BY <1>1, <2>1, FunctionIsSeq
<1>4. ASSUME NEW x \in Tools
      PROVE  LET y == [x EXCEPT !.blocksAt = Shift(@, k)] IN
             /\ y.id = x.id /\ y.seq = x.seq /\ y.called = x.called /\ y.question = x.question
             /\ y.facts = x.facts
  BY DEF Tools
<1>5. ASSUME NEW i \in 1..n
      PROVE  /\ q[i].id = tools[i].id /\ q[i].seq = tools[i].seq /\ q[i].called = tools[i].called
             /\ q[i].question = tools[i].question /\ q[i].facts = tools[i].facts
  <2>1. tools[i] \in Tools /\ q[i] = [tools[i] EXCEPT !.blocksAt = Shift(@, k)]
    BY <1>1, <1>2
  <2> QED
    BY <1>4, <2>1
<1> QED
  BY <1>0, <1>3, <1>5 DEF SameTools, SameToolFacts, tools, n

\* addDelta changes the text only.
LEMMA AddDeltaUnmoved ==
  ASSUME NEW t \in TurnSet, NEW d
  PROVE  Unmoved(AddDelta(t, d), t) /\ AddDelta(t, d).log = t.log
<1>1. PICK b, c : AddDelta(t, d) = Trim([t EXCEPT !.blocks = b, !.anonOpen = c])
  BY Zenon DEF AddDelta
<1> DEFINE x == [t EXCEPT !.blocks = b, !.anonOpen = c]
           k == Len(b) - MaxBlocks
           a == AtMost(b, MaxBlocks)
           y == [t EXCEPT !.blocks = a, !.anonOpen = c, !.tools = ToolsShifted(t.tools, k),
                          !.signals = SignalsShifted(t.signals, k),
                          !.pending = SignalsShifted(t.pending, k)]
<1>2. x.blocks = b /\ Passes(x, t) /\ x.log = t.log
  BY DEF TurnSet, Passes
<1>3. CASE Len(b) <= MaxBlocks
  <2>1. AddDelta(t, d) = x
    BY <1>1, <1>2, <1>3, Zenon DEF Trim
  <2> HIDE DEF x
  <2> QED
    BY <1>2, <2>1, PassesUnmoved
<1>4. CASE ~ (Len(b) <= MaxBlocks)
  <2>1. AddDelta(t, d) = BlocksShifted([x EXCEPT !.blocks = AtMost(@, MaxBlocks)], k)
    BY <1>1, <1>2, <1>4, Zenon DEF Trim
  <2>2. [x EXCEPT !.blocks = AtMost(@, MaxBlocks)] = [t EXCEPT !.blocks = a, !.anonOpen = c]
    <3> HIDE DEF a
    <3> QED
      BY DEF TurnSet, a
  <2>3. AddDelta(t, d) = y
    <3> DEFINE z == [t EXCEPT !.blocks = a, !.anonOpen = c]
    <3>1. z.tools = t.tools /\ z.signals = t.signals /\ z.pending = t.pending
      BY DEF TurnSet
    <3>2. BlocksShifted(z, k) = [z EXCEPT !.tools = ToolsShifted(t.tools, k),
                                          !.signals = SignalsShifted(t.signals, k),
                                          !.pending = SignalsShifted(t.pending, k)]
      BY <3>1, Zenon DEF BlocksShifted
    <3>3. AddDelta(t, d) = BlocksShifted(z, k)
      BY <2>1, <2>2, Zenon
    <3> HIDE DEF a, k
    <3> QED
      BY <3>2, <3>3 DEF TurnSet
  <2> HIDE DEF a, k
  <2>4. /\ y.tools = ToolsShifted(t.tools, k) /\ y.signals = SignalsShifted(t.signals, k)
        /\ y.pending = SignalsShifted(t.pending, k)
        /\ y.early = t.early /\ y.seq = t.seq /\ y.log = t.log
    BY DEF TurnSet
  <2> HIDE DEF y
  <2>5. SameTools(y, t) /\ SameToolFacts(y, t)
    BY <2>4, ToolsMoved
  <2>6. SameSignals(y.signals, t.signals) /\ SameSignals(y.pending, t.pending)
    BY <2>4, SignalsMoved, TurnParts
  <2> QED
    BY <2>3, <2>4, <2>5, <2>6 DEF Unmoved
<1> QED
  BY <1>3, <1>4

\* Nothing is forgotten when an event brings nothing to keep.
LEMMA UnmovedRecorded ==
  ASSUME NEW u, NEW t, NEW e, Advances(u, t, e), Unmoved(u, t), Recorded(t), Remembered(u.log),
         e.ev \in {"delta", "mark"}
  PROVE  Recorded(u)
<1>1. Extended(u.log, t.log, e) /\ t \in TurnSet /\ u \in TurnSet /\ Remembered(t.log)
  BY RememberedBefore DEF Advances, TurnOK, Placed
<1>2. /\ SameTools(u, t) /\ SameToolFacts(u, t) /\ u.early = t.early
      /\ SameSignals(u.signals, t.signals) /\ SameSignals(u.pending, t.pending)
      /\ Grows(u, t)
  BY SameToolsGrow DEF Unmoved
<1>3. CallsRecorded(t) /\ FactsRecorded(t) /\ SignalsRecorded(t) /\ Counted(t)
  BY DEF Recorded
<1>4. CallsRecorded(u)
  BY <1>2, <1>3, CallsStay
<1>5. FactsRecorded(u)
  <2>1. \A id \in CallIds : FactsFor(u, id) = FactsFor(t, id)
    BY <1>1, <1>2, FactsForSame
  <2>2. Apart(u.early)
    BY <1>2, <1>3 DEF FactsRecorded
  <2>3. Nameless(u)
    BY <1>2, <1>3 DEF FactsRecorded, Nameless, SameTools, SameToolFacts
  <2>4. e.ev \notin {"result", "denied"}
    OBVIOUS
  <2> QED
    BY <1>2, <1>3, <2>1, <2>2, <2>3, <2>4, FactsStay
<1>6. SignalsRecorded(u)
  BY <1>1, <1>2, <1>3, SignalsRecordedStay
<1>7. Counted(u)
  <2>1. /\ Len(t.signals) <= Cardinality(Signalled(u.log))
        /\ Len(t.pending) <= Cardinality(Events(u.log, "requested"))
        /\ Len(t.early) <= Cardinality(Learnt(u.log))
    BY <1>1, <1>3, Room, TurnParts
  <2> QED
    BY <1>2, <2>1 DEF Counted, SameSignals
<1> QED
  BY <1>4, <1>5, <1>6, <1>7 DEF Recorded

\* What comes now is tied to the end of the log.
LEMMA TiedHere ==
  ASSUME NEW u, NEW t, NEW e, Advances(u, t, e), SameTools(u, t), CallsRecorded(t)
  PROVE  Tied(u, t.seq, Len(t.log) + 1)
<1>1. /\ Extended(u.log, t.log, e) /\ t \in TurnSet /\ u \in TurnSet /\ t.seq <= u.seq
      /\ t.seq \in Nat /\ u.seq \in Nat /\ Len(t.log) \in Nat /\ Len(u.log) = Len(t.log) + 1
  BY TurnParts DEF Advances, TurnOK, Placed, Extended
<1>2. ASSUME NEW i \in 1..Len(u.tools)
      PROVE  /\ u.tools[i].seq \in Nat /\ u.tools[i].called \in Nat
             /\ u.tools[i].seq <= t.seq /\ u.tools[i].called <= Len(t.log) + 1
  <2>1. i \in 1..Len(t.tools) /\ u.tools[i].seq = t.tools[i].seq /\ u.tools[i].called = t.tools[i].called
    BY DEF SameTools
  <2>2. Tied(t, t.tools[i].seq, t.tools[i].called)
    BY <2>1 DEF CallsRecorded
  <2>3. u.tools[i].seq \in 0..t.seq /\ u.tools[i].called \in 0..Len(t.log)
    BY <2>1, <2>2 DEF Tied
  <2> QED
    BY <1>1, <2>3
<1>3. t.seq \in 0..u.seq /\ Len(t.log) + 1 \in 0..Len(u.log) /\ Len(u.log) \in Nat
  BY <1>1
<1> QED
  BY <1>1, <1>2, <1>3, TiedNow

\* addSignal with room for the signal.
LEMMA SignalIsAdded ==
  ASSUME NEW x \in TurnSet, NEW sig \in Signals, Len(x.signals) < MaxSignals,
         NEW u, u = AddSignal(x, sig)
  PROVE  /\ u \in TurnSet /\ u.signals = Append(x.signals, sig)
         /\ u.tools = x.tools /\ u.early = x.early /\ u.pending = x.pending
         /\ u.seq = x.seq /\ u.log = x.log
         /\ Len(u.signals) = Len(x.signals) + 1
<1> DEFINE q == AtMost(Append(x.signals, sig), MaxSignals)
<1>1. q = Append(x.signals, sig) /\ q \in Seq(Signals) /\ Len(q) = Len(x.signals) + 1
  <2>1. x.signals \in Seq(Signals)
    BY TurnParts
  <2>2. IsPushed(Signals, q, x.signals, sig, MaxSignals)
    BY <2>1, Pushed, ConstantFacts
  <2> QED
    BY <2>2 DEF IsPushed
<1>2. u = [x EXCEPT !.signals = q]
  BY DEF AddSignal
<1> HIDE DEF q
<1> QED
  BY <1>1, <1>2 DEF TurnSet

\* A signal as it is made.
LEMMA SignalNow ==
  ASSUME NEW t \in TurnSet, NEW kind \in Kinds, NEW said \in BOOLEAN, NEW byTool \in BOOLEAN,
         NEW id \in Named, NEW toolCall \in BOOLEAN,
         NEW sig, sig = Signal(t, kind, said, byTool, id, toolCall)
  PROVE  /\ sig \in Signals /\ sig.kind = kind /\ sig.byTool = byTool /\ sig.toolID = id
         /\ sig.toolCall = toolCall /\ sig.seq = t.seq /\ sig.raised = Here(t)
<1>1. Len(t.blocks) \in Nat /\ t.seq \in Nat /\ Here(t) \in Nat
  BY TurnParts DEF Here
<1> QED
  BY <1>1 DEF Signal, Signals

\* A signal that stands where it is raised.
LEMMA StandingSignal ==
  ASSUME NEW t \in TurnSet, NEW kind \in Kinds,
         NEW sig, sig = Signal(t, kind, TRUE, FALSE, "", FALSE)
  PROVE  /\ sig \in Signals /\ sig.kind = kind /\ ~sig.byTool /\ ~sig.toolCall
         /\ sig.seq = t.seq /\ sig.raised = Here(t)
<1>1. PICK none : none = ""
  OBVIOUS
<1>2. PICK yes : yes = TRUE
  OBVIOUS
<1>3. PICK no : no = FALSE
  OBVIOUS
<1>4. sig = Signal(t, kind, yes, no, none, no)
  BY ONLY <1>1, <1>2, <1>3, sig = Signal(t, kind, TRUE, FALSE, "", FALSE), Zenon
<1>5. none \in Named /\ yes \in BOOLEAN /\ no \in BOOLEAN
  BY <1>1, <1>2, <1>3 DEF Named
<1>6. t \in TurnSet /\ kind \in Kinds
  OBVIOUS
<1>7. /\ sig \in Signals /\ sig.kind = kind /\ sig.byTool = no /\ sig.toolID = none
      /\ sig.toolCall = no /\ sig.seq = t.seq /\ sig.raised = Here(t)
  BY ONLY <1>4, <1>5, <1>6, SignalNow
<1> QED
  BY ONLY <1>3, <1>7

\* A question by request is kept with the turn.
LEMMA AskedRecorded ==
  ASSUME NEW t, TurnOK(t), Recorded(t), NEW e \in Entries, e.ev = "asked",
         NEW v, v = Boundary(Logged(t, e)),
         NEW sig \in Signals, sig.kind = "question", ~sig.byTool, ~sig.toolCall,
         sig.seq = t.seq, sig.raised = Len(t.log) + 1,
         NEW u, u = AddSignal(v, sig), Remembered(u.log)
  PROVE  Recorded(u)
<1>1. /\ Advances(v, t, e) /\ Passes(v, t) /\ v.log = Append(t.log, e) /\ v \in TurnSet /\ t \in TurnSet
  BY LoggedIs
<1>3. CallsRecorded(t) /\ FactsRecorded(t) /\ SignalsRecorded(t) /\ Counted(t)
  BY DEF Recorded
<1>4. u.log = v.log
  <2>1. u = [v EXCEPT !.signals = AtMost(Append(@, sig), MaxSignals)]
    BY DEF AddSignal
  <2> QED
    BY <1>1, <2>1 DEF TurnSet
<1>5. /\ Extended(v.log, t.log, e) /\ Remembered(v.log) /\ Remembered(t.log)
  BY <1>1, <1>4, RememberedBefore DEF Advances
<1>6. /\ Len(t.signals) < MaxSignals /\ Len(t.signals) + 1 <= Cardinality(Signalled(v.log))
      /\ Len(t.pending) <= Cardinality(Events(v.log, "requested"))
      /\ Len(t.early) <= Cardinality(Learnt(v.log))
  BY <1>1, <1>3, <1>5, Room, TurnParts
<1>7. /\ u \in TurnSet /\ u.signals = Append(t.signals, sig) /\ Len(u.signals) = Len(t.signals) + 1
      /\ u.tools = t.tools /\ u.early = t.early /\ u.pending = t.pending /\ u.seq = t.seq
  <2>1. /\ u \in TurnSet /\ u.signals = Append(v.signals, sig) /\ Len(u.signals) = Len(v.signals) + 1
        /\ u.tools = v.tools /\ u.early = v.early /\ u.pending = v.pending /\ u.seq = v.seq
    <3>1. Len(v.signals) < MaxSignals
      BY <1>1, <1>6 DEF Passes
    <3> QED
      BY <1>1, <3>1, SignalIsAdded
  <2> QED
    BY <1>1, <2>1 DEF Passes
<1>8. /\ Advances(u, t, e) /\ SameTools(u, t) /\ SameToolFacts(u, t) /\ Grows(u, t)
  <2>1. Advances(u, t, e)
    BY <1>1, <1>4, <1>7 DEF Advances, Passes
  <2>2. SameTools(u, t) /\ SameToolFacts(u, t)
    BY <1>7 DEF SameTools, SameToolFacts
  <2> QED
    BY <2>1, <2>2, SameToolsGrow
<1>9. CallsRecorded(u)
  BY <1>3, <1>8, CallsStay
<1>10. FactsRecorded(u)
  <2>1. \A id \in CallIds : FactsFor(u, id) = FactsFor(t, id)
    BY ONLY <1>1, <1>7, <1>8, FactsForSame
  <2>2. Apart(u.early) /\ Nameless(u)
    BY <1>3, <1>7 DEF FactsRecorded, Nameless
  <2>3. e.ev \notin {"result", "denied"}
    OBVIOUS
  <2> QED
    BY <1>3, <1>8, <2>1, <2>2, <2>3, FactsStay
<1>11. SignalsRecorded(u)
  <2>1. Tied(u, t.seq, Len(t.log) + 1)
    BY <1>3, <1>8, TiedHere
  <2>2. u.log[Len(t.log) + 1] = e
    BY <1>4, <1>5 DEF Extended
  <2>3. Records(u, sig)
    BY <2>1, <2>2 DEF Records, Says
  <2> QED
    BY <1>3, <1>5, <1>7, <1>8, <2>3, SignalsRecordedMore
<1>12. Counted(u)
  BY <1>4, <1>6, <1>7 DEF Counted
<1> QED
  BY <1>9, <1>10, <1>11, <1>12 DEF Recorded

\* A request is kept until it is answered.
LEMMA RequestedRecorded ==
  ASSUME NEW t, TurnOK(t), Recorded(t), NEW e \in Entries, e.ev = "requested",
         NEW v, v = Boundary(Logged(t, e)),
         NEW sig \in Signals, sig.kind = "approval", ~sig.byTool, ~sig.toolCall,
         sig.seq = t.seq, sig.raised = Len(t.log) + 1,
         NEW u, u = [v EXCEPT !.pending = AtMost(Append(@, sig), MaxPending)], Remembered(u.log)
  PROVE  Recorded(u)
<1> DEFINE q == AtMost(Append(v.pending, sig), MaxPending)
<1>1. /\ Advances(v, t, e) /\ Passes(v, t) /\ v.log = Append(t.log, e) /\ v \in TurnSet /\ t \in TurnSet
  BY LoggedIs
<1>0. u = [v EXCEPT !.pending = q]
  OBVIOUS
<1>3. CallsRecorded(t) /\ FactsRecorded(t) /\ SignalsRecorded(t) /\ Counted(t)
  BY DEF Recorded
<1>4. u.log = v.log
  <2> HIDE DEF q
  <2> QED
    BY <1>0, <1>1 DEF TurnSet
<1>5. /\ Extended(v.log, t.log, e) /\ Remembered(v.log) /\ Remembered(t.log)
  BY <1>1, <1>4, RememberedBefore DEF Advances
<1>6. /\ Len(t.pending) < MaxPending /\ Len(t.pending) + 1 <= Cardinality(Events(v.log, "requested"))
      /\ Len(t.signals) <= Cardinality(Signalled(v.log))
      /\ Len(t.early) <= Cardinality(Learnt(v.log))
  BY <1>1, <1>3, <1>5, Room, TurnParts
<1>7. /\ u \in TurnSet /\ u.pending = Append(t.pending, sig) /\ Len(u.pending) = Len(t.pending) + 1
      /\ u.tools = t.tools /\ u.early = t.early /\ u.signals = t.signals /\ u.seq = t.seq
  <2>1. t.pending \in Seq(Signals) /\ v.pending = t.pending
    BY <1>1, TurnParts DEF Passes
  <2>2. IsPushed(Signals, q, t.pending, sig, MaxPending)
    BY <2>1, Pushed, ConstantFacts
  <2>3. q = Append(t.pending, sig) /\ q \in Seq(Signals) /\ Len(q) = Len(t.pending) + 1
    BY <1>6, <2>2 DEF IsPushed
  <2> HIDE DEF q
  <2> QED
    BY <1>0, <1>1, <2>3 DEF TurnSet, Passes
<1> HIDE DEF q
<1>8. /\ Advances(u, t, e) /\ SameTools(u, t) /\ SameToolFacts(u, t) /\ Grows(u, t)
  <2>1. Advances(u, t, e)
    BY <1>1, <1>4, <1>7 DEF Advances, Passes
  <2>2. SameTools(u, t) /\ SameToolFacts(u, t)
    BY <1>7 DEF SameTools, SameToolFacts
  <2> QED
    BY <2>1, <2>2, SameToolsGrow
<1>9. CallsRecorded(u)
  BY <1>3, <1>8, CallsStay
<1>10. FactsRecorded(u)
  <2>1. \A id \in CallIds : FactsFor(u, id) = FactsFor(t, id)
    BY ONLY <1>1, <1>7, <1>8, FactsForSame
  <2>2. Apart(u.early) /\ Nameless(u)
    BY <1>3, <1>7 DEF FactsRecorded, Nameless
  <2>3. e.ev \notin {"result", "denied"}
    OBVIOUS
  <2> QED
    BY <1>3, <1>8, <2>1, <2>2, <2>3, FactsStay
<1>11. SignalsRecorded(u)
  <2>1. Tied(u, t.seq, Len(t.log) + 1)
    BY <1>3, <1>8, TiedHere
  <2>2. u.log[Len(t.log) + 1] = e
    BY <1>4, <1>5 DEF Extended
  <2>3. Records(u, sig)
    BY <2>1, <2>2 DEF Records, Says
  <2> QED
    BY <1>3, <1>5, <1>7, <1>8, <2>3, SignalsRecordedPending
<1>12. Counted(u)
  BY <1>4, <1>6, <1>7 DEF Counted
<1> QED
  BY <1>9, <1>10, <1>11, <1>12 DEF Recorded

\* A turn with an event logged that is no call is a turn.
LEMMA LoggedOK ==
  ASSUME NEW t, TurnOK(t), NEW e \in Entries, e.ev # "tool", NEW v, v = Boundary(Logged(t, e))
  PROVE  TurnOK(v)
BY LoggedKeeps, BoundaryKeeps

\* Facts that are learned.
LEMMA SetFactsIs ==
  ASSUME NEW v, TurnOK(v), NEW id \in CallIds, NEW f \in Facts,
         Len(v.early) < MaxEarly, Apart(v.early), NEW u, u = SetFacts(v, id, f)
  PROVE  /\ u \in TurnSet /\ u.log = v.log /\ u.signals = v.signals /\ u.pending = v.pending
         /\ SameTools(u, v) /\ u.seq = v.seq
         /\ FactsFor(u, id) = f
         /\ \A other \in CallIds : other # id => FactsFor(u, other) = FactsFor(v, other)
         /\ Apart(u.early) /\ (Nameless(v) => Nameless(u))
         /\ Len(u.early) <= Len(v.early) + 1
<1>1. v \in TurnSet
  BY DEF TurnOK, Placed
<1>2. /\ TurnOK(u) /\ SameTurn(u, v) /\ u.signals = v.signals /\ u.pending = v.pending
  BY SetFactsKeeps
<1>3. u \in TurnSet /\ u.log = v.log
  BY <1>2 DEF TurnOK, Placed, SameTurn
<1> QED
  BY <1>1, <1>2, <1>3, FactsForSet

\* The first result of a call is kept, and the others are not.
LEMMA ResultRecorded ==
  ASSUME NEW t, TurnOK(t), Recorded(t), NEW id \in CallIds, NEW isError \in BOOLEAN,
         NEW e \in Entries, e.ev = "result", e.id = id, e.isError = isError,
         NEW v, v = Boundary(Logged(t, e)),
         NEW u, u = ToolResult(v, id, isError), Remembered(u.log)
  PROVE  Recorded(u)
<1>1. /\ Advances(v, t, e) /\ Passes(v, t) /\ v.log = Append(t.log, e) /\ v \in TurnSet /\ t \in TurnSet
      /\ t.seq \in Nat
  BY LoggedIs, TurnParts
<1>2. TurnOK(v)
  BY LoggedOK
<1>3. CallsRecorded(t) /\ FactsRecorded(t) /\ SignalsRecorded(t) /\ Counted(t)
  BY DEF Recorded
<1>4. u.log = v.log /\ u \in TurnSet
  BY <1>2, ToolResultKeeps DEF SameTurn, TurnOK, Placed
<1>5. /\ Extended(v.log, t.log, e) /\ Remembered(v.log) /\ Remembered(t.log)
  BY <1>1, <1>4, RememberedBefore DEF Advances
<1>6. /\ Len(t.early) < MaxEarly /\ Len(t.early) + 1 <= Cardinality(Learnt(v.log))
      /\ Len(t.pending) <= Cardinality(Events(v.log, "requested"))
      /\ Len(t.signals) <= Cardinality(Signalled(v.log))
      /\ Len(t.early) <= Cardinality(Learnt(v.log))
  BY <1>1, <1>3, <1>5, Room, TurnParts
<1>7. \A other : FactsFor(v, other) = FactsFor(t, other)
  <2>1. SameTools(v, t) /\ SameToolFacts(v, t) /\ v.early = t.early
    BY <1>1, PassesUnmoved DEF Unmoved
  <2> QED
    BY <1>1, <2>1, FactsForSame
<1> DEFINE f == FactsFor(t, id)
<1>8. f \in Facts /\ Learned(t, id, f) /\ Apart(t.early) /\ Nameless(t)
  BY <1>1, <1>3, FactsForType DEF FactsRecorded
<1>9. id # ""
  BY OutputConstants
<1>10. /\ SameTools(u, t) /\ u.signals = t.signals /\ u.pending = t.pending /\ t.seq <= u.seq
       /\ \A other \in CallIds : other # id => FactsFor(u, other) = FactsFor(t, other)
       /\ Apart(u.early) /\ Nameless(u) /\ Len(u.early) <= Len(t.early) + 1
       /\ FactsFor(u, id) = IF f.has THEN f ELSE [f EXCEPT !.has = TRUE, !.isError = isError, !.at = t.seq + 1]
       /\ ~f.has => u.seq = t.seq + 1
  <2>1. CASE f.has
    <3>1. u = v
      BY <1>7, <2>1 DEF ToolResult
    <3>2. /\ SameTools(u, t) /\ u.early = t.early
          /\ u.signals = t.signals /\ u.pending = t.pending /\ u.seq = t.seq
            /\ u.tools = t.tools
      BY <1>1, <3>1 DEF Passes, SameTools
    <3>3. Apart(u.early) /\ Nameless(u)
      BY <1>8, <3>2 DEF Nameless
    <3>4. Len(u.early) <= Len(t.early) + 1
      BY <1>1, <3>2, TurnParts
    <3> HIDE DEF f
    <3> QED
      BY <1>1, <1>7, <2>1, <3>1, <3>2, <3>3, <3>4 DEF f
  <2>2. CASE ~f.has
    <3> DEFINE w == [v EXCEPT !.seq = @ + 1]
               g == [f EXCEPT !.has = TRUE, !.isError = isError, !.at = t.seq + 1]
    <3>1. u = SetFacts(w, id, g)
      <4>1. FactsFor(v, id) = f /\ v.seq = t.seq
        BY <1>1, <1>7 DEF Passes
      <4> QED
        BY <1>9, <2>2, <4>1, Zenon DEF ToolResult
    <3>2. g \in Facts
      <4>1. t.seq + 1 \in Nat
        BY <1>1
      <4> HIDE DEF f
      <4> QED
        BY <1>8, <4>1 DEF Facts
    <3> HIDE DEF f, g
    <3>3. /\ w \in TurnSet /\ w.blocks = t.blocks /\ w.tools = t.tools /\ w.signals = t.signals
          /\ w.pending = t.pending /\ w.early = t.early /\ w.seq = t.seq + 1 /\ w.log = v.log
          /\ w.blocks = v.blocks /\ w.anonOpen = v.anonOpen /\ w.id = v.id /\ w.usageStop = v.usageStop
      <4>1. v.blocks = t.blocks
        BY <1>1 DEF Boundary, Logged, TurnSet
      <4>2. t.seq + 1 \in Nat
        BY <1>1
      <4> QED
        BY <1>1, <4>1, <4>2 DEF TurnSet, Passes
    <3> HIDE DEF w
    <3>4. TurnOK(w)
      <4>1. Len(w.early) <= MaxEarly
        BY <1>2, <1>1, <3>3 DEF TurnOK, Placed, Bounded, Passes
      <4>2. Len(w.tools) = Len(v.tools) /\ w.signals = v.signals /\ w.pending = v.pending /\ w.tools = v.tools
        BY <1>1, <3>3 DEF Passes
      <4> QED
        BY <1>2, <3>3, <4>1, <4>2, CallsKept DEF SameTurn
    <3>5. /\ SameTools(u, w) /\ u.signals = w.signals /\ u.pending = w.pending /\ u.seq = w.seq
          /\ FactsFor(u, id) = g
          /\ \A other \in CallIds : other # id => FactsFor(u, other) = FactsFor(w, other)
          /\ Apart(u.early) /\ (Nameless(w) => Nameless(u)) /\ Len(u.early) <= Len(w.early) + 1
      <4>1. Len(w.early) < MaxEarly /\ Apart(w.early)
        BY <1>6, <1>8, <3>3
      <4> QED
        BY <3>1, <3>2, <3>4, <4>1, SetFactsIs
    <3>6. SameTools(u, t)
      BY <3>3, <3>5 DEF SameTools
    <3>7. Nameless(w)
      BY <1>8, <3>3 DEF Nameless
    <3>8. \A other : FactsFor(w, other) = FactsFor(t, other)
      <4>1. SameTools(w, t) /\ SameToolFacts(w, t) /\ w.early = t.early
        BY <3>3 DEF SameTools, SameToolFacts
      <4> QED
        BY <1>1, <3>3, <4>1, FactsForSame
    <3>9. t.seq <= u.seq /\ u.seq = t.seq + 1
      BY <1>1, <3>3, <3>5
    <3>10. FactsFor(u, id) = IF f.has THEN f ELSE [f EXCEPT !.has = TRUE, !.isError = isError, !.at = t.seq + 1]
      BY <2>2, <3>5 DEF g
    <3> QED
      BY <3>3, <3>5, <3>6, <3>7, <3>8, <3>9, <3>10
  <2> QED
    BY <2>1, <2>2
<1> HIDE DEF f
<1>11. Advances(u, t, e) /\ Grows(u, t)
  <2>1. Advances(u, t, e)
    BY <1>1, <1>4, <1>10 DEF Advances
  <2> QED
    BY <1>10, <2>1, SameToolsGrow
<1>12. CallsRecorded(u)
  BY <1>3, <1>10, <1>11, CallsStay
<1>13. FactsRecorded(u)
  <2>1. Learned(u, id, FactsFor(u, id))
    <3>1. /\ f.has => Learned(u, id, f)
          /\ ~f.has => Learned(u, id, [f EXCEPT !.has = TRUE, !.isError = isError, !.at = t.seq + 1])
      <4>1. /\ f.has => Learned(u, id, f)
            /\ ~f.has /\ u.seq = t.seq + 1 =>
                  Learned(u, id, [f EXCEPT !.has = TRUE, !.isError = e.isError, !.at = t.seq + 1])
        BY <1>3, <1>8, <1>10, <1>11, LearnResult
      <4> QED
        BY <1>10, <4>1
    <3> QED
      BY <1>10, <3>1
  <2> QED
    BY <1>3, <1>10, <1>11, <2>1, FactsLearn
<1>14. SignalsRecorded(u)
  <2>1. SameSignals(u.signals, t.signals) /\ SameSignals(u.pending, t.pending)
    BY <1>10, SameAsItself
  <2>2. e.ev \in {"delta", "mark", "result", "tool"} /\ e.ev # "tool"
    OBVIOUS
  <2> QED
    BY <1>3, <1>5, <1>11, <2>1, <2>2, SignalsRecordedStay
<1>15. Counted(u)
  <2>1. Len(u.early) \in Nat /\ Len(t.early) \in Nat /\ Cardinality(Learnt(v.log)) \in Nat
    <3>1. More(v.log, t.log, e, {"result", "denied"})
      BY <1>5, OneMore
    <3>2. Learnt(v.log) = Of(v.log, {"result", "denied"})
      BY DEF Learnt, Of
    <3> QED
      BY <1>1, <1>4, <3>1, <3>2, TurnParts DEF More
  <2> QED
    BY <1>4, <1>6, <1>10, <2>1 DEF Counted
<1> QED
  BY <1>12, <1>13, <1>14, <1>15 DEF Recorded

\* A refusal is kept with its call, and its signal with the turn.
LEMMA DeniedRecorded ==
  ASSUME NEW t, TurnOK(t), Recorded(t), NEW id \in Named,
         NEW e \in Entries, e.ev = "denied", e.id = id,
         NEW v, v = Boundary(Logged(t, e)), NEW x,
         id \notin CallIds => x = v,
         id \in CallIds => x = SetFacts(v, id, [FactsFor(v, id) EXCEPT !.refused = TRUE]),
         NEW sig \in Signals, sig.kind = "approval", sig.byTool, ~sig.toolCall, sig.toolID = id,
         sig.raised = Len(t.log) + 1,
         NEW u, u = AddSignal(x, sig), Remembered(x.log)
  PROVE  Recorded(u)
<1>1. /\ Advances(v, t, e) /\ Passes(v, t) /\ v.log = Append(t.log, e) /\ v \in TurnSet /\ t \in TurnSet
      /\ t.seq \in Nat
  BY LoggedIs, TurnParts
<1>2. TurnOK(v)
  BY LoggedOK
<1>3. CallsRecorded(t) /\ FactsRecorded(t) /\ SignalsRecorded(t) /\ Counted(t)
  BY DEF Recorded
<1> DEFINE f == FactsFor(t, id)
           g == [f EXCEPT !.refused = TRUE]
<1>4. \A other : FactsFor(v, other) = FactsFor(t, other)
  <2>1. SameTools(v, t) /\ SameToolFacts(v, t) /\ v.early = t.early
    BY <1>1, PassesUnmoved DEF Unmoved
  <2> QED
    BY <1>1, <2>1, FactsForSame
<1>5. f \in Facts /\ Apart(t.early) /\ Nameless(t) /\ (id \in CallIds => Learned(t, id, f))
  BY <1>1, <1>3, FactsForType DEF FactsRecorded
<1>6. id \in CallIds => x = SetFacts(v, id, g)
  BY <1>4, Zenon
<1>7. g \in Facts
  <2> HIDE DEF f
  <2> QED
    BY <1>5 DEF Facts
<1> HIDE DEF f, g
<1>8. x.log = v.log
  <2>1. CASE id \in CallIds
    BY <1>2, <1>6, <1>7, <2>1, SetFactsKeeps DEF SameTurn
  <2> QED
    BY <2>1
<1>9. /\ Extended(v.log, t.log, e) /\ Remembered(v.log) /\ Remembered(t.log)
  BY <1>1, <1>8, RememberedBefore DEF Advances
<1>10. /\ Len(t.early) < MaxEarly /\ Len(t.early) + 1 <= Cardinality(Learnt(v.log))
       /\ Len(t.pending) <= Cardinality(Events(v.log, "requested"))
       /\ Len(t.signals) < MaxSignals /\ Len(t.signals) + 1 <= Cardinality(Signalled(v.log))
       /\ Len(t.early) <= Cardinality(Learnt(v.log))
  <2>1. e.ev \in {"tool", "denied", "asked", "resolved"} /\ e.ev \in {"result", "denied"}
    OBVIOUS
  <2>2. Len(t.signals) \in Nat /\ Len(t.pending) \in Nat /\ Len(t.early) \in Nat
    BY <1>1, TurnParts
  <2> QED
    BY <1>3, <1>9, <2>1, <2>2, Room
<1>11. /\ x \in TurnSet /\ SameTools(x, t) /\ x.signals = t.signals /\ x.pending = t.pending
       /\ x.seq = t.seq /\ Apart(x.early) /\ Nameless(x) /\ Len(x.early) <= Len(t.early) + 1
       /\ \A other \in CallIds : other # id => FactsFor(x, other) = FactsFor(t, other)
       /\ id \in CallIds => FactsFor(x, id) = g
  <2>1. CASE id \notin CallIds
    <3>1. x = v
      BY <2>1
    <3>2. SameTools(x, t) /\ x.tools = t.tools /\ x.early = t.early
      BY <1>1, <3>1 DEF Passes, SameTools
    <3>3. Apart(x.early) /\ Nameless(x)
      BY <1>5, <3>2 DEF Nameless
    <3>4. Len(x.early) <= Len(t.early) + 1
      BY <1>1, <3>2, TurnParts
    <3> QED
      BY <1>1, <1>4, <2>1, <3>1, <3>2, <3>3, <3>4 DEF Passes
  <2>2. CASE id \in CallIds
    <3>1. Len(v.early) < MaxEarly /\ Apart(v.early)
      BY <1>1, <1>5, <1>10 DEF Passes
    <3>2. /\ x \in TurnSet /\ x.signals = v.signals /\ x.pending = v.pending
          /\ SameTools(x, v) /\ x.seq = v.seq /\ FactsFor(x, id) = g
          /\ \A other \in CallIds : other # id => FactsFor(x, other) = FactsFor(v, other)
          /\ Apart(x.early) /\ (Nameless(v) => Nameless(x)) /\ Len(x.early) <= Len(v.early) + 1
      <4>1. x = SetFacts(v, id, g)
        BY <1>6, <2>2
      <4> HIDE DEF f, g
      <4>2. id \in CallIds /\ TurnOK(v) /\ g \in Facts
        BY <1>2, <1>7, <2>2
      <4>3. /\ x \in TurnSet /\ x.log = v.log /\ x.signals = v.signals /\ x.pending = v.pending
            /\ SameTools(x, v) /\ x.seq = v.seq
            /\ FactsFor(x, id) = g
            /\ \A other \in CallIds : other # id => FactsFor(x, other) = FactsFor(v, other)
            /\ Apart(x.early) /\ (Nameless(v) => Nameless(x))
            /\ Len(x.early) <= Len(v.early) + 1
        BY ONLY <3>1, <4>1, <4>2, SetFactsIs
      <4> QED
        BY <4>3
    <3>3. SameTools(x, t)
      BY <1>1, <3>2 DEF SameTools, Passes
    <3>4. Nameless(v)
      BY <1>1, <1>5 DEF Nameless, Passes
    <3> QED
      BY <1>1, <1>4, <3>2, <3>3, <3>4 DEF Passes
  <2> QED
    BY <2>1, <2>2
<1>12. /\ u \in TurnSet /\ u.signals = Append(t.signals, sig) /\ Len(u.signals) = Len(t.signals) + 1
       /\ u.tools = x.tools /\ u.early = x.early /\ u.pending = t.pending /\ u.seq = t.seq
       /\ u.log = v.log
  <2>1. Len(x.signals) < MaxSignals
    BY <1>10, <1>11
  <2>2. /\ u \in TurnSet /\ u.signals = Append(x.signals, sig)
        /\ u.tools = x.tools /\ u.early = x.early /\ u.pending = x.pending
        /\ u.seq = x.seq /\ u.log = x.log
        /\ Len(u.signals) = Len(x.signals) + 1
    BY <1>11, <2>1, SignalIsAdded
  <2> QED
    BY <1>8, <1>11, <2>2
<1>13. Advances(u, t, e) /\ SameTools(u, t) /\ Grows(u, t)
  <2>1. Advances(u, t, e)
    BY <1>1, <1>12 DEF Advances
  <2>2. SameTools(u, t)
    BY <1>11, <1>12 DEF SameTools
  <2> QED
    BY <2>1, <2>2, SameToolsGrow
<1>14. CallsRecorded(u)
  BY <1>3, <1>13, CallsStay
<1>15. FactsRecorded(u)
  <2>1. \A other : FactsFor(u, other) = FactsFor(x, other)
    <3>1. SameTools(u, x) /\ SameToolFacts(u, x)
      BY <1>12 DEF SameTools, SameToolFacts
    <3> QED
      BY <1>11, <1>12, <3>1, FactsForSame
  <2>2. id \in CallIds => Learned(u, id, FactsFor(u, id))
    <3>1. id \in CallIds => Learned(u, id, g)
      BY <1>5, <1>13, LearnDenied DEF g
    <3> QED
      BY <1>11, <2>1, <3>1
  <2>3. Apart(u.early) /\ Nameless(u)
    BY <1>11, <1>12 DEF Nameless
  <2> QED
    BY <1>3, <1>11, <1>13, <2>1, <2>2, <2>3, FactsLearn
<1>16. SignalsRecorded(u)
  <2>1. u.log[Len(t.log) + 1] = e
    BY <1>9, <1>12 DEF Extended
  <2>2. Records(u, sig)
    BY <2>1 DEF Records, Says
  <2> QED
    BY <1>3, <1>9, <1>12, <1>13, <2>2, SignalsRecordedMore
<1>17. Counted(u)
  <2>1. Len(u.early) \in Nat /\ Len(t.early) \in Nat /\ Cardinality(Learnt(v.log)) \in Nat
    <3>1. More(v.log, t.log, e, {"result", "denied"})
      BY <1>9, OneMore
    <3>2. Learnt(v.log) = Of(v.log, {"result", "denied"})
      BY DEF Learnt, Of
    <3> QED
      BY <1>1, <1>12, <3>1, <3>2, TurnParts DEF More
  <2> QED
    BY <1>10, <1>11, <1>12, <2>1 DEF Counted
<1> QED
  BY <1>14, <1>15, <1>16, <1>17 DEF Recorded

\* A resolution that names a request takes that one.
LEMMA ResolveIs ==
  ASSUME NEW t \in TurnSet, NEW request, NEW allowed \in BOOLEAN,
         \E j \in 1..Len(t.pending) : t.pending[j].raised = request
  PROVE  \E i \in 1..Len(t.pending) :
            /\ t.pending[i].raised = request
            /\ Resolve(t, request, allowed)
                 = IF allowed THEN [t EXCEPT !.pending = RemoveAt(@, i)]
                   ELSE AddSignal([t EXCEPT !.pending = RemoveAt(@, i)], t.pending[i])
<1> DEFINE named == {i \in DOMAIN t.pending : t.pending[i].raised = request}
           i     == Min(named)
           sig   == IF t.pending = <<>> THEN Signal(t, "approval", TRUE, FALSE, "", FALSE)
                    ELSE t.pending[IF named # {} THEN Min(named) ELSE 1]
           u     == IF t.pending = <<>> THEN t
                    ELSE [t EXCEPT !.pending = RemoveAt(@, IF named # {} THEN Min(named) ELSE 1)]
<1>1. t.pending \in Seq(Signals) /\ Len(t.pending) \in Nat /\ DOMAIN t.pending = 1..Len(t.pending)
  BY TurnParts, LenProperties
<1>2. named # {} /\ named \subseteq Nat
  BY <1>1
<1>3. i \in named
  <2> HIDE DEF named
  <2> QED
    BY <1>2, MinIsFirst
<1>4. i \in 1..Len(t.pending) /\ t.pending[i].raised = request
  BY <1>1, <1>3
<1>5. t.pending # <<>>
  BY <1>1, <1>4, NonEmpty
<1>6. Resolve(t, request, allowed) = IF allowed THEN u ELSE AddSignal(u, sig)
  BY DEF Resolve
<1>7. sig = t.pending[i] /\ u = [t EXCEPT !.pending = RemoveAt(@, i)]
  BY <1>2, <1>5, Zenon
<1> HIDE DEF u, sig, named, i
<1> QED
  BY <1>4, <1>6, <1>7

\* An answer takes its request, and leaves a signal when it refuses.
LEMMA ResolvedRecorded ==
  ASSUME NEW t, TurnOK(t), Recorded(t), NEW request \in Nat, NEW allowed \in BOOLEAN,
         NEW e \in Entries, e.ev = "resolved", e.request = request, e.allowed = allowed,
         NEW v, v = Boundary(Logged(t, e)),
         NEW u, u = Resolve(v, request, allowed), Remembered(u.log)
  PROVE  Recorded(u)
<1>1. /\ Advances(v, t, e) /\ Passes(v, t) /\ v.log = Append(t.log, e) /\ v \in TurnSet /\ t \in TurnSet
      /\ t.seq \in Nat
  BY LoggedIs, TurnParts
<1>2. TurnOK(v)
  BY LoggedOK
<1>3. CallsRecorded(t) /\ FactsRecorded(t) /\ SignalsRecorded(t) /\ Counted(t)
  BY DEF Recorded
<1>4. u.log = v.log
  BY <1>2, ResolveKeeps DEF SameTurn
<1>5. /\ Extended(v.log, t.log, e) /\ Remembered(v.log) /\ Remembered(t.log)
  BY <1>1, <1>4, RememberedBefore DEF Advances
<1>6. /\ Len(t.early) <= Cardinality(Learnt(v.log))
      /\ Len(t.pending) <= Cardinality(Events(v.log, "requested"))
      /\ Len(t.signals) < MaxSignals /\ Len(t.signals) + 1 <= Cardinality(Signalled(v.log))
      /\ Len(t.signals) <= Cardinality(Signalled(v.log))
  <2>1. e.ev \in {"tool", "denied", "asked", "resolved"}
    OBVIOUS
  <2>2. Len(t.signals) \in Nat /\ Len(t.pending) \in Nat /\ Len(t.early) \in Nat
    BY <1>1, TurnParts
  <2> QED
    BY <1>3, <1>5, <2>1, <2>2, Room
<1>7. request \in Unanswered(t.log)
  BY <1>5, RaisingAnswered
<1>8. \E j \in 1..Len(v.pending) : v.pending[j].raised = request
  BY <1>1, <1>3, <1>7 DEF SignalsRecorded, Holds, Passes
<1>9. PICK i \in 1..Len(v.pending) :
         /\ v.pending[i].raised = request
         /\ u = IF allowed THEN [v EXCEPT !.pending = RemoveAt(@, i)]
                ELSE AddSignal([v EXCEPT !.pending = RemoveAt(@, i)], v.pending[i])
  BY <1>1, <1>8, ResolveIs
<1> DEFINE q == RemoveAt(v.pending, i)
           w == [v EXCEPT !.pending = q]
<1>10. /\ v.pending = t.pending /\ t.pending \in Seq(Signals) /\ t.pending[i] \in Signals
       /\ i \in 1..Len(t.pending) /\ t.pending[i].raised = request /\ Len(t.pending) \in Nat
  BY <1>1, <1>9, TurnParts, ElementOfSeq DEF Passes
<1>11. q \in Seq(Signals) /\ Len(q) = Len(t.pending) - 1 /\ q = RemoveAt(t.pending, i)
  BY <1>10, Removed
<1>12. u = IF allowed THEN w ELSE AddSignal(w, t.pending[i])
  BY <1>9, <1>10
<1> HIDE DEF q
<1>13. /\ w \in TurnSet /\ w.pending = q /\ w.signals = t.signals /\ w.tools = t.tools
       /\ w.early = t.early /\ w.seq = t.seq /\ w.log = v.log
  BY <1>1, <1>11 DEF TurnSet, Passes
<1> HIDE DEF w
<1>14. /\ u \in TurnSet /\ u.pending = q /\ u.tools = t.tools /\ u.early = t.early /\ u.seq = t.seq
       /\ u.signals = IF e.allowed THEN t.signals ELSE Append(t.signals, t.pending[i])
       /\ Len(u.signals) <= Len(t.signals) + 1
  <2>1. CASE allowed
    <3>1. Len(t.signals) \in Nat
      BY <1>1, TurnParts
    <3> QED
      BY <1>12, <1>13, <2>1, <3>1
  <2>2. CASE ~allowed
    <3>1. u = AddSignal(w, t.pending[i]) /\ Len(w.signals) < MaxSignals /\ t.pending[i] \in Signals
      BY <1>6, <1>10, <1>12, <1>13, <2>2
    <3>2. /\ u \in TurnSet /\ u.signals = Append(w.signals, t.pending[i])
          /\ u.tools = w.tools /\ u.early = w.early /\ u.pending = w.pending
          /\ u.seq = w.seq /\ u.log = w.log
          /\ Len(u.signals) = Len(w.signals) + 1
      BY ONLY <1>13, <3>1, SignalIsAdded
    <3>3. Len(t.signals) \in Nat
      BY <1>1, TurnParts
    <3> QED
      BY <1>13, <2>2, <3>2, <3>3
  <2> QED
    BY <2>1, <2>2
<1>15. Advances(u, t, e) /\ SameTools(u, t) /\ SameToolFacts(u, t) /\ Grows(u, t)
  <2>1. Advances(u, t, e)
    BY <1>1, <1>4, <1>14 DEF Advances
  <2>2. SameTools(u, t) /\ SameToolFacts(u, t)
    BY <1>14 DEF SameTools, SameToolFacts
  <2> QED
    BY <2>1, <2>2, SameToolsGrow
<1>16. CallsRecorded(u)
  BY <1>3, <1>15, CallsStay
<1>17. FactsRecorded(u)
  <2>1. \A id \in CallIds : FactsFor(u, id) = FactsFor(t, id)
    BY <1>1, <1>14, <1>15, FactsForSame
  <2>2. Apart(u.early) /\ Nameless(u)
    BY <1>3, <1>14 DEF FactsRecorded, Nameless
  <2>3. e.ev \notin {"result", "denied"}
    OBVIOUS
  <2> QED
    BY <1>3, <1>15, <2>1, <2>2, <2>3, FactsStay
<1>18. SignalsRecorded(u)
  <2>1. Remembered(u.log) /\ e.allowed \in BOOLEAN /\ u.pending = RemoveAt(t.pending, i)
    BY <1>11, <1>14
  <2> QED
    BY <1>3, <1>10, <1>14, <1>15, <2>1, SignalsRecordedAnswer
<1>19. Counted(u)
  <2>1. /\ Len(u.signals) \in Nat /\ Len(t.signals) \in Nat /\ Len(u.pending) <= Len(t.pending)
        /\ Cardinality(Signalled(v.log)) \in Nat /\ Cardinality(Events(v.log, "requested")) \in Nat
    <3>1. More(v.log, t.log, e, {"tool", "denied", "asked", "resolved"}) /\ More(v.log, t.log, e, {"requested"})
      BY <1>5, OneMore
    <3>2. /\ Signalled(v.log) = Of(v.log, {"tool", "denied", "asked", "resolved"})
          /\ Events(v.log, "requested") = Of(v.log, {"requested"})
      BY DEF Signalled, Of
    <3> QED
      BY <1>1, <1>10, <1>11, <1>14, <3>1, <3>2, TurnParts DEF More
  <2> QED
    BY <1>4, <1>6, <1>10, <1>14, <2>1 DEF Counted
<1> QED
  BY <1>16, <1>17, <1>18, <1>19 DEF Recorded

\* What is known of a call that has not come.
LEMMA KnownEarly ==
  ASSUME NEW t \in TurnSet, NEW id \in CallIds, Apart(t.early), ToolIndex(t, id) = {}
  PROVE  /\ \A k \in 1..Len(t.early) : t.early[k].id = id => FactsFor(t, id) = t.early[k].facts
         /\ (\A k \in 1..Len(t.early) : t.early[k].id # id) => FactsFor(t, id) = NoFacts
<1> DEFINE I == EarlyIndex(t, id)
<1>1. I = {i \in 1..Len(t.early) : t.early[i].id = id}
  BY EarlyIndexOf
<1>2. FactsFor(t, id) = IF I # {} THEN t.early[CHOOSE i \in I : TRUE].facts ELSE NoFacts
  BY Zenon DEF FactsFor
<1> HIDE DEF I
<1>3. ASSUME NEW k \in 1..Len(t.early), t.early[k].id = id
      PROVE  FactsFor(t, id) = t.early[k].facts
  <2>1. k \in I /\ (CHOOSE i \in I : TRUE) \in I
    BY <1>1, <1>3
  <2>2. (CHOOSE i \in I : TRUE) = k
    BY <1>1, <1>3, <2>1 DEF Apart
  <2> QED
    BY <1>2, <2>1, <2>2
<1>4. ASSUME \A k \in 1..Len(t.early) : t.early[k].id # id PROVE FactsFor(t, id) = NoFacts
  BY <1>1, <1>2, <1>4
<1> QED
  BY <1>3, <1>4

\* A call takes what was learned of it, and of no other.
LEMMA ForgetEarlyIs ==
  ASSUME NEW t \in TurnSet, NEW id \in Named, Apart(t.early), NEW early, early = ForgetEarly(t, id).early
  PROVE  /\ early \in Seq(Earlies) /\ Len(early) <= Len(t.early) /\ Apart(early)
         /\ \A i \in 1..Len(early) : \E k \in 1..Len(t.early) : early[i] = t.early[k]
         /\ \A k \in 1..Len(t.early) : t.early[k].id # id =>
               \E i \in 1..Len(early) : early[i] = t.early[k]
<1>1. t.early \in Seq(Earlies) /\ Len(t.early) \in Nat
  BY TurnParts
<1>2. CASE EarlyIndex(t, id) = {}
  <2>1. early = t.early
    BY <1>2 DEF ForgetEarly
  <2> QED
    BY <1>1, <2>1
<1>3. CASE EarlyIndex(t, id) # {}
  <2> DEFINE n == CHOOSE i \in EarlyIndex(t, id) : TRUE
             q == RemoveAt(t.early, n)
  <2>1. n \in 1..Len(t.early) /\ n \in EarlyIndex(t, id)
    BY <1>3, IndexFacts
  <2>2. ForgetEarly(t, id) = [t EXCEPT !.early = q]
    BY <1>3 DEF ForgetEarly
  <2> HIDE DEF n
  <2>3. /\ q \in Seq(Earlies) /\ Len(q) = Len(t.early) - 1
        /\ \A j \in 1..Len(t.early) - 1 : q[j] = IF j < n THEN t.early[j] ELSE t.early[j + 1]
    BY <1>1, <2>1, Removed
  <2> HIDE DEF q
  <2>4. early = q
    BY <2>2 DEF TurnSet
  <2>5. t.early[n].id = id
    BY <2>1 DEF EarlyIndex
  <2>6. ASSUME NEW k \in 1..Len(t.early), k # n PROVE \E i \in 1..Len(q) : q[i] = t.early[k]
    <3> DEFINE i == IF k < n THEN k ELSE k - 1
    <3>1. i \in 1..Len(q) /\ i \in 1..Len(t.early) - 1 /\ k = (IF i < n THEN i ELSE i + 1)
      BY <1>1, <2>1, <2>3, <2>6
    <3> HIDE DEF i
    <3>2. q[i] = t.early[k]
      BY <2>3, <3>1
    <3> QED
      BY <3>1, <3>2
  <2>7. \A i \in 1..Len(q) : LET k == IF i < n THEN i ELSE i + 1 IN
           k \in 1..Len(t.early) /\ q[i] = t.early[k]
    BY <1>1, <2>1, <2>3
  <2>8. Apart(q)
    <3>1. ASSUME NEW i \in 1..Len(q), NEW j \in 1..Len(q), q[i].id = q[j].id PROVE i = j
      <4> DEFINE k == IF i < n THEN i ELSE i + 1
                 l == IF j < n THEN j ELSE j + 1
      <4>1. /\ k \in 1..Len(t.early) /\ q[i] = t.early[k]
            /\ l \in 1..Len(t.early) /\ q[j] = t.early[l]
        BY <2>7
      <4>2. k = l
        <5> HIDE DEF k, l
        <5> QED
          BY <3>1, <4>1 DEF Apart
      <4> QED
        BY <2>1, <2>3, <4>2
    <3> QED
      BY <3>1 DEF Apart
  <2>9. q \in Seq(Earlies) /\ Len(q) <= Len(t.early)
    BY <1>1, <2>3
  <2>10. \A i \in 1..Len(q) : \E k \in 1..Len(t.early) : q[i] = t.early[k]
    BY <2>7
  <2>11. \A k \in 1..Len(t.early) : t.early[k].id # id => \E i \in 1..Len(q) : q[i] = t.early[k]
    BY <2>5, <2>6
  <2> QED
    BY <2>4, <2>8, <2>9, <2>10, <2>11, Zenon
<1> QED
  BY <1>2, <1>3

\* No call of the log has the id, and none is held.
LEMMA UncalledIndex ==
  ASSUME NEW t, TurnOK(t), NEW id, Uncalled(t.log, id)
  PROVE  ToolIndex(t, id) = {}
<1>1. t \in TurnSet
  BY DEF TurnOK, Placed
<1>2. CASE id = ""
  BY <1>2 DEF ToolIndex
<1>3. CASE id # ""
  <2>1. \A i \in 1..Len(t.tools) : t.tools[i].id # id
    BY <1>3, CalledParts DEF Uncalled
  <2>2. DOMAIN t.tools = 1..Len(t.tools)
    BY <1>1, ToolParts
  <2> QED
    BY <1>3, <2>1, <2>2 DEF ToolIndex
<1> QED
  BY <1>2, <1>3

\* What addTool does to the turn: the call is its last, and has what was
\* learned of it.
Called(w, t, id, question) ==
    /\ w.seq = t.seq + 1 /\ w.signals = t.signals /\ w.pending = t.pending
    /\ w.early = ForgetEarly(t, id).early
    /\ Len(w.tools) = Len(t.tools) + 1 /\ \A i \in 1..Len(t.tools) : w.tools[i] = t.tools[i]
    /\ w.tools[Len(t.tools) + 1].id = id /\ w.tools[Len(t.tools) + 1].seq = t.seq + 1
    /\ w.tools[Len(t.tools) + 1].question = question
    /\ w.tools[Len(t.tools) + 1].called = Len(t.log) + 1
    /\ w.tools[Len(t.tools) + 1].facts = FactsFor(t, id)

\* A call is added with the facts that came early.
LEMMA AddToolIs ==
  ASSUME NEW t, TurnOK(t), NEW id \in Named, NEW question \in BOOLEAN, Uncalled(t.log, id),
         NEW e, e = Calling(id, question), NEW v, v = Boundary(Logged(t, e)),
         NEW w, w = AddTool(v, id, question), Remembered(v.log)
  PROVE  /\ TurnOK(w) /\ w.log = v.log /\ Called(w, t, id, question)
<1> DEFINE facts == IF EarlyIndex(v, id) = {} THEN NoFacts
                    ELSE v.early[CHOOSE i \in EarlyIndex(v, id) : TRUE].facts
           tool == [id |-> id, blocksAt |-> Len(v.blocks), seq |-> v.seq + 1,
                    question |-> question, facts |-> facts, called |-> Here(v)]
           x == ForgetEarly(v, id)
           q == AtMost(Append(x.tools, tool), MaxTools)
<1>0. w = [x EXCEPT !.seq = @ + 1, !.tools = q]
  BY DEF AddTool
<1>1. e \in Entries /\ e.ev = "tool"
  BY DEF Calling, Entries
<1>2. /\ Advances(v, t, e) /\ Passes(v, t) /\ v.log = Append(t.log, e) /\ v \in TurnSet /\ t \in TurnSet
      /\ Here(v) = Len(t.log) + 1
  BY <1>1, LoggedIs
<1>3. TurnOK(w) /\ w.log = v.log
  BY <1>2, AddToolKeeps
<1>4. ToolIndex(t, id) = {} /\ EarlyIndex(v, id) = EarlyIndex(t, id)
  BY <1>2, UncalledIndex DEF EarlyIndex, Passes
<1>5. facts = FactsFor(t, id)
  BY <1>2, <1>4 DEF FactsFor, Passes
<1>6. facts \in Facts
  BY <1>2, <1>5, FactsForType
<1> HIDE DEF facts
<1>7. /\ tool \in Tools /\ tool.id = id /\ tool.seq = t.seq + 1 /\ tool.question = question
      /\ tool.called = Len(t.log) + 1 /\ tool.facts = facts
  <2>1. v.seq = t.seq /\ v.seq + 1 \in Nat /\ Len(v.blocks) \in Nat /\ Len(t.log) + 1 \in Nat
    BY <1>2, TurnParts DEF Passes
  <2> QED
    BY <1>2, <1>6, <2>1 DEF Tools
<1> HIDE DEF tool
<1>8. /\ x \in TurnSet /\ x.tools = t.tools /\ x.signals = t.signals /\ x.pending = t.pending
      /\ x.seq = t.seq /\ x.early = ForgetEarly(t, id).early
  <2>1. Len(v.early) <= MaxEarly
    BY <1>2 DEF Passes, TurnOK, Placed, Bounded
  <2>2. x \in TurnSet /\ x = [v EXCEPT !.early = x.early]
    BY <1>2, <2>1, ForgetEarlyKeeps
  <2>3. x.early = ForgetEarly(t, id).early
    <3>1. CASE EarlyIndex(t, id) = {}
      BY <1>2, <1>4, <3>1 DEF ForgetEarly, Passes
    <3>2. CASE EarlyIndex(t, id) # {}
      <4> DEFINE k == CHOOSE i \in EarlyIndex(t, id) : TRUE
                 p == RemoveAt(t.early, k)
      <4>1. x = [v EXCEPT !.early = p] /\ ForgetEarly(t, id) = [t EXCEPT !.early = p]
        BY <1>2, <1>4, <3>2 DEF ForgetEarly, Passes
      <4> HIDE DEF p, x
      <4> QED
        BY <1>2, <4>1 DEF TurnSet
    <3> QED
      BY <3>1, <3>2
  <2> HIDE DEF x
  <2> QED
    BY <1>2, <2>2, <2>3 DEF TurnSet, Passes
<1> HIDE DEF x
<1>9. q = Append(t.tools, tool) /\ q \in Seq(Tools)
  <2>1. t.tools \in Seq(Tools) /\ Len(t.tools) \in Nat
    BY <1>2, TurnParts
  <2>2. IsPushed(Tools, q, t.tools, tool, MaxTools)
    BY <1>7, <1>8, <2>1, Pushed, ConstantFacts
  <2>3. Len(t.tools) < MaxTools
    <3>1. Extended(v.log, t.log, e)
      BY <1>2 DEF Advances
    <3>2. More(v.log, t.log, e, {"tool"})
      BY <3>1, OneMore
    <3>3. \A l : Of(l, {"tool"}) = Events(l, "tool")
      BY DEF Of
    <3>4. /\ Cardinality(Events(v.log, "tool")) = Cardinality(Events(t.log, "tool")) + 1
          /\ Cardinality(Events(t.log, "tool")) \in Nat
      BY <1>1, <3>2, <3>3 DEF More
    <3>5. Cardinality(Events(v.log, "tool")) <= MaxTools
      BY DEF Remembered
    <3>6. Cardinality(Events(t.log, "tool")) <= MaxTools /\ Cardinality(Events(t.log, "tool")) < MaxTools
      BY <3>4, <3>5, ConstantFacts
    <3>7. Len(t.tools) = Cardinality(Events(t.log, "tool"))
      BY <3>6 DEF TurnOK, Placed, CallsOK
    <3> QED
      BY <3>6, <3>7
  <2> QED
    BY <2>2, <2>3 DEF IsPushed
<1> HIDE DEF q
<1>10. /\ w.tools = q /\ w.seq = t.seq + 1 /\ w.signals = t.signals /\ w.pending = t.pending
       /\ w.early = ForgetEarly(t, id).early
  <2>1. t.seq \in Nat
    BY <1>2, TurnParts
  <2> QED
    BY <1>0, <1>8, <2>1 DEF TurnSet
<1>11. /\ Len(q) = Len(t.tools) + 1 /\ q[Len(t.tools) + 1] = tool
       /\ \A i \in 1..Len(t.tools) : q[i] = t.tools[i]
  BY <1>2, <1>7, <1>9, TurnParts, AppendProperties
<1> QED
  BY <1>3, <1>5, <1>7, <1>10, <1>11 DEF Called

\* The calls of a turn after one more.
LEMMA CallsRecordedMore ==
  ASSUME NEW t, TurnOK(t), CallsRecorded(t), NEW e, e.ev = "tool",
         NEW w, Advances(w, t, e), NEW id, Called(w, t, id, e.question)
  PROVE  Grows(w, t) /\ CallsRecorded(w) /\ Tied(w, w.seq, Len(t.log) + 1)
<1> DEFINE n == Len(t.log) + 1
           m == Len(t.tools) + 1
<1>1. /\ t \in TurnSet /\ w \in TurnSet /\ Extended(w.log, t.log, e)
      /\ t.seq \in Nat /\ w.seq \in Nat /\ Len(t.tools) \in Nat
  BY TurnParts DEF Advances, TurnOK, Placed
<1>2. /\ Len(t.log) \in Nat /\ Len(w.log) = n /\ w.log[n] = e /\ n \in Nat
      /\ Events(w.log, "tool") = Events(t.log, "tool") \cup {n}
      /\ Events(t.log, "tool") \subseteq 1..Len(t.log)
      /\ \A i \in Events(t.log, "tool") : w.log[i] = t.log[i]
  BY <1>1 DEF Extended
<1>3. /\ Len(w.tools) = m /\ w.seq = t.seq + 1
      /\ \A i \in 1..Len(t.tools) : w.tools[i] = t.tools[i]
      /\ w.tools[m].seq = t.seq + 1 /\ w.tools[m].question = e.question /\ w.tools[m].called = n
  BY DEF Called
<1>4. /\ m \in 1..Len(w.tools) /\ \A i \in 1..Len(w.tools) : i = m \/ i \in 1..Len(t.tools)
      /\ \A i \in 1..Len(t.tools) : i \in 1..Len(w.tools) /\ i # m
  BY <1>1, <1>3
<1>5. \A i \in 1..Len(t.tools) :
         t.tools[i].called \in Events(t.log, "tool") /\ t.tools[i].called \in 1..Len(t.log)
  BY <1>2, CalledParts
<1>6. \A i \in 1..Len(t.tools) : t.tools[i].seq \in 0..t.seq
  BY DEF CallsRecorded, Tied
<1>7. \A i \in 1..Len(w.tools) : /\ w.tools[i].seq \in Nat /\ w.tools[i].called \in Nat
                                 /\ w.tools[i].seq <= w.seq /\ w.tools[i].called <= n
  <2> TAKE i \in 1..Len(w.tools)
  <2>1. CASE i = m
    BY <1>1, <1>2, <1>3, <2>1
  <2>2. CASE i # m
    <3>1. i \in 1..Len(t.tools) /\ w.tools[i] = t.tools[i]
      BY <1>3, <1>4, <2>2
    <3>2. t.tools[i].seq \in 0..t.seq /\ t.tools[i].called \in 1..Len(t.log)
      BY <1>5, <1>6, <3>1
    <3> QED
      BY <1>1, <1>2, <1>3, <3>1, <3>2
  <2> QED
    BY <2>1, <2>2
<1>8. Grows(w, t)
  <2>1. ASSUME NEW i \in 1..Len(w.tools)
        PROVE  \/ /\ i \in 1..Len(t.tools)
                  /\ w.tools[i].seq = t.tools[i].seq /\ w.tools[i].called = t.tools[i].called
               \/ w.tools[i].seq > t.seq /\ w.tools[i].called > Len(t.log)
    <3>1. CASE i = m
      BY <1>1, <1>2, <1>3, <3>1
    <3>2. CASE i # m
      BY <1>3, <1>4, <3>2
    <3> QED
      BY <3>1, <3>2
  <2>2. t.seq <= w.seq /\ Len(w.log) \in Nat /\ Len(t.log) <= Len(w.log)
    BY <1>1, <1>2, <1>3
  <2> QED
    BY <1>1, <1>2, <1>7, <2>1, <2>2 DEF Grows
<1>9. Tied(w, w.seq, n)
  <2>1. w.seq \in 0..w.seq /\ n \in 0..Len(w.log) /\ Len(w.log) \in Nat
    BY <1>1, <1>2
  <2> HIDE DEF n
  <2> QED
    BY <1>1, <1>7, <2>1, TiedNow
<1>10. ASSUME NEW i \in 1..Len(w.tools)
       PROVE  /\ w.tools[i].question = w.log[w.tools[i].called].question
              /\ Tied(w, w.tools[i].seq, w.tools[i].called)
  <2>1. CASE i = m
    BY <1>2, <1>3, <1>9, <2>1
  <2>2. CASE i # m
    <3>1. i \in 1..Len(t.tools) /\ w.tools[i] = t.tools[i]
      BY <1>3, <1>4, <2>2
    <3>2. /\ t.tools[i].question = t.log[t.tools[i].called].question
          /\ Tied(t, t.tools[i].seq, t.tools[i].called)
      BY <3>1 DEF CallsRecorded
    <3>3. Tied(w, t.tools[i].seq, t.tools[i].called)
      BY <1>8, <3>2, TiedStays
    <3> QED
      BY <1>2, <1>5, <3>1, <3>2, <3>3
  <2> QED
    BY <2>1, <2>2
<1>11. ASSUME NEW ev \in Events(w.log, "tool") PROVE \E i \in 1..Len(w.tools) : w.tools[i].called = ev
  <2>1. CASE ev = n
    BY <1>3, <1>4, <2>1
  <2>2. CASE ev # n
    <3>1. PICK i \in 1..Len(t.tools) : t.tools[i].called = ev
      BY <1>2, <2>2 DEF CallsRecorded
    <3> QED
      BY <1>3, <1>4, <3>1
  <2> QED
    BY <2>1, <2>2
<1>12. ASSUME NEW i \in 1..Len(w.tools), NEW j \in 1..Len(w.tools), w.tools[i].called = w.tools[j].called
       PROVE  i = j
  <2>1. \A k \in 1..Len(t.tools) : w.tools[k].called = t.tools[k].called /\ t.tools[k].called # n
    BY <1>2, <1>3, <1>5
  <2>2. \A k, l \in 1..Len(t.tools) : t.tools[k].called = t.tools[l].called => k = l
    BY DEF CallsRecorded
  <2> HIDE DEF n, m
  <2> QED
    BY <1>3, <1>4, <1>12, <2>1, <2>2
<1>13. CallsRecorded(w)
  BY <1>10, <1>11, <1>12 DEF CallsRecorded
<1> QED
  BY <1>8, <1>9, <1>13

\* What is known of the calls does not change when one of them comes.
LEMMA FactsKnown ==
  ASSUME NEW t, TurnOK(t), FactsRecorded(t), NEW w \in TurnSet, NEW id \in Named, Uncalled(t.log, id),
         NEW question, Called(w, t, id, question)
  PROVE  /\ \A other \in CallIds : FactsFor(w, other) = FactsFor(t, other)
         /\ Apart(w.early) /\ Nameless(w) /\ Len(w.early) <= Len(t.early)
<1> DEFINE m == Len(t.tools) + 1
<1>1. /\ t \in TurnSet /\ Len(t.tools) \in Nat /\ Apart(t.early) /\ Nameless(t)
      /\ DOMAIN t.tools = 1..Len(t.tools) /\ DOMAIN w.tools = 1..Len(w.tools)
  BY ToolParts DEF TurnOK, Placed, FactsRecorded
<1>2. /\ Len(w.tools) = m /\ \A i \in 1..Len(t.tools) : w.tools[i] = t.tools[i]
      /\ w.tools[m].id = id /\ w.tools[m].facts = FactsFor(t, id)
      /\ w.early = ForgetEarly(t, id).early
  BY DEF Called
<1>3. /\ m \in 1..Len(w.tools) /\ \A i \in 1..Len(w.tools) : i = m \/ i \in 1..Len(t.tools)
      /\ \A i \in 1..Len(t.tools) : i \in 1..Len(w.tools) /\ i # m /\ i <= m
      /\ m \in Nat
  BY <1>1, <1>2
<1> HIDE DEF m
<1>4. /\ Len(w.early) <= Len(t.early) /\ Apart(w.early)
      /\ \A i \in 1..Len(w.early) : \E k \in 1..Len(t.early) : w.early[i] = t.early[k]
      /\ \A k \in 1..Len(t.early) : t.early[k].id # id =>
               \E i \in 1..Len(w.early) : w.early[i] = t.early[k]
  <2> DEFINE early == w.early
  <2>1. t \in TurnSet /\ id \in Named /\ Apart(t.early) /\ early = ForgetEarly(t, id).early
    BY <1>1, <1>2
  <2> HIDE DEF early
  <2>2. /\ early \in Seq(Earlies) /\ Len(early) <= Len(t.early) /\ Apart(early)
        /\ \A i \in 1..Len(early) : \E k \in 1..Len(t.early) : early[i] = t.early[k]
        /\ \A k \in 1..Len(t.early) : t.early[k].id # id =>
               \E i \in 1..Len(early) : early[i] = t.early[k]
    BY ONLY <2>1, ForgetEarlyIs
  <2> QED
    BY <2>2, Zenon DEF early
<1>5. Nameless(w)
  <2>1. ASSUME NEW i \in 1..Len(w.tools), w.tools[i].id \notin CallIds PROVE w.tools[i].facts = NoFacts
    <3>1. CASE i = m
      <4>1. id = ""
        BY <1>2, <2>1, <3>1 DEF Named
      <4>2. ToolIndex(t, id) = {} /\ EarlyIndex(t, id) = {}
        BY <4>1 DEF ToolIndex, EarlyIndex
      <4>3. FactsFor(t, id) = NoFacts
        BY <4>2 DEF FactsFor
      <4> QED
        BY <1>2, <3>1, <4>3
    <3>2. CASE i # m
      BY <1>1, <1>2, <1>3, <2>1, <3>2 DEF Nameless
    <3> QED
      BY <3>1, <3>2
  <2> QED
    BY <2>1 DEF Nameless
<1>6. ASSUME NEW other \in CallIds PROVE FactsFor(w, other) = FactsFor(t, other)
  <2>1. other # ""
    BY OutputConstants
  <2>2. /\ ToolIndex(w, other) = {i \in 1..Len(w.tools) : w.tools[i].id = other /\
                                    \A j \in 1..Len(w.tools) : w.tools[j].id = other => j <= i}
        /\ ToolIndex(t, other) = {i \in 1..Len(t.tools) : t.tools[i].id = other /\
                                    \A j \in 1..Len(t.tools) : t.tools[j].id = other => j <= i}
    BY <1>1, <2>1, Zenon DEF ToolIndex
  <2>3. CASE other = id
    <3>1. m \in ToolIndex(w, other)
      BY <1>2, <1>3, <2>2, <2>3
    <3>2. (CHOOSE i \in ToolIndex(w, other) : TRUE) = m
      BY <3>1, IndexFacts
    <3> QED
      BY <1>2, <2>3, <3>1, <3>2 DEF FactsFor
  <2>4. CASE other # id
    <3>1. ToolIndex(w, other) = ToolIndex(t, other)
      <4>1. \A i \in 1..Len(w.tools) : w.tools[i].id = other <=> i \in 1..Len(t.tools) /\ t.tools[i].id = other
        BY <1>2, <1>3, <2>4
      <4> QED
        BY <1>3, <2>2, <4>1
    <3>2. CASE ToolIndex(t, other) # {}
      <4>1. (CHOOSE i \in ToolIndex(t, other) : TRUE) \in 1..Len(t.tools)
        BY <1>1, <3>2, IndexFacts
      <4> QED
        BY <1>2, <3>1, <3>2, <4>1 DEF FactsFor
    <3>3. CASE ToolIndex(t, other) = {}
      <4>1. CASE \E k \in 1..Len(t.early) : t.early[k].id = other
        <5>1. PICK k \in 1..Len(t.early) : t.early[k].id = other
          BY <4>1
        <5>2. PICK i \in 1..Len(w.early) : w.early[i] = t.early[k]
          BY <1>4, <2>4, <5>1
        <5>3. FactsFor(t, other) = t.early[k].facts
          BY <1>1, <3>3, <5>1, KnownEarly
        <5>4. FactsFor(w, other) = w.early[i].facts
          BY <1>4, <3>1, <3>3, <5>1, <5>2, KnownEarly
        <5> QED
          BY <5>2, <5>3, <5>4
      <4>2. CASE \A k \in 1..Len(t.early) : t.early[k].id # other
        <5>1. \A i \in 1..Len(w.early) : w.early[i].id # other
          BY <1>4, <4>2
        <5>2. FactsFor(t, other) = NoFacts
          BY <1>1, <3>3, <4>2, KnownEarly
        <5>3. FactsFor(w, other) = NoFacts
          BY <1>4, <3>1, <3>3, <5>1, KnownEarly
        <5> QED
          BY <5>2, <5>3
      <4> QED
        BY <4>1, <4>2
    <3> QED
      BY <3>2, <3>3
  <2> QED
    BY <2>3, <2>4
<1> QED
  BY <1>4, <1>5, <1>6

\* What else a turn keeps when a call comes.
LEMMA CallKept ==
  ASSUME NEW t, TurnOK(t), Recorded(t), NEW id \in Named, NEW question \in BOOLEAN, Uncalled(t.log, id),
         NEW e, e = Calling(id, question), NEW v, v = Boundary(Logged(t, e)), Remembered(v.log),
         NEW w, TurnOK(w), w.log = v.log, Called(w, t, id, question)
  PROVE  /\ Advances(w, t, e) /\ Grows(w, t) /\ Tied(w, w.seq, Len(t.log) + 1)
         /\ CallsRecorded(w) /\ FactsRecorded(w) /\ Remembered(t.log)
         /\ Len(t.signals) < MaxSignals /\ Len(t.signals) + 1 <= Cardinality(Signalled(w.log))
         /\ Len(t.signals) <= Cardinality(Signalled(w.log))
         /\ Len(w.pending) <= Cardinality(Events(w.log, "requested"))
         /\ Len(w.early) <= Cardinality(Learnt(w.log))
<1>1. e \in Entries /\ e.ev = "tool" /\ e.id = id /\ e.question = question
  BY DEF Calling, Entries
<1>2. /\ Advances(v, t, e) /\ Passes(v, t) /\ v.log = Append(t.log, e) /\ v \in TurnSet /\ t \in TurnSet
      /\ t.seq \in Nat /\ w \in TurnSet
  BY <1>1, LoggedIs, TurnParts DEF TurnOK, Placed
<1>3. CallsRecorded(t) /\ FactsRecorded(t) /\ SignalsRecorded(t) /\ Counted(t)
  BY DEF Recorded
<1>4. Extended(v.log, t.log, e) /\ Remembered(t.log)
  BY <1>2, RememberedBefore DEF Advances
<1>5. /\ w.seq = t.seq + 1 /\ w.pending = t.pending
  BY DEF Called
<1>6. Advances(w, t, e)
  BY <1>2, <1>4, <1>5 DEF Advances
<1>7. Grows(w, t) /\ CallsRecorded(w) /\ Tied(w, w.seq, Len(t.log) + 1)
  BY <1>1, <1>3, <1>6, CallsRecordedMore
<1>8. /\ \A other \in CallIds : FactsFor(w, other) = FactsFor(t, other)
      /\ Apart(w.early) /\ Nameless(w) /\ Len(w.early) <= Len(t.early)
  BY <1>2, <1>3, FactsKnown
<1>9. FactsRecorded(w)
  <2>1. e.ev \notin {"result", "denied"}
    BY <1>1
  <2> QED
    BY <1>3, <1>6, <1>7, <1>8, <2>1, FactsStay
<1>10. /\ Len(t.signals) < MaxSignals /\ Len(t.signals) + 1 <= Cardinality(Signalled(v.log))
       /\ Len(t.signals) <= Cardinality(Signalled(v.log))
       /\ Len(t.pending) <= Cardinality(Events(v.log, "requested"))
       /\ Len(t.early) <= Cardinality(Learnt(v.log))
  <2>1. e.ev \in {"tool", "denied", "asked", "resolved"}
    BY <1>1
  <2>2. Len(t.signals) \in Nat /\ Len(t.pending) \in Nat /\ Len(t.early) \in Nat
    BY <1>2, TurnParts
  <2> QED
    BY <1>3, <1>4, <2>1, <2>2, Room
<1>11. Len(w.early) <= Cardinality(Learnt(v.log))
  <2>1. Len(w.early) \in Nat /\ Len(t.early) \in Nat /\ Cardinality(Learnt(v.log)) \in Nat
    <3>1. More(v.log, t.log, e, {"result", "denied"})
      BY <1>4, OneMore
    <3>2. Learnt(v.log) = Of(v.log, {"result", "denied"})
      BY DEF Learnt, Of
    <3> QED
      BY <1>2, <3>1, <3>2, TurnParts DEF More
  <2> QED
    BY <1>8, <1>10, <2>1
<1> QED
  BY <1>4, <1>5, <1>6, <1>7, <1>9, <1>10, <1>11

\* A call is kept, with what was learned of it.
LEMMA CallRecorded ==
  ASSUME NEW t, TurnOK(t), Recorded(t), NEW id \in Named, NEW question \in BOOLEAN, Uncalled(t.log, id),
         NEW e, e = Calling(id, question), NEW v, v = Boundary(Logged(t, e)), Remembered(v.log),
         NEW w, TurnOK(w), w.log = v.log, Called(w, t, id, question), ~question
  PROVE  Recorded(w)
<1>1. e \in Entries /\ e.ev = "tool" /\ ~e.question
  BY DEF Calling, Entries
<1>2. /\ Advances(w, t, e) /\ Grows(w, t)
      /\ CallsRecorded(w) /\ FactsRecorded(w) /\ Remembered(t.log)
      /\ Len(t.signals) <= Cardinality(Signalled(w.log))
      /\ Len(w.pending) <= Cardinality(Events(w.log, "requested"))
      /\ Len(w.early) <= Cardinality(Learnt(w.log))
  BY CallKept
<1>3. w.signals = t.signals /\ w.pending = t.pending
  BY DEF Called
<1>4. SignalsRecorded(w)
  <2>1. SameSignals(w.signals, t.signals) /\ SameSignals(w.pending, t.pending)
    BY <1>3, SameAsItself
  <2>2. e.ev \in {"delta", "mark", "result", "tool"} /\ (e.ev = "tool" => ~e.question)
    BY <1>1
  <2> QED
    BY <1>2, <2>1, <2>2, SignalsRecordedStay DEF Recorded
<1>5. Counted(w)
  BY <1>2, <1>3 DEF Counted
<1> QED
  BY <1>2, <1>4, <1>5 DEF Recorded

\* A call that asks is kept with its signal.
LEMMA QuestionRecorded ==
  ASSUME NEW t, TurnOK(t), Recorded(t), NEW id \in Named, NEW question \in BOOLEAN, Uncalled(t.log, id),
         NEW e, e = Calling(id, question), NEW v, v = Boundary(Logged(t, e)), Remembered(v.log),
         NEW w, TurnOK(w), w.log = v.log, Called(w, t, id, question), question,
         NEW sig \in Signals, sig.kind = "question", sig.byTool <=> id \in CallIds, sig.toolCall,
         sig.toolID = id, sig.seq = w.seq, sig.raised = Len(t.log) + 1,
         NEW u, u = AddSignal(w, sig)
  PROVE  Recorded(u)
<1>1. e \in Entries /\ e.ev = "tool" /\ e.question /\ e.id = id
  BY DEF Calling, Entries
<1>2. /\ Advances(w, t, e) /\ Grows(w, t) /\ Tied(w, w.seq, Len(t.log) + 1)
      /\ CallsRecorded(w) /\ FactsRecorded(w) /\ Remembered(t.log)
      /\ Len(t.signals) < MaxSignals /\ Len(t.signals) + 1 <= Cardinality(Signalled(w.log))
      /\ Len(w.pending) <= Cardinality(Events(w.log, "requested"))
      /\ Len(w.early) <= Cardinality(Learnt(w.log))
  BY CallKept
<1>3. w.signals = t.signals /\ w.pending = t.pending /\ w \in TurnSet
  BY DEF Called, TurnOK, Placed
<1>4. /\ u \in TurnSet /\ u.signals = Append(w.signals, sig)
      /\ u.tools = w.tools /\ u.early = w.early /\ u.pending = w.pending
      /\ u.seq = w.seq /\ u.log = w.log
      /\ Len(u.signals) = Len(w.signals) + 1
  <2>1. w \in TurnSet /\ sig \in Signals /\ Len(w.signals) < MaxSignals /\ u = AddSignal(w, sig)
    BY <1>2, <1>3
  <2> QED
    BY ONLY <2>1, SignalIsAdded
<1>5. Advances(u, t, e) /\ Grows(u, t) /\ Tied(u, u.seq, Len(t.log) + 1)
  BY <1>2, <1>4 DEF Advances, Grows, Tied
<1>6. CallsRecorded(u)
  <2>1. u.tools = w.tools /\ u.seq = w.seq /\ u.log = w.log
    BY <1>4
  <2>2. \A s, p : Tied(u, s, p) <=> Tied(w, s, p)
    BY <2>1, Zenon DEF Tied
  <2> QED
    BY ONLY <1>2, <2>1, <2>2 DEF CallsRecorded
<1>7. FactsRecorded(u)
  <2>1. SameTools(u, w) /\ SameToolFacts(u, w)
    BY <1>4 DEF SameTools, SameToolFacts
  <2>2. \A other : FactsFor(u, other) = FactsFor(w, other)
    BY <1>3, <1>4, <2>1, FactsForSame
  <2>3. \A other, f : Learned(u, other, f) <=> Learned(w, other, f)
    BY <1>4 DEF Learned, Tied
  <2> QED
    BY <1>2, <1>4, <2>2, <2>3 DEF FactsRecorded, Nameless
<1>8. SignalsRecorded(u)
  <2>1. Records(u, sig)
    <3>1. u.log[Len(t.log) + 1] = e
      BY <1>5 DEF Advances, Extended
    <3>2. Says(sig, e)
      BY <1>1 DEF Says
    <3> QED
      BY <1>4, <1>5, <3>1, <3>2 DEF Records
  <2>2. e.ev \in {"asked", "denied", "tool"} /\ (e.ev = "tool" => e.question)
    BY <1>1
  <2>3. u.signals = Append(t.signals, sig) /\ u.pending = t.pending
    BY <1>3, <1>4
  <2> QED
    BY <1>2, <1>5, <2>1, <2>2, <2>3, SignalsRecordedMore DEF Recorded
<1>9. Counted(u)
  BY <1>2, <1>3, <1>4 DEF Counted
<1> QED
  BY <1>6, <1>7, <1>8, <1>9 DEF Recorded

-----------------------------------------------------------------------------
(* What each event of a turn's body leaves recorded *)

\* There was room before an event if there is after it.
LEMMA RecordedBefore ==
  ASSUME NEW t, Mindful(t), NEW v, NEW e, Advances(v, t, e), Remembered(v.log)
  PROVE  Recorded(t)
BY RememberedBefore DEF Advances, Mindful

\* A turn that begins has nothing to keep.
Blank(t) ==
    /\ Len(t.tools) = 0 /\ Len(t.early) = 0 /\ Len(t.signals) = 0 /\ Len(t.pending) = 0
    /\ DOMAIN t.tools = {} /\ DOMAIN t.early = {} /\ t.log = <<>>

\* So with a new turn, ...
LEMMA NewTurnBlank ==
  ASSUME NEW id, NEW stop
  PROVE  Blank(NewTurn(id, stop))
<1> DEFINE t == NewTurn(id, stop)
<1>1. /\ t.tools = <<>> /\ t.early = <<>> /\ t.signals = <<>> /\ t.pending = <<>> /\ t.log = <<>>
  BY DEF NewTurn
<1> HIDE DEF t
<1>2. <<>> \in Seq({}) /\ Len(<<>>) = 0
  BY EmptySeq
<1>3. DOMAIN <<>> = 1..0
  BY <1>2, LenProperties
<1>4. DOMAIN <<>> = {}
  BY <1>3
<1>5. Blank(t)
  BY <1>1, <1>2, <1>4, Zenon DEF Blank
<1> QED
  BY <1>5 DEF t

\* ... and nothing is all it has to keep.
LEMMA BlankRecorded ==
  ASSUME NEW t, Blank(t)
  PROVE  Recorded(t)
<1>1. /\ Len(t.tools) = 0 /\ Len(t.early) = 0 /\ Len(t.signals) = 0 /\ Len(t.pending) = 0
      /\ DOMAIN t.tools = {} /\ DOMAIN t.early = {} /\ \A ev : Events(t.log, ev) = {}
  BY NoEvents DEF Blank
<1>2. \A i \in 1..0 : FALSE
  OBVIOUS
<1>3. CallsRecorded(t)
  BY <1>1, <1>2 DEF CallsRecorded
<1>4. FactsRecorded(t)
  <2>1. Apart(t.early) /\ Nameless(t)
    BY <1>1, <1>2 DEF Apart, Nameless
  <2>2. ASSUME NEW id \in CallIds PROVE Learned(t, id, FactsFor(t, id))
    <3>1. ToolIndex(t, id) = {} /\ EarlyIndex(t, id) = {}
      BY <1>1, Zenon DEF ToolIndex, EarlyIndex
    <3>2. FactsFor(t, id) = NoFacts
      BY <3>1 DEF FactsFor
    <3>3. ResultOf(t.log, id) = {} /\ DeniedOf(t.log, id) = {}
      BY <1>1 DEF ResultOf, DeniedOf
    <3> QED
      BY <3>2, <3>3 DEF Learned, NoFacts
  <2> QED
    BY <2>1, <2>2 DEF FactsRecorded
<1>5. SignalsRecorded(t)
  <2>1. Raising(t.log) = {} /\ Unanswered(t.log) = {}
    BY <1>1 DEF Raising, Unanswered
  <2> QED
    BY <1>1, <1>2, <2>1 DEF SignalsRecorded, Holds
<1>6. Counted(t)
  <2>1. Signalled(t.log) = {} /\ Learnt(t.log) = {} /\ Events(t.log, "requested") = {}
    BY <1>1 DEF Signalled, Learnt
  <2>2. Cardinality({}) = 0
    BY FS_EmptySet
  <2>3. /\ Cardinality(Signalled(t.log)) = 0 /\ Cardinality(Learnt(t.log)) = 0
        /\ Cardinality(Events(t.log, "requested")) = 0
    BY <2>1, <2>2
  <2>4. 0 <= 0
    OBVIOUS
  <2> QED
    BY ONLY <1>1, <2>3, <2>4, Zenon DEF Counted
<1> QED
  BY <1>3, <1>4, <1>5, <1>6 DEF Recorded

\* Text, ...
LEMMA DeltaMindful ==
  ASSUME NEW t, TurnOK(t), Mindful(t), NEW e \in Entries, e.ev = "delta", NEW d \in Deltas,
         NEW u, u = AddDelta(Logged(t, e), d)
  PROVE  Mindful(u)
<1> DEFINE v == Logged(t, e)
<1>1. Advances(v, t, e) /\ Passes(v, t) /\ v \in TurnSet /\ t \in TurnSet
  BY LoggedIs
<1>2. TurnOK(v) /\ Ahead(v)
  BY LoggedKeeps
<1> HIDE DEF v
<1>3. Unmoved(u, v) /\ u.log = v.log /\ u \in TurnSet
  <2>1. u = AddDelta(v, d)
    BY DEF v
  <2>2. Unmoved(u, v) /\ u.log = v.log
    BY <1>1, <2>1, AddDeltaUnmoved
  <2>3. u \in TurnSet
    BY <1>2, <2>1, AddDeltaKeeps DEF TurnOK, Placed
  <2> QED
    BY <2>2, <2>3
<1>4. Unmoved(u, t)
  <2>1. Unmoved(v, t)
    BY <1>1, PassesUnmoved
  <2> QED
    BY <1>1, <1>3, <2>1 DEF Unmoved, SameTools, SameToolFacts, Passes
<1>5. Advances(u, t, e)
  BY <1>1, <1>3, <1>4 DEF Advances, Unmoved, Passes
<1> SUFFICES ASSUME Remembered(u.log) PROVE Recorded(u)
  BY DEF Mindful
<1>6. Recorded(t)
  BY <1>5, RecordedBefore
<1> QED
  BY <1>4, <1>5, <1>6, UnmovedRecorded

\* ... other events without effect, ...
LEMMA MarkMindful ==
  ASSUME NEW t, TurnOK(t), Mindful(t), NEW e \in Entries, e.ev = "mark",
         NEW u, u \in {Logged(t, e), Boundary(Logged(t, e))}
  PROVE  Mindful(u)
<1>1. Advances(u, t, e) /\ Passes(u, t)
  BY LoggedIs
<1>2. Unmoved(u, t)
  BY <1>1, PassesUnmoved
<1> SUFFICES ASSUME Remembered(u.log) PROVE Recorded(u)
  BY DEF Mindful
<1>3. Recorded(t)
  BY <1>1, RecordedBefore
<1> QED
  BY <1>1, <1>2, <1>3, UnmovedRecorded

\* ... results, ...
LEMMA ResultMindful ==
  ASSUME NEW t, TurnOK(t), Mindful(t), NEW id \in CallIds, NEW isError \in BOOLEAN,
         NEW e \in Entries, e.ev = "result", e.id = id, e.isError = isError,
         NEW u, u = ToolResult(Boundary(Logged(t, e)), id, isError)
  PROVE  Mindful(u)
<1> DEFINE v == Boundary(Logged(t, e))
<1>1. Advances(v, t, e) /\ TurnOK(v)
  BY LoggedIs, LoggedOK
<1> HIDE DEF v
<1>2. u.log = v.log
  BY <1>1, ToolResultKeeps DEF SameTurn, v
<1> SUFFICES ASSUME Remembered(u.log) PROVE Recorded(u)
  BY DEF Mindful
<1>3. Recorded(t)
  BY <1>1, <1>2, RecordedBefore
<1> QED
  BY <1>3, ResultRecorded

\* ... answers.
LEMMA ResolvedMindful ==
  ASSUME NEW t, TurnOK(t), Mindful(t), NEW request \in Nat, NEW allowed \in BOOLEAN,
         NEW e \in Entries, e.ev = "resolved", e.request = request, e.allowed = allowed,
         NEW u, u = Resolve(Boundary(Logged(t, e)), request, allowed)
  PROVE  Mindful(u)
<1> DEFINE v == Boundary(Logged(t, e))
<1>1. Advances(v, t, e) /\ TurnOK(v)
  BY LoggedIs, LoggedOK
<1> HIDE DEF v
<1>2. u.log = v.log
  BY <1>1, ResolveKeeps DEF SameTurn, v
<1> SUFFICES ASSUME Remembered(u.log) PROVE Recorded(u)
  BY DEF Mindful
<1>3. Recorded(t)
  BY <1>1, <1>2, RecordedBefore
<1> QED
  BY <1>3, ResolvedRecorded

\* An added signal leaves the log alone.
LEMMA LogOfAdded ==
  ASSUME NEW x \in TurnSet, NEW sig
  PROVE  AddSignal(x, sig).log = x.log
<1>1. AddSignal(x, sig) = [x EXCEPT !.signals = AtMost(Append(@, sig), MaxSignals)]
  BY Zenon DEF AddSignal
<1> QED
  BY <1>1 DEF TurnSet

\* A question by request, ...
LEMMA AskedMindful ==
  ASSUME NEW t, TurnOK(t), Mindful(t), NEW e \in Entries, e.ev = "asked",
         NEW u, u = AddSignal(Boundary(Logged(t, e)), Signal(Logged(t, e), "question", TRUE, FALSE, "", FALSE))
  PROVE  Mindful(u)
<1> DEFINE w == Logged(t, e)
           v == Boundary(w)
           sig == Signal(w, "question", TRUE, FALSE, "", FALSE)
<1>1. /\ Advances(v, t, e) /\ v \in TurnSet /\ w \in TurnSet /\ Here(w) = Len(t.log) + 1 /\ w.seq = t.seq
      /\ v = Boundary(Logged(t, e)) /\ u = AddSignal(v, sig)
  BY LoggedIs DEF Passes
<1> HIDE DEF v, w
<1>2. w \in TurnSet /\ "question" \in Kinds /\ sig = Signal(w, "question", TRUE, FALSE, "", FALSE)
  BY <1>1 DEF Kinds
<1>3. /\ sig \in Signals /\ sig.kind = "question" /\ ~sig.byTool /\ ~sig.toolCall
      /\ sig.seq = w.seq /\ sig.raised = Here(w)
  <2> HIDE DEF sig
  <2>1. w \in TurnSet /\ "question" \in Kinds
    BY <1>2
  <2>2. sig = Signal(w, "question", TRUE, FALSE, "", FALSE)
    BY DEF sig
  <2>3. sig \in Signals /\ sig.kind = "question" /\ ~sig.byTool /\ ~sig.toolCall /\ sig.raised = Here(w)
    BY ONLY <2>1, <2>2, StandingSignal
  <2>4. sig.seq = w.seq
    BY <2>2 DEF Signal
  <2> QED
    BY <2>3, <2>4
<1> HIDE DEF sig
<1>4. u.log = v.log
  BY <1>1, LogOfAdded
<1> SUFFICES ASSUME Remembered(u.log) PROVE Recorded(u)
  BY DEF Mindful
<1>5. Recorded(t)
  BY <1>1, <1>4, RecordedBefore
<1> QED
  BY <1>1, <1>3, <1>5, AskedRecorded

\* ... a request, ...
LEMMA RequestMindful ==
  ASSUME NEW t, TurnOK(t), Mindful(t), NEW e \in Entries, e.ev = "requested",
         NEW u, u = Request(Boundary(Logged(t, e)))
  PROVE  Mindful(u)
<1> DEFINE v == Boundary(Logged(t, e))
           sig == Signal(v, "approval", TRUE, FALSE, "", FALSE)
<1>1. /\ Advances(v, t, e) /\ v \in TurnSet /\ Here(v) = Len(t.log) + 1 /\ v.seq = t.seq
      /\ v = Boundary(Logged(t, e))
  BY LoggedIs DEF Passes
<1>2. u = [v EXCEPT !.pending = AtMost(Append(@, sig), MaxPending)]
  BY Zenon DEF Request
<1> HIDE DEF v
<1>3. "approval" \in Kinds /\ sig = Signal(v, "approval", TRUE, FALSE, "", FALSE)
  BY DEF Kinds
<1>4. /\ sig \in Signals /\ sig.kind = "approval" /\ ~sig.byTool /\ ~sig.toolCall
      /\ sig.seq = v.seq /\ sig.raised = Here(v)
  <2> HIDE DEF sig
  <2> QED
    BY <1>1, <1>3, StandingSignal
<1> HIDE DEF sig
<1>5. u.log = v.log
  BY <1>1, <1>2 DEF TurnSet
<1> SUFFICES ASSUME Remembered(u.log) PROVE Recorded(u)
  BY DEF Mindful
<1>6. Recorded(t)
  BY <1>1, <1>5, RecordedBefore
<1>7. /\ TurnOK(t) /\ e \in Entries /\ e.ev = "requested" /\ v = Boundary(Logged(t, e))
      /\ sig \in Signals /\ sig.kind = "approval" /\ ~sig.byTool /\ ~sig.toolCall
      /\ sig.seq = t.seq /\ sig.raised = Len(t.log) + 1
  BY <1>1, <1>4
<1> QED
  BY ONLY <1>2, <1>6, <1>7, Remembered(u.log), RequestedRecorded

\* ... a refusal ...
LEMMA DeniedMindful ==
  ASSUME NEW t, TurnOK(t), Mindful(t), NEW id \in Named, NEW e \in Entries, e.ev = "denied", e.id = id,
         NEW u, u = RaiseApproval(Boundary(Logged(t, e)), id)
  PROVE  Mindful(u)
<1> DEFINE v == Boundary(Logged(t, e))
           x == IF id = "" THEN v ELSE SetFacts(v, id, [FactsFor(v, id) EXCEPT !.refused = TRUE])
           sig == [Signal(x, "approval", TRUE, TRUE, id, FALSE) EXCEPT !.at = 0, !.seq = 0]
<1>1. /\ Advances(v, t, e) /\ v \in TurnSet /\ Here(v) = Len(t.log) + 1 /\ TurnOK(v)
      /\ v = Boundary(Logged(t, e))
  BY LoggedIs, LoggedOK
<1>2. u = AddSignal(x, sig)
  BY Zenon DEF RaiseApproval
<1> HIDE DEF v
<1>3. id \in CallIds <=> id # ""
  BY OutputConstants DEF Named
<1>4. /\ id \notin CallIds => x = v
      /\ id \in CallIds => x = SetFacts(v, id, [FactsFor(v, id) EXCEPT !.refused = TRUE])
  BY <1>3, Zenon
<1> HIDE DEF x
<1>5. x \in TurnSet /\ x.log = v.log
  <2>1. CASE id \in CallIds
    <3> DEFINE g == [FactsFor(v, id) EXCEPT !.refused = TRUE]
    <3>1. FactsFor(v, id) \in Facts
      BY <1>1, FactsForType
    <3>2. g \in Facts
      BY <3>1 DEF Facts
    <3>3. x = SetFacts(v, id, g)
      BY <1>4, <2>1
    <3> HIDE DEF g
    <3> QED
      BY <1>1, <2>1, <3>2, <3>3, SetFactsKeeps DEF SameTurn, TurnOK, Placed
  <2> QED
    BY <1>1, <1>4, <2>1
<1>6. /\ sig \in Signals /\ sig.kind = "approval" /\ sig.byTool /\ ~sig.toolCall /\ sig.toolID = id
      /\ sig.raised = Len(t.log) + 1
  <2> DEFINE s == Signal(x, "approval", TRUE, TRUE, id, FALSE)
  <2>1. "approval" \in Kinds
    BY DEF Kinds
  <2>2. PICK yes : yes = TRUE
    OBVIOUS
  <2>3. PICK no : no = FALSE
    OBVIOUS
  <2>4. sig = [s EXCEPT !.at = 0, !.seq = 0]
    OBVIOUS
  <2>5. s = Signal(x, "approval", yes, yes, id, no)
    BY ONLY <2>2, <2>3, Zenon
  <2> HIDE DEF s, sig
  <2>6. x \in TurnSet /\ id \in Named /\ yes \in BOOLEAN /\ no \in BOOLEAN
    BY <1>5, <2>2, <2>3
  <2>7. /\ s \in Signals /\ s.kind = "approval" /\ s.byTool = yes /\ s.toolID = id /\ s.toolCall = no
        /\ s.seq = x.seq /\ s.raised = Here(x)
    BY ONLY <2>1, <2>5, <2>6, SignalNow
  <2>8. Here(x) = Len(t.log) + 1
    BY <1>1, <1>5 DEF Here
  <2> QED
    BY ONLY <2>2, <2>3, <2>4, <2>7, <2>8 DEF Signals
<1> HIDE DEF sig
<1>7. u.log = x.log
  BY <1>2, <1>5, LogOfAdded
<1> SUFFICES ASSUME Remembered(u.log) PROVE Recorded(u)
  BY DEF Mindful
<1>8. Recorded(t) /\ Remembered(x.log)
  BY <1>1, <1>5, <1>7, RecordedBefore
<1> QED
  BY <1>1, <1>2, <1>4, <1>6, <1>8, DeniedRecorded

\* ... and a call.
LEMMA ToolUseMindful ==
  ASSUME NEW t, TurnOK(t), Mindful(t), NEW id \in Named, NEW question \in BOOLEAN, NEW said \in BOOLEAN,
         Uncalled(t.log, id),
         NEW u, u = ToolUse(Logged(t, Calling(id, question)), id, question, said)
  PROVE  Mindful(u)
<1> DEFINE e == Calling(id, question)
           v == Boundary(Logged(t, e))
           w == AddTool(v, id, question)
           sig == Signal(w, "question", said, id # "", id, TRUE)
<1>1. e \in Entries /\ e = Calling(id, question)
  BY DEF Calling, Entries
<1>2. u = IF question THEN AddSignal(w, sig) ELSE w
  BY DEF ToolUse
<1>3. w.log = Append(t.log, e) /\ TurnOK(w)
  BY AddToolKeeps
<1> HIDE DEF e
<1>4. Advances(v, t, e) /\ v.log = Append(t.log, e) /\ Here(v) = Len(t.log) + 1 /\ v = Boundary(Logged(t, e))
  BY <1>1, LoggedIs
<1>5. w = AddTool(v, id, question)
  OBVIOUS
<1> HIDE DEF v, w
<1>6. w \in TurnSet /\ Here(w) = Len(t.log) + 1 /\ w.log = v.log
  BY <1>3, <1>4 DEF Here, TurnOK, Placed
<1>7. u.log = v.log
  <2> HIDE DEF sig
  <2> QED
    BY <1>2, <1>6, LogOfAdded
<1> SUFFICES ASSUME Remembered(u.log) PROVE Recorded(u)
  BY DEF Mindful
<1>8. Recorded(t) /\ Remembered(v.log)
  BY <1>4, <1>7, RecordedBefore
<1>9. Called(w, t, id, question)
  BY <1>1, <1>4, <1>5, <1>8, AddToolIs
<1>10. CASE ~question
  <2>1. u = w
    BY <1>2, <1>10
  <2> QED
    BY <1>1, <1>3, <1>4, <1>6, <1>8, <1>9, <1>10, <2>1, CallRecorded
<1>11. CASE question
  <2>1. /\ sig \in Signals /\ sig.kind = "question" /\ (sig.byTool <=> id # "") /\ sig.toolCall
        /\ sig.toolID = id /\ sig.seq = w.seq /\ sig.raised = Here(w)
    <3>1. PICK yes : yes = TRUE
      OBVIOUS
    <3>2. PICK named : named = (id # "")
      OBVIOUS
    <3>3. "question" \in Kinds /\ named \in BOOLEAN /\ yes \in BOOLEAN
      BY <3>1, <3>2 DEF Kinds
    <3>4. sig = Signal(w, "question", said, named, id, yes)
      BY ONLY <3>1, <3>2, Zenon
    <3> HIDE DEF sig
    <3>5. w \in TurnSet /\ id \in Named /\ said \in BOOLEAN
      BY <1>6
    <3>6. /\ sig \in Signals /\ sig.kind = "question" /\ sig.byTool = named /\ sig.toolID = id
          /\ sig.toolCall = yes /\ sig.seq = w.seq /\ sig.raised = Here(w)
      BY ONLY <3>3, <3>4, <3>5, SignalNow
    <3> QED
      BY ONLY <3>1, <3>2, <3>6, Zenon
  <2> HIDE DEF sig
  <2>2. sig.byTool <=> id \in CallIds
    <3>1. id \in CallIds <=> id # ""
      BY OutputConstants DEF Named
    <3> QED
      BY ONLY <2>1, <3>1
  <2>3. u = AddSignal(w, sig)
    BY <1>2, <1>11
  <2> HIDE DEF sig
  <2> QED
    BY <1>1, <1>3, <1>4, <1>6, <1>8, <1>9, <1>11, <2>1, <2>2, <2>3, QuestionRecorded
<1> QED
  BY <1>10, <1>11

-----------------------------------------------------------------------------
(* What a turn ends on, and what its events say *)

\* A call that is held is one call of the log.
LEMMA OneCall ==
  ASSUME NEW t, TurnOK(t), CallsRecorded(t), NEW i \in 1..Len(t.tools)
  PROVE  /\ t.tools[i].called \in Events(t.log, "tool") /\ t.tools[i].called \in 1..Len(t.log)
         /\ t.log[t.tools[i].called].id = t.tools[i].id
         /\ t.log[t.tools[i].called].question = t.tools[i].question
         /\ t.tools[i] \in Tools
         /\ t.tools[i].id # "" =>
               /\ ToolIndex(t, t.tools[i].id) = {i}
               /\ CallOf(t.log, t.tools[i].id) = {t.tools[i].called}
               /\ FactsFor(t, t.tools[i].id) = t.tools[i].facts
<1>1. /\ t \in TurnSet /\ CalledOK(t.blocks, t.tools, t.log) /\ CallsOK(t.tools, t.log)
  BY DEF TurnOK, Placed
<1>2. /\ t.tools \in Seq(Tools) /\ t.log \in Seq(Entries) /\ DOMAIN t.tools = 1..Len(t.tools)
      /\ t.tools[i] \in Tools
  BY <1>1, TurnParts, LenProperties, ElementOfSeq
<1>3. \A j \in 1..Len(t.tools) : /\ t.tools[j].called \in Events(t.log, "tool")
                                 /\ t.log[t.tools[j].called].id = t.tools[j].id
  BY <1>1 DEF CalledOK
<1>4. t.tools[i].called \in 1..Len(t.log)
  BY <1>2, <1>3, EventsArePlaces
<1>5. \A x, y \in Events(t.log, "tool") : t.log[x].id = t.log[y].id /\ t.log[x].id # "" => x = y
  BY <1>1 DEF CallsOK
<1>6. \A j, k \in 1..Len(t.tools) : t.tools[j].called = t.tools[k].called => j = k
  BY DEF CallsRecorded
<1>7. ASSUME t.tools[i].id # ""
      PROVE  /\ ToolIndex(t, t.tools[i].id) = {i}
             /\ CallOf(t.log, t.tools[i].id) = {t.tools[i].called}
             /\ FactsFor(t, t.tools[i].id) = t.tools[i].facts
  <2>1. \A j \in 1..Len(t.tools) : t.tools[j].id = t.tools[i].id => j = i
    <3>1. ASSUME NEW j \in 1..Len(t.tools), t.tools[j].id = t.tools[i].id PROVE j = i
      <4>1. t.tools[j].called = t.tools[i].called
        BY <1>3, <1>5, <1>7, <3>1
      <4> QED
        BY <1>6, <4>1
    <3> QED
      BY <3>1
  <2>2. i <= i
    OBVIOUS
  <2>3. ToolIndex(t, t.tools[i].id) = {i}
    BY <1>2, <1>7, <2>1, <2>2, Zenon DEF ToolIndex
  <2>4. CallOf(t.log, t.tools[i].id) = {t.tools[i].called}
    <3> DEFINE id == t.tools[i].id
               c == t.tools[i].called
    <3>1. c \in Events(t.log, "tool") /\ t.log[c].id = id /\ id # ""
      BY <1>3, <1>7
    <3> HIDE DEF id, c
    <3>2. c \in CallOf(t.log, id)
      BY <3>1 DEF CallOf
    <3>3. \A x \in CallOf(t.log, id) : x = c
      BY <1>5, <3>1 DEF CallOf
    <3> QED
      BY <3>2, <3>3 DEF id, c
  <2>5. FactsFor(t, t.tools[i].id) = t.tools[i].facts
    BY <2>3 DEF FactsFor
  <2> QED
    BY <2>3, <2>4, <2>5
<1>8. t.log[t.tools[i].called].question = t.tools[i].question
  BY DEF CallsRecorded
<1> QED
  BY <1>2, <1>3, <1>4, <1>7, <1>8

\* The calls that are work are those held as work.
LEMMA WorkIs ==
  ASSUME NEW t, TurnOK(t), CallsRecorded(t), FactsRecorded(t)
  PROVE  /\ \A i \in 1..Len(t.tools) :
               t.tools[i].called \in Work(t.log) <=> ~ (t.tools[i].question \/ t.tools[i].facts.refused)
         /\ \A w \in Work(t.log) : \E i \in 1..Len(t.tools) : t.tools[i].called = w
<1>1. ASSUME NEW i \in 1..Len(t.tools)
      PROVE  t.tools[i].called \in Work(t.log) <=> ~ (t.tools[i].question \/ t.tools[i].facts.refused)
  <2> DEFINE id == t.tools[i].id
             c == t.tools[i].called
  <2>1. /\ c \in Events(t.log, "tool") /\ t.log[c].id = id /\ t.log[c].question = t.tools[i].question
        /\ id # "" => FactsFor(t, id) = t.tools[i].facts
        /\ id \in Named
    BY OneCall DEF Tools
  <2>2. t.tools[i].facts.refused <=> DeniedOf(t.log, id) # {}
    <3>1. CASE id \in CallIds
      <4>1. Learned(t, id, FactsFor(t, id)) /\ id # ""
        BY <3>1, OutputConstants DEF FactsRecorded
      <4> QED
        BY <2>1, <4>1 DEF Learned
    <3>2. CASE id \notin CallIds
      <4>1. t.tools[i].facts = NoFacts
        BY <3>2 DEF FactsRecorded, Nameless
      <4>2. id = ""
        BY <2>1, <3>2 DEF Named
      <4>3. ~t.tools[i].facts.refused
        BY <4>1 DEF NoFacts
      <4>4. DeniedOf(t.log, id) = {}
        BY <4>2, Zenon DEF DeniedOf
      <4> QED
        BY ONLY <4>3, <4>4
    <3> QED
      BY <3>1, <3>2
  <2> HIDE DEF id, c
  <2>3. c \in Work(t.log) <=> ~ (t.tools[i].question \/ t.tools[i].facts.refused)
    BY <2>1, <2>2 DEF Work
  <2> QED
    BY <2>3 DEF c
<1>2. \A w \in Work(t.log) : w \in Events(t.log, "tool")
  BY DEF Work
<1> QED
  BY <1>1, <1>2 DEF CallsRecorded

\* No work after a point of the log.
Clear(log, p) == \A w \in Work(log) : w <= p

\* A place past which a call is work stands for this point of the log.
Marks(t, place, p) ==
    \A i \in 1..Len(t.tools) : (place.old \/ t.tools[i].seq > place.after) <=> t.tools[i].called > p

\* No call stands after a marked place when no work of the log comes after its point.
LEMMA ClearIs ==
  ASSUME NEW t, TurnOK(t), CallsRecorded(t), FactsRecorded(t),
         NEW place, NEW p \in Nat, Marks(t, place, p)
  PROVE  (\A i \in DOMAIN t.tools :
             (place.old \/ t.tools[i].seq > place.after) => t.tools[i].question \/ t.tools[i].facts.refused)
         <=> Clear(t.log, p)
<1>1. DOMAIN t.tools = 1..Len(t.tools) /\ Len(t.log) \in Nat
  BY TurnParts, LenProperties DEF TurnOK, Placed
<1>2. \A i \in 1..Len(t.tools) : t.tools[i].called \in 1..Len(t.log)
  BY OneCall
<1>3. /\ \A i \in 1..Len(t.tools) :
            t.tools[i].called \in Work(t.log) <=> ~ (t.tools[i].question \/ t.tools[i].facts.refused)
      /\ \A w \in Work(t.log) : \E i \in 1..Len(t.tools) : t.tools[i].called = w
  BY WorkIs
<1>4. \A i \in 1..Len(t.tools) : t.tools[i].called <= p <=> ~ (t.tools[i].called > p)
  BY <1>1, <1>2
<1>5. \A i \in 1..Len(t.tools) : (place.old \/ t.tools[i].seq > place.after) <=> t.tools[i].called > p
  BY DEF Marks
<1>6. (\A i \in 1..Len(t.tools) :
         (place.old \/ t.tools[i].seq > place.after) => t.tools[i].question \/ t.tools[i].facts.refused)
      <=> \A i \in 1..Len(t.tools) : t.tools[i].called \in Work(t.log) => t.tools[i].called <= p
  BY ONLY <1>3, <1>4, <1>5, Zenon
<1>7. (\A i \in 1..Len(t.tools) : t.tools[i].called \in Work(t.log) => t.tools[i].called <= p)
      <=> Clear(t.log, p)
  BY ONLY <1>3, Zenon DEF Clear
<1> QED
  BY ONLY <1>1, <1>6, <1>7, Zenon

\* The point of a call is where its facts say.
LEMMA PointOfCall ==
  ASSUME NEW t, TurnOK(t), CallsRecorded(t), FactsRecorded(t), NEW id \in CallIds
  PROVE  /\ PointOf(t.log, id) \in Nat
         /\ ToolIndex(t, id) = {} => PointOf(t.log, id) = 0
         /\ \A i \in ToolIndex(t, id) :
               Tied(t, IF t.tools[i].facts.has THEN t.tools[i].facts.at ELSE t.tools[i].seq, PointOf(t.log, id))
<1>1. t \in TurnSet /\ t.log \in Seq(Entries) /\ Len(t.log) \in Nat
  BY TurnParts DEF TurnOK, Placed
<1>2. id # ""
  BY OutputConstants
<1>3. ResultOf(t.log, id) \subseteq Nat
  <2>1. Events(t.log, "result") \subseteq 1..Len(t.log)
    BY <1>1, EventsArePlaces
  <2> QED
    BY <1>1, <2>1 DEF ResultOf
<1>4. CASE ToolIndex(t, id) = {}
  <2>1. ASSUME NEW c \in CallOf(t.log, id) PROVE FALSE
    <3>1. c \in Events(t.log, "tool") /\ t.log[c].id = id
      BY DEF CallOf
    <3>2. PICK i \in 1..Len(t.tools) : t.tools[i].called = c
      BY <3>1 DEF CallsRecorded
    <3>3. t.tools[i].id = id
      <4>1. t.log[t.tools[i].called].id = t.tools[i].id
        BY OneCall
      <4> QED
        BY <3>1, <3>2, <4>1
    <3>4. ToolIndex(t, id) = {i}
      BY <1>2, <3>3, OneCall
    <3> QED
      BY <1>4, <3>4
  <2>2. CallOf(t.log, id) = {}
    BY <2>1
  <2>3. PointOf(t.log, id) = 0
    BY <2>2 DEF PointOf
  <2> QED
    BY <1>4, <2>3
<1>5. CASE ToolIndex(t, id) # {}
  <2>1. PICK i \in ToolIndex(t, id) : TRUE
    BY <1>5
  <2>2. i \in 1..Len(t.tools) /\ t.tools[i].id = id /\ \A j \in ToolIndex(t, id) : j = i
    BY <1>1, IndexFacts
  <2> DEFINE c == t.tools[i].called
             f == t.tools[i].facts
             p == PointOf(t.log, id)
             R == ResultOf(t.log, id)
  <2>3. CallOf(t.log, id) = {c} /\ FactsFor(t, id) = f /\ c \in 1..Len(t.log)
    BY <1>2, <2>2, OneCall
  <2>4. Learned(t, id, f)
    BY <2>3 DEF FactsRecorded
  <2>5. p = IF R # {} THEN Earliest(R) ELSE Earliest(CallOf(t.log, id))
    BY <2>3 DEF PointOf
  <2> HIDE DEF c, f, p, R
  <2>6. CASE f.has
    <3>1. R # {} /\ Tied(t, f.at, Min(R))
      BY <2>4, <2>6 DEF Learned, R
    <3>2. p = Min(R)
      BY <2>5, <3>1 DEF Earliest
    <3>3. Min(R) \in Nat
      BY <1>3, <3>1, MinIsFirst DEF R
    <3>4. Tied(t, IF f.has THEN f.at ELSE t.tools[i].seq, p) /\ p \in Nat
      BY <2>6, <3>1, <3>2, <3>3
    <3> QED
      BY <1>5, <2>2, <3>4 DEF f, p
  <2>7. CASE ~f.has
    <3>1. R = {}
      BY <2>4, <2>7 DEF Learned, R
    <3>2. c \in Nat
      BY <2>3
    <3>3. Min({c}) = c
      <4>1. {c} \subseteq Nat /\ {c} # {}
        BY <3>2
      <4>2. Min({c}) \in {c}
        BY <4>1, MinIsFirst
      <4> QED
        BY <4>2
    <3>4. p = c
      BY <2>3, <2>5, <3>1, <3>3 DEF Earliest
    <3>5. Tied(t, t.tools[i].seq, c)
      BY <2>2 DEF CallsRecorded, c
    <3>6. Tied(t, IF f.has THEN f.at ELSE t.tools[i].seq, p) /\ p \in Nat
      BY <2>7, <3>2, <3>4, <3>5
    <3> QED
      BY <1>5, <2>2, <3>6 DEF f, p
  <2> QED
    BY <2>6, <2>7
<1> QED
  BY <1>4, <1>5

\* The point of the event that raised a signal.
PointFor(log, e) ==
    CASE log[e].ev = "tool"   -> IF log[e].id = "" THEN e ELSE PointOf(log, log[e].id)
      [] log[e].ev = "denied" -> IF log[e].id = "" THEN Latest(Events(log, "tool"))
                                 ELSE PointOf(log, log[e].id)
      [] OTHER                -> e

\* Its place stands for that point: for a signal with a place of its own, ...
LEMMA MarksWhereRaised ==
  ASSUME NEW t, NEW s, ~s.byTool, Tied(t, s.seq, s.raised)
  PROVE  Marks(t, Place(t, s), s.raised)
<1>1. Place(t, s) = [at |-> s.at, after |-> s.seq, old |-> FALSE]
  BY DEF Place
<1>2. Place(t, s).after = s.seq /\ ~Place(t, s).old
  BY <1>1
<1> QED
  BY <1>2 DEF Tied, Marks

\* ... of a call, ...
LEMMA MarksTheCall ==
  ASSUME NEW t, TurnOK(t), CallsRecorded(t), FactsRecorded(t), NEW s, s.byTool, s.toolID \in CallIds
  PROVE  Marks(t, Place(t, s), PointOf(t.log, s.toolID))
<1> DEFINE id == s.toolID
           I == ToolIndex(t, id)
           p == PointOf(t.log, id)
           i == CHOOSE j \in I : TRUE
<1>1. s.toolID # ""
  BY OutputConstants
<1>2. /\ p \in Nat /\ (I = {} => p = 0)
      /\ \A k \in I : Tied(t, IF t.tools[k].facts.has THEN t.tools[k].facts.at ELSE t.tools[k].seq, p)
  BY PointOfCall
<1>3. CASE I = {}
  <2>1. Place(t, s).old
    BY <1>1, <1>3 DEF Place
  <2>2. \A k \in 1..Len(t.tools) : t.tools[k].called > 0
    <3>1. \A k \in 1..Len(t.tools) : t.tools[k].called \in 1..Len(t.log)
      BY OneCall
    <3>2. \A c \in 1..Len(t.log) : c > 0
      OBVIOUS
    <3> QED
      BY ONLY <3>1, <3>2
  <2> QED
    BY <1>2, <1>3, <2>1, <2>2 DEF Marks
<1>4. CASE I # {}
  <2>1. i \in I
    BY <1>4
  <2>2. Place(t, s) = [at |-> t.tools[i].blocksAt, old |-> FALSE,
                       after |-> IF t.tools[i].facts.has THEN t.tools[i].facts.at ELSE t.tools[i].seq]
    BY <1>1, <1>4 DEF Place
  <2> HIDE DEF i
  <2> DEFINE after == IF t.tools[i].facts.has THEN t.tools[i].facts.at ELSE t.tools[i].seq
  <2>3. Tied(t, after, p)
    BY <1>2, <2>1
  <2> HIDE DEF after, p
  <2>4. Place(t, s).after = after /\ ~Place(t, s).old
    BY <2>2 DEF after
  <2>5. Marks(t, Place(t, s), p)
    BY <2>3, <2>4 DEF Tied, Marks
  <2> QED
    BY <2>5 DEF p
<1> QED
  BY <1>3, <1>4

\* ... and, for a refusal that names no call, of the last call made.
NamesNoCall(s) == s.byTool /\ s.toolID = ""

\* A signal that names no call is marked by the last call there was.
LEMMA MarksTheLast ==
  ASSUME NEW t, TurnOK(t), CallsRecorded(t), NEW s, NamesNoCall(s)
  PROVE  Latest(Events(t.log, "tool")) \in Nat /\ Marks(t, Place(t, s), Latest(Events(t.log, "tool")))
<1> DEFINE calls == Events(t.log, "tool")
<1>1. /\ t.tools \in Seq(Tools) /\ t.log \in Seq(Entries) /\ Len(t.tools) \in Nat /\ Len(t.log) \in Nat
      /\ LastCalled(t.tools, t.log)
  BY TurnParts DEF TurnOK, Placed
<1>2. calls \subseteq 1..Len(t.log)
  BY <1>1, EventsArePlaces
<1>3. CASE t.tools = <<>>
  <2>1. calls = {} /\ Len(t.tools) = 0
    BY <1>1, <1>3, NonEmpty DEF LastCalled
  <2>2. Latest(calls) = 0
    BY <2>1 DEF Latest
  <2>3. \A i \in 1..0 : FALSE
    OBVIOUS
  <2>4. \A place, p : Marks(t, place, p)
    BY <2>1, <2>3, Zenon DEF Marks
  <2>5. Latest(calls) \in Nat
    BY <2>2
  <2> QED
    BY <2>4, <2>5
<1>4. CASE t.tools # <<>>
  <2> DEFINE n == Len(t.tools)
             c == t.tools[n].called
  <2>1. n \in 1..Len(t.tools)
    BY <1>1, <1>4, NonEmpty
  <2>2. c \in calls /\ \A x \in calls : x <= c
    BY <1>1, <1>4 DEF LastCalled
  <2>3. Tied(t, t.tools[n].seq, c)
    BY <2>1 DEF CallsRecorded
  <2>4. Place(t, s) = [at |-> t.tools[n].blocksAt, after |-> t.tools[n].seq, old |-> FALSE]
    BY <1>4 DEF Place, Last, NamesNoCall
  <2> HIDE DEF c, calls, n
  <2>5. Place(t, s).after = t.tools[n].seq /\ ~Place(t, s).old
    BY ONLY <2>4
  <2>6. Latest(calls) = c
    <3>1. Max(calls) \in calls /\ \A x \in calls : x <= Max(calls)
      BY <1>1, <1>2, <2>2, MaxIsLast
    <3>2. Max(calls) <= c /\ c <= Max(calls)
      BY <2>2, <3>1
    <3>3. Max(calls) \in 1..Len(t.log) /\ c \in 1..Len(t.log)
      BY <1>2, <2>2, <3>1, Zenon
    <3>4. Max(calls) = c
      BY <1>1, <3>2, <3>3
    <3> QED
      BY <2>2, <3>4 DEF Latest
  <2>7. c \in Nat
    BY <1>1, <1>2, <2>2
  <2>8. Marks(t, Place(t, s), c)
    BY <2>3, <2>5 DEF Tied, Marks
  <2> QED
    BY <2>6, <2>7, <2>8 DEF calls
<1> QED
  BY <1>3, <1>4

\* An event that raises signals, and its id when it may name a call.
IdFor(log, e) ==
    /\ log[e].ev \in {"asked", "requested", "tool", "denied"}
    /\ log[e].ev \in {"tool", "denied"} => log[e].id \in Named

\* What raised a signal is one event, and its id a call's.
LEMMA RaisesOne ==
  ASSUME NEW log \in Seq(Entries), NEW e,
         \E ev \in {"asked", "requested", "tool", "denied"} : e \in Events(log, ev)
  PROVE  IdFor(log, e) /\ e \in 1..Len(log) /\ e \in Nat
<1>1. PICK ev \in {"asked", "requested", "tool", "denied"} : e \in Events(log, ev)
  OBVIOUS
<1>2. log[e] \in Entries /\ log[e].ev = ev /\ e \in 1..Len(log)
  BY <1>1, EventsArePlaces
<1>3. log[e].ev \in {"tool", "denied"} => log[e].id \in Named
  BY <1>2 DEF Entries
<1>4. \A i \in 1..Len(log) : i \in Nat
  BY LenProperties
<1> QED
  BY <1>2, <1>3, <1>4 DEF IdFor

\* The place of a signal stands for the point of the event that raised it.
LEMMA MarksItsPoint ==
  ASSUME NEW t, TurnOK(t), CallsRecorded(t), FactsRecorded(t),
         NEW s, s.raised \in Nat, IdFor(t.log, s.raised), Records(t, s)
  PROVE  /\ PointFor(t.log, s.raised) \in Nat
         /\ Marks(t, Place(t, s), PointFor(t.log, s.raised))
<1> DEFINE e == s.raised
           id == t.log[e].id
<1>1. e \in Nat /\ Says(s, t.log[e]) /\ (~s.byTool => Tied(t, s.seq, e))
  BY DEF Records
<1>2. \A x \in Named : x \in CallIds <=> x # ""
  BY OutputConstants DEF Named
<1>3. ASSUME ~s.byTool, PointFor(t.log, e) = e
      PROVE  PointFor(t.log, e) \in Nat /\ Marks(t, Place(t, s), PointFor(t.log, e))
  <2> HIDE DEF e
  <2>1. Marks(t, Place(t, s), e)
    BY <1>1, <1>3, MarksWhereRaised DEF e
  <2> QED
    BY <1>1, <1>3, <2>1
<1>4. ASSUME s.byTool, id \in CallIds, s.toolID = id, PointFor(t.log, e) = PointOf(t.log, id)
      PROVE  PointFor(t.log, e) \in Nat /\ Marks(t, Place(t, s), PointFor(t.log, e))
  <2>1. PointOf(t.log, id) \in Nat
    BY <1>4, PointOfCall
  <2>2. Marks(t, Place(t, s), PointOf(t.log, id))
    BY <1>4, MarksTheCall
  <2> QED
    BY <1>4, <2>1, <2>2
<1>5. CASE t.log[e].ev \in {"asked", "requested"}
  <2>1. ~s.byTool
    BY <1>1, <1>5 DEF Says
  <2>2. PointFor(t.log, e) = e
    BY <1>5 DEF PointFor
  <2> QED
    BY <1>3, <2>1, <2>2
<1>6. CASE t.log[e].ev = "tool"
  <2>1. id \in Named /\ (s.byTool <=> id \in CallIds) /\ s.toolID = id
    BY <1>1, <1>6 DEF Says, IdFor
  <2>2. PointFor(t.log, e) = IF id = "" THEN e ELSE PointOf(t.log, id)
    BY <1>6 DEF PointFor
  <2> HIDE DEF id, e
  <2>3. CASE id \in CallIds
    <3>1. PointFor(t.log, e) = PointOf(t.log, id)
      BY <1>2, <2>1, <2>2, <2>3
    <3> QED
      BY <1>4, <2>1, <2>3, <3>1 DEF e
  <2>4. CASE id \notin CallIds
    <3>1. PointFor(t.log, e) = e
      BY <1>2, <2>1, <2>2, <2>4
    <3> QED
      BY <1>3, <2>1, <2>4, <3>1 DEF e
  <2> QED
    BY <2>3, <2>4
<1>7. CASE t.log[e].ev = "denied"
  <2>1. id \in Named /\ s.byTool /\ s.toolID = id
    BY <1>1, <1>7 DEF Says, IdFor
  <2>2. PointFor(t.log, e) = IF id = "" THEN Latest(Events(t.log, "tool")) ELSE PointOf(t.log, id)
    BY <1>7 DEF PointFor
  <2> HIDE DEF id, e
  <2>3. CASE id \in CallIds
    <3>1. PointFor(t.log, e) = PointOf(t.log, id)
      BY <1>2, <2>1, <2>2, <2>3
    <3> QED
      BY <1>4, <2>1, <2>3, <3>1 DEF e
  <2>4. CASE id \notin CallIds
    <3>1. PointFor(t.log, e) = Latest(Events(t.log, "tool"))
      BY <1>2, <2>1, <2>2, <2>4
    <3>2. NamesNoCall(s)
      BY <1>2, <2>1, <2>4, Zenon DEF NamesNoCall
    <3>3. Latest(Events(t.log, "tool")) \in Nat /\ Marks(t, Place(t, s), Latest(Events(t.log, "tool")))
      BY <3>2, MarksTheLast
    <3> QED
      BY <3>1, <3>3 DEF e
  <2> QED
    BY <2>3, <2>4
<1> QED
  BY <1>5, <1>6, <1>7 DEF IdFor

\* A call that was answered asks for nothing any more.
AnsweredCall(log, e) ==
    /\ log[e].ev = "tool"
    /\ \E k \in ResultOf(log, log[e].id) : k = Earliest(ResultOf(log, log[e].id)) /\ ~log[k].isError

\* A call is answered when its first result is no error.
LEMMA AnsweredIs ==
  ASSUME NEW t, TurnOK(t), CallsRecorded(t), FactsRecorded(t),
         NEW s, IdFor(t.log, s.raised), Records(t, s),
         t.log[s.raised].ev = "tool" => s.raised \in Events(t.log, "tool")
  PROVE  (/\ s.toolCall
          /\ \E i \in ToolIndex(t, s.toolID) : t.tools[i].facts.has /\ ~t.tools[i].facts.isError)
         <=> AnsweredCall(t.log, s.raised)
<1> DEFINE e == s.raised
           id == t.log[e].id
<1>1. Says(s, t.log[e])
  BY DEF Records
<1>2. CASE t.log[e].ev # "tool"
  <2>1. ~s.toolCall
    BY <1>1, <1>2 DEF Says, IdFor
  <2> QED
    BY <1>2, <2>1 DEF AnsweredCall
<1>3. CASE t.log[e].ev = "tool"
  <2>1. id \in Named /\ s.toolCall /\ s.toolID = id /\ e \in Events(t.log, "tool")
    BY <1>1, <1>3 DEF Says, IdFor
  <2> DEFINE R == ResultOf(t.log, id)
  <2>2. AnsweredCall(t.log, e) <=> \E k \in R : k = Earliest(R) /\ ~t.log[k].isError
    BY <1>3 DEF AnsweredCall
  <2>3. t.log \in Seq(Entries) /\ Len(t.log) \in Nat
    BY TurnParts DEF TurnOK, Placed
  <2>4. CASE id \notin CallIds
    <3>1. R = {}
      <4>1. \A k \in Events(t.log, "result") : t.log[k] \in Entries /\ t.log[k].ev = "result"
        BY <2>3, EventsArePlaces
      <4>2. \A k \in Events(t.log, "result") : t.log[k].id \in CallIds
        BY <4>1 DEF Entries
      <4> QED
        BY <2>4, <4>2 DEF ResultOf
    <3>2. ToolIndex(t, id) = {}
      BY <2>1, <2>4, Zenon DEF ToolIndex, Named
    <3> QED
      BY <2>1, <2>2, <3>1, <3>2
  <2>5. CASE id \in CallIds
    <3>1. id # ""
      BY <2>5, OutputConstants
    <3>2. PICK i \in 1..Len(t.tools) : t.tools[i].called = e
      BY <2>1 DEF CallsRecorded
    <3>3. t.log[t.tools[i].called].id = t.tools[i].id
      BY OneCall
    <3>4. t.tools[i].id = id
      BY <3>2, <3>3
    <3> DEFINE f == t.tools[i].facts
    <3>5. ToolIndex(t, id) = {i} /\ FactsFor(t, id) = f
      <4>1. t.tools[i].id # "" =>
               ToolIndex(t, t.tools[i].id) = {i} /\ FactsFor(t, t.tools[i].id) = t.tools[i].facts
        BY OneCall
      <4> QED
        BY ONLY <3>1, <3>4, <4>1, Zenon
    <3>6. Learned(t, id, f)
      BY <2>5, <3>5 DEF FactsRecorded
    <3>7. R \subseteq Nat
      <4>1. Events(t.log, "result") \subseteq 1..Len(t.log)
        BY <2>3, EventsArePlaces
      <4> QED
        BY <2>3, <4>1 DEF ResultOf
    <3>8. (f.has <=> R # {}) /\ (f.has => f.isError = t.log[Min(R)].isError)
      BY <3>6 DEF Learned
    <3>9. (\E j \in ToolIndex(t, s.toolID) : t.tools[j].facts.has /\ ~t.tools[j].facts.isError)
             <=> f.has /\ ~f.isError
      BY <2>1, <3>5
    <3> HIDE DEF f, R
    <3>10. R # {} => Min(R) \in R /\ Earliest(R) = Min(R)
      BY <3>7, MinIsFirst DEF Earliest
    <3>11. (\E k \in R : k = Earliest(R) /\ ~t.log[k].isError) <=> f.has /\ ~f.isError
      BY <3>8, <3>10
    <3> QED
      BY <2>1, <2>2, <3>9, <3>11
  <2> QED
    BY <2>4, <2>5
<1> QED
  BY <1>2, <1>3

\* A signal is open when there is no work after its point, and no answer to it.
LEMMA OpenIs ==
  ASSUME NEW t, TurnOK(t), CallsRecorded(t), FactsRecorded(t),
         NEW s, s.raised \in Nat, IdFor(t.log, s.raised), Records(t, s),
         t.log[s.raised].ev = "tool" => s.raised \in Events(t.log, "tool")
  PROVE  Open(t, s) <=> Clear(t.log, PointFor(t.log, s.raised)) /\ ~AnsweredCall(t.log, s.raised)
<1>1. /\ PointFor(t.log, s.raised) \in Nat
      /\ Marks(t, Place(t, s), PointFor(t.log, s.raised))
  BY MarksItsPoint
<1>2. (\A i \in DOMAIN t.tools :
         (Place(t, s).old \/ t.tools[i].seq > Place(t, s).after)
            => t.tools[i].question \/ t.tools[i].facts.refused)
      <=> Clear(t.log, PointFor(t.log, s.raised))
  BY <1>1, ClearIs
<1>3. (/\ s.toolCall
       /\ \E i \in ToolIndex(t, s.toolID) : t.tools[i].facts.has /\ ~t.tools[i].facts.isError)
      <=> AnsweredCall(t.log, s.raised)
  BY AnsweredIs
<1> QED
  BY <1>2, <1>3, Zenon DEF Open

\* The events that ask, and those that still do.
Asking(log) ==
    Events(log, "asked") \cup Events(log, "denied") \cup {e \in Events(log, "tool") : log[e].question}
      \cup {e \in Events(log, "requested") : ~Allowed(log, e)}
Questions(log) == Events(log, "asked") \cup {e \in Events(log, "tool") : log[e].question /\ ~AnsweredCall(log, e)}
Approvals(log) == Events(log, "denied") \cup {e \in Events(log, "requested") : ~Allowed(log, e)}

\* The question points of the reference are those of the events that ask.
LEMMA QuestionsAre ==
  ASSUME NEW log
  PROVE  (\E p \in QuestionPoints(log) : Clear(log, p))
            <=> \E e \in Questions(log) : Clear(log, PointFor(log, e))
<1> DEFINE T == {j \in Events(log, "tool") : log[j].question /\
                    ~\E k \in ResultOf(log, log[j].id) :
                        k = Earliest(ResultOf(log, log[j].id)) /\ ~log[k].isError}
           A == Events(log, "asked")
<1>1. QuestionPoints(log) = A \cup {IF log[i].id = "" THEN i ELSE PointOf(log, log[i].id) : i \in T}
  BY DEF QuestionPoints
<1>2. Questions(log) = A \cup T
  BY DEF Questions, AnsweredCall, Events
<1>3. \A e \in A : PointFor(log, e) = e
  BY DEF PointFor, Events
<1>4. \A e \in T : PointFor(log, e) = IF log[e].id = "" THEN e ELSE PointOf(log, log[e].id)
  BY DEF PointFor, Events
<1> HIDE DEF T, A
<1>5. ASSUME NEW p \in QuestionPoints(log), Clear(log, p)
      PROVE  \E e \in Questions(log) : Clear(log, PointFor(log, e))
  <2>1. CASE p \in A
    BY <1>2, <1>3, <1>5, <2>1, Zenon
  <2>2. CASE \E i \in T : p = IF log[i].id = "" THEN i ELSE PointOf(log, log[i].id)
    <3>1. PICK i \in T : p = IF log[i].id = "" THEN i ELSE PointOf(log, log[i].id)
      BY <2>2
    <3>2. PointFor(log, i) = p /\ i \in Questions(log)
      BY <1>2, <1>4, <3>1, Zenon
    <3> QED
      BY <1>5, <3>2, Zenon
  <2> QED
    BY <1>1, <1>5, <2>1, <2>2, Zenon
<1>6. ASSUME NEW e \in Questions(log), Clear(log, PointFor(log, e))
      PROVE  \E p \in QuestionPoints(log) : Clear(log, p)
  <2>1. CASE e \in A
    BY <1>1, <1>3, <1>6, <2>1, Zenon
  <2>2. CASE e \in T
    <3>1. PointFor(log, e) \in QuestionPoints(log)
      BY <1>1, <1>4, <2>2, Zenon
    <3> QED
      BY <1>6, <3>1, Zenon
  <2> QED
    BY <1>2, <1>6, <2>1, <2>2, Zenon
<1> QED
  BY <1>5, <1>6, Zenon

\* The approval points of the reference are those of the events that wait for approval.
LEMMA ApprovalsAre ==
  ASSUME NEW log
  PROVE  (\E p \in ApprovalPoints(log) : Clear(log, p))
            <=> \E e \in Approvals(log) : Clear(log, PointFor(log, e))
<1> DEFINE D == Events(log, "denied")
           A == {i \in Events(log, "requested") :
                    ~\E j \in Events(log, "resolved") : log[j].request = i /\ log[j].allowed}
<1>1. ApprovalPoints(log)
        = {IF log[i].id = "" THEN Latest(Events(log, "tool")) ELSE PointOf(log, log[i].id) : i \in D} \cup A
  BY DEF ApprovalPoints
<1>2. Approvals(log) = D \cup A
  BY DEF Approvals, Allowed
<1>3. \A e \in A : PointFor(log, e) = e
  BY DEF PointFor, Events
<1>4. \A e \in D :
         PointFor(log, e) = IF log[e].id = "" THEN Latest(Events(log, "tool")) ELSE PointOf(log, log[e].id)
  BY DEF PointFor, Events
<1> HIDE DEF D, A
<1>5. ASSUME NEW p \in ApprovalPoints(log), Clear(log, p)
      PROVE  \E e \in Approvals(log) : Clear(log, PointFor(log, e))
  <2>1. CASE p \in A
    BY <1>2, <1>3, <1>5, <2>1, Zenon
  <2>2. CASE \E i \in D : p = IF log[i].id = "" THEN Latest(Events(log, "tool")) ELSE PointOf(log, log[i].id)
    <3>1. PICK i \in D : p = IF log[i].id = "" THEN Latest(Events(log, "tool")) ELSE PointOf(log, log[i].id)
      BY <2>2
    <3>2. PointFor(log, i) = p /\ i \in Approvals(log)
      BY <1>2, <1>4, <3>1, Zenon
    <3> QED
      BY <1>5, <3>2, Zenon
  <2> QED
    BY <1>1, <1>5, <2>1, <2>2, Zenon
<1>6. ASSUME NEW e \in Approvals(log), Clear(log, PointFor(log, e))
      PROVE  \E p \in ApprovalPoints(log) : Clear(log, p)
  <2>1. CASE e \in A
    BY <1>1, <1>3, <1>6, <2>1, Zenon
  <2>2. CASE e \in D
    <3>1. PointFor(log, e) \in ApprovalPoints(log)
      BY <1>1, <1>4, <2>2, Zenon
    <3> QED
      BY <1>6, <3>1, Zenon
  <2> QED
    BY <1>2, <1>6, <2>1, <2>2, Zenon
<1> QED
  BY <1>5, <1>6, Zenon

\* The places of two sequences, one after the other.
LEMMA OneAfterTheOther ==
  ASSUME NEW a \in Nat, NEW b \in Nat
  PROVE  /\ \A k \in 1..a + b : IF k <= a THEN k \in 1..a ELSE k - a \in 1..b
         /\ \A k \in 1..a : k \in 1..a + b /\ k <= a
         /\ \A k \in 1..b : \E x \in 1..a + b : x = a + k /\ ~ (x <= a) /\ x - a = k
<1>1. ASSUME NEW k \in 1..b PROVE \E x \in 1..a + b : x = a + k /\ ~ (x <= a) /\ x - a = k
  <2> DEFINE x == a + k
  <2>1. x \in 1..a + b /\ ~ (x <= a) /\ x - a = k
    OBVIOUS
  <2> QED
    BY <2>1
<1>2. /\ \A k \in 1..a + b : IF k <= a THEN k \in 1..a ELSE k - a \in 1..b
      /\ \A k \in 1..a : k \in 1..a + b /\ k <= a
  OBVIOUS
<1> QED
  BY <1>1, <1>2

\* The signals of a turn, with its requests, are those of the events that ask.
LEMMA AllSignalsAre ==
  ASSUME NEW t, TurnOK(t), SignalsRecorded(t)
  PROVE  /\ DOMAIN AllSignals(t) = 1..Len(AllSignals(t))
         /\ \A i \in 1..Len(AllSignals(t)) :
               AllSignals(t)[i].raised \in Asking(t.log) /\ Records(t, AllSignals(t)[i])
         /\ \A e \in Asking(t.log) : \E i \in 1..Len(AllSignals(t)) : AllSignals(t)[i].raised = e
<1> DEFINE all == AllSignals(t)
           n == Len(t.signals)
           m == Len(t.pending)
<1>1. t.signals \in Seq(Signals) /\ t.pending \in Seq(Signals) /\ n \in Nat /\ m \in Nat
  BY TurnParts DEF TurnOK, Placed
<1>2. /\ all \in Seq(Signals) /\ Len(all) = n + m
      /\ \A i \in 1..n + m : all[i] = IF i <= n THEN t.signals[i] ELSE t.pending[i - n]
  BY <1>1, ConcatProperties DEF AllSignals
<1>3. DOMAIN all = 1..Len(all)
  BY <1>2, LenProperties
<1>4. /\ Holds(t, t.signals, Raising(t.log)) /\ Holds(t, t.pending, Unanswered(t.log))
  BY DEF SignalsRecorded
<1>5. Raising(t.log) \cup Unanswered(t.log) = Asking(t.log)
  <2>1. \A e : Allowed(t.log, e) => Answered(t.log, e)
    BY DEF Allowed, Answered
  <2> QED
    BY <2>1 DEF Raising, Unanswered, Asking
<1> HIDE DEF all, n, m
<1>6. /\ \A i \in 1..Len(all) : \/ i \in 1..n /\ all[i] = t.signals[i]
                                \/ i - n \in 1..m /\ all[i] = t.pending[i - n]
      /\ \A i \in 1..n : i \in 1..Len(all) /\ all[i] = t.signals[i]
      /\ \A i \in 1..m : n + i \in 1..Len(all) /\ all[n + i] = t.pending[i]
  <2>1. /\ \A k \in 1..n + m : IF k <= n THEN k \in 1..n ELSE k - n \in 1..m
        /\ \A k \in 1..n : k \in 1..n + m /\ k <= n
        /\ \A k \in 1..m : \E x \in 1..n + m : x = n + k /\ ~ (x <= n) /\ x - n = k
    BY <1>1, OneAfterTheOther
  <2>2. ASSUME NEW i \in 1..n PROVE i \in 1..Len(all) /\ all[i] = t.signals[i]
    BY ONLY <1>2, <2>1
  <2>3. ASSUME NEW i \in 1..m PROVE n + i \in 1..Len(all) /\ all[n + i] = t.pending[i]
    <3>1. PICK k \in 1..n + m : k = n + i /\ ~ (k <= n) /\ k - n = i
      BY <2>1
    <3>2. all[k] = IF k <= n THEN t.signals[k] ELSE t.pending[k - n]
      BY <1>2, <3>1, Zenon
    <3> QED
      BY ONLY <1>2, <3>1, <3>2, Zenon
  <2>4. ASSUME NEW i \in 1..Len(all)
        PROVE  (i \in 1..n /\ all[i] = t.signals[i]) \/ (i - n \in 1..m /\ all[i] = t.pending[i - n])
    <3>1. i \in 1..n + m
      BY <1>2
    <3>2. all[i] = IF i <= n THEN t.signals[i] ELSE t.pending[i - n]
      BY <1>2, <3>1, Zenon
    <3>3. IF i <= n THEN i \in 1..n ELSE i - n \in 1..m
      BY <2>1, <3>1, Zenon
    <3> QED
      BY ONLY <3>2, <3>3
  <2> QED
    BY <2>2, <2>3, <2>4
<1>7. /\ \A i \in 1..n : t.signals[i].raised \in Asking(t.log) /\ Records(t, t.signals[i])
      /\ \A i \in 1..m : t.pending[i].raised \in Asking(t.log) /\ Records(t, t.pending[i])
  BY <1>4, <1>5, Zenon DEF Holds, n, m
<1>8. \A e \in Asking(t.log) : \/ \E i \in 1..n : t.signals[i].raised = e
                               \/ \E i \in 1..m : t.pending[i].raised = e
  BY <1>4, <1>5, Zenon DEF Holds, n, m
<1>9. \A i \in 1..Len(all) : all[i].raised \in Asking(t.log) /\ Records(t, all[i])
  BY ONLY <1>6, <1>7, Zenon
<1>10. \A e \in Asking(t.log) : \E i \in 1..Len(all) : all[i].raised = e
  <2>1. ASSUME NEW e \in Asking(t.log), NEW i \in 1..n, t.signals[i].raised = e
        PROVE  \E k \in 1..Len(all) : all[k].raised = e
    BY <1>6, <2>1
  <2>2. ASSUME NEW e \in Asking(t.log), NEW i \in 1..m, t.pending[i].raised = e
        PROVE  \E k \in 1..Len(all) : all[k].raised = e
    <3>1. n + i \in 1..Len(all) /\ all[n + i].raised = e
      BY <1>6, <2>2, Zenon
    <3> QED
      BY <3>1, Zenon
  <2> QED
    BY <1>8, <2>1, <2>2
<1> QED
  BY <1>3, <1>9, <1>10 DEF all

\* What an event that asks has its signal say.
LEMMA WhatItAsks ==
  ASSUME NEW t, TurnOK(t), CallsRecorded(t), FactsRecorded(t), NEW s, s.raised \in Asking(t.log), Records(t, s)
  PROVE  /\ s.kind = "question" /\ Open(t, s) <=>
               s.raised \in Questions(t.log) /\ Clear(t.log, PointFor(t.log, s.raised))
         /\ s.kind = "approval" /\ Open(t, s) <=>
               s.raised \in Approvals(t.log) /\ Clear(t.log, PointFor(t.log, s.raised))
<1> DEFINE e == s.raised
<1>1. t.log \in Seq(Entries)
  BY TurnParts DEF TurnOK, Placed
<1>2. \E ev \in {"asked", "requested", "tool", "denied"} : e \in Events(t.log, ev)
  BY DEF Asking
<1>3. IdFor(t.log, e) /\ e \in Nat
  BY <1>1, <1>2, RaisesOne
<1>4. \A ev : e \in Events(t.log, ev) => t.log[e].ev = ev
  BY DEF Events
<1>5. t.log[e].ev = "tool" => e \in Events(t.log, "tool")
  BY <1>2, <1>4
<1>6. Open(t, s) <=> Clear(t.log, PointFor(t.log, e)) /\ ~AnsweredCall(t.log, e)
  BY <1>3, <1>5, OpenIs
<1>7. Says(s, t.log[e])
  BY DEF Records
<1>8. s.kind = "question" <=> e \in Events(t.log, "asked") \/ (e \in Events(t.log, "tool") /\ t.log[e].question)
  BY <1>4, <1>7 DEF Asking, Says
<1>9. s.kind = "approval" <=> e \in Approvals(t.log)
  BY <1>4, <1>7 DEF Asking, Approvals, Says
<1>10. t.log[e].ev # "tool" => ~AnsweredCall(t.log, e)
  BY DEF AnsweredCall
<1>11. e \in Approvals(t.log) => ~AnsweredCall(t.log, e)
  BY <1>4, <1>10 DEF Approvals
<1>12. s.kind = "question" /\ ~AnsweredCall(t.log, e) <=> e \in Questions(t.log)
  BY <1>4, <1>8, <1>10 DEF Questions
<1> QED
  BY <1>6, <1>9, <1>11, <1>12

\* A turn has a question or an approval open when its events say so.
LEMMA OpenSignalsAre ==
  ASSUME NEW t, TurnOK(t), Recorded(t)
  PROVE  /\ OpenSignal(t, "question") # {} <=> \E e \in Questions(t.log) : Clear(t.log, PointFor(t.log, e))
         /\ OpenSignal(t, "approval") # {} <=> \E e \in Approvals(t.log) : Clear(t.log, PointFor(t.log, e))
<1> DEFINE all == AllSignals(t)
<1>1. CallsRecorded(t) /\ FactsRecorded(t) /\ SignalsRecorded(t)
  BY DEF Recorded
<1>2. /\ DOMAIN all = 1..Len(all)
      /\ \A i \in 1..Len(all) : all[i].raised \in Asking(t.log) /\ Records(t, all[i])
      /\ \A e \in Asking(t.log) : \E i \in 1..Len(all) : all[i].raised = e
  BY <1>1, AllSignalsAre
<1>3. \A kind : OpenSignal(t, kind) = {i \in 1..Len(all) : all[i].kind = kind /\ Open(t, all[i])}
  BY <1>2 DEF OpenSignal
<1> HIDE DEF all
<1>4. \A i \in 1..Len(all) :
         /\ all[i].kind = "question" /\ Open(t, all[i]) <=>
               all[i].raised \in Questions(t.log) /\ Clear(t.log, PointFor(t.log, all[i].raised))
         /\ all[i].kind = "approval" /\ Open(t, all[i]) <=>
               all[i].raised \in Approvals(t.log) /\ Clear(t.log, PointFor(t.log, all[i].raised))
  BY <1>1, <1>2, WhatItAsks
<1>5. Questions(t.log) \subseteq Asking(t.log) /\ Approvals(t.log) \subseteq Asking(t.log)
  BY DEF Questions, Approvals, Asking
<1>6. OpenSignal(t, "question") # {} <=> \E e \in Questions(t.log) : Clear(t.log, PointFor(t.log, e))
  <2>1. ASSUME NEW e \in Questions(t.log), Clear(t.log, PointFor(t.log, e))
        PROVE  OpenSignal(t, "question") # {}
    <3>1. PICK i \in 1..Len(all) : all[i].raised = e
      BY <1>2, <1>5
    <3>2. i \in OpenSignal(t, "question")
      BY <1>3, <1>4, <2>1, <3>1
    <3> QED
      BY <3>2
  <2> QED
    BY <1>3, <1>4, <2>1
<1>7. OpenSignal(t, "approval") # {} <=> \E e \in Approvals(t.log) : Clear(t.log, PointFor(t.log, e))
  <2>1. ASSUME NEW e \in Approvals(t.log), Clear(t.log, PointFor(t.log, e))
        PROVE  OpenSignal(t, "approval") # {}
    <3>1. PICK i \in 1..Len(all) : all[i].raised = e
      BY <1>2, <1>5
    <3>2. i \in OpenSignal(t, "approval")
      BY <1>3, <1>4, <2>1, <3>1
    <3> QED
      BY <3>2
  <2> QED
    BY <1>3, <1>4, <2>1
<1> QED
  BY <1>6, <1>7

\* The kind of the signal a turn ends on.
LEMMA EndedOnKind ==
  ASSUME NEW t, TurnOK(t)
  PROVE  /\ OpenSignal(t, "question") # {} =>
               EndedOn(t) # {} /\ (CHOOSE s \in EndedOn(t) : TRUE).kind = "question"
         /\ OpenSignal(t, "question") = {} /\ OpenSignal(t, "approval") # {} =>
               EndedOn(t) # {} /\ (CHOOSE s \in EndedOn(t) : TRUE).kind = "approval"
         /\ OpenSignal(t, "question") = {} /\ OpenSignal(t, "approval") = {} => EndedOn(t) = {}
<1> DEFINE all == AllSignals(t)
<1>1. t.signals \in Seq(Signals) /\ t.pending \in Seq(Signals)
  BY TurnParts DEF TurnOK, Placed
<1>2. all \in Seq(Signals)
  BY <1>1, ConcatProperties DEF AllSignals
<1>3. DOMAIN all = 1..Len(all) /\ Len(all) \in Nat
  BY <1>2, LenProperties
<1>4. ASSUME NEW kind, OpenSignal(t, kind) # {}
      PROVE  all[Max(OpenSignal(t, kind))].kind = kind
  <2>1. OpenSignal(t, kind) \subseteq 1..Len(all)
    BY <1>3, Zenon DEF OpenSignal
  <2>2. Max(OpenSignal(t, kind)) \in OpenSignal(t, kind)
    BY <1>3, <1>4, <2>1, MaxIsLast
  <2> QED
    BY <2>2, Zenon DEF OpenSignal
<1> HIDE DEF all
<1>5. \A x : (CHOOSE s \in {x} : TRUE) = x /\ {x} # {}
  OBVIOUS
<1>6. /\ OpenSignal(t, "question") # {} => EndedOn(t) = {all[Max(OpenSignal(t, "question"))]}
      /\ OpenSignal(t, "question") = {} /\ OpenSignal(t, "approval") # {} =>
            EndedOn(t) = {all[Max(OpenSignal(t, "approval"))]}
      /\ OpenSignal(t, "question") = {} /\ OpenSignal(t, "approval") = {} => EndedOn(t) = {}
  BY Zenon DEF EndedOn, all
<1> QED
  BY <1>4, <1>5, <1>6, Zenon

\* The kind of a turn that keeps its events is what they say.
LEMMA KindIsReference ==
  ASSUME NEW t, TurnOK(t), Recorded(t), NEW term, KindOf(t, term) \in {"final", "question", "approval"}
  PROVE  KindOf(t, term) = ReferenceKind(t.log)
<1>1. KindOf(t, term) = IF EndedOn(t) = {} THEN "final" ELSE (CHOOSE s \in EndedOn(t) : TRUE).kind
  <2>1. KindOf(t, term) # "terminal" /\ KindOf(t, term) # "failure"
    OBVIOUS
  <2> QED
    BY <2>1 DEF KindOf
<1>2. /\ OpenSignal(t, "question") # {} <=> \E p \in QuestionPoints(t.log) : Clear(t.log, p)
      /\ OpenSignal(t, "approval") # {} <=> \E p \in ApprovalPoints(t.log) : Clear(t.log, p)
  BY OpenSignalsAre, QuestionsAre, ApprovalsAre
<1>3. ReferenceKind(t.log) = IF \E p \in QuestionPoints(t.log) : Clear(t.log, p) THEN "question"
                             ELSE IF \E p \in ApprovalPoints(t.log) : Clear(t.log, p) THEN "approval" ELSE "final"
  BY Zenon DEF ReferenceKind, Clear
<1>4. /\ OpenSignal(t, "question") # {} =>
            EndedOn(t) # {} /\ (CHOOSE s \in EndedOn(t) : TRUE).kind = "question"
      /\ OpenSignal(t, "question") = {} /\ OpenSignal(t, "approval") # {} =>
            EndedOn(t) # {} /\ (CHOOSE s \in EndedOn(t) : TRUE).kind = "approval"
      /\ OpenSignal(t, "question") = {} /\ OpenSignal(t, "approval") = {} => EndedOn(t) = {}
  BY EndedOnKind
<1>5. CASE OpenSignal(t, "question") # {}
  BY ONLY <1>1, <1>2, <1>3, <1>4, <1>5, Zenon
<1>6. CASE OpenSignal(t, "question") = {} /\ OpenSignal(t, "approval") # {}
  BY ONLY <1>1, <1>2, <1>3, <1>4, <1>6, Zenon
<1>7. CASE OpenSignal(t, "question") = {} /\ OpenSignal(t, "approval") = {}
  BY ONLY <1>1, <1>2, <1>3, <1>4, <1>7, Zenon
<1> QED
  BY <1>5, <1>6, <1>7

-----------------------------------------------------------------------------
(* The turns a reducer holds *)

\* A turn begins as one.
LEMMA NewTurnOK ==
  ASSUME NEW id \in Nat, NEW stop \in AnyStop
  PROVE  /\ TurnOK(NewTurn(id, stop)) /\ NewTurn(id, stop).id = id
         /\ NewTurn(id, stop).usageStop = stop /\ NewTurn(id, stop).log = <<>>
<1> DEFINE t == NewTurn(id, stop)
<1>1. /\ t.blocks = <<>> /\ t.tools = <<>> /\ t.early = <<>> /\ t.signals = <<>> /\ t.pending = <<>>
      /\ t.log = <<>> /\ t.anonOpen = FALSE /\ t.id = id /\ t.usageStop = stop /\ t.seq = 0
  BY DEF NewTurn
<1>2. t \in TurnSet
  <2>1. \A S : <<>> \in Seq(S)
    BY EmptySeq
  <2> QED
    BY <2>1 DEF NewTurn, TurnSet
<1> HIDE DEF t
<1>3. /\ Len(t.blocks) = 0 /\ Len(t.tools) = 0 /\ Len(t.early) = 0 /\ Len(t.signals) = 0
      /\ Len(t.pending) = 0
  BY <1>1
<1>4. Events(<<>>, "tool") = {} /\ Cardinality({}) = 0
  <2>1. DOMAIN <<>> = {}
    <3>1. <<>> \in Seq({}) /\ Len(<<>>) = 0
      BY EmptySeq
    <3>2. DOMAIN <<>> = 1..0
      BY <3>1, LenProperties
    <3> QED
      BY <3>2
  <2> QED
    BY <2>1, FS_EmptySet, Zenon DEF Events
<1>5. CallsOK(t.tools, t.log)
  BY <1>1, <1>3, <1>4 DEF CallsOK
<1>6. Bounded(t) /\ Len(t.blocks) <= MaxBlocks
  <2>1. /\ 0 <= MaxBlocks /\ 0 <= MaxTools /\ 0 <= MaxEarly /\ 0 <= MaxSignals /\ 0 <= MaxPending
    BY ConstantFacts
  <2>2. ~t.anonOpen
    BY <1>1
  <2> QED
    BY <1>3, <2>1, <2>2, Zenon DEF Bounded
<1>a. \A i \in 1..0 : FALSE
  OBVIOUS
<1>7. /\ BlocksOK(t.blocks, Len(t.log)) /\ SignalsOK(t.blocks, t.signals, Len(t.log))
      /\ SignalsOK(t.blocks, t.pending, Len(t.log)) /\ CalledOK(t.blocks, t.tools, t.log)
  BY <1>3, <1>a, Zenon DEF BlocksOK, SignalsOK, CalledOK
<1>8. LastCalled(t.tools, t.log)
  BY <1>1, <1>4 DEF LastCalled
<1>9. TurnOK(t)
  BY <1>2, <1>5, <1>6, <1>7, <1>8 DEF TurnOK, Placed
<1> QED
  BY <1>1, <1>9 DEF t

\* ... with nothing to keep.
LEMMA NewTurnKept ==
  ASSUME NEW id \in Nat, NEW stop \in AnyStop
  PROVE  /\ TurnKept(NewTurn(id, stop)) /\ NewTurn(id, stop).id = id
         /\ NewTurn(id, stop).usageStop = stop /\ NewTurn(id, stop).log = <<>>
<1>1. Mindful(NewTurn(id, stop))
  BY NewTurnBlank, BlankRecorded DEF Mindful
<1> QED
  BY <1>1, NewTurnOK DEF TurnKept

\* What a reducer is made of.
LEMMA ReducerParts ==
  ASSUME NEW q \in Reducers
  PROVE  /\ q.open \in Seq(TurnSet) /\ q.finished \in Seq(Nat) /\ q.settled \in BOOLEAN
         /\ q.heldStop \in AnyStop /\ q.pendingStop \in AnyStop /\ q.minted \in Nat
         /\ q.lastError \in AnyErr /\ q.lastDone \in Dones
         /\ Len(q.open) \in Nat /\ Len(q.finished) \in Nat /\ DOMAIN q.open = 1..Len(q.open)
<1>1. /\ q.open \in Seq(TurnSet) /\ q.finished \in Seq(Nat) /\ q.settled \in BOOLEAN
      /\ q.heldStop \in AnyStop /\ q.pendingStop \in AnyStop /\ q.minted \in Nat
      /\ q.lastError \in AnyErr /\ q.lastDone \in Dones
  BY DEF Reducers
<1>2. Len(q.open) \in Nat /\ Len(q.finished) \in Nat /\ DOMAIN q.open = 1..Len(q.open)
  BY <1>1, LenProperties
<1> QED
  BY <1>1, <1>2

\* A turn that is alone has no stop reason.
NoStop(turns) == Len(turns) = 1 => turns[1].usageStop = ""

\* No turn, no stop reason.
LEMMA NobodyHasAStop ==
  ASSUME NEW turns, Len(turns) = 0
  PROVE  NoStop(turns)
<1>1. Len(turns) # 1
  OBVIOUS
<1> QED
  BY <1>1, Zenon DEF NoStop

\* An id no turn has.
NewId(q, f, id) ==
    /\ id # NoId
    /\ \A i \in 1..Len(q.open) : q.open[i].id # id
    /\ \A i \in 1..Len(q.finished) : q.finished[i] # id
    /\ f = "idless" => id <= Minted(q.minted)

\* A reducer that has the open turns of q, and perhaps one that began.
Carries(b, q) ==
    /\ \A i \in 1..Len(b.open) :
          b.open[i].log = <<>> \/ \E j \in 1..Len(q.open) : b.open[i] = q.open[j]
    /\ q.settled => NoStop(b.open)

\* begin, with an id that is new.
LEMMA BeginKeeps ==
  ASSUME NEW q, NEW f, NEW rep, NEW o, RedOK(q, f, rep, o),
         NEW id \in Nat, NewId(q, f, id), NEW b, b = Begin(q, id)
  PROVE  RedOK(b, f, rep, o) /\ Carries(b, q)
<1> DEFINE t == NewTurn(id, q.pendingStop)
           p == AtMost(Append(q.open, t), MaxOpenTurns)
<1>1. /\ q \in Reducers /\ q.open \in Seq(TurnSet) /\ q.finished \in Seq(Nat) /\ Len(q.finished) \in Nat
      /\ q.pendingStop \in AnyStop /\ Len(q.open) \in Nat /\ q.minted \in Nat
  BY ReducerParts DEF RedOK
<1>2. TurnKept(t) /\ t \in TurnSet /\ t.id = id /\ t.usageStop = q.pendingStop /\ t.log = <<>>
  BY <1>1, NewTurnKept DEF TurnKept, TurnOK, Placed
<1> HIDE DEF t
<1>3. IsPushed(TurnSet, p, q.open, t, MaxOpenTurns)
  BY <1>1, <1>2, Pushed, ConstantFacts
<1>4. b = [q EXCEPT !.open = p, !.pendingStop = "", !.heldStop = "", !.settled = FALSE]
  BY DEF Begin, t
<1> HIDE DEF p
<1>5. /\ b \in Reducers /\ b.open = p /\ b.finished = q.finished /\ b.settled = FALSE
      /\ b.lastDone = q.lastDone /\ b.minted = q.minted
  <2>1. p \in Seq(TurnSet)
    BY <1>3 DEF IsPushed
  <2>2. "" \in AnyStop
    BY DEF AnyStop
  <2>3. b.open = p /\ b.finished = q.finished /\ b.settled = FALSE
          /\ b.lastDone = q.lastDone /\ b.minted = q.minted
    BY <1>1, <1>4 DEF Reducers
  <2>4. b \in Reducers
    BY <1>1, <1>4, <2>1, <2>2 DEF Reducers
  <2> QED
    BY <2>3, <2>4
<1>6. /\ p # <<>> /\ p[Len(p)] = t /\ Len(p) \in 1..MaxOpenTurns
      /\ \A i \in 1..Len(p) : i # Len(p) =>
            /\ i + Len(q.open) + 1 - Len(p) \in 1..Len(q.open)
            /\ p[i] = q.open[i + Len(q.open) + 1 - Len(p)]
  BY <1>3 DEF IsPushed
<1>7. \A i \in 1..Len(p) : i = Len(p) \/ \E j \in 1..Len(q.open) : p[i] = q.open[j]
  BY <1>6
<1>8. \A i \in 1..Len(p) : TurnKept(p[i])
  BY <1>2, <1>6, <1>7 DEF RedOK
<1>9. ASSUME NEW i \in 1..Len(p), NEW j \in 1..Len(p), p[i].id = p[j].id
      PROVE  i = j
  <2>1. CASE i = Len(p) \/ j = Len(p)
    <3>1. \A k \in 1..Len(q.open) : q.open[k].id # id
      BY DEF NewId
    <3>2. \A k \in 1..Len(p) : k # Len(p) => p[k].id # id
      BY <1>7, <3>1
    <3>3. p[Len(p)].id = id
      BY <1>2, <1>6
    <3> QED
      BY <1>9, <2>1, <3>2, <3>3
  <2>2. CASE i # Len(p) /\ j # Len(p)
    <3> DEFINE k == i + Len(q.open) + 1 - Len(p)
               l == j + Len(q.open) + 1 - Len(p)
    <3>1. k \in 1..Len(q.open) /\ l \in 1..Len(q.open) /\ p[i] = q.open[k] /\ p[j] = q.open[l]
      BY <1>6, <2>2
    <3>2. k = l
      <4> HIDE DEF k, l
      <4> QED
        BY <1>9, <3>1 DEF RedOK, IdsOK
    <3>3. i \in Nat /\ j \in Nat /\ Len(q.open) \in Int /\ Len(p) \in Int
      <4>1. Len(p) \in Nat
        BY <1>6, ConstantFacts
      <4> QED
        BY <1>1, <4>1
    <3> QED
      BY <3>2, <3>3
  <2> QED
    BY <2>1, <2>2
<1>10. IdsOK(b, f, rep)
  <2>1. ASSUME NEW i \in 1..Len(p)
        PROVE  /\ p[i].id # NoId /\ \A j \in 1..Len(q.finished) : p[i].id # q.finished[j]
               /\ f = "idless" => p[i].id <= Minted(q.minted)
    <3>1. CASE i = Len(p)
      <4>1. p[i].id = id
        BY <1>2, <1>6, <3>1
      <4> QED
        BY <4>1 DEF NewId
    <3>2. CASE i # Len(p)
      BY <1>7, <3>2 DEF RedOK, IdsOK
    <3> QED
      BY <3>1, <3>2
  <2> QED
    BY <1>5, <1>9, <2>1 DEF RedOK, IdsOK
<1>11. MemoryOK(b, rep, o)
  BY <1>5 DEF RedOK, MemoryOK
<1>12. RedOK(b, f, rep, o)
  BY <1>5, <1>6, <1>8, <1>10, <1>11, ConstantFacts DEF RedOK
<1>13. q.settled => NoStop(p)
  BY <1>2, <1>6 DEF RedOK, MemoryOK, NoStop
<1>14. \A i \in 1..Len(p) : (\E j \in 1..Len(q.open) : p[i] = q.open[j]) \/ p[i].log = <<>>
  BY <1>2, <1>6, <1>7
<1>15. Carries(b, q)
  <2>1. b.open = p
    BY <1>5
  <2>2. q.settled => NoStop(b.open)
    BY <1>13, <2>1, Zenon
  <2>3. \A i \in 1..Len(b.open) : (\E j \in 1..Len(q.open) : b.open[i] = q.open[j]) \/ b.open[i].log = <<>>
    BY <1>14, <2>1
  <2> QED
    BY <2>2, <2>3 DEF Carries
<1> QED
  BY <1>12, <1>15

\* The turns a reducer remembers as finished are those reported last.
LEMMA RememberedTurns ==
  ASSUME NEW q, NEW rep \in Seq(Nat), NEW o, MemoryOK(q, rep, o)
  PROVE  /\ q.finished \in Seq(Nat) /\ Len(rep) \in Nat /\ Len(q.finished) \in Nat
         /\ Len(q.finished) = IF Len(rep) > FinishedMemory THEN FinishedMemory ELSE Len(rep)
         /\ \A j \in 1..Len(q.finished) :
               /\ j + Len(rep) - Len(q.finished) \in 1..Len(rep)
               /\ q.finished[j] = rep[j + Len(rep) - Len(q.finished)]
<1> DEFINE a == AtMost(rep, FinishedMemory)
<1>1. /\ a \in Seq(Nat) /\ Len(a) = IF Len(rep) > FinishedMemory THEN FinishedMemory ELSE Len(rep)
      /\ \A j \in 1..Len(a) : a[j] = rep[j + Len(rep) - Len(a)]
  BY ConstantFacts, AtMostKeepsTheLast
<1>2. q.finished = a
  BY DEF MemoryOK
<1> HIDE DEF a
<1>3. Len(rep) \in Nat /\ Len(a) \in Nat
  BY <1>1, LenProperties
<1>4. \A j \in 1..Len(a) : j + Len(rep) - Len(a) \in 1..Len(rep)
  BY <1>1, <1>3, ConstantFacts
<1> QED
  BY <1>1, <1>2, <1>3, <1>4

\* A reducer with the next id minted is one, and no turn has the id.
LEMMA MintKeeps ==
  ASSUME NEW q, NEW f, NEW rep \in Seq(Nat), NEW o, RedOK(q, f, rep, o), f = "idless", q.open = <<>>,
         NEW p, p = [q EXCEPT !.minted = @ + 1], NEW k, k = Minted(q.minted + 1)
  PROVE  RedOK(p, f, rep, o) /\ k \in Nat /\ NewId(p, f, k) /\ p.open = <<>> /\ p.settled = q.settled
<1>1. /\ q \in Reducers /\ q.open \in Seq(TurnSet) /\ q.finished \in Seq(Nat) /\ Len(q.finished) \in Nat
      /\ Len(q.open) \in Nat /\ q.minted \in Nat
  BY ReducerParts DEF RedOK
<1>2. /\ p \in Reducers /\ p.open = q.open /\ p.finished = q.finished /\ p.settled = q.settled
      /\ p.lastDone = q.lastDone /\ p.minted = q.minted + 1 /\ p.pendingStop = q.pendingStop
  <2>1. q.minted + 1 \in Nat
    BY <1>1
  <2> QED
    BY <1>1, <2>1 DEF Reducers
<1>4. k \in Nat /\ k # NoId /\ k > Minted(q.minted) /\ k <= Minted(p.minted)
  BY <1>1, <1>2 DEF Minted, NoId
<1>5. Len(p.open) = 0
  BY <1>1, <1>2, NonEmpty
<1>6. \A i \in 1..Len(rep) : rep[i] < k /\ rep[i] <= Minted(p.minted) /\ rep[i] \in Nat
  <2>1. \A i \in 1..Len(rep) : rep[i] \in Nat /\ rep[i] <= Minted(q.minted)
    BY ElementOfSeq DEF RedOK, IdsOK
  <2> QED
    BY <1>1, <1>2, <1>4, <2>1 DEF Minted
<1>7. \A i \in 1..Len(p.finished) : p.finished[i] # k
  <2>1. \A i \in 1..Len(q.finished) :
           /\ i + Len(rep) - Len(q.finished) \in 1..Len(rep)
           /\ q.finished[i] = rep[i + Len(rep) - Len(q.finished)]
    BY RememberedTurns DEF RedOK
  <2>2. ASSUME NEW i \in 1..Len(p.finished) PROVE p.finished[i] # k
    <3>1. i \in 1..Len(q.finished) /\ p.finished[i] = q.finished[i]
      BY <1>2
    <3> DEFINE l == i + Len(rep) - Len(q.finished)
    <3>2. l \in 1..Len(rep) /\ p.finished[i] = rep[l]
      BY <2>1, <3>1
    <3> HIDE DEF l
    <3>3. rep[l] < k /\ rep[l] \in Nat
      BY <1>6, <3>2
    <3> QED
      BY <1>4, <3>2, <3>3
  <2> QED
    BY <2>2
<1>8. RedOK(p, f, rep, o)
  <2>1. IdsOK(p, f, rep)
    <3>1. \A i \in 1..Len(p.open) : FALSE
      BY <1>5
    <3> QED
      BY <1>6, <3>1 DEF IdsOK
  <2>2. MemoryOK(p, rep, o)
    BY <1>2 DEF RedOK, MemoryOK
  <2> QED
    BY <1>2, <2>1, <2>2 DEF RedOK
<1>9. NewId(p, f, k)
  BY <1>4, <1>5, <1>7 DEF NewId
<1> QED
  BY <1>2, <1>4, <1>8, <1>9

\* body: an event's turn is open when there is one for it, and a turn it
\* begins has nothing in it.
LEMMA BodyKeeps ==
  ASSUME NEW q, NEW f, NEW rep \in Seq(Nat), NEW o, RedOK(q, f, rep, o), NEW id \in Nat,
         f = "idless" => id = NoId, id = NoId => f = "idless",
         NEW b, b = Body(q, id)
  PROVE  RedOK(b, f, rep, o) /\ Carries(b, q)
<1>1. /\ q \in Reducers /\ q.open \in Seq(TurnSet) /\ q.finished \in Seq(Nat) /\ Len(q.finished) \in Nat
      /\ Len(q.open) \in Nat /\ q.minted \in Nat /\ DOMAIN q.open = 1..Len(q.open)
  BY ReducerParts DEF RedOK
<1>2. CASE b = q
  <2>1. q.settled => Len(q.open) = 0
    BY <1>1, NonEmpty DEF RedOK, MemoryOK
  <2>2. RedOK(b, f, rep, o) /\ \A i \in 1..Len(b.open) : \E j \in 1..Len(q.open) : b.open[i] = q.open[j]
    BY <1>2
  <2>3. q.settled => NoStop(b.open)
    BY <1>2, <2>1, NobodyHasAStop
  <2> QED
    BY <2>2, <2>3 DEF Carries
<1>3. CASE id = NoId /\ q.open = <<>>
  <2> DEFINE k == Minted(q.minted + 1)
             p == [q EXCEPT !.minted = @ + 1]
  <2>1. b = Begin(p, k)
    BY <1>3 DEF Body, BeginMinted
  <2>2. f = "idless"
    BY <1>3
  <2> HIDE DEF p, k
  <2>3. RedOK(p, f, rep, o) /\ k \in Nat /\ NewId(p, f, k) /\ p.open = <<>> /\ p.settled = q.settled
    BY <1>3, <2>2, MintKeeps DEF p, k
  <2>4. RedOK(b, f, rep, o) /\ Carries(b, p)
    BY <2>1, <2>3, BeginKeeps
  <2> QED
    BY <1>3, <2>3, <2>4 DEF Carries
<1>4. CASE id # NoId /\ Find(q, id) = {} /\ ~Contains(q.finished, id)
  <2>1. b = Begin(q, id)
    BY <1>4 DEF Body
  <2>2. NewId(q, f, id)
    BY <1>1, <1>4 DEF Find, Contains, NewId
  <2> QED
    BY <2>1, <2>2, BeginKeeps
<1>5. b = q \/ (id = NoId /\ q.open = <<>>) \/ (id # NoId /\ Find(q, id) = {} /\ ~Contains(q.finished, id))
  BY DEF Body
<1> QED
  BY <1>2, <1>3, <1>4, <1>5

\* Turns that stand for the same turns.
Retold(g, turns) ==
    /\ g = [i \in 1..Len(turns) |-> g[i]]
    /\ \A i \in 1..Len(turns) : TurnKept(g[i]) /\ g[i].id = turns[i].id

\* A reducer keeps its shape when its turns change but for what they are.
LEMMA TurnsReplaced ==
  ASSUME NEW b, NEW f, NEW rep, NEW o, RedOK(b, f, rep, o), NEW g,
         Retold(g, b.open), NEW p, p = [b EXCEPT !.open = g]
  PROVE  RedOK(p, f, rep, o) /\ p.open = g /\ Len(g) = Len(b.open)
<1>1. /\ b \in Reducers /\ b.open \in Seq(TurnSet) /\ Len(b.open) \in Nat
  BY ReducerParts DEF RedOK
<1>2. g \in Seq(TurnSet) /\ Len(g) = Len(b.open)
  <2>1. \A i \in 1..Len(b.open) : g[i] \in TurnSet
    BY DEF Retold, TurnKept, TurnOK, Placed
  <2>2. g \in [1..Len(b.open) -> TurnSet]
    BY <2>1 DEF Retold
  <2> QED
    BY <1>1, <2>2, FunctionIsSeq
<1>3. /\ p \in Reducers /\ p.open = g /\ p.finished = b.finished /\ p.settled = b.settled
      /\ p.lastDone = b.lastDone /\ p.minted = b.minted /\ p.pendingStop = b.pendingStop
  BY <1>1, <1>2 DEF Reducers
<1>4. IdsOK(p, f, rep)
  <2>1. \A i \in 1..Len(g) : g[i].id = b.open[i].id
    BY <1>2 DEF Retold
  <2>2. IdsOK(b, f, rep)
    BY DEF RedOK
  <2>3. /\ \A i, j \in 1..Len(g) : g[i].id = g[j].id => i = j
        /\ \A i \in 1..Len(g), j \in 1..Len(b.finished) : g[i].id # b.finished[j]
        /\ \A i \in 1..Len(g) : g[i].id # NoId
    BY <1>2, <2>1, <2>2 DEF IdsOK
  <2>4. f = "idless" => /\ \A i \in 1..Len(g) : g[i].id <= Minted(b.minted)
                        /\ \A i \in 1..Len(rep) : rep[i] <= Minted(b.minted)
    BY <1>2, <2>1, <2>2 DEF IdsOK
  <2>5. IdsOK([b EXCEPT !.open = g], f, rep)
    <3> DEFINE m == [b EXCEPT !.open = g]
    <3>1. m.open = g /\ m.finished = b.finished /\ m.minted = b.minted
      BY <1>3
    <3> HIDE DEF m
    <3>2. /\ \A i, j \in 1..Len(m.open) : m.open[i].id = m.open[j].id => i = j
          /\ \A i \in 1..Len(m.open), j \in 1..Len(m.finished) : m.open[i].id # m.finished[j]
          /\ \A i \in 1..Len(m.open) : m.open[i].id # NoId
      BY <2>3, <3>1
    <3>3. f = "idless" => /\ \A i \in 1..Len(m.open) : m.open[i].id <= Minted(m.minted)
                          /\ \A i \in 1..Len(rep) : rep[i] <= Minted(m.minted)
      BY <2>4, <3>1, Zenon
    <3>4. IdsOK(m, f, rep)
      BY <3>2, <3>3, Zenon DEF IdsOK
    <3> QED
      BY <3>4 DEF m
  <2> QED
    BY <2>5
<1>5. MemoryOK(p, rep, o)
  <2>1. p.settled => p.open = <<>>
    <3>1. p.settled => b.open = <<>>
      BY <1>3 DEF RedOK, MemoryOK
    <3>2. b.open = <<>> => Len(g) = 0
      BY <1>1, <1>2, NonEmpty
    <3>3. Len(g) = 0 => g = <<>>
      BY <1>2, NonEmpty
    <3> QED
      BY <1>3, <3>1, <3>2, <3>3
  <2> QED
    BY <1>3, <2>1 DEF RedOK, MemoryOK
<1>6. RedOK(p, f, rep, o)
  BY <1>2, <1>3, <1>4, <1>5 DEF RedOK, Retold
<1> QED
  BY <1>2, <1>3, <1>6

\* The ids of a feed's events.
IdsOf(f) == IF f = "envelope" THEN TurnIds ELSE {NoId}

\* Ids of envelopes are not the missing id.
LEMMA IdOfAnEvent ==
  ASSUME NEW f \in {"envelope", "idless"}, NEW id, id \in IdsOf(f)
  PROVE  id \in Nat /\ (f = "idless" => id = NoId) /\ (id = NoId => f = "idless")
<1>1. \A k \in TurnIds : k \in Nat /\ k # NoId
  <2>1. TurnIds \subseteq 1..99
    BY OutputConstants
  <2>2. \A k \in 1..99 : k \in Nat /\ k # 0
    OBVIOUS
  <2> QED
    BY <2>1, <2>2, Zenon DEF NoId
<1>2. NoId \in Nat
  BY DEF NoId
<1>3. "envelope" # "idless"
  OBVIOUS
<1>4. CASE f = "envelope"
  BY <1>1, <1>3, <1>4, Zenon DEF IdsOf
<1>5. CASE f = "idless"
  BY <1>2, <1>3, <1>5, Zenon DEF IdsOf
<1> QED
  BY <1>4, <1>5

\* An event of a turn's body keeps the Reducer what it is when it keeps the
\* turn what it is, and it gives no turn a stop reason.
LEMMA BodyStep ==
  ASSUME NEW q, NEW f \in {"envelope", "idless"}, NEW rep \in Seq(Nat), NEW o, RedOK(q, f, rep, o),
         NEW id, id \in IdsOf(f),
         NEW b, b = Body(q, id), NEW g, Retold(g, b.open),
         \A i \in 1..Len(b.open) : g[i].usageStop = b.open[i].usageStop,
         NEW p, p = [b EXCEPT !.open = g]
  PROVE  RedOK(p, f, rep, o) /\ (q.settled => NoStop(p.open))
<1>1. id \in Nat /\ (f = "idless" => id = NoId) /\ (id = NoId => f = "idless")
  BY IdOfAnEvent
<1>2. RedOK(b, f, rep, o) /\ Carries(b, q)
  BY <1>1, BodyKeeps
<1>3. RedOK(p, f, rep, o) /\ p.open = g /\ Len(g) = Len(b.open)
  BY <1>2, TurnsReplaced
<1>4. q.settled => NoStop(b.open)
  BY <1>2 DEF Carries
<1>5. NoStop(b.open) => NoStop(g)
  <2>1. CASE Len(b.open) = 1
    <3>1. g[1].usageStop = b.open[1].usageStop
      BY <2>1
    <3> QED
      BY <1>3, <3>1, Zenon DEF NoStop
  <2>2. CASE Len(b.open) # 1
    BY <1>3, <2>2, Zenon DEF NoStop
  <2> QED
    BY <2>1, <2>2
<1> QED
  BY <1>3, <1>4, <1>5

\* The turns an event of a body finds are turns.
LEMMA BodyTurns ==
  ASSUME NEW q, NEW f \in {"envelope", "idless"}, NEW rep \in Seq(Nat), NEW o, RedOK(q, f, rep, o),
         NEW id, id \in IdsOf(f),
         NEW b, b = Body(q, id)
  PROVE  /\ DOMAIN b.open = 1..Len(b.open) /\ \A i \in 1..Len(b.open) : TurnKept(b.open[i])
         /\ Carries(b, q)
<1>1. id \in Nat /\ (f = "idless" => id = NoId) /\ (id = NoId => f = "idless")
  BY IdOfAnEvent
<1>2. RedOK(b, f, rep, o) /\ Carries(b, q)
  BY <1>1, BodyKeeps
<1>3. DOMAIN b.open = 1..Len(b.open)
  BY <1>2, ReducerParts DEF RedOK
<1> QED
  BY <1>2, <1>3 DEF RedOK

-----------------------------------------------------------------------------
(* What every step keeps *)

\* What a step does to stop reasons and to the ends of turns, besides keeping
\* the Reducer what it is.
Kept ==
    /\ IInv' /\ (r.settled => NoStop(r'.open))
    /\ \A term \in Ends : Swallowed /\ last' = <<term>> /\ ~term.failed /\ ~out.term.failed =>
          out.term.text = term.text /\ Cancelled \notin {out.stop, term.stop}

\* A step that reports nothing and is not a turn's end.
LEMMA QuietKeeps ==
  ASSUME IInv, Quiet, RedOK(r', feed, reported, out), r.settled => NoStop(r'.open)
  PROVE  Kept
<1>1. feed' = feed /\ out' = out /\ reported' = reported /\ last' = <<>>
  BY DEF Quiet
<1>2. \A term : last' # <<term>>
  BY <1>1
<1>3. IInv'
  BY <1>1 DEF IInv, OutMade, OncePerTurn
<1> QED
  BY <1>2, <1>3 DEF Kept

\* What an event does to the turn it is for.
Continues(u, t) == TurnKept(u) /\ u.id = t.id /\ u.usageStop = t.usageStop

\* An event of a turn's body, which makes of the turns it finds those of u.
LEMMA InBodyKeeps ==
  ASSUME IInv, Quiet, NEW id \in Ids, NEW b, b = Body(r, id), NEW u,
         \A i \in 1..Len(b.open) : Continues(u[i], b.open[i]),
         r' = [b EXCEPT !.open = [i \in DOMAIN b.open |->
                                     IF i \in BodyIndex(b, id) THEN u[i] ELSE b.open[i]]]
  PROVE  Kept
<1> DEFINE g == [i \in DOMAIN b.open |-> IF i \in BodyIndex(b, id) THEN u[i] ELSE b.open[i]]
<1>1. /\ RedOK(r, feed, reported, out) /\ feed \in {"envelope", "idless"} /\ reported \in Seq(Nat)
      /\ id \in IdsOf(feed)
  BY DEF IInv, Ids, IdsOf
<1>2. DOMAIN b.open = 1..Len(b.open) /\ \A i \in 1..Len(b.open) : TurnKept(b.open[i])
  BY <1>1, BodyTurns
<1>3. \A i \in 1..Len(b.open) : Continues(g[i], b.open[i])
  BY <1>2 DEF Continues
<1>4. g = [i \in 1..Len(b.open) |-> g[i]]
  BY <1>2
<1>5. r' = [b EXCEPT !.open = g]
  OBVIOUS
<1> HIDE DEF g
<1>6. Retold(g, b.open) /\ \A i \in 1..Len(b.open) : g[i].usageStop = b.open[i].usageStop
  BY <1>3, <1>4 DEF Retold, Continues
<1>7. RedOK(r', feed, reported, out) /\ (r.settled => NoStop(r'.open))
  <2> DEFINE p == [b EXCEPT !.open = g]
  <2>1. RedOK(p, feed, reported, out) /\ (r.settled => NoStop(p.open))
    BY <1>1, <1>6, BodyStep
  <2>2. r' = p
    BY <1>5
  <2> HIDE DEF p
  <2> QED
    BY <2>1, <2>2
<1> QED
  BY <1>7, QuietKeeps

\* The turns an event of a body finds.
LEMMA BodyOfEvent ==
  ASSUME IInv, NEW id \in Ids, NEW b, b = Body(r, id)
  PROVE  /\ DOMAIN b.open = 1..Len(b.open) /\ \A i \in 1..Len(b.open) : TurnKept(b.open[i])
         /\ \A i \in 1..Len(b.open) :
               b.open[i].log = <<>> \/ \E j \in 1..Len(r.open) : b.open[i] = r.open[j]
<1>1. /\ RedOK(r, feed, reported, out) /\ feed \in {"envelope", "idless"} /\ reported \in Seq(Nat)
      /\ id \in IdsOf(feed)
  BY DEF IInv, Ids, IdsOf
<1>2. /\ DOMAIN b.open = 1..Len(b.open) /\ \A i \in 1..Len(b.open) : TurnKept(b.open[i])
      /\ Carries(b, r)
  BY <1>1, BodyTurns
<1> QED
  BY <1>2 DEF Carries

\* Text.
LEMMA DeltaKeeps ==
  ASSUME IInv, Delta
  PROVE  Kept
<1> DEFINE e == [ev |-> "delta"]
<1>1. PICK id \in Ids, d \in Deltas : Quiet /\ InBody(id, e, LAMBDA t : AddDelta(t, d))
  BY DEF Delta
<1> DEFINE b == Body(r, id)
           u == [i \in DOMAIN b.open |-> AddDelta(Logged(b.open[i], e), d)]
<1>2. r' = [b EXCEPT !.open = [i \in DOMAIN b.open |->
                                  IF i \in BodyIndex(b, id) THEN u[i] ELSE b.open[i]]]
  BY <1>1 DEF InBody
<1>3. DOMAIN b.open = 1..Len(b.open) /\ \A i \in 1..Len(b.open) : TurnKept(b.open[i])
  BY BodyOfEvent
<1>4. e \in Entries /\ e.ev # "tool" /\ e.ev = "delta"
  BY DEF Entries
<1>5. ASSUME NEW t, TurnKept(t) PROVE Continues(AddDelta(Logged(t, e), d), t)
  <2> HIDE DEF e
  <2>0. TurnOK(t) /\ Mindful(t)
    BY <1>5 DEF TurnKept
  <2>1. TurnOK(Logged(t, e)) /\ Ahead(Logged(t, e)) /\ Logged(t, e).id = t.id
          /\ Logged(t, e).usageStop = t.usageStop
    BY <1>4, <2>0, LoggedKeeps
  <2>2. TurnOK(AddDelta(Logged(t, e), d)) /\ SameTurn(AddDelta(Logged(t, e), d), Logged(t, e))
    BY <2>1, AddDeltaKeeps
  <2>3. Mindful(AddDelta(Logged(t, e), d))
    BY <1>1, <1>4, <2>0, DeltaMindful
  <2> QED
    BY <2>1, <2>2, <2>3 DEF Continues, SameTurn, TurnKept
<1>6. \A i \in 1..Len(b.open) : Continues(u[i], b.open[i])
  BY <1>3, <1>5
<1> HIDE DEF u
<1> QED
  BY <1>1, <1>2, <1>6, InBodyKeeps

\* The requests of open turns are places of their logs.
LEMMA RequestedArePlaces ==
  ASSUME IInv
  PROVE  Requested \subseteq Nat
<1>1. \A t \in Range(r.open) : t \in TurnSet
  <2>1. \A i \in DOMAIN r.open : r.open[i] \in TurnSet
    BY ReducerParts, ElementOfSeq DEF IInv, RedOK
  <2> QED
    BY <2>1 DEF Range
<1>2. ASSUME NEW t \in TurnSet, NEW i \in DOMAIN t.pending PROVE t.pending[i].raised \in Nat
  <2>1. t.pending \in Seq(Signals) /\ DOMAIN t.pending = 1..Len(t.pending)
    BY TurnParts, LenProperties
  <2>2. t.pending[i] \in Signals
    BY <2>1, ElementOfSeq
  <2> QED
    BY <2>2 DEF Signals
<1> QED
  BY <1>1, <1>2 DEF Requested

\* turn.started, thoughts and spawns.
LEMMA MarkKeeps ==
  ASSUME IInv, Mark
  PROVE  Kept
<1> DEFINE e == [ev |-> "mark"]
<1>1. PICK id \in Ids, spawn \in BOOLEAN :
         Quiet /\ InBody(id, e, LAMBDA t : IF spawn THEN Boundary(t) ELSE t)
  BY DEF Mark
<1> DEFINE b == Body(r, id)
           u == [i \in DOMAIN b.open |-> IF spawn THEN Boundary(Logged(b.open[i], e)) ELSE Logged(b.open[i], e)]
<1>2. r' = [b EXCEPT !.open = [i \in DOMAIN b.open |->
                                  IF i \in BodyIndex(b, id) THEN u[i] ELSE b.open[i]]]
  BY <1>1 DEF InBody
<1>3. DOMAIN b.open = 1..Len(b.open) /\ \A i \in 1..Len(b.open) : TurnKept(b.open[i])
  BY BodyOfEvent
<1>4. e \in Entries /\ e.ev # "tool" /\ e.ev = "mark"
  BY <1>1 DEF Entries
<1>5. ASSUME NEW t, TurnKept(t) PROVE Continues(IF spawn THEN Boundary(Logged(t, e)) ELSE Logged(t, e), t)
  <2> HIDE DEF e
  <2>0. TurnOK(t) /\ Mindful(t)
    BY <1>5 DEF TurnKept
  <2>1. TurnOK(Logged(t, e)) /\ Ahead(Logged(t, e)) /\ Logged(t, e).id = t.id
          /\ Logged(t, e).usageStop = t.usageStop
    BY <1>4, <2>0, LoggedKeeps
  <2>2. TurnOK(Boundary(Logged(t, e))) /\ Boundary(Logged(t, e)).id = t.id
          /\ Boundary(Logged(t, e)).usageStop = t.usageStop
    BY <2>1, BoundaryKeeps DEF SameTurn
  <2>3. Mindful(Logged(t, e)) /\ Mindful(Boundary(Logged(t, e)))
    BY <1>4, <2>0, MarkMindful
  <2> QED
    BY <2>1, <2>2, <2>3 DEF Continues, TurnKept
<1>6. \A i \in 1..Len(b.open) : Continues(u[i], b.open[i])
  BY <1>3, <1>5
<1> HIDE DEF u
<1> QED
  BY <1>1, <1>2, <1>6, InBodyKeeps

\* A tool result.
LEMMA ToolResultEventKeeps ==
  ASSUME IInv, ToolResultEvent
  PROVE  Kept
<1>1. PICK id \in Ids, call \in CallIds, isError \in BOOLEAN :
         Quiet /\ InBody(id, [ev |-> "result", id |-> call, isError |-> isError],
                         LAMBDA t : ToolResult(Boundary(t), call, isError))
  BY DEF ToolResultEvent
<1> DEFINE e == [ev |-> "result", id |-> call, isError |-> isError]
<1> DEFINE b == Body(r, id)
           u == [i \in DOMAIN b.open |-> ToolResult(Boundary(Logged(b.open[i], e)), call, isError)]
<1>2. r' = [b EXCEPT !.open = [i \in DOMAIN b.open |->
                                  IF i \in BodyIndex(b, id) THEN u[i] ELSE b.open[i]]]
  BY <1>1 DEF InBody
<1>3. DOMAIN b.open = 1..Len(b.open) /\ \A i \in 1..Len(b.open) : TurnKept(b.open[i])
  BY BodyOfEvent
<1>4. /\ e \in Entries /\ e.ev # "tool"
      /\ e.ev = "result" /\ e.id = call /\ e.isError = isError
  BY <1>1 DEF Entries
<1>5. ASSUME NEW t, TurnKept(t) PROVE Continues(ToolResult(Boundary(Logged(t, e)), call, isError), t)
  <2> HIDE DEF e
  <2>0. TurnOK(t) /\ Mindful(t)
    BY <1>5 DEF TurnKept
  <2>1. TurnOK(Logged(t, e)) /\ Ahead(Logged(t, e)) /\ Logged(t, e).id = t.id
          /\ Logged(t, e).usageStop = t.usageStop
    BY <1>4, <2>0, LoggedKeeps
  <2>2. TurnOK(Boundary(Logged(t, e))) /\ Boundary(Logged(t, e)).id = t.id
          /\ Boundary(Logged(t, e)).usageStop = t.usageStop
    BY <2>1, BoundaryKeeps DEF SameTurn
  <2>3. /\ TurnOK(ToolResult(Boundary(Logged(t, e)), call, isError))
        /\ SameTurn(ToolResult(Boundary(Logged(t, e)), call, isError), Boundary(Logged(t, e)))
    BY <1>1, <2>2, ToolResultKeeps
  <2>4. Mindful(ToolResult(Boundary(Logged(t, e)), call, isError))
    BY <1>1, <1>4, <2>0, ResultMindful
  <2> QED
    BY <2>2, <2>3, <2>4 DEF Continues, SameTurn, TurnKept
<1>6. \A i \in 1..Len(b.open) : Continues(u[i], b.open[i])
  BY <1>3, <1>5
<1> HIDE DEF u
<1> QED
  BY <1>1, <1>2, <1>6, InBodyKeeps

\* A refusal.
LEMMA PermissionDeniedKeeps ==
  ASSUME IInv, PermissionDenied
  PROVE  Kept
<1>1. PICK id \in Ids, call \in Named :
         Quiet /\ InBody(id, [ev |-> "denied", id |-> call], LAMBDA t : RaiseApproval(Boundary(t), call))
  BY DEF PermissionDenied, Named
<1> DEFINE e == [ev |-> "denied", id |-> call]
<1> DEFINE b == Body(r, id)
           u == [i \in DOMAIN b.open |-> RaiseApproval(Boundary(Logged(b.open[i], e)), call)]
<1>2. r' = [b EXCEPT !.open = [i \in DOMAIN b.open |->
                                  IF i \in BodyIndex(b, id) THEN u[i] ELSE b.open[i]]]
  BY <1>1 DEF InBody
<1>3. DOMAIN b.open = 1..Len(b.open) /\ \A i \in 1..Len(b.open) : TurnKept(b.open[i])
  BY BodyOfEvent
<1>4. e \in Entries /\ e.ev # "tool" /\ e.ev = "denied" /\ e.id = call
  BY <1>1 DEF Entries
<1>5. ASSUME NEW t, TurnKept(t) PROVE Continues(RaiseApproval(Boundary(Logged(t, e)), call), t)
  <2> HIDE DEF e
  <2>0. TurnOK(t) /\ Mindful(t)
    BY <1>5 DEF TurnKept
  <2>1. TurnOK(Logged(t, e)) /\ Ahead(Logged(t, e)) /\ Logged(t, e).id = t.id
          /\ Logged(t, e).usageStop = t.usageStop
    BY <1>4, <2>0, LoggedKeeps
  <2>2. TurnOK(Boundary(Logged(t, e))) /\ Boundary(Logged(t, e)).id = t.id
          /\ Boundary(Logged(t, e)).usageStop = t.usageStop
    BY <2>1, BoundaryKeeps DEF SameTurn
  <2>3. /\ TurnOK(RaiseApproval(Boundary(Logged(t, e)), call))
        /\ SameTurn(RaiseApproval(Boundary(Logged(t, e)), call), Boundary(Logged(t, e)))
    BY <1>1, <2>2, RaiseApprovalKeeps
  <2>4. Mindful(RaiseApproval(Boundary(Logged(t, e)), call))
    BY <1>1, <1>4, <2>0, DeniedMindful
  <2> QED
    BY <2>2, <2>3, <2>4 DEF Continues, SameTurn, TurnKept
<1>6. \A i \in 1..Len(b.open) : Continues(u[i], b.open[i])
  BY <1>3, <1>5
<1> HIDE DEF u
<1> QED
  BY <1>1, <1>2, <1>6, InBodyKeeps

\* A request for approval, or a question by request.
LEMMA PermissionRequestedKeeps ==
  ASSUME IInv, PermissionRequested
  PROVE  Kept
<1>1. PICK id \in Ids, question \in BOOLEAN :
         Quiet /\ InBody(id, [ev |-> IF question THEN "asked" ELSE "requested"],
                         LAMBDA t : IF question
                         THEN AddSignal(Boundary(t), Signal(t, "question", TRUE, FALSE, "", FALSE))
                         ELSE Request(Boundary(t)))
  BY DEF PermissionRequested
<1> DEFINE e == [ev |-> IF question THEN "asked" ELSE "requested"]
<1> DEFINE b == Body(r, id)
           u == [i \in DOMAIN b.open |-> 
                    IF question
                    THEN AddSignal(Boundary(Logged(b.open[i], e)),
                                   Signal(Logged(b.open[i], e), "question", TRUE, FALSE, "", FALSE))
                    ELSE Request(Boundary(Logged(b.open[i], e)))]
<1>2. r' = [b EXCEPT !.open = [i \in DOMAIN b.open |->
                                  IF i \in BodyIndex(b, id) THEN u[i] ELSE b.open[i]]]
  BY <1>1 DEF InBody
<1>3. DOMAIN b.open = 1..Len(b.open) /\ \A i \in 1..Len(b.open) : TurnKept(b.open[i])
  BY BodyOfEvent
<1>4. e \in Entries /\ e.ev # "tool" /\ e.ev = IF question THEN "asked" ELSE "requested"
  BY <1>1 DEF Entries
<1>5. ASSUME NEW t, TurnKept(t) PROVE Continues(IF question
             THEN AddSignal(Boundary(Logged(t, e)),
                            Signal(Logged(t, e), "question", TRUE, FALSE, "", FALSE))
             ELSE Request(Boundary(Logged(t, e))), t)
  <2> HIDE DEF e
  <2>0. TurnOK(t) /\ Mindful(t)
    BY <1>5 DEF TurnKept
  <2>1. TurnOK(Logged(t, e)) /\ Ahead(Logged(t, e)) /\ Logged(t, e).id = t.id
          /\ Logged(t, e).usageStop = t.usageStop
    BY <1>4, <2>0, LoggedKeeps
  <2>2. TurnOK(Boundary(Logged(t, e))) /\ Boundary(Logged(t, e)).id = t.id
          /\ Boundary(Logged(t, e)).usageStop = t.usageStop
    BY <2>1, BoundaryKeeps DEF SameTurn
  <2> DEFINE v == Logged(t, e)
             w == Boundary(v)
             sig == Signal(v, "question", TRUE, FALSE, "", FALSE)
  <2>3. Standing(v, sig)
    <3>1. "" \in Named /\ "question" \in Kinds
      BY DEF Named, Kinds
    <3> HIDE DEF v
    <3> QED
      BY <2>1, <3>1, RaisedNow DEF v
  <2>4. w.log = v.log /\ w.blocks = v.blocks
    <3>1. v \in TurnSet
      BY <2>1 DEF TurnKept, TurnOK, Placed
    <3> HIDE DEF v
    <3> QED
      BY <3>1 DEF Boundary, TurnSet
  <2> HIDE DEF v, w, sig
  <2>5. Standing(w, sig)
    BY <2>3, <2>4 DEF Standing
  <2>6. TurnOK(w) /\ w.id = t.id /\ w.usageStop = t.usageStop
    BY <2>2 DEF w, v
  <2>7. ASSUME question PROVE Continues(AddSignal(w, sig), t)
    <3>1. TurnOK(AddSignal(w, sig)) /\ SameTurn(AddSignal(w, sig), w)
      BY <2>5, <2>6, AddSignalKeeps
    <3>2. Mindful(AddSignal(w, sig))
      BY <1>4, <2>0, <2>7, AskedMindful DEF w, v, sig
    <3> QED
      BY <2>6, <3>1, <3>2 DEF Continues, SameTurn, TurnKept
  <2>8. ASSUME ~question PROVE Continues(Request(w), t)
    <3>1. TurnOK(Request(w)) /\ SameTurn(Request(w), w)
      BY <2>6, RequestKeeps
    <3>2. Mindful(Request(w))
      BY <1>4, <2>0, <2>8, RequestMindful DEF w, v
    <3> QED
      BY <2>6, <3>1, <3>2 DEF Continues, SameTurn, TurnKept
  <2> QED
    BY <2>7, <2>8 DEF w, v, sig
<1>6. \A i \in 1..Len(b.open) : Continues(u[i], b.open[i])
  BY <1>3, <1>5
<1> HIDE DEF u
<1> QED
  BY <1>1, <1>2, <1>6, InBodyKeeps

\* The answer to a request.
LEMMA PermissionResolvedKeeps ==
  ASSUME IInv, PermissionResolved
  PROVE  Kept
<1>1. PICK id \in Ids, request \in Requested, allowed \in BOOLEAN :
         Quiet /\ InBody(id, [ev |-> "resolved", request |-> request, allowed |-> allowed],
                         LAMBDA t : Resolve(Boundary(t), request, allowed))
  BY DEF PermissionResolved
<1> DEFINE e == [ev |-> "resolved", request |-> request, allowed |-> allowed]
<1> DEFINE b == Body(r, id)
           u == [i \in DOMAIN b.open |-> Resolve(Boundary(Logged(b.open[i], e)), request, allowed)]
<1>2. r' = [b EXCEPT !.open = [i \in DOMAIN b.open |->
                                  IF i \in BodyIndex(b, id) THEN u[i] ELSE b.open[i]]]
  BY <1>1 DEF InBody
<1>3. DOMAIN b.open = 1..Len(b.open) /\ \A i \in 1..Len(b.open) : TurnKept(b.open[i])
  BY BodyOfEvent
<1>4. /\ e \in Entries /\ e.ev # "tool" /\ request \in Nat
      /\ e.ev = "resolved" /\ e.request = request /\ e.allowed = allowed
  <2>1. request \in Nat
    BY <1>1, RequestedArePlaces
  <2> QED
    BY <1>1, <2>1 DEF Entries
<1>5. ASSUME NEW t, TurnKept(t) PROVE Continues(Resolve(Boundary(Logged(t, e)), request, allowed), t)
  <2> HIDE DEF e
  <2>0. TurnOK(t) /\ Mindful(t)
    BY <1>5 DEF TurnKept
  <2>1. TurnOK(Logged(t, e)) /\ Ahead(Logged(t, e)) /\ Logged(t, e).id = t.id
          /\ Logged(t, e).usageStop = t.usageStop
    BY <1>4, <2>0, LoggedKeeps
  <2>2. TurnOK(Boundary(Logged(t, e))) /\ Boundary(Logged(t, e)).id = t.id
          /\ Boundary(Logged(t, e)).usageStop = t.usageStop
    BY <2>1, BoundaryKeeps DEF SameTurn
  <2>3. /\ TurnOK(Resolve(Boundary(Logged(t, e)), request, allowed))
        /\ SameTurn(Resolve(Boundary(Logged(t, e)), request, allowed), Boundary(Logged(t, e)))
    BY <1>1, <2>2, ResolveKeeps
  <2>4. Mindful(Resolve(Boundary(Logged(t, e)), request, allowed))
    BY <1>1, <1>4, <2>0, ResolvedMindful
  <2> QED
    BY <2>2, <2>3, <2>4 DEF Continues, SameTurn, TurnKept
<1>6. \A i \in 1..Len(b.open) : Continues(u[i], b.open[i])
  BY <1>3, <1>5
<1> HIDE DEF u
<1> QED
  BY <1>1, <1>2, <1>6, InBodyKeeps

\* A call, whose id no open turn has called.
LEMMA ToolUseEventKeeps ==
  ASSUME IInv, ToolUseEvent
  PROVE  Kept
<1>1. PICK id \in Ids, call \in Named, question \in BOOLEAN, said \in BOOLEAN :
         /\ Quiet /\ Fresh(call)
         /\ InBody(id, [ev |-> "tool", id |-> call, question |-> question],
                   LAMBDA t : ToolUse(t, call, question, said))
  BY DEF ToolUseEvent, Named
<1> DEFINE b == Body(r, id)
           u == [i \in DOMAIN b.open |-> ToolUse(Logged(b.open[i], Calling(call, question)), call, question, said)]
<1>2. r' = [b EXCEPT !.open = [i \in DOMAIN b.open |->
                                  IF i \in BodyIndex(b, id) THEN u[i] ELSE b.open[i]]]
  BY <1>1 DEF InBody, Calling
<1>3. DOMAIN b.open = 1..Len(b.open) /\ \A i \in 1..Len(b.open) : TurnKept(b.open[i])
  BY BodyOfEvent
<1>4. \A i \in 1..Len(b.open) : Uncalled(b.open[i].log, call)
  <2>1. /\ \A i \in 1..Len(b.open) :
               b.open[i].log = <<>> \/ \E j \in 1..Len(r.open) : b.open[i] = r.open[j]
        /\ DOMAIN r.open = 1..Len(r.open)
    <3>1. DOMAIN r.open = 1..Len(r.open)
      BY ReducerParts DEF IInv, RedOK
    <3>2. \A i \in 1..Len(b.open) :
             b.open[i].log = <<>> \/ \E j \in 1..Len(r.open) : b.open[i] = r.open[j]
      BY BodyOfEvent
    <3> QED
      BY <3>1, <3>2
  <2>2. Uncalled(<<>>, call)
    <3>1. Events(<<>>, "tool") = {}
      BY NoEvents
    <3> QED
      BY <3>1 DEF Uncalled
  <2>3. \A j \in 1..Len(r.open) : Uncalled(r.open[j].log, call)
    BY <1>1, <2>1 DEF Fresh, Uncalled, Events
  <2> HIDE DEF b
  <2> QED
    BY <2>1, <2>2, <2>3
<1>5. ASSUME NEW t, TurnKept(t), Uncalled(t.log, call)
      PROVE  Continues(ToolUse(Logged(t, Calling(call, question)), call, question, said), t)
  <2> DEFINE w == ToolUse(Logged(t, Calling(call, question)), call, question, said)
  <2>1. TurnOK(t) /\ Mindful(t)
    BY <1>5 DEF TurnKept
  <2>2. TurnOK(w) /\ w.id = t.id /\ w.usageStop = t.usageStop
    BY <1>1, <1>5, <2>1, ToolUseKeeps
  <2>3. Mindful(w)
    BY <1>1, <1>5, <2>1, ToolUseMindful
  <2> QED
    BY <2>2, <2>3 DEF Continues, TurnKept
<1>6. \A i \in 1..Len(b.open) : Continues(u[i], b.open[i])
  BY <1>3, <1>4, <1>5
<1> HIDE DEF u
<1> QED
  BY <1>1, <1>2, <1>6, InBodyKeeps

\* What is kept is in the calls, facts, signals and log of the turn.
LEMMA RecordedAlike ==
  ASSUME NEW t, NEW u, u.tools = t.tools, u.early = t.early, u.signals = t.signals,
         u.pending = t.pending, u.seq = t.seq, u.log = t.log, Recorded(t)
  PROVE  Recorded(u)
<1>1. \A n, p : Tied(t, n, p) => Tied(u, n, p)
  BY Zenon DEF Tied
<1>2. ASSUME NEW id PROVE FactsFor(u, id) = FactsFor(t, id)
  <2>1. ToolIndex(u, id) = ToolIndex(t, id)
    BY DEF ToolIndex
  <2>2. EarlyIndex(u, id) = EarlyIndex(t, id)
    BY DEF EarlyIndex
  <2> QED
    BY <2>1, <2>2 DEF FactsFor
<1>3. \A id, f : Learned(t, id, f) => Learned(u, id, f)
  BY <1>1, Zenon DEF Learned
<1>4. \A sigs, events : Holds(t, sigs, events) => Holds(u, sigs, events)
  <2>1. \A sig : Records(t, sig) => Records(u, sig)
    BY <1>1, Zenon DEF Records
  <2> QED
    BY <2>1, Zenon DEF Holds
<1>5. CallsRecorded(u)
  <2>1. CallsRecorded(t)
    BY DEF Recorded
  <2>2. /\ \A e \in Events(u.log, "tool") : \E i \in 1..Len(u.tools) : u.tools[i].called = e
        /\ \A i, j \in 1..Len(u.tools) : u.tools[i].called = u.tools[j].called => i = j
    BY <2>1 DEF CallsRecorded
  <2>3. ASSUME NEW i \in 1..Len(u.tools)
        PROVE  /\ u.tools[i].question = u.log[u.tools[i].called].question
               /\ Tied(u, u.tools[i].seq, u.tools[i].called)
    BY <1>1, <2>1 DEF CallsRecorded
  <2> QED
    BY <2>2, <2>3 DEF CallsRecorded
<1>6. FactsRecorded(u)
  BY <1>2, <1>3, Zenon DEF Recorded, FactsRecorded, Nameless
<1>7. SignalsRecorded(u) /\ Counted(u)
  BY <1>4, Zenon DEF Recorded, SignalsRecorded, Counted
<1> QED
  BY <1>5, <1>6, <1>7 DEF Recorded

\* A stop reason outside a turn's body.
LEMMA StopNoted ==
  ASSUME NEW t, TurnKept(t), NEW stop \in AnyStop, NEW u, u = [t EXCEPT !.usageStop = stop]
  PROVE  TurnKept(u) /\ u.id = t.id
<1>1. t \in TurnSet
  BY DEF TurnKept, TurnOK, Placed
<1>2. /\ u \in TurnSet /\ u.id = t.id /\ u.blocks = t.blocks /\ u.tools = t.tools
      /\ u.early = t.early /\ u.signals = t.signals /\ u.pending = t.pending /\ u.log = t.log
      /\ u.anonOpen = t.anonOpen /\ u.seq = t.seq
  BY <1>1 DEF TurnSet
<1>3. Bounded(u)
  BY <1>2, Zenon DEF TurnKept, TurnOK, Placed, Bounded
<1>4. TurnOK(u)
  BY <1>2, <1>3 DEF TurnKept, TurnOK, Placed
<1>5. Mindful(u)
  BY <1>2, RecordedAlike DEF TurnKept, Mindful
<1> QED
  BY <1>2, <1>4, <1>5 DEF TurnKept

\* Ids and memory are those of the turns, whatever else a reducer holds.
LEMMA IdsStay ==
  ASSUME NEW q, NEW f, NEW rep, IdsOK(q, f, rep),
         NEW p, p.open = q.open, p.finished = q.finished, p.minted = q.minted
  PROVE  IdsOK(p, f, rep)
<1>1. /\ \A i, j \in 1..Len(p.open) : p.open[i].id = p.open[j].id => i = j
      /\ \A i \in 1..Len(p.open), j \in 1..Len(p.finished) : p.open[i].id # p.finished[j]
      /\ \A i \in 1..Len(p.open) : p.open[i].id # NoId
  BY DEF IdsOK
<1>2. f = "idless" => /\ \A i \in 1..Len(p.open) : p.open[i].id <= Minted(p.minted)
                      /\ \A i \in 1..Len(rep) : rep[i] <= Minted(p.minted)
  BY DEF IdsOK
<1> QED
  BY <1>1, <1>2, Zenon DEF IdsOK

\* Usage: a stop reason for the current turn, the next one, or held.
LEMMA UsageKeeps ==
  ASSUME IInv, Usage
  PROVE  Kept
<1>1. PICK stop \in Stops : Quiet /\ NoteStop(stop)
  BY DEF Usage
<1>2. stop \in AnyStop
  BY Zenon DEF AnyStop
<1>3. RedOK(r, feed, reported, out)
  BY DEF IInv
<1>4. /\ r \in Reducers /\ r.open \in Seq(TurnSet) /\ Len(r.open) \in Nat /\ DOMAIN r.open = 1..Len(r.open)
      /\ r.settled \in BOOLEAN
  BY <1>3, ReducerParts DEF RedOK
<1>5. CASE r.open # <<>>
  <2> DEFINE g == [r.open EXCEPT ![Len(r.open)].usageStop = stop]
             p == [r EXCEPT !.open = g]
  <2>1. r' = p
    <3>1. r' = [r EXCEPT !.open[Len(r.open)].usageStop = stop]
      BY <1>1, <1>5 DEF NoteStop
    <3> QED
      BY <3>1
  <2>2. g = [i \in 1..Len(r.open) |-> g[i]]
    BY <1>4
  <2>3. ASSUME NEW i \in 1..Len(r.open) PROVE TurnKept(g[i]) /\ g[i].id = r.open[i].id
    <3>1. TurnKept(r.open[i])
      BY <1>3 DEF RedOK
    <3>2. CASE i = Len(r.open)
      <4>1. g[i] = [r.open[i] EXCEPT !.usageStop = stop]
        BY <1>4, <3>2
      <4> HIDE DEF g
      <4> QED
        BY <1>2, <3>1, <4>1, StopNoted
    <3>3. CASE i # Len(r.open)
      <4>1. g[i] = r.open[i]
        BY <1>4, <3>3
      <4> QED
        BY <3>1, <4>1
    <3> QED
      BY <3>2, <3>3
  <2> HIDE DEF g
  <2>4. Retold(g, r.open)
    BY <2>2, <2>3 DEF Retold
  <2>5. RedOK(p, feed, reported, out)
    BY <1>3, <2>4, TurnsReplaced
  <2> HIDE DEF p
  <2>6. ~r.settled
    BY <1>3, <1>5 DEF RedOK, MemoryOK
  <2> QED
    BY <1>1, <2>1, <2>5, <2>6, QuietKeeps
<1>6. CASE r.open = <<>> /\ r.settled
  <2> DEFINE p == [r EXCEPT !.heldStop = stop]
  <2>1. r' = p
    BY <1>1, <1>6 DEF NoteStop
  <2>2. /\ p \in Reducers /\ p.open = r.open /\ p.finished = r.finished /\ p.settled = r.settled
        /\ p.lastDone = r.lastDone /\ p.minted = r.minted /\ p.pendingStop = r.pendingStop
    BY <1>2, <1>4 DEF Reducers
  <2> HIDE DEF p
  <2>3. IdsOK(p, feed, reported) /\ MemoryOK(p, reported, out)
    <3>1. IdsOK(r, feed, reported) /\ MemoryOK(r, reported, out)
      BY <1>3 DEF RedOK
    <3>2. IdsOK(p, feed, reported)
      BY <2>2, <3>1, IdsStay
    <3>3. MemoryOK(p, reported, out)
      BY <2>2, <3>1, Zenon DEF MemoryOK
    <3> QED
      BY <3>2, <3>3
  <2>4. RedOK(p, feed, reported, out)
    BY <1>3, <2>2, <2>3 DEF RedOK
  <2>5. NoStop(p.open)
    <3>1. Len(p.open) = 0
      BY <1>4, <1>6, <2>2, NonEmpty
    <3> QED
      BY <3>1, NobodyHasAStop
  <2> QED
    BY <1>1, <2>1, <2>4, <2>5, QuietKeeps
<1>7. CASE r.open = <<>> /\ ~r.settled
  <2> DEFINE p == [r EXCEPT !.pendingStop = stop]
  <2>1. r' = p
    BY <1>1, <1>7 DEF NoteStop
  <2>2. /\ p \in Reducers /\ p.open = r.open /\ p.finished = r.finished /\ p.settled = r.settled
        /\ p.lastDone = r.lastDone /\ p.minted = r.minted
    BY <1>2, <1>4 DEF Reducers
  <2> HIDE DEF p
  <2>3. IdsOK(p, feed, reported)
    <3>1. IdsOK(r, feed, reported)
      BY <1>3 DEF RedOK
    <3> QED
      BY <2>2, <3>1, IdsStay
  <2>4. MemoryOK(p, reported, out)
    BY <1>3, <1>7, <2>2, Zenon DEF RedOK, MemoryOK
  <2>5. RedOK(p, feed, reported, out)
    BY <1>3, <2>2, <2>3, <2>4 DEF RedOK
  <2> QED
    BY <1>1, <1>7, <2>1, <2>5, QuietKeeps
<1> QED
  BY <1>5, <1>6, <1>7

-----------------------------------------------------------------------------
(* The end of a turn *)

\* What is remembered of the turns reported does not depend on what was
\* forgotten before.
LEMMA MemoryIsOfTheLast ==
  ASSUME NEW s \in Seq(Nat), NEW x \in Nat, NEW n \in Nat \ {0}
  PROVE  AtMost(Append(AtMost(s, n), x), n) = AtMost(Append(s, x), n)
<1> DEFINE a == AtMost(s, n)
           A == Append(a, x)
           B == Append(s, x)
           P == AtMost(A, n)
           Q == AtMost(B, n)
<1>1. /\ a \in Seq(Nat) /\ Len(a) = IF Len(s) > n THEN n ELSE Len(s)
      /\ \A i \in 1..Len(a) : a[i] = s[i + Len(s) - Len(a)]
  BY AtMostKeepsTheLast
<1> HIDE DEF a
<1>2. /\ A \in Seq(Nat) /\ Len(A) = Len(a) + 1 /\ A[Len(a) + 1] = x
      /\ \A i \in 1..Len(a) : A[i] = a[i]
      /\ B \in Seq(Nat) /\ Len(B) = Len(s) + 1 /\ B[Len(s) + 1] = x
      /\ \A i \in 1..Len(s) : B[i] = s[i]
      /\ Len(s) \in Nat /\ Len(a) \in Nat
  BY <1>1, AppendProperties, LenProperties
<1> HIDE DEF A, B
<1>3. /\ P \in Seq(Nat) /\ Len(P) = IF Len(A) > n THEN n ELSE Len(A)
      /\ \A i \in 1..Len(P) : P[i] = A[i + Len(A) - Len(P)]
  BY <1>2, AtMostKeepsTheLast
<1>4. /\ Q \in Seq(Nat) /\ Len(Q) = IF Len(B) > n THEN n ELSE Len(B)
      /\ \A i \in 1..Len(Q) : Q[i] = B[i + Len(B) - Len(Q)]
  BY <1>2, AtMostKeepsTheLast
<1> HIDE DEF P, Q
<1>5. Len(P) = Len(Q) /\ Len(P) \in Nat
  BY <1>1, <1>2, <1>3, <1>4
<1>a. /\ Len(A) = Len(a) + 1 /\ Len(B) = Len(s) + 1 /\ Len(P) <= Len(a) + 1 /\ Len(a) <= Len(s)
      /\ Len(P) - 1 <= Len(a)
  <2>1. Len(A) = Len(a) + 1 /\ Len(B) = Len(s) + 1 /\ Len(a) \in Nat /\ Len(s) \in Nat
    BY <1>2
  <2>2. Len(a) = IF Len(s) > n THEN n ELSE Len(s)
    BY <1>1
  <2>3. Len(P) = IF Len(a) + 1 > n THEN n ELSE Len(a) + 1
    BY <1>3, <2>1
  <2>4. Len(a) <= Len(s)
    BY <2>1, <2>2
  <2>5. Len(P) <= Len(a) + 1
    BY <2>1, <2>3
  <2> QED
    BY <1>5, <2>1, <2>4, <2>5
<1>6. ASSUME NEW i \in 1..Len(P) PROVE P[i] = Q[i]
  <2> DEFINE k == i + Len(A) - Len(P)
             l == i + Len(B) - Len(Q)
  <2>1. P[i] = A[k] /\ Q[i] = B[l]
    BY <1>3, <1>4, <1>5
  <2>2. CASE i = Len(P)
    <3>1. k = Len(a) + 1 /\ l = Len(s) + 1
      BY <1>2, <1>5, <2>2
    <3> QED
      BY <1>2, <2>1, <3>1
  <2>3. CASE i # Len(P)
    <3>1. k \in 1..Len(a) /\ l \in 1..Len(s) /\ k + Len(s) - Len(a) = l
      <4>1. Len(s) \in Nat /\ Len(a) \in Nat /\ i <= Len(P) - 1 /\ i >= 1 /\ i \in Nat
        BY <1>2, <1>5, <2>3
      <4> QED
        BY <1>5, <1>a, <4>1
    <3> HIDE DEF k, l
    <3>2. A[k] = a[k] /\ B[l] = s[l]
      BY <1>2, <3>1
    <3>3. a[k] = s[l]
      BY <1>1, <3>1
    <3> QED
      BY <2>1, <3>2, <3>3
  <2> QED
    BY <2>2, <2>3
<1>7. P = Q
  BY <1>3, <1>4, <1>5, <1>6, SeqEqual
<1> QED
  BY <1>7 DEF P, Q, A, B, a

\* The turns that stay open when one ends.
Others(q, id) == IF Find(q, id) = {} THEN q.open
                 ELSE RemoveAt(q.open, CHOOSE i \in Find(q, id) : TRUE)

\* They are the turns that were open, but for the one that ended.
Stay(open, q, id) ==
    /\ open \in Seq(TurnSet) /\ Len(open) <= Len(q.open) /\ Len(open) \in Nat
    /\ \A i \in 1..Len(open) : \E j \in 1..Len(q.open) : open[i] = q.open[j] /\ q.open[j].id # id
    /\ \A i, j \in 1..Len(open) : open[i].id = open[j].id => i = j

\* So they are after an end.
LEMMA OthersStay ==
  ASSUME NEW q, NEW f, NEW rep, NEW o, RedOK(q, f, rep, o), NEW id
  PROVE  Stay(Others(q, id), q, id)
<1> DEFINE open == Others(q, id)
<1>0. open = IF Find(q, id) = {} THEN q.open
             ELSE RemoveAt(q.open, CHOOSE i \in Find(q, id) : TRUE)
  BY DEF Others
<1> HIDE DEF open
<1>1. /\ q.open \in Seq(TurnSet) /\ Len(q.open) \in Nat /\ DOMAIN q.open = 1..Len(q.open)
      /\ \A i, j \in 1..Len(q.open) : q.open[i].id = q.open[j].id => i = j
  BY ReducerParts DEF RedOK, IdsOK
<1>2. CASE Find(q, id) = {}
  <2>1. \A j \in 1..Len(q.open) : q.open[j].id # id
    BY <1>1, <1>2 DEF Find
  <2>2. open = q.open
    BY <1>0, <1>2
  <2>3. \A i \in 1..Len(open) : open[i] = q.open[i] /\ q.open[i].id # id
    BY <2>1, <2>2
  <2>4. \A i \in 1..Len(open) : \E j \in 1..Len(q.open) : open[i] = q.open[j] /\ q.open[j].id # id
    BY <2>2, <2>3
  <2>5. \A i, j \in 1..Len(open) : open[i].id = open[j].id => i = j
    BY <1>1, <2>2
  <2>6. open \in Seq(TurnSet) /\ Len(open) <= Len(q.open) /\ Len(open) \in Nat
    BY <1>1, <2>2
  <2>7. Stay(open, q, id)
    BY <2>4, <2>5, <2>6 DEF Stay
  <2> QED
    BY <2>7 DEF open
<1>3. CASE Find(q, id) # {}
  <2> DEFINE k == CHOOSE i \in Find(q, id) : TRUE
  <2>1. k \in 1..Len(q.open) /\ q.open[k].id = id
    <3>1. k \in Find(q, id)
      BY <1>3
    <3> HIDE DEF k
    <3> QED
      BY <1>1, <3>1 DEF Find
  <2>2. open = RemoveAt(q.open, k)
    BY <1>0, <1>3
  <2> HIDE DEF k
  <2>3. /\ open \in Seq(TurnSet) /\ Len(open) = Len(q.open) - 1
        /\ \A j \in 1..Len(q.open) - 1 : open[j] = IF j < k THEN q.open[j] ELSE q.open[j + 1]
    <3>1. /\ RemoveAt(q.open, k) \in Seq(TurnSet) /\ Len(RemoveAt(q.open, k)) = Len(q.open) - 1
          /\ \A j \in 1..Len(q.open) - 1 :
                RemoveAt(q.open, k)[j] = IF j < k THEN q.open[j] ELSE q.open[j + 1]
      BY <1>1, <2>1, Removed
    <3> QED
      BY <2>2, <3>1
  <2> DEFINE at(i) == IF i < k THEN i ELSE i + 1
  <2>4. \A i \in 1..Len(open) : at(i) \in 1..Len(q.open) /\ at(i) # k /\ open[i] = q.open[at(i)]
    BY <1>1, <2>1, <2>3
  <2>5. \A i, j \in 1..Len(open) : at(i) = at(j) => i = j
    BY <1>1, <2>1, <2>3
  <2> HIDE DEF at
  <2>6. \A i \in 1..Len(open) : q.open[at(i)].id # id
    BY <1>1, <2>1, <2>4
  <2>7. ASSUME NEW i \in 1..Len(open), NEW j \in 1..Len(open), open[i].id = open[j].id PROVE i = j
    <3>1. at(i) \in 1..Len(q.open) /\ at(j) \in 1..Len(q.open)
            /\ q.open[at(i)].id = q.open[at(j)].id
      BY <2>4, <2>7
    <3>2. at(i) = at(j)
      BY <1>1, <3>1
    <3> QED
      BY <2>5, <3>2
  <2>8. \A i \in 1..Len(open) : \E j \in 1..Len(q.open) : open[i] = q.open[j] /\ q.open[j].id # id
    BY <2>4, <2>6
  <2>9. Len(open) <= Len(q.open) /\ Len(open) \in Nat
    BY <1>1, <2>1, <2>3
  <2>10. Stay(open, q, id)
    BY <2>3, <2>7, <2>8, <2>9 DEF Stay
  <2> QED
    BY <2>10 DEF open
<1> QED
  BY <1>2, <1>3

\* The id of a turn that may be reported.
Reportable(q, f, id) ==
    /\ id \in Nat \ {NoId} /\ \A i \in 1..Len(q.finished) : q.finished[i] # id
    /\ f = "idless" => id <= Minted(q.minted)

\* The stop reason of a turn is one.
LEMMA StopIsOne ==
  ASSUME NEW t, TurnKept(t), NEW term \in Terms
  PROVE  StopOf(t, term) \in AnyStop
<1>1. t.usageStop \in AnyStop
  BY TurnParts DEF TurnKept, TurnOK, Placed
<1>2. term.stop \in {"", Cancelled}
  BY DEF Terms
<1>3. {"", Cancelled} \subseteq AnyStop
  BY Zenon DEF AnyStop, Stops
<1>4. term.stop \in AnyStop
  BY <1>2, <1>3, Zenon
<1>5. StopOf(t, term) = term.stop \/ StopOf(t, term) = t.usageStop
  BY Zenon DEF StopOf
<1> QED
  BY <1>1, <1>4, <1>5, Zenon

\* The kind of a completed turn is one.
LEMMA KindIsOne ==
  ASSUME NEW t, TurnKept(t), NEW term
  PROVE  KindOf(t, term) # "none"
<1>1. EndedOn(t) # {} => (CHOOSE s \in EndedOn(t) : TRUE).kind \in Kinds
  BY EndsOnSignal DEF TurnKept, Standing, Signals
<1>2. \A k \in Kinds : k # "none"
  BY DEF Kinds
<1>3. "terminal" # "none" /\ "failure" # "none" /\ "final" # "none"
  OBVIOUS
<1>4. CASE Cut(t, term)
  BY <1>3, <1>4, Zenon DEF KindOf
<1>5. CASE ~Cut(t, term) /\ term.failed
  BY <1>3, <1>5, Zenon DEF KindOf
<1>6. CASE ~Cut(t, term) /\ ~term.failed
  <2>1. KindOf(t, term) = IF EndedOn(t) = {} THEN "final" ELSE (CHOOSE s \in EndedOn(t) : TRUE).kind
    BY <1>6 DEF KindOf
  <2> QED
    BY <1>1, <1>2, <1>3, <2>1, Zenon
<1> QED
  BY <1>4, <1>5, <1>6

\* How the last turn ended, as the Reducer has it.
Done(term, stop) == IF term.failed THEN [stop |-> "", text |-> FALSE]
                    ELSE [stop |-> stop, text |-> term.text]
Held(term, err)  == IF term.failed THEN term.err ELSE err

\* They have their types.
LEMMA DoneIsOne ==
  ASSUME NEW term \in Terms, NEW stop \in AnyStop, NEW err \in AnyErr
  PROVE  Done(term, stop) \in Dones /\ Held(term, err) \in AnyErr /\ "" \in AnyStop
<1>1. \A s \in AnyStop, x \in BOOLEAN : [stop |-> s, text |-> x] \in Dones
  BY DEF Dones
<1>2. "" \in AnyStop
  BY Zenon DEF AnyStop
<1>3. term.text \in BOOLEAN /\ term.err \in AnyErr
  BY DEF Terms
<1>4. [stop |-> "", text |-> FALSE] \in Dones
  BY <1>1, <1>2, Zenon
<1>5. [stop |-> stop, text |-> term.text] \in Dones
  BY <1>1, <1>3, Zenon
<1> QED
  BY <1>2, <1>3, <1>4, <1>5, Zenon DEF Done, Held

\* finish: the Reducer that has reported a turn.
LEMMA ForgetKeeps ==
  ASSUME NEW q, NEW f, NEW rep \in Seq(Nat), NEW o, RedOK(q, f, rep, o),
         NEW t, TurnKept(t), Reportable(q, f, t.id), NEW term \in Terms,
         NEW n, n.kind # "none", n.stop = StopOf(t, term), n.term = term,
         NEW p, p = Forget(q, t.id, term, StopOf(t, term))
  PROVE  /\ RedOK(p, f, Append(rep, t.id), n)
         /\ Len(p.open) <= Len(q.open)
<1> DEFINE id == t.id
           stop == StopOf(t, term)
           open == Others(q, id)
           fin == AtMost(Append(q.finished, id), FinishedMemory)
           done == Done(term, stop)
           held == Held(term, q.lastError)
<1>1. /\ q \in Reducers /\ q.finished \in Seq(Nat) /\ Len(q.finished) \in Nat /\ q.minted \in Nat
      /\ q.lastError \in AnyErr /\ Len(q.open) \in Nat
  BY ReducerParts DEF RedOK
<1>2. /\ open \in Seq(TurnSet) /\ Len(open) <= Len(q.open) /\ Len(open) \in Nat
      /\ \A i \in 1..Len(open) : \E j \in 1..Len(q.open) : open[i] = q.open[j] /\ q.open[j].id # id
      /\ \A i, j \in 1..Len(open) : open[i].id = open[j].id => i = j
  <2>1. Stay(open, q, id)
    BY OthersStay
  <2> HIDE DEF open, id
  <2> QED
    BY <2>1 DEF Stay
<1>3. stop \in AnyStop
  BY StopIsOne
<1>4. p = [q EXCEPT !.open = open, !.finished = fin, !.settled = open = <<>>, !.pendingStop = "",
                    !.heldStop = "", !.lastError = held, !.lastDone = done]
  BY DEF Forget, Others, Done, Held
<1> HIDE DEF open, stop
<1>5. /\ done \in Dones /\ held \in AnyErr /\ "" \in AnyStop
      /\ ~term.failed => done = [stop |-> stop, text |-> term.text]
  <2>1. done \in Dones /\ held \in AnyErr /\ "" \in AnyStop
    BY <1>1, <1>3, DoneIsOne
  <2>2. ~term.failed => done = [stop |-> stop, text |-> term.text]
    BY Zenon DEF Done
  <2> QED
    BY <2>1, <2>2, Zenon
<1> HIDE DEF done, held
<1>6. id \in Nat \ {NoId}
  BY DEF Reportable
<1>7. IsPushed(Nat, fin, q.finished, id, FinishedMemory)
  <2> HIDE DEF id
  <2> QED
    BY <1>1, <1>6, Pushed, ConstantFacts
<1>8. fin = AtMost(Append(rep, id), FinishedMemory)
  <2>1. q.finished = AtMost(rep, FinishedMemory)
    BY DEF RedOK, MemoryOK
  <2> HIDE DEF id
  <2> QED
    BY <1>6, <2>1, MemoryIsOfTheLast, ConstantFacts
<1> HIDE DEF fin
<1>9. /\ p.open = open /\ p.finished = fin /\ p.minted = q.minted /\ p.settled = (open = <<>>)
      /\ p.lastDone = done /\ p.pendingStop = "" /\ p \in Reducers
  <2>1. fin \in Seq(Nat)
    BY <1>7 DEF IsPushed
  <2>2. (open = <<>>) \in BOOLEAN
    OBVIOUS
  <2>3. /\ p.open = open /\ p.finished = fin /\ p.minted = q.minted /\ p.settled = (open = <<>>)
        /\ p.lastDone = done /\ p.pendingStop = ""
    BY <1>1, <1>4 DEF Reducers
  <2>4. p \in Reducers
    BY <1>1, <1>2, <1>4, <1>5, <2>1, <2>2 DEF Reducers
  <2> QED
    BY <2>3, <2>4
<1>10. \A i \in 1..Len(open) : TurnKept(open[i])
  BY <1>2 DEF RedOK
<1>11. Len(open) <= MaxOpenTurns
  BY <1>1, <1>2, ConstantFacts DEF RedOK
<1>12. IdsOK(p, f, Append(rep, id))
  <2>1. \A j \in 1..Len(fin) : fin[j] = id \/ \E k \in 1..Len(q.finished) : fin[j] = q.finished[k]
    BY <1>7 DEF IsPushed
  <2>2. ASSUME NEW i \in 1..Len(open)
        PROVE  /\ open[i].id # NoId /\ \A j \in 1..Len(fin) : open[i].id # fin[j]
               /\ f = "idless" => open[i].id <= Minted(q.minted)
    <3>1. PICK j \in 1..Len(q.open) : open[i] = q.open[j] /\ q.open[j].id # id
      BY <1>2
    <3>2. /\ q.open[j].id # NoId /\ \A k \in 1..Len(q.finished) : q.open[j].id # q.finished[k]
          /\ f = "idless" => q.open[j].id <= Minted(q.minted)
      BY DEF RedOK, IdsOK
    <3> QED
      BY <2>1, <3>1, <3>2
  <2>3. ASSUME f = "idless", NEW i \in 1..Len(Append(rep, id))
        PROVE  Append(rep, id)[i] <= Minted(q.minted)
    <3>1. /\ Len(Append(rep, id)) = Len(rep) + 1 /\ Append(rep, id)[Len(rep) + 1] = id
          /\ \A j \in 1..Len(rep) : Append(rep, id)[j] = rep[j]
          /\ Len(rep) \in Nat
      <4> HIDE DEF id
      <4> QED
        BY <1>6, AppendProperties
    <3>2. CASE i = Len(rep) + 1
      BY <2>3, <3>1, <3>2 DEF Reportable
    <3>3. CASE i # Len(rep) + 1
      <4>1. i \in 1..Len(rep)
        BY <3>1, <3>3
      <4>2. rep[i] <= Minted(q.minted)
        BY <2>3, <4>1 DEF RedOK, IdsOK
      <4> QED
        BY <3>1, <4>1, <4>2
    <3> QED
      BY <3>2, <3>3
  <2>4. p.open = open /\ p.finished = fin /\ p.minted = q.minted
    BY <1>9
  <2> HIDE DEF id
  <2>5. f = "idless" => /\ \A i \in 1..Len(p.open) : p.open[i].id <= Minted(p.minted)
                        /\ \A i \in 1..Len(Append(rep, id)) : Append(rep, id)[i] <= Minted(p.minted)
    BY <2>2, <2>3, <2>4, Zenon
  <2>6. /\ \A i, j \in 1..Len(p.open) : p.open[i].id = p.open[j].id => i = j
        /\ \A i \in 1..Len(p.open), j \in 1..Len(p.finished) : p.open[i].id # p.finished[j]
        /\ \A i \in 1..Len(p.open) : p.open[i].id # NoId
    BY <1>2, <2>2, <2>4
  <2> QED
    BY <2>5, <2>6, Zenon DEF IdsOK
<1>13. MemoryOK(p, Append(rep, id), n)
  <2>1. n.kind # "none" /\ ~n.term.failed => p.lastDone = [stop |-> n.stop, text |-> n.term.text]
    BY <1>5, <1>9 DEF stop
  <2>2. p.settled => p.open = <<>> /\ p.pendingStop = "" /\ n.kind # "none"
    BY <1>9, Zenon
  <2>3. p.finished = AtMost(Append(rep, id), FinishedMemory)
    BY <1>8, <1>9
  <2> HIDE DEF id
  <2> QED
    BY <2>1, <2>2, <2>3, Zenon DEF MemoryOK
<1> QED
  BY <1>2, <1>9, <1>10, <1>11, <1>12, <1>13 DEF RedOK

\* What was reported, once a turn whose id is not remembered has been.
LEMMA OnceMore ==
  ASSUME NEW rep \in Seq(Nat), NEW id \in Nat, NEW q, NEW o, MemoryOK(q, rep, o),
         \A i \in 1..Len(q.finished) : q.finished[i] # id,
         \A i, j \in 1..Len(rep) : i < j /\ rep[i] = rep[j] => j - i > FinishedMemory
  PROVE  LET new == Append(rep, id) IN
         /\ new \in Seq(Nat)
         /\ \A i, j \in 1..Len(new) : i < j /\ new[i] = new[j] => j - i > FinishedMemory
<1> DEFINE new == Append(rep, id)
<1>1. /\ new \in Seq(Nat) /\ Len(new) = Len(rep) + 1 /\ new[Len(rep) + 1] = id
      /\ \A i \in 1..Len(rep) : new[i] = rep[i]
      /\ Len(rep) \in Nat
  BY AppendProperties
<1> HIDE DEF new
<1>2. ASSUME NEW i \in 1..Len(new), NEW j \in 1..Len(new), i < j, new[i] = new[j]
      PROVE  j - i > FinishedMemory
  <2>1. i \in 1..Len(rep)
    BY <1>1, <1>2
  <2>2. CASE j \in 1..Len(rep)
    BY <1>1, <1>2, <2>1, <2>2
  <2>3. CASE j = Len(rep) + 1
    <3>1. rep[i] = id
      BY <1>1, <1>2, <2>1, <2>3
    <3>2. SUFFICES ASSUME ~ (j - i > FinishedMemory) PROVE FALSE
      OBVIOUS
    <3>3. /\ Len(q.finished) \in Nat
          /\ Len(q.finished) = IF Len(rep) > FinishedMemory THEN FinishedMemory ELSE Len(rep)
          /\ \A k \in 1..Len(q.finished) : q.finished[k] = rep[k + Len(rep) - Len(q.finished)]
      BY RememberedTurns
    <3> DEFINE k == i - Len(rep) + Len(q.finished)
    <3>4. k \in 1..Len(q.finished) /\ k + Len(rep) - Len(q.finished) = i
      BY <1>1, <2>1, <2>3, <3>2, <3>3, ConstantFacts
    <3> HIDE DEF k
    <3>5. q.finished[k] = id
      BY <3>1, <3>3, <3>4
    <3> QED
      BY <3>4, <3>5
  <2> QED
    BY <1>1, <2>2, <2>3
<1> QED
  BY <1>1, <1>2 DEF new

\* The end of a turn that may be reported.
LEMMA FinishKeeps ==
  ASSUME IInv, feed' = feed, NEW q, RedOK(q, feed, reported, out),
         NEW t, TurnKept(t), Reportable(q, feed, t.id), NEW term \in Terms, Finish(q, t, term)
  PROVE  IInv' /\ Len(r'.open) <= Len(q.open) /\ reported' # reported
<1> DEFINE n == [kind |-> KindOf(t, term), text |-> TextOf(t, term), stop |-> StopOf(t, term),
                 term |-> term, turn |-> t]
<1>1. /\ r' = Forget(q, t.id, term, StopOf(t, term)) /\ out' = n
      /\ reported' = Append(reported, t.id)
  BY DEF Finish
<1>2. /\ feed \in {"envelope", "idless"} /\ reported \in Seq(Nat)
      /\ \A i, j \in 1..Len(reported) : i < j /\ reported[i] = reported[j] => j - i > FinishedMemory
  <2>1. reported \in Seq(Nat) /\ OncePerTurn
    BY DEF IInv
  <2>2. DOMAIN reported = 1..Len(reported)
    BY <2>1, LenProperties
  <2> QED
    BY <2>1, <2>2 DEF IInv, OncePerTurn
<1>3. /\ n.kind = KindOf(t, term) /\ n.text = TextOf(t, term) /\ n.stop = StopOf(t, term)
      /\ n.term = term /\ n.turn = t /\ n.kind # "none"
  <2>1. KindOf(t, term) # "none"
    BY KindIsOne
  <2> QED
    BY <2>1
<1> HIDE DEF n
<1>4. /\ RedOK(Forget(q, t.id, term, StopOf(t, term)), feed, Append(reported, t.id), n)
      /\ Len(Forget(q, t.id, term, StopOf(t, term)).open) <= Len(q.open)
  BY <1>2, <1>3, ForgetKeeps
<1>5. RedOK(r', feed', reported', out') /\ Len(r'.open) <= Len(q.open)
  BY <1>1, <1>4
<1>6. OutMade'
  BY <1>1, <1>3 DEF OutMade
<1>7. t.id \in Nat /\ \A i \in 1..Len(q.finished) : q.finished[i] # t.id
  BY DEF Reportable
<1>8. /\ Append(reported, t.id) \in Seq(Nat)
      /\ \A i, j \in 1..Len(Append(reported, t.id)) :
            i < j /\ Append(reported, t.id)[i] = Append(reported, t.id)[j] => j - i > FinishedMemory
  <2>1. MemoryOK(q, reported, out)
    BY DEF RedOK
  <2> QED
    BY <1>2, <1>7, <2>1, OnceMore
<1>9. reported' \in Seq(Nat) /\ OncePerTurn'
  <2>1. DOMAIN reported' = 1..Len(reported')
    BY <1>1, <1>8, LenProperties
  <2> QED
    BY <1>1, <1>8, <2>1 DEF OncePerTurn
<1>10. reported' # reported
  <2>1. Len(Append(reported, t.id)) = Len(reported) + 1 /\ Len(reported) \in Nat
    BY <1>2, <1>7, AppendProperties
  <2> QED
    BY <1>1, <2>1
<1> QED
  BY <1>2, <1>5, <1>6, <1>9, <1>10 DEF IInv

\* An open turn may be reported.
LEMMA OpenIsReportable ==
  ASSUME NEW q, NEW f, NEW rep, NEW o, RedOK(q, f, rep, o), NEW i \in 1..Len(q.open)
  PROVE  TurnKept(q.open[i]) /\ Reportable(q, f, q.open[i].id)
<1>1. TurnKept(q.open[i]) /\ q.open[i].id \in Nat
  BY TurnParts DEF RedOK, TurnKept, TurnOK, Placed
<1> QED
  BY <1>1 DEF RedOK, IdsOK, Reportable

\* Terminal events are.
LEMMA EndsAreTerms == Ends \subseteq Terms
<1> DEFINE A == [failed : {FALSE}, err : {""}, cut : {FALSE}, reason : {""},
                 stop : {"", Cancelled}, text : BOOLEAN]
           B == [failed : {TRUE}, err : {"", "e"}, cut : {FALSE}, stop : {""}, text : {FALSE},
                 reason : IF feed = "envelope" THEN {"", "interrupted"} ELSE {""}]
<1>1. A \subseteq Terms
  BY DEF Terms, AnyErr
<1>2. B \subseteq Terms
  BY DEF Terms, AnyErr
<1> QED
  BY <1>1, <1>2 DEF Ends

\* The end of the session reports the current turn.
LEMMA SessionGoneKeeps ==
  ASSUME IInv, SessionGone
  PROVE  Kept
<1>1. PICK cut \in BOOLEAN :
         /\ r.open # <<>> /\ last' = <<>> /\ feed' = feed
         /\ Finish(r, Last(r.open), [failed |-> TRUE, err |-> "", cut |-> cut, stop |-> "",
                                     reason |-> "process_exited", text |-> FALSE])
  BY DEF SessionGone
<1> DEFINE term == [failed |-> TRUE, err |-> "", cut |-> cut, stop |-> "",
                    reason |-> "process_exited", text |-> FALSE]
<1>2. term \in Terms
  BY DEF Terms, AnyErr
<1>3. RedOK(r, feed, reported, out)
  BY DEF IInv
<1>4. Last(r.open) = r.open[Len(r.open)] /\ Len(r.open) \in 1..Len(r.open)
  BY <1>1, <1>3, ReducerParts, NonEmpty DEF RedOK, Last
<1>5. TurnKept(Last(r.open)) /\ Reportable(r, feed, Last(r.open).id)
  BY <1>3, <1>4, OpenIsReportable
<1> HIDE DEF term
<1>6. Finish(r, Last(r.open), term)
  BY <1>1 DEF term
<1>7. IInv'
  BY <1>1, <1>2, <1>3, <1>5, <1>6, FinishKeeps
<1>8. ~r.settled
  BY <1>1, <1>3 DEF RedOK, MemoryOK
<1>9. \A x : last' # <<x>>
  BY <1>1
<1> QED
  BY <1>7, <1>8, <1>9 DEF Kept

\* A terminal event, whether it ends a turn or repeats the one that did.
LEMMA TurnEndKeeps ==
  ASSUME IInv, TurnEnd
  PROVE  Kept
<1>1. PICK id \in Ids, term \in Ends : End(id, term) /\ last' = <<term>> /\ feed' = feed
  BY DEF TurnEnd
<1>2. term \in Terms
  BY EndsAreTerms
<1>3. /\ RedOK(r, feed, reported, out) /\ feed \in {"envelope", "idless"} /\ reported \in Seq(Nat)
  BY DEF IInv
<1>4. id \in Nat /\ (feed = "idless" => id = NoId) /\ (id = NoId => feed = "idless")
  <2>1. id \in IdsOf(feed)
    BY DEF Ids, IdsOf
  <2> QED
    BY <1>3, <2>1, IdOfAnEvent
<1>5. /\ r.open \in Seq(TurnSet) /\ Len(r.open) \in Nat /\ DOMAIN r.open = 1..Len(r.open)
      /\ r.finished \in Seq(Nat) /\ r.heldStop \in AnyStop /\ r.pendingStop \in AnyStop
      /\ r.minted \in Nat
  BY <1>3, ReducerParts DEF RedOK
<1>6. r.settled => r.open = <<>> /\ Len(r.open) = 0
  BY <1>3, <1>5, NonEmpty DEF RedOK, MemoryOK
<1>7. ASSUME IInv', Len(r'.open) <= Len(r.open), reported' # reported PROVE Kept
  <2>1. r.settled => NoStop(r'.open)
    <3>1. Len(r'.open) \in Nat
      <4>1. r' \in Reducers
        BY <1>7 DEF IInv, RedOK
      <4> QED
        BY <4>1, ReducerParts
    <3>2. r.settled => Len(r'.open) = 0
      BY <1>6, <1>7, <3>1
    <3> QED
      BY <3>2, NobodyHasAStop
  <2>2. ~Swallowed
    BY <1>7 DEF Swallowed
  <2> QED
    BY <1>7, <2>1, <2>2 DEF Kept
<1>8. ASSUME NEW i \in 1..Len(r.open), Finish(r, r.open[i], term) PROVE Kept
  <2>1. TurnKept(r.open[i]) /\ Reportable(r, feed, r.open[i].id)
    BY <1>3, OpenIsReportable
  <2> QED
    BY <1>1, <1>2, <1>3, <1>7, <1>8, <2>1, FinishKeeps
<1>9. ASSUME Swallow PROVE IInv' /\ (r.settled => NoStop(r'.open))
  <2>1. r' = r /\ out' = out /\ reported' = reported
    BY <1>9 DEF Swallow
  <2>2. IInv'
    BY <1>1, <2>1 DEF IInv, OutMade, OncePerTurn
  <2> QED
    BY <1>6, <2>1, <2>2, NobodyHasAStop
<1>10. CASE id # NoId /\ Find(r, id) # {}
  <2> DEFINE k == CHOOSE i \in Find(r, id) : TRUE
  <2>1. Finish(r, r.open[k], term)
    BY <1>1, <1>10 DEF End
  <2>2. k \in Find(r, id)
    BY <1>10
  <2> HIDE DEF k
  <2>3. k \in 1..Len(r.open)
    BY <1>5, <2>2 DEF Find
  <2> QED
    BY <1>8, <2>1, <2>3
<1>11. CASE id # NoId /\ Find(r, id) = {} /\ Contains(r.finished, id)
  <2>1. Swallow
    BY <1>1, <1>11 DEF End
  <2>2. ~Swallowed
    BY <1>4, <1>11 DEF Swallowed
  <2> QED
    BY <1>9, <2>1, <2>2 DEF Kept
<1>12. CASE id # NoId /\ Find(r, id) = {} /\ ~Contains(r.finished, id)
  <2> DEFINE t == NewTurn(id, "")
  <2>1. Finish(r, t, term)
    BY <1>1, <1>12 DEF End
  <2>2. "" \in AnyStop
    BY Zenon DEF AnyStop
  <2>3. TurnKept(t) /\ t.id = id
    BY <1>4, <2>2, NewTurnKept
  <2> HIDE DEF t
  <2>4. Reportable(r, feed, t.id)
    BY <1>4, <1>12, <2>3 DEF Reportable, Contains
  <2> QED
    BY <1>1, <1>2, <1>3, <1>7, <2>1, <2>3, <2>4, FinishKeeps
<1>13. CASE id = NoId /\ r.open # <<>>
  <2>1. Finish(r, Last(r.open), term)
    BY <1>1, <1>13 DEF End
  <2>2. Last(r.open) = r.open[Len(r.open)] /\ Len(r.open) \in 1..Len(r.open)
    BY <1>5, <1>13, NonEmpty DEF Last
  <2> QED
    BY <1>8, <2>1, <2>2
<1>14. CASE id = NoId /\ r.open = <<>> /\ Repeats(r, term)
  <2>1. Swallow
    BY <1>1, <1>14 DEF End
  <2>2. ASSUME NEW x \in Ends, last' = <<x>>, ~x.failed, ~out.term.failed
        PROVE  out.term.text = x.text /\ Cancelled \notin {out.stop, x.stop}
    <3> DEFINE stop == IF x.stop # "" THEN x.stop ELSE r.heldStop
    <3>1. x = term
      BY <1>1, <2>2
    <3>2. /\ r.settled /\ stop # Cancelled /\ r.lastDone = [stop |-> stop, text |-> x.text]
      BY <1>14, <2>2, <3>1 DEF Repeats
    <3>3. x.stop = Cancelled => stop = Cancelled
      BY Zenon DEF Cancelled
    <3> HIDE DEF stop
    <3>4. r.lastDone = [stop |-> out.stop, text |-> out.term.text]
      BY <1>3, <2>2, <3>2 DEF RedOK, MemoryOK
    <3>5. out.stop = stop /\ out.term.text = x.text
      BY <3>2, <3>4
    <3> QED
      BY <3>2, <3>3, <3>5
  <2> QED
    BY <1>9, <2>1, <2>2 DEF Kept
<1>15. CASE id = NoId /\ r.open = <<>> /\ ~Repeats(r, term)
  <2> DEFINE p == [r EXCEPT !.minted = @ + 1]
             k == Minted(r.minted + 1)
             stop == IF r.heldStop # "" THEN r.heldStop ELSE r.pendingStop
             t == NewTurn(k, stop)
  <2>1. Finish(p, t, term)
    BY <1>1, <1>15 DEF End
  <2>2. stop \in AnyStop
    BY <1>5, Zenon
  <2> HIDE DEF stop
  <2>3. RedOK(p, feed, reported, out) /\ k \in Nat /\ NewId(p, feed, k) /\ p.open = <<>>
    <3>1. feed = "idless"
      BY <1>4, <1>15
    <3> HIDE DEF p, k
    <3> QED
      BY <1>3, <1>15, <3>1, MintKeeps DEF p, k
  <2> HIDE DEF p, k
  <2>4. TurnKept(t) /\ t.id = k
    BY <2>2, <2>3, NewTurnKept
  <2> HIDE DEF t
  <2>5. Reportable(p, feed, t.id)
    BY <2>3, <2>4 DEF Reportable, NewId
  <2>6. IInv' /\ Len(r'.open) <= Len(p.open) /\ reported' # reported
    BY <1>1, <1>2, <2>1, <2>3, <2>4, <2>5, FinishKeeps
  <2> QED
    BY <1>7, <1>15, <2>3, <2>6
<1> QED
  BY <1>10, <1>11, <1>12, <1>13, <1>14, <1>15

-----------------------------------------------------------------------------
(* The theorems *)

\* The Reducer as it is made.
LEMMA InitIInv == OutInit => IInv
<1> SUFFICES ASSUME OutInit PROVE IInv
  OBVIOUS
<1>1. /\ feed \in {"envelope", "idless"} /\ out.kind = "none" /\ reported = <<>>
      /\ r = [open |-> <<>>, finished |-> <<>>, settled |-> FALSE,
              lastDone |-> [stop |-> "", text |-> FALSE], heldStop |-> "", lastError |-> "",
              pendingStop |-> "", minted |-> 0]
  BY DEF OutInit
<1>2. \A S : <<>> \in Seq(S) /\ Len(<<>>) = 0
  BY EmptySeq
<1>3. "" \in AnyStop /\ "" \in AnyErr /\ [stop |-> "", text |-> FALSE] \in Dones
  <2>1. \A s \in AnyStop, x \in BOOLEAN : [stop |-> s, text |-> x] \in Dones
    BY DEF Dones
  <2>2. "" \in AnyStop /\ "" \in AnyErr
    BY Zenon DEF AnyStop, AnyErr
  <2> QED
    BY <2>1, <2>2, Zenon
<1>4. r \in Reducers /\ r.open = <<>> /\ r.finished = <<>> /\ r.settled = FALSE
  BY <1>1, <1>2, <1>3 DEF Reducers
<1>5. \A i \in 1..0 : FALSE
  OBVIOUS
<1>6. IdsOK(r, feed, reported)
  BY <1>1, <1>2, <1>4, <1>5 DEF IdsOK
<1>7. MemoryOK(r, reported, out)
  <2>1. AtMost(<<>>, FinishedMemory) = <<>>
    <3>1. ~ (Len(<<>>) > FinishedMemory)
      BY <1>2, ConstantFacts
    <3> QED
      BY <3>1 DEF AtMost
  <2>2. r.finished = AtMost(reported, FinishedMemory)
    BY <1>1, <1>4, <2>1
  <2> QED
    BY <1>1, <1>4, <2>2, Zenon DEF MemoryOK
<1>8. RedOK(r, feed, reported, out)
  <2>1. 0 <= MaxOpenTurns
    BY ConstantFacts
  <2> QED
    BY <1>2, <1>4, <1>5, <1>6, <1>7, <2>1 DEF RedOK
<1>9. OutMade
  BY <1>1 DEF OutMade
<1>10. OncePerTurn
  <2>1. DOMAIN <<>> = 1..0
    BY <1>2, LenProperties
  <2> QED
    BY <1>1, <1>5, <2>1 DEF OncePerTurn
<1>11. reported \in Seq(Nat)
  BY <1>1, <1>2
<1> QED
  BY <1>1, <1>8, <1>9, <1>10, <1>11 DEF IInv

\* Every step keeps the Reducer what it is.
LEMMA NextKeeps == IInv /\ OutNext => Kept
<1> SUFFICES ASSUME IInv, OutNext PROVE Kept
  OBVIOUS
<1>1. CASE Delta
  BY <1>1, DeltaKeeps
<1>2. CASE Mark
  BY <1>2, MarkKeeps
<1>3. CASE ToolUseEvent
  BY <1>3, ToolUseEventKeeps
<1>4. CASE ToolResultEvent
  BY <1>4, ToolResultEventKeeps
<1>5. CASE PermissionDenied
  BY <1>5, PermissionDeniedKeeps
<1>6. CASE PermissionRequested
  BY <1>6, PermissionRequestedKeeps
<1>7. CASE PermissionResolved
  BY <1>7, PermissionResolvedKeeps
<1>8. CASE Usage
  BY <1>8, UsageKeeps
<1>9. CASE TurnEnd
  BY <1>9, TurnEndKeeps
<1>10. CASE SessionGone
  BY <1>10, SessionGoneKeeps
<1> QED
  BY <1>1, <1>2, <1>3, <1>4, <1>5, <1>6, <1>7, <1>8, <1>9, <1>10 DEF OutNext

\* The invariant holds in every state.
LEMMA Inductive == OutSpec => []IInv
<1>1. IInv /\ [OutNext]_outVars => IInv'
  <2>1. IInv /\ OutNext => IInv'
    BY NextKeeps DEF Kept
  <2>2. IInv /\ UNCHANGED outVars => IInv'
    BY DEF outVars, IInv, OutMade, OncePerTurn
  <2> QED
    BY <2>1, <2>2
<1> QED
  BY InitIInv, <1>1, PTL DEF OutSpec

\* What an Output says holds of it: its memory is bounded, a turn is reported
\* once, and the text of a question or an approval comes after it.
LEMMA OutputSound == IInv => OutInv
<1> SUFFICES ASSUME IInv PROVE OutInv
  OBVIOUS
<1>1. /\ RedOK(r, feed, reported, out) /\ r \in Reducers
  BY DEF IInv, RedOK
<1>2. /\ r.open \in Seq(TurnSet) /\ DOMAIN r.open = 1..Len(r.open)
      /\ r.settled \in BOOLEAN /\ r.heldStop \in AnyStop /\ r.pendingStop \in AnyStop
  BY <1>1, ReducerParts
<1>3. Len(r.finished) <= FinishedMemory
  <2>1. reported \in Seq(Nat) /\ MemoryOK(r, reported, out)
    BY <1>1 DEF IInv, RedOK
  <2>2. /\ Len(reported) \in Nat
        /\ Len(r.finished) = IF Len(reported) > FinishedMemory THEN FinishedMemory ELSE Len(reported)
    BY <2>1, RememberedTurns
  <2> QED
    BY <2>2, ConstantFacts
<1>4. ASSUME NEW i \in 1..Len(r.open)
      PROVE  LET t == r.open[i] IN
             /\ Len(t.blocks) <= MaxBlocks /\ Len(t.tools) <= MaxTools
             /\ Len(t.early) <= MaxEarly /\ Len(t.signals) <= MaxSignals
             /\ Len(t.pending) <= MaxPending
             /\ t.anonOpen => t.blocks # <<>> /\ Last(t.blocks).id = ""
  <2>1. TurnKept(r.open[i])
    BY <1>1 DEF RedOK
  <2> QED
    BY <2>1, Zenon DEF TurnKept, TurnOK, Placed, Bounded, Last
<1>5. OutTypeOK
  <2>1. {r.heldStop, r.pendingStop} \subseteq Stops \cup {""}
    BY <1>2, Zenon DEF AnyStop
  <2>2. Len(r.open) <= MaxOpenTurns
    BY <1>1 DEF RedOK
  <2> QED
    BY <1>2, <1>3, <1>4, <2>1, <2>2, Zenon DEF OutTypeOK
<1>6. OncePerTurn
  BY DEF IInv
<1>7. ASSUME out.kind \in {"question", "approval"}, Remembered(out.turn.log)
      PROVE  LET t  == out.turn
                 s  == CHOOSE sig \in EndedOn(t) : TRUE
                 at == StandsAt(t.log, s)
             IN  /\ t.blocks # <<>> /\ Last(t.blocks).begun > at /\ Last(t.blocks).parts # {}
                       => out.text.source \in {"block", "terminal"}
                 /\ out.text.source = "block" /\ s.said => \A p \in out.text.parts : p > at
  <2>1. out.kind # "none"
    BY <1>7
  <2>2. /\ TurnKept(out.turn) /\ out.term \in Terms
        /\ out.kind = KindOf(out.turn, out.term) /\ out.text = TextOf(out.turn, out.term)
    BY <2>1 DEF IInv, OutMade
  <2> QED
    BY <1>7, <2>2, TextComesAfter DEF TurnKept
<1>8. TextFollowsSignal
  BY <1>7 DEF TextFollowsSignal
<1> QED
  BY <1>5, <1>6, <1>8 DEF OutInv

\* A turn that ended says what its events say, while there was room for them.
LEMMA KindSound == IInv => KindMatchesReference
<1> SUFFICES ASSUME IInv, out.kind \in {"final", "question", "approval"}, Remembered(out.turn.log)
             PROVE  out.kind = ReferenceKind(out.turn.log)
  BY Zenon DEF KindMatchesReference
<1>1. out.kind # "none"
  OBVIOUS
<1>2. TurnKept(out.turn) /\ out.kind = KindOf(out.turn, out.term)
  BY <1>1, Zenon DEF IInv, OutMade
<1>3. TurnOK(out.turn) /\ Recorded(out.turn)
  BY <1>2 DEF TurnKept, Mindful
<1> QED
  BY <1>2, <1>3, KindIsReference

\* An Output comes once for a turn, and its text answers its signal.
THEOREM OutputComesOnceAndAnswers == OutSpec => []OutInv
BY Inductive, OutputSound, PTL

\* A stop reason that trails a settled reducer's last turn is not in a turn that
\* opens next and stays open, and after a completed turn a Done is taken for a
\* repeat only if it has the same text and neither was cancelled.
THEOREM EndsStayApart == OutSpec => EndsKeptApart
<1>1. IInv /\ [OutNext]_outVars => [r.settled /\ Len(r'.open) = 1 => r'.open[1].usageStop = ""]_outVars
  BY NextKeeps DEF Kept, NoStop
<1>2. IInv /\ [OutNext]_outVars =>
         [\A term \in Ends : Swallowed /\ last' = <<term>> /\ ~term.failed /\ ~out.term.failed =>
             out.term.text = term.text /\ Cancelled \notin {out.stop, term.stop}]_outVars
  BY NextKeeps DEF Kept
<1> QED
  BY Inductive, <1>1, <1>2, PTL DEF OutSpec, EndsKeptApart, TrailingStopDropped, LoneDoneReported

\* A turn is a question or an approval when its events leave one open, and
\* final when they leave none, in whatever order refusals, results and the
\* calls they are about came in.
THEOREM KindIsWhatTheEventsSay == OutSpec => []KindMatchesReference
BY Inductive, KindSound, PTL
=============================================================================
