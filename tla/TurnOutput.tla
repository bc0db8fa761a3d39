------------------------------ MODULE TurnOutput ------------------------------
(***************************************************************************)
(* The turn output reducer (src/turnoutput): it folds a session's events   *)
(* into one Output per completed turn.  The events reach it over one of    *)
(* three feeds, late, repeated and not in the order they happened, and its *)
(* memory of turns, text blocks, tool calls and signals is bounded.        *)
(*                                                                         *)
(* Every method holds the Reducer's lock throughout, so one event is one   *)
(* action.  Text is abstracted to the set of deltas it is made of, named   *)
(* by their place in the turn's log, which is history.                     *)
(***************************************************************************)
EXTENDS Naturals, Sequences, SequencesExt, FiniteSets, FiniteSetsExt

CONSTANTS TurnIds,        \* ids on the envelopes of Observe
          CallIds,        \* tool call ids
          FinishedMemory, MaxOpenTurns, MaxBlocks, MaxTools, MaxSignals,
          MaxEarly, MaxPending,
          MaxDeltas, MaxCalls, MaxFacts, MaxRequests, MaxUsages, MaxEnds,
          MaxBody         \* bounds: events of a session, of each sort and in turns

ASSUME OutputConstants ==
    /\ TurnIds \subseteq 1..99 /\ "" \notin CallIds
    /\ {FinishedMemory, MaxOpenTurns, MaxBlocks, MaxTools, MaxSignals, MaxEarly, MaxPending}
          \subseteq Nat \ {0}
    /\ {MaxDeltas, MaxCalls, MaxFacts, MaxRequests, MaxUsages, MaxEnds, MaxBody} \subseteq Nat

NoId      == 0
Minted(k) == 100 + k
Cancelled == "cancelled"
Stops     == {"end_turn", Cancelled}

VARIABLES feed,      \* "envelope": Observe; "idless": ObserveProvider, ObserveStream
          r,         \* the Reducer
          out,       \* the last Output, with the history it was made from
          reported,  \* ids of the turns reported, in order
          last,      \* the last event, when it was terminal
          count      \* events so far, by sort

outVars == <<feed, r, out, reported, last, count>>

NoFacts == [has |-> FALSE, isError |-> FALSE, at |-> 0, refused |-> FALSE]

NewTurn(id, stop) ==
    [id |-> id, blocks |-> <<>>, anonOpen |-> FALSE, usageStop |-> stop, seq |-> 0,
     tools |-> <<>>, early |-> <<>>, signals |-> <<>>, pending |-> <<>>, log |-> <<>>]

OutInit ==
    /\ feed \in {"envelope", "idless"}
    /\ r = [open |-> <<>>, finished |-> <<>>, settled |-> FALSE,
            lastDone |-> [stop |-> "", text |-> FALSE], heldStop |-> "", lastError |-> "",
            pendingStop |-> "", minted |-> 0]
    /\ out = [kind |-> "none"] /\ reported = <<>> /\ last = <<>>
    /\ count = [delta |-> 0, call |-> 0, fact |-> 0, request |-> 0, usage |-> 0, end |-> 0]

-----------------------------------------------------------------------------
(* Which turn an event belongs to *)

Find(q, id)   == {i \in DOMAIN q.open : q.open[i].id = id}
AtMost(s, n)  == IF Len(s) > n THEN SubSeq(s, Len(s) - n + 1, Len(s)) ELSE s

(* begin: the oldest turn goes when too many are open.                     *)
Begin(q, id) ==
    [q EXCEPT !.open = AtMost(Append(@, NewTurn(id, q.pendingStop)), MaxOpenTurns),
              !.pendingStop = "", !.heldStop = "", !.settled = FALSE]

BeginMinted(q) == Begin([q EXCEPT !.minted = @ + 1], Minted(q.minted + 1))

(* body: the open turn with the id, or the current one for an event        *)
(* without; begun when there is none, unless the turn was reported.        *)
Body(q, id) ==
    CASE id = NoId -> IF q.open = <<>> THEN BeginMinted(q) ELSE q
      [] OTHER -> IF Find(q, id) # {} \/ Contains(q.finished, id) THEN q ELSE Begin(q, id)

BodyIndex(q, id) == IF id = NoId THEN {Len(q.open)} ELSE Find(q, id)

Logged(t, e) == [t EXCEPT !.log = Append(@, e)]

(* An event e of a turn's body, whose effect on the turn is F; one that is *)
(* late for a reported turn has none.                                      *)
InBody(id, e, F(_)) ==
    LET q == Body(r, id) IN
    r' = [q EXCEPT !.open = [i \in DOMAIN @ |-> IF i \in BodyIndex(q, id)
                                                THEN F(Logged(@[i], e)) ELSE @[i]]]

Here(t) == Len(t.log)

-----------------------------------------------------------------------------
(* A turn's text *)

Shift(n, k) == IF n > k THEN n - k ELSE 0

ToolsShifted(tools, k)  == [i \in DOMAIN tools |-> [tools[i] EXCEPT !.blocksAt = Shift(@, k)]]
SignalsShifted(sigs, k) == [i \in DOMAIN sigs |-> [sigs[i] EXCEPT !.at = Shift(@, k)]]

(* Mutant: positions are left alone.                                       *)
BlocksNotShifted(t, k) == t

(* blocksShifted: positions count blocks, so they move when blocks go.     *)
BlocksShifted(t, k) ==
    [t EXCEPT !.tools   = ToolsShifted(@, k), !.signals = SignalsShifted(@, k),
              !.pending = SignalsShifted(@, k)]

(* trim: the oldest blocks go first, never the last.                       *)
Trim(t) ==
    IF Len(t.blocks) <= MaxBlocks THEN t
    ELSE BlocksShifted([t EXCEPT !.blocks = AtMost(@, MaxBlocks)], Len(t.blocks) - MaxBlocks)

(* addDelta: a named block is continued wherever it is, an anonymous one   *)
(* as long as no tool or permission event came between.                    *)
AddDelta(t, d) ==
    LET parts == IF d.blank THEN {} ELSE {Here(t)}
        into  == IF d.block # "" THEN {i \in DOMAIN t.blocks : t.blocks[i].id = d.block}
                 ELSE IF t.anonOpen THEN {Len(t.blocks)} ELSE {}
        grown == [i \in DOMAIN t.blocks |->
                     IF i \notin into THEN t.blocks[i]
                     ELSE [t.blocks[i] EXCEPT !.parts = @ \cup parts, !.final = @ \/ d.final]]
        fresh == [id |-> d.block, final |-> d.final, parts |-> parts, begun |-> Here(t)]
    IN  Trim([t EXCEPT !.blocks = IF into = {} THEN Append(@, fresh) ELSE grown,
                       !.anonOpen = d.block = ""])

Boundary(t) == [t EXCEPT !.anonOpen = FALSE]

(* pick: the terminal event's own text, else the last final block, else    *)
(* the last block, of those after position from.                           *)
NoText == [source |-> "none", parts |-> {}]

Pick(t, from, term) ==
    LET said  == {i \in from + 1 .. Len(t.blocks) : t.blocks[i].parts # {}}
        final == {i \in said : t.blocks[i].final}
    IN  CASE term.text -> [source |-> "terminal", parts |-> {}]
          [] OTHER -> IF said = {} THEN NoText
                      ELSE [source |-> "block",
                            parts |-> t.blocks[Max(IF final # {} THEN final ELSE said)].parts]

-----------------------------------------------------------------------------
(* What in a turn needs the user *)

ToolIndex(t, id) == IF id = "" THEN {} ELSE {i \in DOMAIN t.tools :
                       t.tools[i].id = id /\ \A j \in DOMAIN t.tools : t.tools[j].id = id => j <= i}
EarlyIndex(t, id) == {i \in DOMAIN t.early : id # "" /\ t.early[i].id = id}
ForgetEarly(t, id) ==
    IF EarlyIndex(t, id) = {} THEN t
    ELSE [t EXCEPT !.early = RemoveAt(@, CHOOSE i \in EarlyIndex(t, id) : TRUE)]

(* Mutant: facts that came before the call are lost.                       *)
AddToolAfresh(t, id, question) ==
    LET tool == [id |-> id, blocksAt |-> Len(t.blocks), seq |-> t.seq + 1,
                 question |-> question, facts |-> NoFacts, called |-> Here(t)]
    IN  [t EXCEPT !.seq = @ + 1, !.tools = AtMost(Append(@, tool), MaxTools)]

(* addTool: the call claims what was learned about it before it arrived.   *)
AddTool(t, id, question) ==
    LET facts == IF EarlyIndex(t, id) = {} THEN NoFacts
                 ELSE t.early[CHOOSE i \in EarlyIndex(t, id) : TRUE].facts
        tool  == [id |-> id, blocksAt |-> Len(t.blocks), seq |-> t.seq + 1,
                  question |-> question, facts |-> facts, called |-> Here(t)]
    IN  [ForgetEarly(t, id) EXCEPT !.seq = @ + 1, !.tools = AtMost(Append(@, tool), MaxTools)]

(* factsFor: with the call, or in a bounded holding place until it comes.  *)
FactsFor(t, id) ==
    IF ToolIndex(t, id) # {} THEN t.tools[CHOOSE i \in ToolIndex(t, id) : TRUE].facts
    ELSE IF EarlyIndex(t, id) # {} THEN t.early[CHOOSE i \in EarlyIndex(t, id) : TRUE].facts
    ELSE NoFacts

WithFacts(s, I, f) == [i \in DOMAIN s |-> IF i \in I THEN [s[i] EXCEPT !.facts = f] ELSE s[i]]

SetFacts(t, id, f) ==
    IF ToolIndex(t, id) # {}
    THEN [t EXCEPT !.tools = WithFacts(@, ToolIndex(t, id), f)]
    ELSE IF EarlyIndex(t, id) # {} THEN [t EXCEPT !.early = WithFacts(@, EarlyIndex(t, id), f)]
    ELSE [t EXCEPT !.early = AtMost(Append(@, [id |-> id, facts |-> f]), MaxEarly)]

(* toolResult: the first result of a call is the one that counts.          *)
ToolResult(t, id, isError) ==
    IF id = "" \/ FactsFor(t, id).has THEN t
    ELSE SetFacts([t EXCEPT !.seq = @ + 1], id,
                  [FactsFor(t, id) EXCEPT !.has = TRUE, !.isError = isError, !.at = t.seq + 1])

(* A signal: what it asks, whether it says anything itself, and its place: *)
(* a tool call's when byTool, else the point where it arrived.             *)
Signal(t, kind, said, byTool, id, toolCall) ==
    [kind |-> kind, said |-> said, byTool |-> byTool, toolID |-> id, toolCall |-> toolCall,
     at |-> Len(t.blocks), seq |-> t.seq, raised |-> Here(t)]

AddSignal(t, sig) == [t EXCEPT !.signals = AtMost(Append(@, sig), MaxSignals)]

ToolUse(t, id, question, said) ==
    LET u == AddTool(Boundary(t), id, question) IN
    IF question THEN AddSignal(u, Signal(u, "question", said, id # "", id, TRUE)) ELSE u

RaiseApproval(t, id) ==
    LET u == IF id = "" THEN t ELSE SetFacts(t, id, [FactsFor(t, id) EXCEPT !.refused = TRUE]) IN
    AddSignal(u, [Signal(u, "approval", TRUE, TRUE, id, FALSE) EXCEPT !.at = 0, !.seq = 0])

Request(t) == [t EXCEPT !.pending =
                  AtMost(Append(@, Signal(t, "approval", TRUE, FALSE, "", FALSE)), MaxPending)]

(* resolve: the request an id names (by its place in the log), else the    *)
(* oldest; a refusal becomes a signal where the request was.               *)
Resolve(t, request, allowed) ==
    LET named == {i \in DOMAIN t.pending : t.pending[i].raised = request}
        i     == IF named # {} THEN Min(named) ELSE 1
        sig   == IF t.pending = <<>> THEN Signal(t, "approval", TRUE, FALSE, "", FALSE)
                 ELSE t.pending[i]
        u     == IF t.pending = <<>> THEN t ELSE [t EXCEPT !.pending = RemoveAt(@, i)]
    IN  IF allowed THEN u ELSE AddSignal(u, sig)

(* place: the block position of a signal, and the point past which a call  *)
(* is work; below everything (-1) is written as a flag, old.               *)
Place(t, sig) ==
    LET i == CHOOSE j \in ToolIndex(t, sig.toolID) : TRUE IN
    CASE ~sig.byTool -> [at |-> sig.at, after |-> sig.seq, old |-> FALSE]
      [] sig.byTool /\ sig.toolID = "" ->
           IF t.tools = <<>> THEN [at |-> 0, after |-> 0, old |-> FALSE]
           ELSE [at |-> Last(t.tools).blocksAt, after |-> Last(t.tools).seq, old |-> FALSE]
      [] OTHER -> IF ToolIndex(t, sig.toolID) = {} THEN [at |-> 0, after |-> 0, old |-> TRUE]
                  ELSE [at |-> t.tools[i].blocksAt, old |-> FALSE,
                        after |-> IF t.tools[i].facts.has THEN t.tools[i].facts.at ELSE t.tools[i].seq]

(* open: no work after the signal, and no answer to the question call.     *)
Open(t, sig) ==
    /\ ~ (/\ sig.toolCall
          /\ \E i \in ToolIndex(t, sig.toolID) : t.tools[i].facts.has /\ ~t.tools[i].facts.isError)
    /\ \A i \in DOMAIN t.tools :
          (Place(t, sig).old \/ t.tools[i].seq > Place(t, sig).after)
             => t.tools[i].question \/ t.tools[i].facts.refused

(* openSignal: the last open question, else the last open approval; a      *)
(* request nobody answered counts as one.                                  *)
AllSignals(t) == t.signals \o t.pending
OpenSignal(t, kind) == {i \in DOMAIN AllSignals(t) : AllSignals(t)[i].kind = kind /\ Open(t, AllSignals(t)[i])}
EndedOn(t) ==
    LET of(kind) == OpenSignal(t, kind) IN
    IF of("question") # {} THEN {AllSignals(t)[Max(of("question"))]}
    ELSE IF of("approval") # {} THEN {AllSignals(t)[Max(of("approval"))]} ELSE {}

(* signalText: the text after the signal, else the signal's own words,     *)
(* else the turn's ordinary pick.                                          *)
SignalText(t, sig, term) ==
    LET at == Place(t, sig).at IN
    IF \E i \in at + 1 .. Len(t.blocks) : t.blocks[i].parts # {} THEN Pick(t, at, term)
    ELSE CASE term.text /\ t.blocks = <<>> -> [source |-> "terminal", parts |-> {}]
           [] OTHER -> IF sig.said THEN [source |-> "signal", parts |-> {}] ELSE Pick(t, 0, term)

-----------------------------------------------------------------------------
(* How a turn ends *)

(* ending: whether a terminal event without a turn id, with no turn open,  *)
(* repeats the one that ended the last turn.                               *)
Repeats(q, term) ==
    LET stop == IF term.stop # "" THEN term.stop ELSE q.heldStop IN
    /\ q.settled
    /\ IF term.failed THEN term.err # "" /\ term.err = q.lastError
       ELSE stop # Cancelled /\ q.lastDone = [stop |-> stop, text |-> term.text]

(* finish: the Reducer's memory of how the turn ended.                     *)
Forget(q, id, term, stop) ==
    LET open == IF Find(q, id) = {} THEN q.open
                ELSE RemoveAt(q.open, CHOOSE i \in Find(q, id) : TRUE) IN
    [q EXCEPT !.open = open, !.finished = AtMost(Append(@, id), FinishedMemory),
              !.settled = open = <<>>, !.pendingStop = "", !.heldStop = "",
              !.lastError = IF term.failed THEN term.err ELSE @,
              !.lastDone = IF term.failed THEN [stop |-> "", text |-> FALSE]
                           ELSE [stop |-> stop, text |-> term.text]]

StopOf(t, term) == IF term.stop # "" THEN term.stop ELSE t.usageStop
Cut(t, term)    == term.cut \/ (term.failed /\ term.reason # "") \/ StopOf(t, term) = Cancelled

KindOf(t, term) ==
    CASE Cut(t, term) -> "terminal"
      [] ~Cut(t, term) /\ term.failed -> "failure"
      [] OTHER -> IF EndedOn(t) = {} THEN "final" ELSE (CHOOSE s \in EndedOn(t) : TRUE).kind

TextOf(t, term) ==
    CASE KindOf(t, term) \in {"question", "approval"} ->
           SignalText(t, CHOOSE s \in EndedOn(t) : TRUE, term)
      [] KindOf(t, term) = "failure" -> NoText
      [] OTHER -> Pick(t, 0, term)

Finish(q, t, term) ==
    /\ r' = Forget(q, t.id, term, StopOf(t, term))
    /\ out' = [kind |-> KindOf(t, term), text |-> TextOf(t, term), stop |-> StopOf(t, term),
               term |-> term, turn |-> t]
    /\ reported' = Append(reported, t.id)

Swallow == UNCHANGED <<r, out, reported>>

(* A terminal event: of the turn with its id, of the current turn, or of a *)
(* turn that had no other event.                                           *)
End(id, term) ==
    CASE id # NoId /\ Find(r, id) # {} -> Finish(r, r.open[CHOOSE i \in Find(r, id) : TRUE], term)
      [] id # NoId /\ Find(r, id) = {} ->
           IF Contains(r.finished, id) THEN Swallow ELSE Finish(r, NewTurn(id, ""), term)
      [] OTHER -> IF r.open # <<>> THEN Finish(r, Last(r.open), term)
                  ELSE IF Repeats(r, term) THEN Swallow
                  ELSE Finish([r EXCEPT !.minted = @ + 1],
                              NewTurn(Minted(r.minted + 1),
                                      IF r.heldStop # "" THEN r.heldStop ELSE r.pendingStop), term)

-----------------------------------------------------------------------------
(* The feeds *)

Ids == IF feed = "envelope" THEN TurnIds ELSE {NoId}

InTurn == {"delta", "call", "fact", "request"}
Spend(sort, max) ==
    /\ count[sort] < max
    /\ sort \in InTurn => count.delta + count.call + count.fact + count.request < MaxBody
    /\ count' = [count EXCEPT ![sort] = @ + 1]
Quiet == last' = <<>> /\ UNCHANGED <<feed, out, reported>>

Deltas == [block : {""}, final : {FALSE}, blank : BOOLEAN]
             \cup [block : {"b"}, final : BOOLEAN, blank : {FALSE}]

Delta == \E id \in Ids, d \in Deltas :
    /\ Spend("delta", MaxDeltas) /\ Quiet
    /\ InBody(id, [ev |-> "delta"], LAMBDA t : AddDelta(t, d))

(* turn.started and thoughts only open the turn, a spawn ends a text run.  *)
Mark == \E id \in Ids, spawn \in BOOLEAN :
    /\ Spend("delta", MaxDeltas) /\ Quiet
    /\ InBody(id, [ev |-> "mark"], LAMBDA t : IF spawn THEN Boundary(t) ELSE t)

(* Call ids are the runtime's and name one call of a turn.                 *)
Fresh(call) == \A i \in DOMAIN r.open : \A j \in DOMAIN r.open[i].log :
                  r.open[i].log[j].ev = "tool" => call = "" \/ r.open[i].log[j].id # call

ToolUseEvent == \E id \in Ids, call \in CallIds \cup {""}, question, said \in BOOLEAN :
    /\ Spend("call", MaxCalls) /\ Quiet /\ Fresh(call) /\ (said => question)
    /\ InBody(id, [ev |-> "tool", id |-> call, question |-> question],
              LAMBDA t : ToolUse(t, call, question, said))

ToolResultEvent == \E id \in Ids, call \in CallIds, isError \in BOOLEAN :
    /\ Spend("fact", MaxFacts) /\ Quiet
    /\ InBody(id, [ev |-> "result", id |-> call, isError |-> isError],
              LAMBDA t : ToolResult(Boundary(t), call, isError))

PermissionDenied == \E id \in Ids, call \in CallIds \cup {""} :
    /\ Spend("fact", MaxFacts) /\ Quiet
    /\ InBody(id, [ev |-> "denied", id |-> call], LAMBDA t : RaiseApproval(Boundary(t), call))

(* Requests are envelopes; a question by request has no tool call.         *)
PermissionRequested == \E id \in Ids, question \in BOOLEAN :
    /\ feed = "envelope" /\ Spend("request", MaxRequests) /\ Quiet
    /\ InBody(id, [ev |-> IF question THEN "asked" ELSE "requested"],
              LAMBDA t : IF question
                         THEN AddSignal(Boundary(t), Signal(t, "question", TRUE, FALSE, "", FALSE))
                         ELSE Request(Boundary(t)))

Requested == {0} \cup UNION {{t.pending[i].raised : i \in DOMAIN t.pending} : t \in Range(r.open)}

PermissionResolved == \E id \in Ids, request \in Requested, allowed \in BOOLEAN :
    /\ feed = "envelope" /\ Spend("request", MaxRequests) /\ Quiet
    /\ InBody(id, [ev |-> "resolved", request |-> request, allowed |-> allowed],
              LAMBDA t : Resolve(Boundary(t), request, allowed))

(* Mutant: a stop reason outside a turn is always the next turn's.         *)
NoteStopForNext(stop) ==
    IF r.open # <<>> THEN r' = [r EXCEPT !.open[Len(r.open)].usageStop = stop]
    ELSE r' = [r EXCEPT !.pendingStop = stop]

(* noteStop: for the current turn, the next one, or, once a turn has just  *)
(* ended, held until the next event says which.                            *)
NoteStop(stop) ==
    CASE r.open # <<>> -> r' = [r EXCEPT !.open[Len(r.open)].usageStop = stop]
      [] r.open = <<>> /\ r.settled -> r' = [r EXCEPT !.heldStop = stop]
      [] OTHER -> r' = [r EXCEPT !.pendingStop = stop]

Usage == \E stop \in Stops :
    /\ feed = "idless" /\ Spend("usage", MaxUsages) /\ Quiet
    /\ NoteStop(stop)

Ends == [failed : {FALSE}, err : {""}, cut : {FALSE}, reason : {""},
         stop : {"", Cancelled}, text : BOOLEAN]
          \cup [failed : {TRUE}, err : {"", "e"}, cut : {FALSE}, stop : {""}, text : {FALSE},
                reason : IF feed = "envelope" THEN {"", "interrupted"} ELSE {""}]

TurnEnd == \E id \in Ids, term \in Ends :
    /\ Spend("end", MaxEnds) /\ End(id, term)
    /\ last' = <<term>> /\ UNCHANGED feed

(* process.exited, and Flush by a host that knows the session is gone.     *)
SessionGone == \E cut \in BOOLEAN :
    /\ feed = "envelope" \/ cut
    /\ r.open # <<>> /\ Spend("end", MaxEnds)
    /\ Finish(r, Last(r.open), [failed |-> TRUE, err |-> "", cut |-> cut, stop |-> "",
                                reason |-> "process_exited", text |-> FALSE])
    /\ last' = <<>> /\ UNCHANGED feed

OutNext == \/ Delta \/ Mark \/ ToolUseEvent \/ ToolResultEvent \/ PermissionDenied
           \/ PermissionRequested \/ PermissionResolved \/ Usage \/ TurnEnd \/ SessionGone

OutSpec == OutInit /\ [][OutNext]_outVars

-----------------------------------------------------------------------------
(* What kind a completed turn is, defined on the turn's events alone       *)

Events(log, ev)    == {i \in DOMAIN log : log[i].ev = ev}
CallOf(log, id)    == {i \in Events(log, "tool") : log[i].id = id /\ id # ""}
ResultOf(log, id)  == {i \in Events(log, "result") : log[i].id = id}
DeniedOf(log, id)  == {i \in Events(log, "denied") : log[i].id = id /\ id # ""}
Earliest(S)        == IF S = {} THEN 0 ELSE Min(S)
Latest(S)          == IF S = {} THEN 0 ELSE Max(S)

(* Work is a call that was not refused and does not only ask.              *)
Work(log) == {i \in Events(log, "tool") : ~log[i].question /\ DeniedOf(log, log[i].id) = {}}

(* The point of a call: its first result, or its start.                    *)
PointOf(log, id) == CASE CallOf(log, id) = {} -> 0
                      [] OTHER -> IF ResultOf(log, id) # {} THEN Earliest(ResultOf(log, id))
                                  ELSE Earliest(CallOf(log, id))

QuestionPoints(log) ==
    Events(log, "asked") \cup
    {IF log[i].id = "" THEN i ELSE PointOf(log, log[i].id) :
        i \in {j \in Events(log, "tool") : log[j].question /\
                  ~\E k \in ResultOf(log, log[j].id) :
                      k = Earliest(ResultOf(log, log[j].id)) /\ ~log[k].isError}}

ApprovalPoints(log) ==
    {IF log[i].id = "" THEN Latest(Events(log, "tool")) ELSE PointOf(log, log[i].id) :
        i \in Events(log, "denied")}
    \cup {i \in Events(log, "requested") :
             ~\E j \in Events(log, "resolved") : log[j].request = i /\ log[j].allowed}

ReferenceKind(log) ==
    LET endsOn(points) == \E p \in points : \A w \in Work(log) : w <= p IN
    IF endsOn(QuestionPoints(log)) THEN "question"
    ELSE IF endsOn(ApprovalPoints(log)) THEN "approval" ELSE "final"

(* The turn stayed within what a turn remembers, and every resolution      *)
(* named a request of the turn that nothing had resolved.                  *)
Remembered(log) ==
    /\ Cardinality(Events(log, "tool")) <= MaxTools
    /\ Cardinality(Events(log, "requested")) <= MaxPending
    /\ Cardinality(Events(log, "result") \cup Events(log, "denied")) <= MaxEarly
    /\ Cardinality(UNION {Events(log, e) : e \in {"tool", "denied", "asked", "resolved"}}) <= MaxSignals
    /\ \A i \in Events(log, "resolved") :
          /\ log[i].request \in Events(log, "requested") /\ log[i].request < i
          /\ \A j \in Events(log, "resolved") : log[j].request = log[i].request => i = j

(* Where the signal a turn ended on stands among its events.               *)
StandsAt(log, sig) == CASE ~sig.byTool -> sig.raised
                        [] OTHER -> IF sig.toolID = "" THEN Latest(Events(log, "tool"))
                                    ELSE Earliest(CallOf(log, sig.toolID))

-----------------------------------------------------------------------------
(* Properties *)

(* The Reducer's memory has its shape and stays within its bounds.         *)
OutTypeOK ==
    /\ Len(r.open) <= MaxOpenTurns /\ Len(r.finished) <= FinishedMemory
    /\ r.settled \in BOOLEAN /\ {r.heldStop, r.pendingStop} \subseteq Stops \cup {""}
    /\ \A i \in DOMAIN r.open : LET t == r.open[i] IN
          /\ Len(t.blocks) <= MaxBlocks /\ Len(t.tools) <= MaxTools
          /\ Len(t.early) <= MaxEarly /\ Len(t.signals) <= MaxSignals
          /\ Len(t.pending) <= MaxPending
          /\ t.anonOpen => t.blocks # <<>> /\ Last(t.blocks).id = ""

(* At most one Output per turn: events that come late for one of the last  *)
(* FinishedMemory turns reported never open it again (finish, body).       *)
OncePerTurn ==
    \A i, j \in DOMAIN reported : i < j /\ reported[i] = reported[j] => j - i > FinishedMemory

(* The kind does not depend on the order in which a refusal, a result and  *)
(* the call they name arrive: it is what the events of the turn say.       *)
KindMatchesReference ==
    out.kind \in {"final", "question", "approval"} /\ Remembered(out.turn.log)
       => out.kind = ReferenceKind(out.turn.log)

(* The text of a question or an approval is what the agent wrote after the *)
(* signal, if it wrote any, and never what it wrote before, even when the  *)
(* oldest blocks were dropped in between (signalText, blocksShifted).      *)
TextFollowsSignal ==
    out.kind \in {"question", "approval"} /\ Remembered(out.turn.log) =>
        LET t  == out.turn
            s  == CHOOSE sig \in EndedOn(t) : TRUE
            at == StandsAt(t.log, s)
        IN  /\ t.blocks # <<>> /\ Last(t.blocks).begun > at /\ Last(t.blocks).parts # {}
                  => out.text.source \in {"block", "terminal"}
            /\ out.text.source = "block" /\ s.said => \A p \in out.text.parts : p > at

(* A stop reason that trails a finished turn is not taken for the next     *)
(* turn's: a turn that opens while the last one has just ended, and stays  *)
(* open after its first event, has none.                                   *)
TrailingStopDropped ==
    [][r.settled /\ Len(r'.open) = 1 => r'.open[1].usageStop = ""]_outVars

(* A terminal event without a turn id that yields no Output.               *)
Swallowed == feed = "idless" /\ count'.end > count.end /\ reported' = reported

(* After a completed turn a Done is taken for a repeat only if it has the  *)
(* same text and neither was cancelled: an interrupted turn that said      *)
(* nothing is reported (ending).                                           *)
LoneDoneReported ==
    [][\A term \in Ends : Swallowed /\ last' = <<term>> /\ ~term.failed /\ ~out.term.failed =>
          out.term.text = term.text /\ Cancelled \notin {out.stop, term.stop}]_outVars

(* An Output comes once for a turn, and its text answers its signal.       *)
OutInv == OutTypeOK /\ OncePerTurn /\ TextFollowsSignal

(* A stop reason that trails a turn is not in the next one, if that stays  *)
(* open, and after a completed turn no other turn's Done is swallowed for  *)
(* looking like its own, unless it has the same text.                      *)
EndsKeptApart == TrailingStopDropped /\ LoneDoneReported
=============================================================================
