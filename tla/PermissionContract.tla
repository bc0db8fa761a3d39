--------------------------- MODULE PermissionContract ---------------------------
(***************************************************************************)
(* What the permission coordinator promises its client, without goroutines,*)
(* locks, counters or contexts (the doc comments of acp/permission.go):    *)
(*   - a request belongs to the turn open when it arrived, or to none;     *)
(*   - it is decided once, and an option can be selected only while that   *)
(*     turn still accepts: nobody cancelled, ended, superseded or closed it;*)
(*   - a turn is over only when every request it counts has been answered. *)
(***************************************************************************)
EXTENDS Naturals

CONSTANTS Requests, MaxTurns

VARIABLES
  turnState, \* per turn: "future", "accepting", "revoked" or "over"
  owner,     \* the turn a request belongs to; 0 = none
  counts,    \* requests their turn has to wait for
  state      \* per request: "unsent", "open", "selected", "declined", "answered"

contractVars == <<turnState, owner, counts, state>>

Turns == 1..MaxTurns
Accepting(g) == g \in Turns /\ turnState[g] = "accepting"

Init ==
  /\ turnState = [g \in Turns |-> "future"]
  /\ owner = [r \in Requests |-> 0]
  /\ counts = {}
  /\ state = [r \in Requests |-> "unsent"]

\* A request arrives and belongs to an accepting turn, or to none; g may be a
\* cancelled turn that has not ended yet, whose requests are still waited for.
Arrive(r, g) ==
  /\ state[r] = "unsent"
  /\ g # 0 => turnState[g] \in {"accepting", "revoked"}
  /\ state' = [state EXCEPT ![r] = "open"]
  /\ owner' = [owner EXCEPT ![r] = g]
  /\ \/ g # 0 /\ counts' = counts \cup {r}
     \/ UNCHANGED counts
  /\ UNCHANGED turnState

Select(r) ==
  /\ state[r] = "open" /\ Accepting(owner[r])
  /\ state' = [state EXCEPT ![r] = "selected"]
  /\ UNCHANGED <<turnState, owner, counts>>

Decline(r) ==
  /\ state[r] = "open"
  /\ state' = [state EXCEPT ![r] = "declined"]
  /\ UNCHANGED <<turnState, owner, counts>>

Answer(r) ==
  /\ state[r] \in {"selected", "declined"}
  /\ state' = [state EXCEPT ![r] = "answered"]
  /\ UNCHANGED <<turnState, owner, counts>>

\* At most one turn accepts: opening one revokes the one before.  A turn opened
\* on a closed session never accepts.
Open(g, s) ==
  /\ turnState[g] = "future" /\ s \in {"accepting", "revoked"}
  /\ turnState' = [h \in Turns |-> IF h = g THEN s
                                   ELSE IF turnState[h] = "accepting" THEN "revoked"
                                   ELSE turnState[h]]
  /\ UNCHANGED <<owner, counts, state>>

Revoke(G) ==
  /\ turnState' = [g \in Turns |-> IF g \in G /\ turnState[g] = "accepting"
                                   THEN "revoked" ELSE turnState[g]]
  /\ UNCHANGED <<owner, counts, state>>

End(g) ==
  /\ turnState[g] = "revoked"
  /\ \A r \in counts : owner[r] = g => state[r] = "answered"
  /\ turnState' = [turnState EXCEPT ![g] = "over"]
  /\ UNCHANGED <<owner, counts, state>>

Next ==
  \/ \E r \in Requests : \/ \E g \in 0..MaxTurns : Arrive(r, g)
                         \/ Select(r) \/ Decline(r) \/ Answer(r)
  \/ \E g \in Turns : End(g) \/ \E s \in {"accepting", "revoked"} : Open(g, s)
  \/ \E G \in SUBSET Turns : Revoke(G)

Spec == Init /\ [][Next]_contractVars
================================================================================
