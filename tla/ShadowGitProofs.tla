----------------------------- MODULE ShadowGitProofs -----------------------------
(***************************************************************************)
(* Proofs about the snapshot provider, for any callers, paths, contents    *)
(* and numbers of captures, calls, edits and crashes.                      *)
(*                                                                         *)
(* The target's lock carries the argument: what a capture, a restore or a  *)
(* cleanup knows of the store stays so because only the lock's holder      *)
(* changes it (Bystander), and a crash ends every call at once.            *)
(***************************************************************************)
EXTENDS ShadowGit, Integers, SequenceTheorems, TLAPS

InOrder(c) == LockInOrder(c) /\ CaptureInOrder(c) /\ RestoreInOrder(c) /\ CleanupInOrder(c)

\* A store that is not there has no index.
NoRepoNoIndex == ~repo => index = Nothing

\* The inductive invariant.
StoreInv ==
    /\ SnapTypeOK /\ CaptureTruthful /\ RetainedRestorable /\ NoRepoNoIndex
    /\ \A c \in Callers : InOrder(c)

-----------------------------------------------------------------------------
(* Lemmas about the operators *)

\* The member of a singleton.
LEMMA OnlyOne == \A x : (CHOOSE y \in {x} : TRUE) = x
  OBVIOUS

\* A call that is over, and a tree without files.
LEMMA IdleTyped == Idle \in Calls /\ Idle.pc = "idle" /\ Nothing \in Tree
<1>1. Nothing \in Tree
  BY DEF Nothing, Tree, OnDisk
<1>2. [p \in Paths |-> {}] \in [Paths -> SUBSET OnDisk]
  OBVIOUS
<1>3. NoTree \in Tree \cup {NoTree}
  OBVIOUS
<1> HIDE DEF NoTree, Tree, OnDisk
<1> QED
  BY <1>1, <1>2, <1>3 DEF Idle, Calls

\* What a capture gives its host, and what one that failed leaves.
LEMMA SnapshotTyped ==
  ASSUME SnapTypeOK, NEW c \in Callers
  PROVE  /\ RootSnapshot(c) \in Snapshots /\ RootSnapshot(c).tree = call[c].wrote
         /\ RootSnapshot(c).scope = call[c].scope
         /\ \A p : Held(RootSnapshot(c), p) = Held(call[c], p)
<1>1. call[c] \in Calls
  BY DEF SnapTypeOK
<1>2. /\ call[c].scope \in SUBSET Paths /\ call[c].skipped \in SUBSET Paths
      /\ call[c].apart \in SUBSET Paths /\ call[c].wrote \in Tree \cup {NoTree}
      /\ call[c].saw \in [Paths -> SUBSET OnDisk]
  BY <1>1 DEF Calls
<1>3. RootSnapshot(c) \in Snapshots
  BY <1>2 DEF RootSnapshot, Snapshots
<1>4. /\ RootSnapshot(c).tree = call[c].wrote /\ RootSnapshot(c).scope = call[c].scope
      /\ RootSnapshot(c).skipped = call[c].skipped /\ RootSnapshot(c).apart = call[c].apart
      /\ RootSnapshot(c).saw = call[c].saw
  BY DEF RootSnapshot
<1> QED
  BY <1>3, <1>4 DEF Held, LeftOut

LEMMA FailedTyped == FailedRoot \in Snapshots /\ FailedRoot.tree = NoTree
<1>1. [p \in Paths |-> {}] \in [Paths -> SUBSET OnDisk]
  OBVIOUS
<1>2. NoTree \in Tree \cup {NoTree}
  OBVIOUS
<1> HIDE DEF NoTree, Tree, OnDisk
<1> QED
  BY <1>1, <1>2 DEF FailedRoot, Snapshots

\* What a Purge leaves of the refs.
LEMMA SomeRefsFacts ==
  ASSUME refs \in Seq(Tree), NEW q \in SomeRefs
  PROVE  q \in Seq(Tree) /\ Len(q) <= Len(refs) /\ Len(q) \in Nat
<1>1. PICK n \in 0..Len(refs) :
        q \in {[i \in 1..n |-> refs[at[i]]] :
               at \in {f \in [1..n -> DOMAIN refs] : \A i, j \in 1..n : i < j => f[i] < f[j]}}
  BY DEF SomeRefs
<1>2. PICK at \in [1..n -> DOMAIN refs] : q = [i \in 1..n |-> refs[at[i]]]
  BY <1>1
<1>3. Len(refs) \in Nat /\ n \in Nat /\ n <= Len(refs)
  OBVIOUS
<1>4. ASSUME NEW i \in 1..n PROVE refs[at[i]] \in Tree
  <2>1. at[i] \in DOMAIN refs
    BY <1>2
  <2> HIDE DEF Tree
  <2> QED
    BY <2>1
<1>5. q \in [1..n -> Tree]
  <2> HIDE DEF Tree
  <2> QED
    BY <1>2, <1>4
<1>6. q \in Seq(Tree) /\ Len(q) = n
  <2> HIDE DEF Tree
  <2> QED
    BY <1>3, <1>5
<1> QED
  BY <1>3, <1>6

\* A ref removed.
LEMMA RemoveAtFacts ==
  ASSUME NEW q \in Seq(Tree), NEW i \in 1..Len(q)
  PROVE  /\ RemoveAt(q, i) \in Seq(Tree) /\ Len(RemoveAt(q, i)) = Len(q) - 1
         /\ \A k \in 1..Len(RemoveAt(q, i)) : \E j \in 1..Len(q) : RemoveAt(q, i)[k] = q[j]
<1> DEFINE a == SubSeq(q, 1, i - 1)
           b == SubSeq(q, i + 1, Len(q))
<1>1. /\ a \in Seq(Tree) /\ Len(a) = i - 1
      /\ \A k \in 1..(i - 1) : a[k] = q[k]
  OBVIOUS
<1>2. /\ b \in Seq(Tree) /\ Len(b) = Len(q) - i
      /\ \A k \in 1..(Len(q) - i) : b[k] = q[k + i]
  OBVIOUS
<1>3. RemoveAt(q, i) = a \o b
  BY DEF RemoveAt
<1> HIDE DEF a, b
<1>4. /\ a \o b \in Seq(Tree) /\ Len(a \o b) = Len(q) - 1 /\ Len(q) \in Nat /\ i \in Nat
  <2>1. Len(q) \in Nat /\ i \in Nat
    OBVIOUS
  <2>2. a \o b \in Seq(Tree) /\ Len(a \o b) = Len(a) + Len(b)
    <3> HIDE DEF Tree
    <3> QED
      BY <1>1, <1>2, ConcatProperties
  <2>3. Len(a \o b) = Len(q) - 1
    BY <2>1, <2>2, <1>1, <1>2
  <2> QED
    BY <2>1, <2>2, <2>3
<1>5. /\ \A k \in 1..Len(a) : (a \o b)[k] = a[k]
      /\ \A k \in Len(a) + 1 .. Len(a) + Len(b) : (a \o b)[k] = b[k - Len(a)]
  BY <1>1, <1>2
<1>6. ASSUME NEW k \in 1..(Len(q) - 1) PROVE \E j \in 1..Len(q) : (a \o b)[k] = q[j]
  <2>1. CASE k <= i - 1
    <3>1. k \in 1..Len(a) /\ k \in 1..Len(q) /\ k \in 1..(i - 1)
      BY <1>1, <1>4, <2>1
    <3>2. (a \o b)[k] = q[k]
      BY <1>1, <1>5, <3>1
    <3> QED
      BY <3>1, <3>2
  <2>2. CASE k > i - 1
    <3>1. /\ k \in Len(a) + 1 .. Len(a) + Len(b)
          /\ k - Len(a) \in 1..(Len(q) - i) /\ k - Len(a) + i = k + 1 /\ k + 1 \in 1..Len(q)
      BY <1>1, <1>2, <1>4, <2>2
    <3>2. (a \o b)[k] = q[k + 1]
      BY <1>2, <1>5, <3>1
    <3> QED
      BY <3>1, <3>2
  <2> QED
    BY <2>1, <2>2, <1>4
<1> QED
  BY <1>3, <1>4, <1>6

-----------------------------------------------------------------------------
(* A step of one caller and the others *)

\* A caller that has the lock, takes it or touches nothing leaves the calls of the
\* others in order.
LEMMA Bystander ==
  ASSUME StoreInv, NEW c \in Callers, NEW d \in Callers \ {c},
         call'[d] = call[d], taken \subseteq taken',
         \/ lock \in {c, Nobody} /\ lock' \in {c, Nobody}
         \/ UNCHANGED <<lock, repo, meta, index, refs, disk, ignored>>
  PROVE  InOrder(d)'
<1>1. InOrder(d)
  BY DEF StoreInv
<1>2. SnapOf(d)' = SnapOf(d) /\ PathOf(d)' = PathOf(d)
  BY DEF SnapOf, PathOf
<1>3. RestoreInOrder(d)'
  BY <1>1, <1>2 DEF InOrder, RestoreInOrder, BlobAt, TreeOf
<1>4. CASE lock \in {c, Nobody} /\ lock' \in {c, Nobody}
  <2>1. call[d].pc \notin UnderLock /\ lock' # d
    BY <1>1, <1>4, SnapshotConstants DEF InOrder, LockInOrder
  <2>2. LockInOrder(d)' /\ CleanupInOrder(d)'
    BY <2>1 DEF LockInOrder, CleanupInOrder, UnderLock
  <2>3. CaptureInOrder(d)'
    BY <1>1, <2>1 DEF InOrder, CaptureInOrder, UnderLock
  <2> QED
    BY <1>3, <2>2, <2>3 DEF InOrder
<1>5. CASE UNCHANGED <<lock, repo, meta, index, refs, disk, ignored>>
  <2>1. LockInOrder(d)' /\ CaptureInOrder(d)' /\ CleanupInOrder(d)'
    BY <1>1, <1>5 DEF InOrder, LockInOrder, CaptureInOrder, CleanupInOrder, KeptApart
  <2> QED
    BY <1>3, <2>1 DEF InOrder
<1> QED
  BY <1>4, <1>5

\* A call that is over is in order.
LEMMA Over ==
  ASSUME NEW c \in Callers, call'[c] = Idle, lock' # c
  PROVE  InOrder(c)'
<1>1. call'[c].pc = "idle" /\ call'[c].skipped \subseteq call'[c].scope
  BY DEF Idle
<1> QED
  BY <1>1 DEF InOrder, LockInOrder, CaptureInOrder, RestoreInOrder, CleanupInOrder, UnderLock

\* A step of one caller keeps the invariant when it keeps the store, the captures
\* and the caller's own call in order.
LEMMA Assemble ==
  ASSUME StoreInv, NEW c \in Callers, NEW r \in Calls, call' = [call EXCEPT ![c] = r],
         \/ lock \in {c, Nobody} /\ lock' \in {c, Nobody}
         \/ UNCHANGED <<lock, repo, meta, index, refs, disk, ignored>>,
         repo' \in BOOLEAN, stale' \in BOOLEAN, root' \in BOOLEAN, meta' \in {"none", "mine", "torn"},
         index' \in Tree, disk' \in Tree, objects' \subseteq Tree, refs' \in Seq(Tree),
         whole' \in BOOLEAN, ignored' \subseteq Paths,
         taken \subseteq taken', taken' \subseteq Snapshots,
         CaptureTruthful', RetainedRestorable', NoRepoNoIndex', InOrder(c)'
  PROVE  StoreInv'
<1>1. call \in [Callers -> Calls] /\ lock \in Callers \cup {Nobody}
  BY DEF StoreInv, SnapTypeOK
<1>2. call' \in [Callers -> Calls] /\ \A d \in Callers \ {c} : call'[d] = call[d]
  BY <1>1
<1>3. SnapTypeOK'
  BY <1>1, <1>2 DEF SnapTypeOK
<1>4. \A d \in Callers \ {c} : InOrder(d)'
  BY <1>2, Bystander
<1> QED
  BY <1>3, <1>4 DEF StoreInv

\* A step that changes nothing but the call and the lock.
LEMMA CallOnly ==
  ASSUME StoreInv, NEW c \in Callers, NEW r \in Calls, call' = [call EXCEPT ![c] = r],
         lock' = lock \/ (lock \in {c, Nobody} /\ lock' \in {c, Nobody}),
         UNCHANGED <<store, tree, taken>>, InOrder(c)'
  PROVE  StoreInv'
<1>1. UNCHANGED <<repo, meta, index, stale, objects, refs, whole, root, disk, ignored, taken>>
  BY DEF store, tree
<1>2. CaptureTruthful' /\ RetainedRestorable' /\ NoRepoNoIndex'
  BY <1>1 DEF StoreInv, CaptureTruthful, RetainedRestorable, NoRepoNoIndex
<1>3. /\ repo' \in BOOLEAN /\ stale' \in BOOLEAN /\ root' \in BOOLEAN
      /\ meta' \in {"none", "mine", "torn"}
      /\ index' \in Tree /\ disk' \in Tree /\ objects' \subseteq Tree /\ refs' \in Seq(Tree)
      /\ whole' \in BOOLEAN /\ ignored' \subseteq Paths /\ taken' \subseteq Snapshots
  BY <1>1 DEF StoreInv, SnapTypeOK
<1> QED
  BY <1>1, <1>2, <1>3, Assemble

\* A call that gives up: it may leave the host an entry without a tree.
LEMMA GivesUp ==
  ASSUME StoreInv, NEW c \in Callers, lock = c, ReturnLocked(c),
         taken' = taken \/ taken' = taken \cup {FailedRoot},
         repo' \in BOOLEAN, stale' \in BOOLEAN, root' \in BOOLEAN, meta' \in {"none", "mine", "torn"},
         index' \in Tree, disk' \in Tree, objects' \subseteq Tree, refs' \in Seq(Tree),
         whole' \in BOOLEAN, ignored' \subseteq Paths, RetainedRestorable', NoRepoNoIndex'
  PROVE  StoreInv'
<1>1. SnapTypeOK /\ taken \subseteq Snapshots /\ call \in [Callers -> Calls]
  BY DEF StoreInv, SnapTypeOK
<1>2. FailedRoot \in Snapshots /\ FailedRoot.tree = NoTree
  BY FailedTyped
<1>3. CaptureTruthful'
  BY <1>2 DEF StoreInv, CaptureTruthful
<1>4. Idle \in Calls /\ call' = [call EXCEPT ![c] = Idle] /\ lock' = Nobody /\ call'[c] = Idle
  BY <1>1, IdleTyped DEF ReturnLocked, Return
<1>5. InOrder(c)'
  BY <1>4, Over, SnapshotConstants
<1>6. taken \subseteq taken' /\ taken' \subseteq Snapshots
  BY <1>1, <1>2
<1> QED
  BY <1>3, <1>4, <1>5, <1>6, Assemble

-----------------------------------------------------------------------------
(* The host's calls *)

\* A capture begins.
LEMMA StartCaptureKeeps ==
  ASSUME StoreInv, NEW c \in Callers, StartCapture(c) PROVE StoreInv'
<1>1. PICK scope \in (SUBSET Paths) \ {{}} :
        call' = [call EXCEPT ![c] = [Idle EXCEPT !.pc = "lock", !.scope = scope]]
  BY DEF StartCapture
<1> DEFINE r == [Idle EXCEPT !.pc = "lock", !.scope = scope]
<1>2. /\ r \in Calls /\ r.pc = "lock" /\ r.scope = scope /\ r.skipped = {}
  BY IdleTyped DEF Idle, Calls
<1> HIDE DEF r
<1>3. call' = [call EXCEPT ![c] = r] /\ call'[c] = r
  BY <1>1 DEF r, StoreInv, SnapTypeOK
<1>4. /\ lock' = lock /\ UNCHANGED <<store, tree, taken>> /\ At(c, "idle")
  BY DEF StartCapture
<1>5. lock # c
  BY <1>4 DEF StoreInv, InOrder, LockInOrder, At, UnderLock
<1>6. InOrder(c)'
  BY <1>2, <1>3, <1>4, <1>5
     DEF InOrder, LockInOrder, CaptureInOrder, RestoreInOrder, CleanupInOrder, UnderLock
<1> QED
  BY <1>2, <1>3, <1>4, <1>6, CallOnly

\* A restore opens the store, before it locks it.
LEMMA RestoreOpenKeeps ==
  ASSUME StoreInv, NEW c \in Callers, RestoreOpen(c) PROVE StoreInv'
<1>1. PICK s \in taken, p \in Paths :
        \/ call' = [call EXCEPT ![c] = [Idle EXCEPT !.pc = "restore", !.snap = {s}, !.path = {p}]]
        \/ call' = call
  BY DEF RestoreOpen
<1> DEFINE r == [Idle EXCEPT !.pc = "restore", !.snap = {s}, !.path = {p}]
<1>2. /\ r \in Calls /\ r.pc = "restore" /\ r.scope = {} /\ r.skipped = {}
      /\ r.snap = {s} /\ r.path = {p}
  <2>1. {s} \in SUBSET Snapshots
    BY DEF StoreInv, SnapTypeOK
  <2> QED
    BY <2>1, IdleTyped DEF Idle, Calls
<1> HIDE DEF r
<1>4. /\ lock' = lock /\ UNCHANGED <<store, tree, taken>> /\ At(c, "idle")
  BY DEF RestoreOpen
<1>5. lock # c
  BY <1>4 DEF StoreInv, InOrder, LockInOrder, At, UnderLock
<1>6. CASE call' = [call EXCEPT ![c] = r]
  <2>1. call'[c] = r
    BY <1>6 DEF StoreInv, SnapTypeOK
  <2>2. InOrder(c)'
    BY <1>2, <1>4, <1>5, <2>1
       DEF InOrder, LockInOrder, CaptureInOrder, RestoreInOrder, CleanupInOrder, UnderLock
  <2> QED
    BY <1>2, <1>4, <1>6, <2>2, CallOnly
<1>7. CASE call' = call
  <2>1. call' = [call EXCEPT ![c] = call[c]] /\ call[c] \in Calls /\ call'[c] = call[c]
    BY <1>7 DEF StoreInv, SnapTypeOK
  <2>2. call[c].pc = "idle" /\ call[c].skipped \subseteq call[c].scope
    BY <1>4 DEF At, StoreInv, InOrder, CaptureInOrder
  <2>3. InOrder(c)'
    BY <1>4, <1>5, <2>1, <2>2
       DEF InOrder, LockInOrder, CaptureInOrder, RestoreInOrder, CleanupInOrder, UnderLock
  <2> QED
    BY <1>4, <2>1, <2>3, CallOnly
<1> QED
  BY <1>1, <1>6, <1>7 DEF r

\* A call that goes on to its next stage.
LEMMA GotoFacts ==
  ASSUME SnapTypeOK, NEW c \in Callers, NEW x \in UnderLock \cup {"cleanup", "purge"}, Goto(c, x)
  PROVE  /\ call'[c] \in Calls /\ call' = [call EXCEPT ![c] = call'[c]] /\ call'[c].pc = x
         /\ call'[c].scope = call[c].scope /\ call'[c].skipped = call[c].skipped
         /\ call'[c].wrote = call[c].wrote /\ call'[c].saw = call[c].saw
         /\ call'[c].apart = call[c].apart
         /\ call'[c].snap = call[c].snap /\ call'[c].path = call[c].path
         /\ call'[c].doomed = call[c].doomed /\ call'[c].live = call[c].live
<1> DEFINE r == [call[c] EXCEPT !.pc = x]
<1>1. call \in [Callers -> Calls] /\ call[c] \in Calls
  BY DEF SnapTypeOK
<1>2. /\ r \in Calls /\ r.pc = x
      /\ r.scope = call[c].scope /\ r.skipped = call[c].skipped
      /\ r.wrote = call[c].wrote /\ r.saw = call[c].saw /\ r.apart = call[c].apart
      /\ r.snap = call[c].snap /\ r.path = call[c].path
      /\ r.doomed = call[c].doomed /\ r.live = call[c].live
  BY <1>1 DEF Calls
<1>3. call' = [call EXCEPT ![c] = r]
  BY DEF Goto
<1> HIDE DEF r
<1>4. call'[c] = r
  BY <1>1, <1>3
<1> QED
  BY <1>2, <1>3, <1>4

\* Where a call is tells whether it has the lock.
LEMMA HasLock ==
  ASSUME StoreInv, NEW c \in Callers
  PROVE  /\ SnapTypeOK /\ InOrder(c) /\ call[c] \in Calls /\ call \in [Callers -> Calls]
         /\ c # Nobody /\ (call[c].pc \in UnderLock <=> lock = c)
  BY SnapshotConstants DEF StoreInv, SnapTypeOK, InOrder, LockInOrder

\* The types of the store and the tree.
LEMMA StoreTyped ==
  ASSUME StoreInv
  PROVE  /\ repo \in BOOLEAN /\ stale \in BOOLEAN /\ root \in BOOLEAN
         /\ meta \in {"none", "mine", "torn"}
         /\ index \in Tree /\ disk \in Tree /\ objects \subseteq Tree /\ refs \in Seq(Tree)
         /\ whole \in BOOLEAN /\ ignored \subseteq Paths
         /\ taken \subseteq Snapshots /\ CaptureTruthful /\ RetainedRestorable /\ NoRepoNoIndex
  BY DEF StoreInv, SnapTypeOK

\* So does a cleanup; a purge opens nothing.
LEMMA CleanupOpenKeeps ==
  ASSUME StoreInv, NEW c \in Callers, CleanupOpen(c) \/ StartPurge(c) PROVE StoreInv'
<1>1. SnapTypeOK /\ InOrder(c) /\ call[c].pc = "idle" /\ lock # c
  BY HasLock DEF CleanupOpen, StartPurge, At, UnderLock
<1>2. /\ lock' = lock /\ UNCHANGED <<store, tree, taken>>
      /\ Goto(c, "cleanup") \/ Goto(c, "purge") \/ call' = call
  BY DEF CleanupOpen, StartPurge
<1>3. /\ call'[c] \in Calls /\ call' = [call EXCEPT ![c] = call'[c]]
      /\ call'[c].pc \in {"cleanup", "purge", "idle"}
      /\ call'[c].scope = call[c].scope /\ call'[c].skipped = call[c].skipped
  <2>1. CASE call' = call
    BY <1>1, <2>1 DEF SnapTypeOK
  <2> QED
    BY <1>1, <1>2, <2>1, GotoFacts
<1>4. InOrder(c)'
  BY <1>1, <1>2, <1>3
     DEF InOrder, LockInOrder, CaptureInOrder, RestoreInOrder, CleanupInOrder, UnderLock
<1> QED
  BY <1>2, <1>3, <1>4, CallOnly

-----------------------------------------------------------------------------
(* Capture *)

\* From its lock on, a capture has seen what the paths hold.
LEMMA CaptureLockKeeps ==
  ASSUME StoreInv, NEW c \in Callers, CaptureLock(c) PROVE StoreInv'
<1> DEFINE seen == [p \in Paths |-> IF p \in call[c].scope THEN {disk[p]} ELSE {}]
           kept == KeptApart(ignored) \cap call[c].scope
           r == [call[c] EXCEPT !.pc = "ensure", !.saw = seen, !.apart = kept]
<1>1. /\ SnapTypeOK /\ InOrder(c) /\ call[c] \in Calls /\ disk \in Tree
      /\ call \in [Callers -> Calls] /\ call[c].pc = "lock"
      /\ lock = Nobody /\ lock' = c /\ UNCHANGED <<store, tree, taken>>
  BY HasLock, StoreTyped DEF CaptureLock, At
<1>2. /\ seen \in [Paths -> SUBSET OnDisk] /\ \A p \in call[c].scope : disk[p] \in seen[p]
      /\ kept \in SUBSET Paths /\ KeptApart(ignored) \cap call[c].scope \subseteq kept
  BY <1>1 DEF Tree, Calls
<1>3. call' = [call EXCEPT ![c] = r]
  BY DEF CaptureLock
<1> HIDE DEF seen, kept
<1>4. /\ r \in Calls /\ r.pc = "ensure" /\ r.saw = seen /\ r.apart = kept
      /\ r.scope = call[c].scope /\ r.skipped = call[c].skipped
  BY <1>1, <1>2 DEF Calls, UnderLock
<1> HIDE DEF r
<1>5. /\ call'[c] = r /\ disk' = disk /\ KeptApart(ignored)' = KeptApart(ignored)
      /\ call[c].scope # {} /\ call[c].skipped \subseteq call[c].scope
  BY <1>1, <1>3 DEF store, tree, InOrder, CaptureInOrder, KeptApart
<1>6. InOrder(c)'
  BY <1>1, <1>2, <1>4, <1>5
     DEF InOrder, LockInOrder, CaptureInOrder, RestoreInOrder, CleanupInOrder, UnderLock
<1> QED
  BY <1>1, <1>3, <1>4, <1>6, CallOnly

\* A store that is there is used only when it is this target's.
LEMMA EnsureOpenKeeps ==
  ASSUME StoreInv, NEW c \in Callers, EnsureOpen(c) PROVE StoreInv'
<1>1. /\ SnapTypeOK /\ InOrder(c) /\ call[c].pc = "ensure" /\ lock = c /\ repo
      /\ UNCHANGED <<store, tree>>
  BY HasLock DEF EnsureOpen, At, UnderLock
<1>2. UNCHANGED <<repo, meta, index, stale, objects, refs, whole, root, disk, ignored>>
  BY <1>1 DEF store, tree
<1>3. CASE InfraFailure(c)
  <2>1. RetainedRestorable' /\ NoRepoNoIndex'
    BY <1>2, StoreTyped DEF RetainedRestorable, NoRepoNoIndex
  <2> QED
    BY <1>1, <1>2, <1>3, <2>1, StoreTyped, GivesUp DEF InfraFailure
<1>4. CASE ~InfraFailure(c)
  <2>1. meta = "mine" /\ Goto(c, "detect") /\ lock' = lock /\ taken' = taken
    BY <1>4 DEF EnsureOpen, VerifyMeta
  <2>2. /\ call'[c] \in Calls /\ call' = [call EXCEPT ![c] = call'[c]] /\ call'[c].pc = "detect"
        /\ call'[c].scope = call[c].scope /\ call'[c].skipped = call[c].skipped
        /\ call'[c].saw = call[c].saw /\ call'[c].apart = call[c].apart
    BY <1>1, <2>1, GotoFacts DEF UnderLock
  <2>3. InOrder(c)'
    BY <1>1, <1>2, <2>1, <2>2
       DEF InOrder, LockInOrder, CaptureInOrder, RestoreInOrder, CleanupInOrder, UnderLock, KeptApart
  <2> QED
    BY <1>1, <2>1, <2>2, <2>3, CallOnly
<1> QED
  BY <1>3, <1>4

\* A store that git init made, or half made, holds nothing.
LEMMA EnsureInitKeeps ==
  ASSUME StoreInv, NEW c \in Callers, EnsureInit(c) PROVE StoreInv'
<1>1. /\ SnapTypeOK /\ InOrder(c) /\ call[c].pc = "ensure" /\ lock = c
      /\ index' = Nothing /\ stale' = FALSE /\ objects' = {} /\ refs' = <<>> /\ whole' = TRUE
      /\ UNCHANGED <<meta, root, disk, ignored>> /\ repo' \in BOOLEAN /\ ~repo
  BY HasLock DEF EnsureInit, At, UnderLock, tree
<1>2. /\ RetainedRestorable' /\ NoRepoNoIndex'
      /\ index' \in Tree /\ refs' \in Seq(Tree) /\ objects' \subseteq Tree
  BY <1>1, IdleTyped DEF RetainedRestorable, NoRepoNoIndex
<1>5. index = Nothing
  BY <1>1, StoreTyped DEF NoRepoNoIndex
<1>3. CASE InfraFailure(c)
  BY <1>1, <1>2, <1>3, StoreTyped, GivesUp DEF InfraFailure
<1>4. CASE ~InfraFailure(c)
  <2>1. Goto(c, "meta") /\ lock' = lock /\ taken' = taken /\ repo'
    BY <1>4 DEF EnsureInit
  <2>2. /\ call'[c] \in Calls /\ call' = [call EXCEPT ![c] = call'[c]] /\ call'[c].pc = "meta"
        /\ call'[c].scope = call[c].scope /\ call'[c].skipped = call[c].skipped
        /\ call'[c].saw = call[c].saw /\ call'[c].apart = call[c].apart
    BY <1>1, <2>1, GotoFacts DEF UnderLock
  <2>3. InOrder(c)'
    BY <1>1, <1>5, <2>1, <2>2
       DEF InOrder, LockInOrder, CaptureInOrder, RestoreInOrder, CleanupInOrder, UnderLock, KeptApart
  <2>4. CaptureTruthful'
    BY <2>1, StoreTyped DEF CaptureTruthful
  <2> QED
    BY <1>1, <1>2, <2>1, <2>2, <2>3, <2>4, StoreTyped, Assemble
<1> QED
  BY <1>3, <1>4

\* meta.json makes the store the target's.
LEMMA EnsureMetaKeeps ==
  ASSUME StoreInv, NEW c \in Callers, EnsureMeta(c) PROVE StoreInv'
<1>1. /\ SnapTypeOK /\ InOrder(c) /\ call[c].pc = "meta" /\ lock = c
      /\ UNCHANGED <<repo, index, stale, objects, refs, whole, root, disk, ignored>>
      /\ meta' \in {"none", "mine", "torn"}
  BY HasLock, StoreTyped DEF EnsureMeta, At, UnderLock, tree
<1>2. RetainedRestorable' /\ NoRepoNoIndex'
  BY <1>1, StoreTyped DEF RetainedRestorable, NoRepoNoIndex
<1>3. CASE InfraFailure(c)
  BY <1>1, <1>2, <1>3, StoreTyped, GivesUp DEF InfraFailure
<1>4. CASE ~InfraFailure(c)
  <2>1. Goto(c, "detect") /\ lock' = lock /\ taken' = taken /\ meta' = "mine"
    BY <1>4 DEF EnsureMeta
  <2>2. /\ call'[c] \in Calls /\ call' = [call EXCEPT ![c] = call'[c]] /\ call'[c].pc = "detect"
        /\ call'[c].scope = call[c].scope /\ call'[c].skipped = call[c].skipped
        /\ call'[c].saw = call[c].saw /\ call'[c].apart = call[c].apart
    BY <1>1, <2>1, GotoFacts DEF UnderLock
  <2>3. InOrder(c)'
    BY <1>1, <2>1, <2>2
       DEF InOrder, LockInOrder, CaptureInOrder, RestoreInOrder, CleanupInOrder, UnderLock, KeptApart
  <2>4. CaptureTruthful'
    BY <2>1, StoreTyped DEF CaptureTruthful
  <2> QED
    BY <1>1, <1>2, <2>1, <2>2, <2>3, <2>4, StoreTyped, Assemble
<1> QED
  BY <1>3, <1>4

\* A failure of the capture alone.
LEMMA BestEffortKeeps ==
  ASSUME StoreInv, NEW c \in Callers, lock = c, BestEffortFailure(c),
         UNCHANGED <<repo, meta, refs, whole, root, disk, ignored>>, index' \in Tree,
         index' = index \/ repo,
         stale' \in BOOLEAN, objects \subseteq objects', objects' \subseteq Tree
  PROVE  StoreInv'
<1>1. RetainedRestorable' /\ NoRepoNoIndex'
  BY StoreTyped DEF RetainedRestorable, NoRepoNoIndex
<1> QED
  BY <1>1, StoreTyped, GivesUp DEF BestEffortFailure

\* What is skipped is of the capture's scope.
LEMMA DetectKeeps ==
  ASSUME StoreInv, NEW c \in Callers, DetectOversizeUntracked(c) PROVE StoreInv'
<1>1. /\ SnapTypeOK /\ InOrder(c) /\ call[c].pc = "detect" /\ lock = c
      /\ UNCHANGED <<repo, meta, index, stale, objects, refs, whole, root, disk, ignored>>
      /\ call[c] \in Calls /\ call \in [Callers -> Calls]
  BY HasLock DEF DetectOversizeUntracked, At, UnderLock, store, tree
<1>2. CASE BestEffortFailure(c)
  BY <1>1, <1>2, StoreTyped, BestEffortKeeps
<1>3. CASE ~BestEffortFailure(c)
  <2> DEFINE skip == Oversize(call[c].scope)
             r == [call[c] EXCEPT !.pc = "add", !.skipped = skip]
  <2>1. call' = [call EXCEPT ![c] = r] /\ lock' = lock /\ taken' = taken
    BY <1>3 DEF DetectOversizeUntracked
  <2>2. /\ skip \subseteq call[c].scope /\ skip \subseteq Paths
        /\ \A p \in skip : index[p] = Absent
    BY <1>1 DEF Oversize, Calls
  <2> HIDE DEF skip
  <2>3. /\ r \in Calls /\ r.pc = "add" /\ r.skipped = skip
        /\ r.scope = call[c].scope /\ r.saw = call[c].saw /\ r.apart = call[c].apart
    BY <1>1, <2>2 DEF Calls, UnderLock
  <2> HIDE DEF r
  <2>4. call'[c] = r
    BY <1>1, <2>1
  <2>5. InOrder(c)'
    BY <1>1, <2>1, <2>2, <2>3, <2>4
       DEF InOrder, LockInOrder, CaptureInOrder, RestoreInOrder, CleanupInOrder, UnderLock, KeptApart
  <2> QED
    BY <1>1, <2>1, <2>3, <2>5, CallOnly DEF store, tree
<1> QED
  BY <1>2, <1>3

\* git add gives the index what the paths it looks at hold now, which the capture has
\* seen, and has nothing at the others.
LEMMA GitAddKeeps ==
  ASSUME StoreInv, NEW c \in Callers, GitAdd(c) PROVE StoreInv'
<1> DEFINE added == Added(call[c].scope, call[c].skipped)
<1>1. /\ SnapTypeOK /\ InOrder(c) /\ call[c].pc = "add" /\ lock = c
      /\ UNCHANGED <<repo, meta, objects, refs, whole, root, disk, ignored>>
      /\ call[c] \in Calls /\ call \in [Callers -> Calls] /\ repo
  BY HasLock DEF GitAdd, At, UnderLock, tree, InOrder, CaptureInOrder
<1>2. added \in Tree
  BY StoreTyped DEF Added, Tree
<1>3. \A p \in call[c].scope : added[p] \in Held(call[c], p)
  <2> SUFFICES ASSUME NEW p \in call[c].scope PROVE added[p] \in Held(call[c], p)
    OBVIOUS
  <2>1. p \in Paths /\ disk[p] \in call[c].saw[p]
    BY <1>1 DEF Calls, InOrder, CaptureInOrder
  <2>2. added[p] = IF p \in Followed(call[c].scope, call[c].skipped) THEN disk[p] ELSE index[p]
    BY <2>1 DEF Added
  <2>3. CASE p \in Followed(call[c].scope, call[c].skipped)
    BY <2>1, <2>2, <2>3 DEF Held
  <2>4. CASE p \notin Followed(call[c].scope, call[c].skipped)
    <3>1. p \in call[c].skipped \/ p \in KeptApart(ignored)
      BY <2>4 DEF Followed
    <3>2. index[p] = Absent
      BY <1>1, <3>1 DEF InOrder, CaptureInOrder, KeptApart
    <3>3. p \in LeftOut(call[c])
      BY <1>1, <3>1 DEF InOrder, CaptureInOrder, LeftOut
    <3> QED
      BY <2>2, <2>4, <3>2, <3>3 DEF Held
  <2> QED
    BY <2>3, <2>4
<1> HIDE DEF added
<1>4. CASE /\ BestEffortFailure(c) /\ stale' \in {stale, TRUE}
           /\ index' = index \/ index' = added
  BY <1>1, <1>2, <1>4, StoreTyped, BestEffortKeeps
<1>5. CASE index' = added /\ Goto(c, "tree") /\ UNCHANGED <<stale, lock, taken>>
  <2>1. /\ call'[c] \in Calls /\ call' = [call EXCEPT ![c] = call'[c]] /\ call'[c].pc = "tree"
        /\ call'[c].scope = call[c].scope /\ call'[c].skipped = call[c].skipped
        /\ call'[c].saw = call[c].saw /\ call'[c].apart = call[c].apart
    BY <1>1, <1>5, GotoFacts DEF UnderLock
  <2>2. \A p \in call'[c].scope : index'[p] \in Held(call'[c], p)
    BY <1>3, <1>5, <2>1 DEF Held, LeftOut
  <2>3. CaptureInOrder(c)'
    BY <1>1, <2>1, <2>2 DEF InOrder, CaptureInOrder
  <2>4. InOrder(c)'
    BY <1>1, <1>5, <2>1, <2>3 DEF InOrder, LockInOrder, RestoreInOrder, CleanupInOrder, UnderLock
  <2>5. CaptureTruthful' /\ RetainedRestorable' /\ NoRepoNoIndex'
    BY <1>1, <1>5, StoreTyped DEF CaptureTruthful, RetainedRestorable, NoRepoNoIndex
  <2> QED
    BY <1>1, <1>2, <1>5, <2>1, <2>4, <2>5, StoreTyped, Assemble
<1> QED
  BY <1>4, <1>5 DEF GitAdd, added

\* The tree written is the index.
LEMMA GitWriteTreeKeeps ==
  ASSUME StoreInv, NEW c \in Callers, GitWriteTree(c) PROVE StoreInv'
<1>1. /\ SnapTypeOK /\ InOrder(c) /\ call[c].pc = "tree" /\ lock = c
      /\ UNCHANGED <<repo, meta, index, stale, refs, whole, root, disk, ignored>>
      /\ objects \subseteq objects' /\ objects' \subseteq Tree
      /\ call[c] \in Calls /\ call \in [Callers -> Calls]
  BY HasLock, StoreTyped DEF GitWriteTree, At, UnderLock, tree
<1>2. CASE BestEffortFailure(c)
  BY <1>1, <1>2, StoreTyped, BestEffortKeeps
<1>3. CASE ~BestEffortFailure(c)
  <2> DEFINE r == [call[c] EXCEPT !.pc = "ref", !.wrote = index]
  <2>1. call' = [call EXCEPT ![c] = r] /\ lock' = lock /\ taken' = taken
    BY <1>3 DEF GitWriteTree
  <2>2. /\ r \in Calls /\ r.pc = "ref" /\ r.wrote = index /\ r.scope = call[c].scope
        /\ r.skipped = call[c].skipped /\ r.saw = call[c].saw /\ r.apart = call[c].apart
    BY <1>1, StoreTyped DEF Calls, UnderLock
  <2> HIDE DEF r
  <2>3. call'[c] = r
    BY <1>1, <2>1
  <2>4. CaptureInOrder(c)'
    <3>1. \A p \in r.scope : index[p] \in Held(r, p)
      BY <1>1, <2>2 DEF InOrder, CaptureInOrder, Held, LeftOut
    <3> QED
      BY <1>1, <2>2, <2>3, <3>1, StoreTyped DEF InOrder, CaptureInOrder
  <2>5. InOrder(c)'
    BY <1>1, <2>1, <2>2, <2>3, <2>4 DEF InOrder, LockInOrder, RestoreInOrder, CleanupInOrder, UnderLock
  <2>6. CaptureTruthful' /\ RetainedRestorable' /\ NoRepoNoIndex'
    BY <1>1, <2>1, StoreTyped DEF CaptureTruthful, RetainedRestorable, NoRepoNoIndex
  <2> QED
    BY <1>1, <2>1, <2>2, <2>5, <2>6, StoreTyped, Assemble
<1> QED
  BY <1>2, <1>3

\* The ref is made for a tree that is there, and the host is given what it names.
LEMMA GitUpdateRefKeeps ==
  ASSUME StoreInv, NEW c \in Callers, GitUpdateRef(c) PROVE StoreInv'
<1>1. /\ SnapTypeOK /\ InOrder(c) /\ call[c].pc = "ref" /\ lock = c
      /\ UNCHANGED <<repo, meta, index, stale, objects, whole, root, disk, ignored>>
      /\ call[c] \in Calls /\ call \in [Callers -> Calls]
  BY HasLock DEF GitUpdateRef, At, UnderLock, tree
<1>2. CASE BestEffortFailure(c) /\ UNCHANGED refs
  BY <1>1, <1>2, StoreTyped, BestEffortKeeps
<1>3. CASE /\ whole => call[c].wrote \in objects
           /\ refs' = Append(refs, call[c].wrote)
           /\ taken' = taken \cup {RootSnapshot(c)}
           /\ ReturnLocked(c)
  <2> DEFINE t == call[c].wrote
  <2>1. /\ t \in Tree /\ repo
        /\ \A p \in call[c].scope : t[p] \in Held(call[c], p)
    BY <1>1 DEF InOrder, CaptureInOrder
  <2>2. /\ RootSnapshot(c) \in Snapshots
        /\ RootSnapshot(c).tree = t /\ RootSnapshot(c).scope = call[c].scope
        /\ \A p : Held(RootSnapshot(c), p) = Held(call[c], p)
    BY <1>1, SnapshotTyped
  <2>3. CaptureTruthful'
    BY <1>3, <2>1, <2>2, StoreTyped DEF CaptureTruthful
  <2>4. /\ refs' \in Seq(Tree) /\ DOMAIN refs' = 1..(Len(refs) + 1) /\ DOMAIN refs = 1..Len(refs)
        /\ \A i \in 1..(Len(refs) + 1) : refs'[i] = IF i = Len(refs) + 1 THEN t ELSE refs[i]
        /\ Len(refs) \in Nat
    BY <1>3, <2>1, StoreTyped
  <2>5. RetainedRestorable' /\ NoRepoNoIndex'
    BY <1>1, <1>3, <2>1, <2>4, StoreTyped DEF RetainedRestorable, NoRepoNoIndex
  <2>6. Idle \in Calls /\ call' = [call EXCEPT ![c] = Idle] /\ lock' = Nobody /\ call'[c] = Idle
    BY <1>1, <1>3, IdleTyped DEF ReturnLocked, Return
  <2>7. InOrder(c)'
    BY <2>6, Over, SnapshotConstants
  <2>8. taken \subseteq taken' /\ taken' \subseteq Snapshots
    BY <1>3, <2>2, StoreTyped
  <2> QED
    BY <1>1, <2>3, <2>4, <2>5, <2>6, <2>7, <2>8, StoreTyped, Assemble
<1> QED
  BY <1>2, <1>3 DEF GitUpdateRef

-----------------------------------------------------------------------------
(* Restore *)

\* A restore has the lock.
LEMMA RestoreLockKeeps ==
  ASSUME StoreInv, NEW c \in Callers, RestoreLock(c) PROVE StoreInv'
<1>1. /\ SnapTypeOK /\ InOrder(c) /\ call[c].pc = "restore"
      /\ lock = Nobody /\ lock' = c /\ UNCHANGED <<store, tree, taken>> /\ Goto(c, "blob")
  BY HasLock DEF RestoreLock, At
<1>2. /\ call'[c] \in Calls /\ call' = [call EXCEPT ![c] = call'[c]] /\ call'[c].pc = "blob"
      /\ call'[c].scope = call[c].scope /\ call'[c].skipped = call[c].skipped
      /\ call'[c].snap = call[c].snap /\ call'[c].path = call[c].path
  BY <1>1, GotoFacts DEF UnderLock
<1>3. InOrder(c)'
  BY <1>1, <1>2
     DEF InOrder, LockInOrder, CaptureInOrder, RestoreInOrder, CleanupInOrder, UnderLock
<1> QED
  BY <1>1, <1>2, <1>3, CallOnly

\* It goes on to write or remove, by what the capture has.
LEMMA RestoreBlobKeeps ==
  ASSUME StoreInv, NEW c \in Callers, RestoreBlob(c) PROVE StoreInv'
<1>1. /\ SnapTypeOK /\ InOrder(c) /\ call[c].pc = "blob" /\ lock = c
      /\ UNCHANGED <<store, tree, taken>>
      /\ UNCHANGED <<repo, meta, index, stale, objects, refs, whole, root, disk, ignored>>
  BY HasLock DEF RestoreBlob, At, UnderLock, store, tree
<1>2. CASE ReturnLocked(c)
  <2>1. RetainedRestorable' /\ NoRepoNoIndex'
    BY <1>1, StoreTyped DEF RetainedRestorable, NoRepoNoIndex
  <2> QED
    BY <1>1, <1>2, <2>1, StoreTyped, GivesUp
<1>3. CASE ~ReturnLocked(c)
  <2>1. /\ Goto(c, IF BlobAt(SnapOf(c), PathOf(c)) = Absent THEN "remove" ELSE "write")
        /\ lock' = lock
    BY <1>3 DEF RestoreBlob
  <2>2. PICK x \in {"remove", "write"} :
          Goto(c, x) /\ (x = "remove" => BlobAt(SnapOf(c), PathOf(c)) = Absent)
    BY <2>1
  <2>3. /\ call'[c] \in Calls /\ call' = [call EXCEPT ![c] = call'[c]] /\ call'[c].pc = x
        /\ call'[c].scope = call[c].scope /\ call'[c].skipped = call[c].skipped
        /\ call'[c].snap = call[c].snap /\ call'[c].path = call[c].path
    BY <1>1, <2>2, GotoFacts DEF UnderLock
  <2>4. SnapOf(c)' = SnapOf(c) /\ PathOf(c)' = PathOf(c)
    BY <2>3 DEF SnapOf, PathOf
  <2>5. RestoreInOrder(c)'
    BY <1>1, <2>2, <2>3, <2>4 DEF InOrder, RestoreInOrder, BlobAt, TreeOf
  <2>6. InOrder(c)'
    BY <1>1, <2>1, <2>2, <2>3, <2>5
       DEF InOrder, LockInOrder, CaptureInOrder, CleanupInOrder, UnderLock
  <2> QED
    BY <1>1, <2>1, <2>3, <2>6, CallOnly
<1> QED
  BY <1>2, <1>3

\* A restore's capture is one that was taken, and its path one of the paths.
LEMMA RestoreTarget ==
  ASSUME StoreInv, NEW c \in Callers, call[c].pc \in {"restore", "blob", "write", "remove"}
  PROVE  SnapOf(c) \in taken /\ PathOf(c) \in Paths
<1>1. PICK s \in taken, p \in Paths : call[c].snap = {s} /\ call[c].path = {p}
  BY HasLock DEF InOrder, RestoreInOrder
<1>2. SnapOf(c) = s /\ PathOf(c) = p
  BY <1>1, OnlyOne DEF SnapOf, PathOf
<1> QED
  BY <1>2

\* The content of a path in a capture.
LEMMA BlobTyped ==
  ASSUME NEW s \in Snapshots, NEW p \in Paths
  PROVE  BlobAt(s, p) \in OnDisk
<1>1. TreeOf(s) \in Tree
  BY IdleTyped DEF TreeOf, Snapshots
<1> QED
  BY <1>1 DEF BlobAt, Tree

\* What a write leaves in the tree, if anything.
LEMMA LeftTyped ==
  ASSUME disk \in Tree, NEW p \in Paths, NEW v, NEW w \in OnDisk
  PROVE  Left(p, v, w) \in Tree
<1>1. disk \in [Paths -> OnDisk] /\ disk[p] \in OnDisk
  BY DEF Tree
<1>2. PICK x \in OnDisk : Left(p, v, w) = [disk EXCEPT ![p] = x]
  BY <1>1 DEF Left
<1> HIDE DEF OnDisk
<1> QED
  BY <1>1, <1>2 DEF Tree

LEMMA CutShortTyped == \A v : CutShort(v) \in OnDisk
  BY DEF CutShort, OnDisk

\* It changes one path, or cuts it short.
LEMMA RestoreEndsKeeps ==
  ASSUME StoreInv, NEW c \in Callers, RestoreWrite(c) \/ RestoreRemove(c) PROVE StoreInv'
<1> DEFINE p == PathOf(c)
           v == BlobAt(SnapOf(c), p)
<1>1. /\ call[c].pc \in {"write", "remove"} /\ lock = c /\ ReturnLocked(c)
      /\ UNCHANGED <<repo, meta, index, stale, objects, refs, whole, ignored, taken>>
  BY HasLock DEF RestoreWrite, RestoreRemove, At, UnderLock, store
<1>2. v \in OnDisk /\ p \in Paths
  BY <1>1, RestoreTarget, BlobTyped, StoreTyped
<1>3. root' \in BOOLEAN
  BY StoreTyped DEF RestoreWrite, RestoreRemove
<1>4. disk' \in Tree
  <2>1. Left(p, v, v) \in Tree /\ Left(p, v, CutShort(v)) \in Tree /\ disk \in Tree
    BY <1>2, LeftTyped, CutShortTyped, StoreTyped
  <2>2. [disk EXCEPT ![p] = Absent] \in Tree
    <3>1. disk \in [Paths -> OnDisk] /\ Absent \in OnDisk
      BY StoreTyped DEF Tree, OnDisk
    <3> HIDE DEF OnDisk
    <3> QED
      BY <1>2, <3>1 DEF Tree
  <2> QED
    BY <2>1, <2>2 DEF RestoreWrite, RestoreRemove
<1>5. RetainedRestorable' /\ NoRepoNoIndex'
  BY <1>1, StoreTyped DEF RetainedRestorable, NoRepoNoIndex
<1> QED
  BY <1>1, <1>3, <1>4, <1>5, StoreTyped, GivesUp

-----------------------------------------------------------------------------
(* Cleanup and Purge *)

\* A cleanup has the lock.
LEMMA CleanupLockKeeps ==
  ASSUME StoreInv, NEW c \in Callers, CleanupLock(c) PROVE StoreInv'
<1>1. /\ SnapTypeOK /\ InOrder(c) /\ call[c].pc = "cleanup"
      /\ lock = Nobody /\ lock' = c /\ UNCHANGED <<store, tree, taken>> /\ Goto(c, "list")
  BY HasLock DEF CleanupLock, At
<1>2. /\ call'[c] \in Calls /\ call' = [call EXCEPT ![c] = call'[c]] /\ call'[c].pc = "list"
      /\ call'[c].scope = call[c].scope /\ call'[c].skipped = call[c].skipped
  BY <1>1, GotoFacts DEF UnderLock
<1>3. InOrder(c)'
  BY <1>1, <1>2
     DEF InOrder, LockInOrder, CaptureInOrder, RestoreInOrder, CleanupInOrder, UnderLock
<1> QED
  BY <1>1, <1>2, <1>3, CallOnly

\* It lists refs that are there.
LEMMA CleanupListKeeps ==
  ASSUME StoreInv, NEW c \in Callers, CleanupList(c) PROVE StoreInv'
<1>1. /\ SnapTypeOK /\ InOrder(c) /\ call[c].pc = "list" /\ lock = c
      /\ UNCHANGED <<store, tree, taken>>
      /\ UNCHANGED <<repo, meta, index, stale, objects, refs, whole, root, disk, ignored>>
      /\ call[c] \in Calls /\ call \in [Callers -> Calls]
  BY HasLock DEF CleanupList, At, UnderLock, store, tree
<1>2. CASE ReturnLocked(c)
  <2>1. RetainedRestorable' /\ NoRepoNoIndex'
    BY <1>1, StoreTyped DEF RetainedRestorable, NoRepoNoIndex
  <2> QED
    BY <1>1, <1>2, <2>1, StoreTyped, GivesUp
<1>3. CASE ~ReturnLocked(c)
  <2>1. PICK expired \in 0..Len(refs), maxSets \in 0..Len(refs) :
          /\ call' = [call EXCEPT ![c].pc = "delete", ![c].doomed = OutsidePolicy(expired, maxSets)]
          /\ lock' = lock
    BY <1>3 DEF CleanupList
  <2> DEFINE old == OutsidePolicy(expired, maxSets)
             r == [call[c] EXCEPT !.pc = "delete", !.doomed = old]
  <2>2. old \subseteq DOMAIN refs
    BY DEF OutsidePolicy
  <2>3. DOMAIN refs = 1..Len(refs) /\ Len(refs) \in Nat
    BY StoreTyped
  <2>4. call' = [call EXCEPT ![c] = r]
    BY <2>1
  <2> HIDE DEF old
  <2>5. old \subseteq Nat
    BY <2>2, <2>3
  <2>6. /\ r \in Calls /\ r.pc = "delete" /\ r.doomed = old /\ r.scope = call[c].scope
        /\ r.skipped = call[c].skipped
    BY <1>1, <2>5 DEF Calls, UnderLock
  <2> HIDE DEF r
  <2>7. call'[c] = r
    BY <1>1, <2>4
  <2>8. InOrder(c)'
    BY <1>1, <2>1, <2>2, <2>6, <2>7
       DEF InOrder, LockInOrder, CaptureInOrder, RestoreInOrder, CleanupInOrder, UnderLock
  <2> QED
    BY <1>1, <2>1, <2>4, <2>6, <2>8, CallOnly
<1> QED
  BY <1>2, <1>3

\* Deleted newest first, the others keep their places.
LEMMA CleanupDeleteKeeps ==
  ASSUME StoreInv, NEW c \in Callers, CleanupDelete(c) PROVE StoreInv'
<1>1. /\ SnapTypeOK /\ InOrder(c) /\ call[c].pc = "delete" /\ lock = c
      /\ UNCHANGED <<repo, meta, index, stale, objects, whole, root, disk, ignored, taken>>
      /\ call[c] \in Calls /\ call \in [Callers -> Calls]
  BY HasLock DEF CleanupDelete, At, UnderLock, tree
<1>2. CASE ReturnLocked(c) /\ UNCHANGED refs
  <2>1. RetainedRestorable' /\ NoRepoNoIndex'
    BY <1>1, <1>2, StoreTyped DEF RetainedRestorable, NoRepoNoIndex
  <2> QED
    BY <1>1, <1>2, <2>1, StoreTyped, GivesUp
<1>3. ASSUME NEW i \in call[c].doomed, \A j \in call[c].doomed : j <= i,
             refs' = RemoveAt(refs, i), lock' = lock,
             call' = [call EXCEPT ![c].doomed = @ \ {i},
                                  ![c].pc = IF call[c].doomed = {i} THEN "gc" ELSE "delete"]
      PROVE  StoreInv'
  <2> DEFINE x == IF call[c].doomed = {i} THEN "gc" ELSE "delete"
             left == call[c].doomed \ {i}
             r == [call[c] EXCEPT !.doomed = left, !.pc = x]
  <2>1. DOMAIN refs = 1..Len(refs) /\ Len(refs) \in Nat /\ refs \in Seq(Tree)
    BY StoreTyped
  <2>2. call[c].doomed \subseteq 1..Len(refs)
    BY <1>1, <2>1 DEF InOrder, CleanupInOrder
  <2>3. i \in 1..Len(refs)
    BY <2>2
  <2>4. /\ refs' \in Seq(Tree) /\ Len(refs') = Len(refs) - 1
        /\ \A k \in 1..Len(refs') : \E j \in 1..Len(refs) : refs'[k] = refs[j]
    BY <1>3, <2>1, <2>3, RemoveAtFacts
  <2>5. DOMAIN refs' = 1..(Len(refs) - 1)
    BY <2>4
  <2>6. left \subseteq DOMAIN refs' /\ left \subseteq Nat
    <3>1. ASSUME NEW j \in left PROVE j \in 1..(Len(refs) - 1) /\ j \in Nat
      <4>1. j \in 1..Len(refs) /\ j <= i /\ j # i
        BY <1>3, <2>2
      <4> QED
        BY <2>1, <2>3, <4>1
    <3> HIDE DEF left
    <3> QED
      BY <2>5, <3>1
  <2>7. call' = [call EXCEPT ![c] = r] /\ x \in {"gc", "delete"}
    BY <1>3
  <2> HIDE DEF left, x
  <2>8. /\ r \in Calls /\ r.pc = x /\ r.doomed = left /\ r.scope = call[c].scope
        /\ r.skipped = call[c].skipped
    BY <1>1, <2>6, <2>7 DEF Calls, UnderLock
  <2> HIDE DEF r
  <2>9. call'[c] = r
    BY <1>1, <2>7
  <2>10. InOrder(c)'
    BY <1>1, <1>3, <2>6, <2>7, <2>8, <2>9
       DEF InOrder, LockInOrder, CaptureInOrder, RestoreInOrder, CleanupInOrder, UnderLock
  <2>11. RetainedRestorable' /\ NoRepoNoIndex'
    BY <1>1, <2>1, <2>4, <2>5, StoreTyped DEF RetainedRestorable, NoRepoNoIndex
  <2>12. CaptureTruthful'
    BY <1>1, StoreTyped DEF CaptureTruthful
  <2> QED
    BY <1>1, <1>3, <2>4, <2>7, <2>8, <2>10, <2>11, <2>12, StoreTyped, Assemble
<1> QED
  BY <1>2, <1>3 DEF CleanupDelete

\* gc marks every ref left.
LEMMA GcMarkKeeps ==
  ASSUME StoreInv, NEW c \in Callers, GcMark(c) PROVE StoreInv'
<1>1. /\ SnapTypeOK /\ InOrder(c) /\ call[c].pc = "gc" /\ lock = c
      /\ UNCHANGED <<store, tree, taken>>
      /\ UNCHANGED <<repo, meta, index, stale, objects, refs, whole, root, disk, ignored>>
      /\ call[c] \in Calls /\ call \in [Callers -> Calls]
  BY HasLock DEF GcMark, At, UnderLock, store, tree
<1>2. CASE ReturnLocked(c)
  <2>1. RetainedRestorable' /\ NoRepoNoIndex'
    BY <1>1, StoreTyped DEF RetainedRestorable, NoRepoNoIndex
  <2> QED
    BY <1>1, <1>2, <2>1, StoreTyped, GivesUp
<1>3. CASE ~ReturnLocked(c)
  <2> DEFINE keep == Range(refs) \cup {index}
             r == [call[c] EXCEPT !.pc = "prune", !.live = keep]
  <2>1. call' = [call EXCEPT ![c] = r] /\ lock' = lock
    BY <1>3 DEF GcMark
  <2>2. Range(refs) \subseteq keep /\ keep \subseteq Tree
    BY StoreTyped DEF Range
  <2> HIDE DEF keep
  <2>3. /\ r \in Calls /\ r.pc = "prune" /\ r.live = keep /\ r.scope = call[c].scope
        /\ r.skipped = call[c].skipped
    BY <1>1, <2>2 DEF Calls, UnderLock
  <2> HIDE DEF r
  <2>4. call'[c] = r
    BY <1>1, <2>1
  <2>5. InOrder(c)'
    BY <1>1, <2>1, <2>2, <2>3, <2>4
       DEF InOrder, LockInOrder, CaptureInOrder, RestoreInOrder, CleanupInOrder, UnderLock
  <2> QED
    BY <1>1, <2>1, <2>3, <2>5, CallOnly
<1> QED
  BY <1>2, <1>3

\* What it deletes no ref names.
LEMMA GcPruneKeeps ==
  ASSUME StoreInv, NEW c \in Callers, GcPrune(c) PROVE StoreInv'
<1>1. /\ SnapTypeOK /\ InOrder(c) /\ call[c].pc = "prune" /\ lock = c /\ ReturnLocked(c)
      /\ UNCHANGED <<repo, meta, index, stale, refs, whole, root, disk, ignored, taken>>
      /\ objects' \in {objects \cap call[c].live, objects}
  BY HasLock DEF GcPrune, At, UnderLock, tree
<1>2. Range(refs) \subseteq call[c].live
  BY <1>1 DEF InOrder, CleanupInOrder
<1>3. RetainedRestorable' /\ NoRepoNoIndex'
  BY <1>1, <1>2, StoreTyped DEF RetainedRestorable, Range, NoRepoNoIndex
<1> QED
  BY <1>1, <1>3, StoreTyped, GivesUp

\* A purge takes the refs with the objects, leaves both, or has stopped half way.
LEMMA PurgeKeeps ==
  ASSUME StoreInv, NEW c \in Callers, Purge(c) PROVE StoreInv'
<1>1. /\ lock = Nobody /\ lock' = lock /\ call' = [call EXCEPT ![c] = Idle] /\ call'[c] = Idle
      /\ UNCHANGED <<root, disk, ignored, taken>> /\ c # Nobody /\ Idle \in Calls
      /\ meta' \in {"none", "mine", "torn"}
  BY HasLock, StoreTyped, IdleTyped DEF Purge, Return, tree
<1>2. CaptureTruthful' /\ InOrder(c)'
  BY <1>1, StoreTyped, Over DEF CaptureTruthful
<1>3. CASE /\ repo' = FALSE /\ index' = Nothing /\ stale' = FALSE /\ objects' = {} /\ refs' = <<>>
           /\ whole' = TRUE
  <2>1. <<>> \in Seq(Tree) /\ Nothing \in Tree
    BY IdleTyped
  <2>2. RetainedRestorable' /\ NoRepoNoIndex'
    BY <1>3 DEF RetainedRestorable, NoRepoNoIndex
  <2> QED
    BY <1>1, <1>2, <1>3, <2>1, <2>2, StoreTyped, Assemble
<1>4. CASE UNCHANGED <<repo, index, stale, objects, refs, whole>>
  <2>1. RetainedRestorable' /\ NoRepoNoIndex'
    BY <1>4, StoreTyped DEF RetainedRestorable, NoRepoNoIndex
  <2> QED
    BY <1>1, <1>2, <1>4, <2>1, StoreTyped, Assemble
<1>5. CASE /\ repo /\ UNCHANGED repo
           /\ index' \in {index, Nothing} /\ stale' \in {stale, FALSE}
           /\ objects' \in SUBSET objects /\ refs' \in SomeRefs
           /\ whole' = FALSE
  <2>1. refs' \in Seq(Tree) /\ index' \in Tree
    BY <1>5, StoreTyped, IdleTyped, SomeRefsFacts
  <2>2. RetainedRestorable' /\ NoRepoNoIndex'
    BY <1>5 DEF RetainedRestorable, NoRepoNoIndex
  <2> QED
    BY <1>1, <1>2, <1>5, <2>1, <2>2, StoreTyped, Assemble
<1> QED
  BY <1>3, <1>4, <1>5 DEF Purge

-----------------------------------------------------------------------------
(* The agent and the process *)

\* What an agent's step does to the calls: it adds to what captures have seen.
Watches(f, g) ==
    /\ g \in Calls
    /\ g.pc = f.pc /\ g.scope = f.scope /\ g.skipped = f.skipped /\ g.wrote = f.wrote
    /\ g.snap = f.snap /\ g.path = f.path /\ g.doomed = f.doomed /\ g.live = f.live
    /\ f.apart \subseteq g.apart /\ \A p \in Paths : f.saw[p] \subseteq g.saw[p]

\* A change of the working tree or of git's rules that the capture in progress sees.
LEMMA AgentKeeps ==
  ASSUME StoreInv, UNCHANGED <<store, lock, taken>>,
         root' \in BOOLEAN, disk' \in Tree, ignored' \subseteq Paths,
         call' = [c \in Callers |-> call'[c]],
         \A c \in Callers : Watches(call[c], call'[c]),
         \A c \in Callers, p \in Paths : Sees(c, p) =>
            /\ disk[p] \in call[c].saw[p] => disk'[p] \in call'[c].saw[p]
            /\ p \in KeptApart(ignored') =>
                  p \in call'[c].apart \/ (p \in KeptApart(ignored) /\ p \notin call[c].apart)
  PROVE  StoreInv'
<1>1. UNCHANGED <<repo, meta, index, stale, objects, refs, whole, lock, taken>>
  BY DEF store
<1>2. SnapTypeOK'
  <2>1. call' \in [Callers -> Calls]
    BY DEF Watches
  <2> QED
    BY <1>1, <2>1 DEF StoreInv, SnapTypeOK
<1>3. CaptureTruthful' /\ RetainedRestorable' /\ NoRepoNoIndex'
  BY <1>1 DEF StoreInv, CaptureTruthful, RetainedRestorable, NoRepoNoIndex
<1>4. ASSUME NEW c \in Callers PROVE InOrder(c)'
  <2> DEFINE f == call[c]
             g == call'[c]
  <2>1. InOrder(c) /\ f.scope \subseteq Paths /\ Watches(f, g)
    BY HasLock DEF Calls
  <2>2. LockInOrder(c)' /\ CleanupInOrder(c)'
    BY <1>1, <2>1 DEF InOrder, LockInOrder, CleanupInOrder, Watches
  <2>3. SnapOf(c)' = SnapOf(c) /\ PathOf(c)' = PathOf(c)
    BY <2>1 DEF SnapOf, PathOf, Watches
  <2>4. RestoreInOrder(c)'
    BY <1>1, <2>1, <2>3 DEF InOrder, RestoreInOrder, BlobAt, TreeOf, Watches
  <2>5. \A p \in Paths : Held(f, p) \subseteq Held(g, p)
    BY <2>1 DEF Held, LeftOut, Watches
  <2>6. f.pc \in UnderLock => \A p \in f.scope : Sees(c, p)
    BY <2>1 DEF InOrder, LockInOrder, Sees
  <2>7. f.pc \in {"ensure", "meta", "detect", "add", "tree", "ref"} =>
          \A p \in f.scope : disk'[p] \in g.saw[p]
    BY <2>1, <2>6 DEF InOrder, CaptureInOrder, UnderLock
  <2>8. f.pc \in {"ensure", "meta", "detect", "add"} =>
          \A p \in f.scope : p \in KeptApart(ignored') => p \in g.apart
    BY <2>1, <2>6 DEF InOrder, CaptureInOrder, UnderLock
  <2>9. KeptApart(ignored)' = KeptApart(ignored')
    BY <1>1 DEF KeptApart
  <2>10. CaptureInOrder(c)'
    <3> HIDE DEF f, g
    <3>1. CaptureInOrder(c) /\ call[c] = f /\ call'[c] = g
      BY <2>1 DEF InOrder, f, g
    <3> QED
      BY <1>1, <2>1, <2>5, <2>7, <2>8, <2>9, <3>1 DEF CaptureInOrder, Watches
  <2> QED
    BY <2>2, <2>4, <2>10 DEF InOrder
<1> QED
  BY <1>2, <1>3, <1>4 DEF StoreInv

\* A call with more seen, or with more apart.
LEMMA SawMore ==
  ASSUME NEW f \in Calls, NEW w \in [Paths -> SUBSET OnDisk], \A p \in Paths : f.saw[p] \subseteq w[p]
  PROVE  Watches(f, [f EXCEPT !.saw = w]) /\ [f EXCEPT !.saw = w].saw = w
         /\ [f EXCEPT !.saw = w].apart = f.apart
  BY DEF Calls, Watches

LEMMA ApartMore ==
  ASSUME NEW f \in Calls, NEW k \in SUBSET Paths, f.apart \subseteq k
  PROVE  Watches(f, [f EXCEPT !.apart = k]) /\ [f EXCEPT !.apart = k].apart = k
         /\ [f EXCEPT !.apart = k].saw = f.saw
  BY DEF Calls, Watches

\* The agent's edit is seen by the capture in progress.
LEMMA EditKeeps == ASSUME StoreInv, Edit PROVE StoreInv'
<1>1. PICK p \in Paths, v \in Contents \cup {Absent} :
        /\ disk' = [disk EXCEPT ![p] = v]
        /\ call' = [c \in Callers |-> IF Sees(c, p) THEN [call[c] EXCEPT !.saw[p] = @ \cup {v}]
                                                  ELSE call[c]]
  BY DEF Edit
<1>2. UNCHANGED <<store, lock, taken, ignored>> /\ root' \in BOOLEAN /\ ignored' \subseteq Paths
  BY StoreTyped DEF Edit
<1>3. v \in OnDisk
  BY DEF OnDisk
<1>4. /\ disk \in [Paths -> OnDisk] /\ disk' \in Tree
      /\ \A q \in Paths : disk'[q] = IF q = p THEN v ELSE disk[q]
  BY <1>1, <1>3, StoreTyped DEF Tree
<1>5. ASSUME NEW c \in Callers
      PROVE  /\ Watches(call[c], call'[c]) /\ call'[c].apart = call[c].apart
             /\ Sees(c, p) => v \in call'[c].saw[p]
  <2> DEFINE w == [call[c].saw EXCEPT ![p] = @ \cup {v}]
  <2>1. call[c] \in Calls /\ call[c].saw \in [Paths -> SUBSET OnDisk]
    BY HasLock DEF Calls
  <2>2. CASE Sees(c, p)
    <3>1. /\ w \in [Paths -> SUBSET OnDisk] /\ v \in w[p]
          /\ \A q \in Paths : call[c].saw[q] \subseteq w[q]
      BY <1>3, <2>1
    <3>2. call'[c] = [call[c] EXCEPT !.saw = w]
      BY <1>1, <2>2
    <3> HIDE DEF w
    <3> QED
      BY <2>1, <3>1, <3>2, SawMore
  <2>3. CASE ~Sees(c, p)
    <3>1. call'[c] = call[c]
      BY <1>1, <2>3
    <3> QED
      BY <2>1, <2>3, <3>1 DEF Watches
  <2> QED
    BY <2>2, <2>3
<1>6. ASSUME NEW c \in Callers, NEW q \in Paths, Sees(c, q), disk[q] \in call[c].saw[q]
      PROVE  disk'[q] \in call'[c].saw[q]
  <2>1. CASE q = p
    BY <1>4, <1>5, <1>6, <2>1
  <2>2. CASE q # p
    BY <1>4, <1>5, <1>6, <2>2 DEF Watches
  <2> QED
    BY <2>1, <2>2
<1>7. \A c \in Callers, q \in Paths : q \in KeptApart(ignored') =>
         q \in call'[c].apart \/ (q \in KeptApart(ignored) /\ q \notin call[c].apart)
  BY <1>2, <1>5
<1>8. call' = [c \in Callers |-> call'[c]]
  BY <1>1
<1> QED
  BY <1>2, <1>4, <1>5, <1>6, <1>7, <1>8, AgentKeeps

\* So is a change of git's rules ...
LEMMA ReignoreKeeps == ASSUME StoreInv, Reignore PROVE StoreInv'
<1>1. PICK rules \in SUBSET Paths :
        /\ ignored' = rules
        /\ call' = [c \in Callers |->
                      [call[c] EXCEPT !.apart = @ \cup {p \in KeptApart(rules) : Sees(c, p)}]]
  BY DEF Reignore
<1>2. UNCHANGED <<store, lock, taken, root, disk>> /\ root' \in BOOLEAN /\ disk' \in Tree
  BY StoreTyped DEF Reignore
<1>3. ASSUME NEW c \in Callers
      PROVE  /\ Watches(call[c], call'[c]) /\ call'[c].saw = call[c].saw
             /\ \A p \in KeptApart(rules) : Sees(c, p) => p \in call'[c].apart
  <2> DEFINE k == call[c].apart \cup {p \in KeptApart(rules) : Sees(c, p)}
  <2>1. call[c] \in Calls /\ call[c].apart \in SUBSET Paths
    BY HasLock DEF Calls
  <2>2. /\ k \in SUBSET Paths /\ call[c].apart \subseteq k
        /\ \A p \in KeptApart(rules) : Sees(c, p) => p \in k
    BY <2>1 DEF KeptApart
  <2>3. call'[c] = [call[c] EXCEPT !.apart = k]
    BY <1>1
  <2> HIDE DEF k
  <2> QED
    BY <2>1, <2>2, <2>3, ApartMore
<1>4. call' = [c \in Callers |-> call'[c]]
  BY <1>1
<1>5. \A c \in Callers, p \in Paths : Sees(c, p) =>
         /\ disk[p] \in call[c].saw[p] => disk'[p] \in call'[c].saw[p]
         /\ p \in KeptApart(ignored') => p \in call'[c].apart
  BY <1>1, <1>2, <1>3
<1> QED
  BY <1>1, <1>2, <1>3, <1>4, <1>5, AgentKeeps

\* ... and the removal of the whole tree.
LEMMA RemoveRootKeeps == ASSUME StoreInv, RemoveRoot PROVE StoreInv'
<1>1. /\ disk' = Nothing /\ root' = FALSE /\ UNCHANGED <<store, lock, taken, ignored>>
      /\ call' = [c \in Callers |->
           [call[c] EXCEPT !.saw = [p \in Paths |-> IF Sees(c, p) THEN @[p] \cup {Absent} ELSE @[p]]]]
  BY DEF RemoveRoot
<1>2. disk' \in Tree /\ \A q \in Paths : disk'[q] = Absent
  BY <1>1, IdleTyped DEF Nothing
<1>3. ASSUME NEW c \in Callers
      PROVE  /\ Watches(call[c], call'[c]) /\ call'[c].apart = call[c].apart
             /\ \A q \in Paths : Sees(c, q) => Absent \in call'[c].saw[q]
  <2> DEFINE w == [p \in Paths |-> IF Sees(c, p) THEN call[c].saw[p] \cup {Absent} ELSE call[c].saw[p]]
  <2>1. call[c] \in Calls /\ call[c].saw \in [Paths -> SUBSET OnDisk] /\ Absent \in OnDisk
    BY HasLock DEF Calls, OnDisk
  <2>2. /\ w \in [Paths -> SUBSET OnDisk]
        /\ \A q \in Paths : call[c].saw[q] \subseteq w[q]
        /\ \A q \in Paths : Sees(c, q) => Absent \in w[q]
    BY <2>1
  <2>3. call'[c] = [call[c] EXCEPT !.saw = w]
    BY <1>1
  <2> HIDE DEF w
  <2> QED
    BY <2>1, <2>2, <2>3, SawMore
<1>4. call' = [c \in Callers |-> call'[c]]
  BY <1>1
<1>5. \A c \in Callers, p \in Paths : Sees(c, p) =>
         /\ disk[p] \in call[c].saw[p] => disk'[p] \in call'[c].saw[p]
         /\ p \in KeptApart(ignored') =>
               p \in call'[c].apart \/ (p \in KeptApart(ignored) /\ p \notin call[c].apart)
  BY <1>1, <1>2, <1>3
<1>6. root' \in BOOLEAN /\ ignored' \subseteq Paths /\ UNCHANGED <<store, lock, taken>>
  BY <1>1, StoreTyped
<1> QED
  BY <1>2, <1>3, <1>4, <1>5, <1>6, AgentKeeps

\* Whenever the process dies, what is on disk is a store the next one may use.
LEMMA CrashKeeps == ASSUME StoreInv, Crash PROVE StoreInv'
<1>1. /\ call' = [c \in Callers |-> Idle] /\ lock' = Nobody
      /\ UNCHANGED <<repo, objects, refs, whole, ignored, taken>>
      /\ meta' \in {meta, "torn"}
  BY DEF Crash
<1>2. disk' \in Tree /\ root' \in BOOLEAN
  <2>1. CASE UNCHANGED <<root, disk>>
    BY <2>1, StoreTyped
  <2>2. ASSUME NEW c \in Callers, At(c, "write"), root' = TRUE,
               disk' \in {disk, Left(PathOf(c), BlobAt(SnapOf(c), PathOf(c)),
                                      CutShort(BlobAt(SnapOf(c), PathOf(c))))}
        PROVE  disk' \in Tree /\ root' \in BOOLEAN
    <3>1. PathOf(c) \in Paths
      BY <2>2, RestoreTarget DEF At
    <3> QED
      BY <2>2, <3>1, LeftTyped, CutShortTyped, StoreTyped
  <2> QED
    BY <2>1, <2>2 DEF Crash
<1>3. index' \in Tree /\ stale' \in BOOLEAN /\ NoRepoNoIndex'
  <2>1. CASE UNCHANGED index /\ stale' \in {stale, stale \/ \E c \in Callers : At(c, "add")}
    BY <1>1, <2>1, StoreTyped DEF NoRepoNoIndex
  <2>2. ASSUME NEW c \in Callers, At(c, "add"), stale' = stale,
               index' = Added(call[c].scope, call[c].skipped)
        PROVE  index' \in Tree /\ stale' \in BOOLEAN /\ NoRepoNoIndex'
    <3>1. repo
      BY <2>2, HasLock DEF At, InOrder, CaptureInOrder
    <3>2. index' \in Tree
      BY <2>2, StoreTyped DEF Added, Tree
    <3> QED
      BY <1>1, <2>2, <3>1, <3>2, StoreTyped DEF NoRepoNoIndex
  <2> QED
    BY <2>1, <2>2 DEF Crash
<1>4. call' \in [Callers -> Calls] /\ \A c \in Callers : call'[c] = Idle
  BY <1>1, IdleTyped
<1>5. SnapTypeOK'
  BY <1>1, <1>2, <1>3, <1>4, StoreTyped DEF SnapTypeOK
<1>6. CaptureTruthful' /\ RetainedRestorable'
  BY <1>1, StoreTyped DEF CaptureTruthful, RetainedRestorable
<1>7. ASSUME NEW c \in Callers PROVE InOrder(c)'
  BY <1>1, <1>4, Over, SnapshotConstants
<1> QED
  BY <1>3, <1>5, <1>6, <1>7 DEF StoreInv

-----------------------------------------------------------------------------
(* The invariant *)

\* The invariant holds at first ...
LEMMA StoreInit == SnapInit => StoreInv
<1> SUFFICES ASSUME SnapInit PROVE StoreInv
  OBVIOUS
<1>1. /\ repo = FALSE /\ meta = "none" /\ index = Nothing /\ stale = FALSE /\ objects = {}
      /\ refs = <<>> /\ whole = TRUE /\ root = TRUE /\ disk \in [Paths -> Small \cup {Absent}]
      /\ ignored \subseteq Paths
      /\ lock = Nobody /\ call = [c \in Callers |-> Idle] /\ taken = {}
  BY DEF SnapInit
<1>2. disk \in Tree
  BY <1>1 DEF Tree, OnDisk, Contents
<1>3. <<>> \in Seq(Tree) /\ Nothing \in Tree /\ Idle \in Calls /\ Idle.pc = "idle"
  BY IdleTyped
<1>4. SnapTypeOK
  BY <1>1, <1>2, <1>3 DEF SnapTypeOK
<1>5. CaptureTruthful /\ RetainedRestorable /\ NoRepoNoIndex
  BY <1>1 DEF CaptureTruthful, RetainedRestorable, NoRepoNoIndex
<1>6. ASSUME NEW c \in Callers PROVE InOrder(c)
  <2>1. call[c].pc = "idle" /\ call[c].skipped \subseteq call[c].scope /\ lock # c
    BY <1>1, SnapshotConstants DEF Idle
  <2> QED
    BY <2>1 DEF InOrder, LockInOrder, CaptureInOrder, RestoreInOrder, CleanupInOrder, UnderLock
<1> QED
  BY <1>4, <1>5, <1>6 DEF StoreInv

\* ... is kept by every step ...
LEMMA StoreNext == StoreInv /\ [SnapNext]_snapVars => StoreInv'
<1> SUFFICES ASSUME StoreInv, [SnapNext]_snapVars PROVE StoreInv'
  OBVIOUS
<1>1. ASSUME NEW c \in Callers, HostCalls(c) PROVE StoreInv'
  BY <1>1, StartCaptureKeeps, RestoreOpenKeeps, CleanupOpenKeeps DEF HostCalls
<1>2. ASSUME NEW c \in Callers, CallerStep(c) PROVE StoreInv'
  BY <1>2, CaptureLockKeeps, EnsureOpenKeeps, EnsureInitKeeps, EnsureMetaKeeps, DetectKeeps,
     GitAddKeeps, GitWriteTreeKeeps, GitUpdateRefKeeps, RestoreLockKeeps, RestoreBlobKeeps,
     RestoreEndsKeeps, CleanupLockKeeps, CleanupListKeeps, CleanupDeleteKeeps, GcMarkKeeps,
     GcPruneKeeps, PurgeKeeps DEF CallerStep
<1>3. CASE UNCHANGED snapVars
  <2>1. UNCHANGED <<repo, meta, index, stale, objects, refs, whole, root, disk, ignored, lock, call, taken>>
    BY <1>3 DEF snapVars, store, tree
  <2>2. SnapTypeOK' /\ CaptureTruthful' /\ RetainedRestorable' /\ NoRepoNoIndex'
    BY <2>1 DEF StoreInv, SnapTypeOK, CaptureTruthful, RetainedRestorable, NoRepoNoIndex
  <2>3. ASSUME NEW c \in Callers PROVE InOrder(c)'
    BY <2>1 DEF StoreInv, InOrder, LockInOrder, CaptureInOrder, RestoreInOrder, CleanupInOrder,
       SnapOf, PathOf, KeptApart
  <2> QED
    BY <2>2, <2>3 DEF StoreInv
<1> QED
  BY <1>1, <1>2, <1>3, EditKeeps, ReignoreKeeps, RemoveRootKeeps, CrashKeeps
     DEF SnapNext

\* ... and so holds always.
LEMMA AlwaysStore == SnapSpec => []StoreInv
  BY StoreInit, StoreNext, PTL DEF SnapSpec

-----------------------------------------------------------------------------
(* The theorems *)

\* Captures tell the truth of every path they cover, and so do the diffs of them,
\* whatever the agent does meanwhile, however git fails and whenever the process dies.
THEOREM CapturesTellTheTruth == SnapSpec => []SnapInv
<1>1. StoreInv => SnapInv
  <2> SUFFICES ASSUME StoreInv PROVE SnapInv
    OBVIOUS
  <2>1. NoSilentDrop
    BY DEF StoreInv, CaptureTruthful, NoSilentDrop, Held
  <2>2. DiffTruthful
    <3> SUFFICES ASSUME NEW a \in taken, NEW b \in taken, NEW p \in a.scope \cap b.scope,
                        NoTree \notin {a.tree, b.tree}
                 PROVE  IF p \in Diff(a, b) THEN \E v \in Held(a, p), w \in Held(b, p) : v # w
                                            ELSE Held(a, p) \cap Held(b, p) # {}
      BY DEF DiffTruthful
    <3>1. a.tree[p] \in Held(a, p) /\ b.tree[p] \in Held(b, p)
      BY DEF StoreInv, CaptureTruthful
    <3>2. TreeOf(a) = a.tree /\ TreeOf(b) = b.tree
      BY DEF TreeOf
    <3>3. p \in Paths
      BY StoreTyped DEF Snapshots
    <3>4. p \in Diff(a, b) <=> a.tree[p] # b.tree[p]
      BY <3>2, <3>3 DEF Diff
    <3> QED
      BY <3>1, <3>4
  <2> QED
    BY <2>1, <2>2 DEF StoreInv, InOrder, SnapInv
<1> QED
  BY <1>1, AlwaysStore, PTL

\* Until a Purge stops inside shadow.git, nothing makes a retained capture unreadable: no
\* cleanup that runs beside captures and restores, no failing command and no crash.
THEOREM RetainedStaysRestorable == SnapSpec => []RetainedRestorable
<1>1. StoreInv => RetainedRestorable
  BY DEF StoreInv
<1> QED
  BY <1>1, AlwaysStore, PTL

\* Only GitUpdateRef adds a ref.
LEMMA RefsGrow ==
  ASSUME StoreInv, [SnapNext]_snapVars, Len(refs') > Len(refs)
  PROVE  \E c \in Callers : GitUpdateRef(c)
<1>1. refs \in Seq(Tree) /\ Len(refs) \in Nat
  BY StoreTyped
<1>2. refs' # refs /\ refs' # <<>>
  BY <1>1
<1>3. ASSUME NEW c \in Callers, CleanupDelete(c) PROVE FALSE
  <2>1. /\ call[c].pc = "delete" /\ InOrder(c) /\ DOMAIN refs = 1..Len(refs)
    BY <1>1, <1>3, HasLock DEF CleanupDelete, At
  <2>2. PICK i \in call[c].doomed : refs' = RemoveAt(refs, i)
    BY <1>2, <1>3 DEF CleanupDelete
  <2>3. i \in 1..Len(refs)
    BY <2>1 DEF InOrder, CleanupInOrder
  <2>4. Len(refs') = Len(refs) - 1
    BY <1>1, <2>2, <2>3, RemoveAtFacts
  <2> QED
    BY <1>1, <2>4
<1>4. ASSUME NEW c \in Callers, HostCalls(c) PROVE FALSE
  BY <1>2, <1>4 DEF HostCalls, StartCapture, RestoreOpen, CleanupOpen, StartPurge, store
<1>5. ASSUME NEW c \in Callers, CallerStep(c), ~GitUpdateRef(c) PROVE FALSE
  <2>1. CASE CaptureLock(c) \/ EnsureOpen(c) \/ EnsureInit(c) \/ EnsureMeta(c)
             \/ DetectOversizeUntracked(c) \/ GitAdd(c) \/ GitWriteTree(c)
    BY <1>2, <2>1 DEF CaptureLock, EnsureOpen, EnsureInit, EnsureMeta, DetectOversizeUntracked,
       GitAdd, GitWriteTree, store
  <2>2. CASE RestoreLock(c) \/ RestoreBlob(c) \/ RestoreWrite(c) \/ RestoreRemove(c)
             \/ CleanupLock(c) \/ CleanupList(c) \/ GcMark(c) \/ GcPrune(c)
    BY <1>2, <2>2 DEF RestoreLock, RestoreBlob, RestoreWrite, RestoreRemove, CleanupLock,
       CleanupList, GcMark, GcPrune, store
  <2>3. CASE Purge(c)
    <3>1. refs' \in SomeRefs
      BY <1>2, <2>3 DEF Purge
    <3> QED
      BY <1>1, <3>1, SomeRefsFacts
  <2> QED
    BY <1>3, <1>5, <2>1, <2>2, <2>3 DEF CallerStep
<1>6. CASE Edit \/ Reignore \/ RemoveRoot \/ Crash \/ UNCHANGED snapVars
  BY <1>2, <1>6 DEF Edit, Reignore, RemoveRoot, Crash, snapVars, store
<1> QED
  BY <1>4, <1>5, <1>6 DEF SnapNext

\* No capture lands in a store whose identity is not on disk.
THEOREM CapturesAreIdentified == SnapSpec => IdentityBeforeCapture
<1>1. StoreInv /\ [SnapNext]_snapVars =>
        [Len(refs') > Len(refs) => repo /\ meta = "mine"]_snapVars
  <2> SUFFICES ASSUME StoreInv, [SnapNext]_snapVars, Len(refs') > Len(refs)
               PROVE  repo /\ meta = "mine"
    OBVIOUS
  <2>1. PICK c \in Callers : GitUpdateRef(c)
    BY RefsGrow
  <2>2. call[c].pc = "ref" /\ InOrder(c)
    BY <2>1, HasLock DEF GitUpdateRef, At
  <2> QED
    BY <2>2 DEF InOrder, CaptureInOrder
<1> QED
  BY <1>1, AlwaysStore, PTL DEF SnapSpec, IdentityBeforeCapture

\* A caller's step leaves the calls of the others alone.
LEMMA OthersCall ==
  ASSUME StoreInv, NEW c \in Callers, NEW d \in Callers \ {c}, HostCalls(d) \/ CallerStep(d)
  PROVE  call'[c] = call[c]
<1>1. call \in [Callers -> Calls]
  BY HasLock
<1>2. CASE HostCalls(d)
  BY <1>1, <1>2 DEF HostCalls, StartCapture, RestoreOpen, CleanupOpen, StartPurge, Goto
<1>3. CASE CaptureLock(d) \/ EnsureOpen(d) \/ EnsureInit(d) \/ EnsureMeta(d)
           \/ DetectOversizeUntracked(d)
  BY <1>1, <1>3 DEF CaptureLock, EnsureOpen, EnsureInit, EnsureMeta, DetectOversizeUntracked,
     Goto, Return, ReturnLocked, InfraFailure, BestEffortFailure
<1>4. CASE GitAdd(d) \/ GitWriteTree(d) \/ GitUpdateRef(d)
  BY <1>1, <1>4 DEF GitAdd, GitWriteTree, GitUpdateRef, Goto, Return, ReturnLocked,
     BestEffortFailure
<1>5. CASE RestoreLock(d) \/ RestoreBlob(d) \/ RestoreWrite(d) \/ RestoreRemove(d)
  BY <1>1, <1>5 DEF RestoreLock, RestoreBlob, RestoreWrite, RestoreRemove, Goto, Return,
     ReturnLocked
<1>6. CASE CleanupLock(d) \/ CleanupList(d) \/ CleanupDelete(d) \/ GcMark(d) \/ GcPrune(d) \/ Purge(d)
  BY <1>1, <1>6 DEF CleanupLock, CleanupList, CleanupDelete, GcMark, GcPrune, Purge, Goto,
     Return, ReturnLocked
<1> QED
  BY <1>2, <1>3, <1>4, <1>5, <1>6 DEF CallerStep

\* A restore that holds the lock moves on by a step of its own, unless the process dies.
LEMMA RestoreMoves ==
  ASSUME StoreInv, [SnapNext]_snapVars, NEW c \in Callers,
         call[c].pc \in {"blob", "write", "remove"}, call'[c].pc # call[c].pc
  PROVE  RestoreBlob(c) \/ RestoreWrite(c) \/ RestoreRemove(c) \/ Crash
<1>1. CASE HostCalls(c) \/ CallerStep(c)
  BY <1>1 DEF HostCalls, CallerStep, StartCapture, RestoreOpen, CleanupOpen, StartPurge,
     CaptureLock, EnsureOpen, EnsureInit, EnsureMeta, DetectOversizeUntracked, GitAdd,
     GitWriteTree, GitUpdateRef, RestoreLock, CleanupLock, CleanupList, CleanupDelete, GcMark,
     GcPrune, Purge, At
<1>2. ASSUME NEW d \in Callers \ {c}, HostCalls(d) \/ CallerStep(d) PROVE FALSE
  BY <1>2, OthersCall
<1>3. CASE Edit \/ Reignore \/ RemoveRoot
  <2>1. call[c] \in Calls
    BY HasLock
  <2>2. call'[c].pc = call[c].pc
    BY <1>3, <2>1 DEF Edit, Reignore, RemoveRoot, Calls
  <2> QED
    BY <2>2
<1>4. CASE UNCHANGED snapVars
  BY <1>4 DEF snapVars
<1> QED
  BY <1>1, <1>2, <1>3, <1>4 DEF SnapNext

\* A restore gives back what its capture may hold, or its write is cut short.
LEMMA GivesBack ==
  ASSUME StoreInv, [SnapNext]_snapVars, NEW c \in Callers, Restores(c),
         SnapOf(c).tree # NoTree, PathOf(c) \in SnapOf(c).scope
  PROVE  disk'[PathOf(c)] \in Held(SnapOf(c), PathOf(c))
            \cup (IF At(c, "write") THEN {CutShort(BlobAt(SnapOf(c), PathOf(c)))} ELSE {})
<1> DEFINE s == SnapOf(c)
           p == PathOf(c)
           v == BlobAt(s, p)
<1>1. /\ call[c].pc \in {"write", "remove"} /\ call'[c].pc = "idle" /\ disk' # disk /\ lock = c
  BY HasLock DEF Restores, Idle, UnderLock
<1>2. s \in taken /\ p \in Paths
  BY <1>1, RestoreTarget
<1>3. v \in Held(s, p)
  BY <1>2, StoreTyped DEF CaptureTruthful, BlobAt, TreeOf
<1>4. disk \in [Paths -> OnDisk]
  BY StoreTyped DEF Tree
<1>5. ASSUME NEW w, disk' = Left(p, v, w) PROVE disk'[p] = w
  <2>1. ~Through(p, v)
    <3>1. Through(p, v) => Left(p, v, w) = disk
      BY <1>2, <1>4 DEF Left
    <3> QED
      BY <1>1, <1>5, <3>1
  <2>2. disk' = [disk EXCEPT ![p] = w]
    BY <1>5, <2>1 DEF Left
  <2> HIDE DEF p
  <2> QED
    BY <1>2, <1>4, <2>2
<1>6. CASE RestoreWrite(c)
  <2>1. At(c, "write") /\ (disk' = Left(p, v, v) \/ disk' = Left(p, v, CutShort(v)))
    BY <1>1, <1>6 DEF RestoreWrite
  <2>2. disk'[p] \in {v, CutShort(v)}
    BY <1>5, <2>1
  <2> QED
    BY <1>3, <2>1, <2>2
<1>7. CASE RestoreRemove(c)
  <2>1. disk' = [disk EXCEPT ![p] = Absent]
    BY <1>1, <1>7 DEF RestoreRemove
  <2>2. v = Absent
    BY <1>7, HasLock DEF RestoreRemove, At, InOrder, RestoreInOrder
  <2>3. disk'[p] = Absent
    <3> HIDE DEF p
    <3> QED
      BY <1>2, <1>4, <2>1
  <2> QED
    BY <1>3, <2>2, <2>3
<1>8. CASE Crash
  <2>1. PICK d \in Callers : /\ At(d, "write")
                            /\ disk' = Left(PathOf(d), BlobAt(SnapOf(d), PathOf(d)),
                                            CutShort(BlobAt(SnapOf(d), PathOf(d))))
    BY <1>1, <1>8 DEF Crash
  <2>2. d = c
    BY <1>1, <2>1, HasLock DEF At, UnderLock
  <2>3. disk'[p] = CutShort(v)
    BY <1>5, <2>1, <2>2
  <2> QED
    BY <2>1, <2>2, <2>3
<1>9. ~RestoreBlob(c)
  BY <1>1 DEF RestoreBlob, At
<1> QED
  BY <1>1, <1>6, <1>7, <1>8, <1>9, RestoreMoves

\* Preview tells what the restore does.
LEMMA Foretells ==
  ASSUME StoreInv, [SnapNext]_snapVars, NEW c \in Callers, At(c, "blob"),
         call'[c].pc \in {"write", "remove"}
  PROVE  Preview(SnapOf(c), PathOf(c)) \in
             IF call'[c].pc = "remove" THEN {"deleted"} ELSE {"added", "modified"}
<1> DEFINE b == BlobAt(SnapOf(c), PathOf(c))
           v == disk[PathOf(c)]
<1>1. RestoreBlob(c) \/ Crash
  BY RestoreMoves DEF At, RestoreWrite, RestoreRemove
<1>2. ~Crash
  BY DEF Crash, Idle
<1>3. /\ b # v
      /\ Goto(c, IF b = Absent THEN "remove" ELSE "write")
  <2>1. ~ReturnLocked(c)
    BY HasLock DEF ReturnLocked, Return, Idle
  <2> QED
    BY <1>1, <1>2, <2>1 DEF RestoreBlob
<1>4. call'[c].pc = IF b = Absent THEN "remove" ELSE "write"
  BY <1>3, HasLock, GotoFacts DEF UnderLock
<1>5. Preview(SnapOf(c), PathOf(c)) = ClassifyRestore(v, b)
  BY DEF Preview
<1> HIDE DEF b, v
<1>6. CASE b = Absent
  BY <1>3, <1>4, <1>5, <1>6 DEF ClassifyRestore
<1>7. CASE b # Absent
  BY <1>3, <1>4, <1>5, <1>7 DEF ClassifyRestore
<1> QED
  BY <1>6, <1>7

\* A restore from a successful capture gives a covered path back what the capture may
\* hold for it, or leaves its write cut short, whatever Purge, Cleanup and other captures
\* did since it opened the store and wherever the process dies; and it changes a path
\* exactly as Preview says of the state it works on.
THEOREM RestoresTellTheTruth == SnapSpec => RestoreAsPreviewed
<1>1. StoreInv /\ [SnapNext]_snapVars =>
        [\A c \in Callers : Restores(c) =>
          LET s == SnapOf(c)  p == PathOf(c) IN
          s.tree # NoTree /\ p \in s.scope =>
             disk'[p] \in Held(s, p) \cup (IF At(c, "write") THEN {CutShort(BlobAt(s, p))} ELSE {})]_snapVars
  BY GivesBack
<1>2. StoreInv /\ [SnapNext]_snapVars =>
        [\A c \in Callers : At(c, "blob") /\ call'[c].pc \in {"write", "remove"} =>
          Preview(SnapOf(c), PathOf(c)) \in
             IF call'[c].pc = "remove" THEN {"deleted"} ELSE {"added", "modified"}]_snapVars
  BY Foretells
<1> QED
  BY <1>1, <1>2, AlwaysStore, PTL
     DEF SnapSpec, RestoreAsPreviewed, RestoreGivesBack, PreviewForetellsRestore
=============================================================================
