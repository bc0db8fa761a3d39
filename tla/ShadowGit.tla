------------------------------ MODULE ShadowGit ------------------------------
(***************************************************************************)
(* The filesystem snapshot provider (src/snapshot/shadowgit.go): capture   *)
(* of a project tree into a private git store, selective restore, and the  *)
(* retention operations Cleanup and Purge, called by concurrent hosts      *)
(* while an agent edits the tree, git commands fail or are killed, and the *)
(* wrapper's process crashes.                                              *)
(*                                                                         *)
(* The module is one Target: the store directory, the lock and the entry   *)
(* of a SnapshotSet are all keyed by the target's ID, so the loops of      *)
(* Capture, Restore and Diff over targets are independent copies of it.    *)
(* A tree is the function from paths to contents; content addressing makes *)
(* the tree its own hash.  Git itself is external: a command does what the *)
(* caller relies on, fails without effect, or is killed half way; git add  *)
(* may also fail after it has added.  What git keeps out of the index      *)
(* while it is untracked is one set of paths, which the agent may change:  *)
(* gitignored paths, .git metadata and the files of an embedded            *)
(* repository.                                                             *)
(***************************************************************************)
EXTENDS Naturals, Sequences, SequencesExt, FiniteSets

CONSTANTS Callers,      \* goroutines that call the provider
          Paths,        \* Root-relative paths
          Small, Big,   \* file contents below and above maxUntrackedBytes
          Links,        \* those of Small that are symbolic links
          MaxCaptures,  \* bound: captures attempted
          MaxCalls,     \* bound: calls of the other operations
          MaxEdits,     \* bound: edits of the working tree by the agent
          MaxCrashes    \* bound: crashes of the wrapper's process

Absent == "absent"      \* no file at the path
Torn   == "torn"        \* a file truncated by an interrupted write
Nobody == "nobody"      \* the lock is free
NoTree == <<>>         \* RootSnapshot.TreeHash is empty

ASSUME SnapshotConstants == /\ Callers # {} /\ Nobody \notin Callers
                            /\ Paths # {}
                            /\ Links \subseteq Small
                            /\ Small \cap Big = {} /\ {Absent, Torn} \cap (Small \cup Big) = {}
                            /\ {MaxCaptures, MaxCalls, MaxEdits, MaxCrashes} \subseteq Nat

Contents == Small \cup Big
OnDisk   == Contents \cup {Absent, Torn}
Tree     == [Paths -> OnDisk]
Nothing  == [p \in Paths |-> Absent]

VARIABLES repo,      \* shadow.git exists
          meta,      \* meta.json: "none", "mine", or "torn" (unparsable)
          index,     \* the store's persistent git index
          stale,     \* index.lock left behind by a killed git add
          objects,   \* trees in the object database
          refs,      \* refs/snapshots/*, oldest first
          whole,     \* history: no Purge has stopped inside this shadow.git
          root,      \* the target's Root directory exists
          disk,      \* the working tree
          ignored,   \* the paths git keeps out unless they are tracked
          lock,      \* holder of lockForID(target)
          call,      \* per caller, the operation in progress
          taken,     \* the RootSnapshots hosts have been given
          captures, calls, edits, crashes

store    == <<repo, meta, index, stale, objects, refs, whole>>
tree     == <<root, disk, ignored>>
bounds   == <<captures, calls, edits, crashes>>
snapVars == <<store, tree, lock, call, taken, bounds>>

(* A call: its operation's position, the capture's scope (IncludePaths),   *)
(* what it skipped and wrote, the snapshot and path a restore works on,    *)
(* the captures a cleanup still has to remove, and, as history, what the   *)
(* paths of the scope held while the capture ran and which of them git     *)
(* would have kept apart at some time.                                     *)
Idle == [pc |-> "idle", scope |-> {}, skipped |-> {}, apart |-> {}, wrote |-> NoTree,
         saw |-> [p \in Paths |-> {}], snap |-> {}, path |-> {}, doomed |-> {},
         live |-> {}]

RootSnapshot(c) == [tree |-> call[c].wrote, scope |-> call[c].scope,
                    skipped |-> call[c].skipped, apart |-> call[c].apart, saw |-> call[c].saw]

(* The entry of a capture that failed, an Err and no tree.                 *)
FailedRoot == [tree |-> NoTree, scope |-> {}, skipped |-> {}, apart |-> {},
               saw |-> [p \in Paths |-> {}]]

SnapInit ==
    /\ repo = FALSE /\ meta = "none" /\ index = Nothing /\ stale = FALSE
    /\ objects = {} /\ refs = <<>> /\ whole = TRUE
    /\ root = TRUE /\ disk \in [Paths -> Small \cup {Absent}] /\ ignored \in SUBSET Paths
    /\ lock = Nobody /\ call = [c \in Callers |-> Idle] /\ taken = {}
    /\ captures = 0 /\ calls = 0 /\ edits = 0 /\ crashes = 0

At(c, pc)       == call[c].pc = pc
Goto(c, pc)     == call' = [call EXCEPT ![c].pc = pc]
Return(c)       == call' = [call EXCEPT ![c] = Idle]
ReturnLocked(c) == Return(c) /\ lock' = Nobody

(* Mutant: a store without meta.json is taken for a fresh one.             *)
VerifyMetaIfPresent == meta # "torn"

(* verifyMeta: meta.json is readable, parses, and names this target.       *)
VerifyMeta == meta = "mine"

(* openShadowRepo: what every operation but Capture and Purge starts with. *)
OpenShadowRepo == repo /\ VerifyMeta

-----------------------------------------------------------------------------
(* Capture *)

StartCapture(c) ==
    /\ At(c, "idle") /\ captures < MaxCaptures
    /\ captures' = captures + 1
    /\ \E scope \in (SUBSET Paths) \ {{}} :
          call' = [call EXCEPT ![c] = [Idle EXCEPT !.pc = "lock", !.scope = scope]]
    /\ UNCHANGED <<store, tree, lock, taken, calls, edits, crashes>>

(* Untracked paths that git's ignore rules cover.                          *)
KeptApart(rules) == {p \in rules : index[p] = Absent}

(* The history of a capture starts once it holds the lock.                 *)
CaptureLock(c) ==
    /\ At(c, "lock") /\ lock = Nobody
    /\ lock' = c
    /\ call' = [call EXCEPT ![c].pc = "ensure",
                             ![c].saw = [p \in Paths |-> IF p \in call[c].scope THEN {disk[p]} ELSE {}],
                             ![c].apart = KeptApart(ignored) \cap call[c].scope]
    /\ UNCHANGED <<store, tree, taken, bounds>>

(* A failure of the store: loud, and the target is left out of the set.    *)
InfraFailure(c) == ReturnLocked(c) /\ UNCHANGED taken

(* A failure of this capture: the set holds an entry without a tree.       *)
BestEffortFailure(c) == taken' = taken \cup {FailedRoot} /\ ReturnLocked(c)

EnsureOpen(c) ==
    /\ At(c, "ensure") /\ repo
    /\ IF VerifyMeta THEN Goto(c, "detect") /\ UNCHANGED <<lock, taken>>
                     ELSE InfraFailure(c)
    /\ UNCHANGED <<store, tree, bounds>>

(* git init of a bare repository: it may fail leaving the directory there. *)
EnsureInit(c) ==
    /\ At(c, "ensure") /\ ~repo
    /\ \/ repo' = TRUE /\ Goto(c, "meta") /\ UNCHANGED <<lock, taken>>
       \/ repo' \in BOOLEAN /\ InfraFailure(c)
    /\ index' = Nothing /\ stale' = FALSE /\ objects' = {} /\ refs' = <<>> /\ whole' = TRUE
    /\ UNCHANGED <<meta, tree, bounds>>

EnsureMeta(c) ==
    /\ At(c, "meta")
    /\ \/ meta' = "mine" /\ Goto(c, "detect") /\ UNCHANGED <<lock, taken>>
       \/ meta' \in {meta, "torn"} /\ InfraFailure(c)
    /\ UNCHANGED <<repo, index, stale, objects, refs, whole, tree, bounds>>

(* git ls-files --others --exclude-standard, and the size of what it lists. *)
Oversize(scope) == {p \in scope \ ignored : index[p] = Absent /\ disk[p] \in Big}

(* The stat of Root and detectOversizeUntracked.                           *)
DetectOversizeUntracked(c) ==
    /\ At(c, "detect")
    /\ \/ root /\ call' = [call EXCEPT ![c].pc = "add", ![c].skipped = Oversize(call[c].scope)]
               /\ UNCHANGED <<lock, taken>>
       \/ BestEffortFailure(c)
    /\ UNCHANGED <<store, tree, bounds>>

(* git add -A over the pathspecs of buildPathspecs.  An include that names *)
(* a file is fatal if neither the tree nor the index knows it, or if it is *)
(* untracked and ignored; the whole Root always matches.                   *)
PathspecsMatch(scope) ==
    scope = Paths \/ \A p \in scope : index[p] # Absent \/ (disk[p] # Absent /\ p \notin ignored)

(* What git add looks at: tracked paths, and the others that no rule       *)
(* ignores.                                                                *)
Followed(scope, skipped) == (scope \ skipped) \ KeptApart(ignored)

(* Mutant: git add without -A, which keeps deleted files.                  *)
AddedNotRemoved(scope, skipped) ==
    [p \in Paths |-> IF p \in Followed(scope, skipped) /\ disk[p] # Absent THEN disk[p] ELSE index[p]]

Added(scope, skipped) ==
    [p \in Paths |-> IF p \in Followed(scope, skipped) THEN disk[p] ELSE index[p]]

(* It fails before it has written the index or after, as it does on an     *)
(* ignored include, and a stale index.lock makes it fail.                  *)
GitAdd(c) ==
    LET added == Added(call[c].scope, call[c].skipped) IN
    /\ At(c, "add")
    /\ \/ /\ root /\ ~stale /\ PathspecsMatch(call[c].scope)
          /\ index' = added
          /\ Goto(c, "tree")
          /\ UNCHANGED <<stale, lock, taken>>
       \/ stale' \in {stale, TRUE} /\ index' = index /\ BestEffortFailure(c)
       \/ root /\ ~stale /\ index' = added /\ BestEffortFailure(c) /\ UNCHANGED stale
    /\ UNCHANGED <<repo, meta, objects, refs, whole, tree, bounds>>

(* git write-tree and commit-tree.  In a store that has lost objects the   *)
(* index may vouch for some that are gone.                                 *)
GitWriteTree(c) ==
    /\ At(c, "tree")
    /\ \/ /\ objects' \in {objects \cup {index}} \cup (IF whole THEN {} ELSE {objects})
          /\ call' = [call EXCEPT ![c].pc = "ref", ![c].wrote = index]
          /\ UNCHANGED <<lock, taken>>
       \/ objects' \in {objects, objects \cup {index}} /\ BestEffortFailure(c)
    /\ UNCHANGED <<repo, meta, index, stale, refs, whole, tree, bounds>>

(* git update-ref under a fresh name, which keeps the capture from gc.     *)
GitUpdateRef(c) ==
    /\ At(c, "ref")
    /\ \/ /\ whole => call[c].wrote \in objects
          /\ refs' = Append(refs, call[c].wrote)
          /\ taken' = taken \cup {RootSnapshot(c)}
          /\ ReturnLocked(c)
       \/ BestEffortFailure(c) /\ UNCHANGED refs
    /\ UNCHANGED <<repo, meta, index, stale, objects, whole, tree, bounds>>

-----------------------------------------------------------------------------
(* Diff and Preview read and never write *)

ClassifyRestore(cur, snap) ==
    CASE cur = Absent /\ snap = Absent -> "unchanged"
      [] cur = Absent /\ snap # Absent -> "added"
      [] cur # Absent /\ snap = Absent -> "deleted"
      [] OTHER -> IF cur = snap THEN "unchanged" ELSE "modified"

TreeOf(s) == IF s.tree = NoTree THEN Nothing ELSE s.tree

(* blobAt: an empty tree hash holds no path; an unknown tree is an error.  *)
BlobReadable(s) == s.tree = NoTree \/ (repo /\ s.tree \in objects)
BlobAt(s, p)    == TreeOf(s)[p]

(* Diff: the changed paths git diff-tree reports between two captures, a   *)
(* failed one standing for the empty tree.                                 *)
Diff(from, to) == {p \in Paths : TreeOf(from)[p] # TreeOf(to)[p]}

Preview(s, p) == ClassifyRestore(disk[p], BlobAt(s, p))

-----------------------------------------------------------------------------
(* Restore of one path: the store is opened before the lock is taken *)

RestoreOpen(c) ==
    /\ At(c, "idle") /\ calls < MaxCalls
    /\ calls' = calls + 1
    /\ \E s \in taken, p \in Paths :
          IF OpenShadowRepo
          THEN call' = [call EXCEPT ![c] = [Idle EXCEPT !.pc = "restore", !.snap = {s}, !.path = {p}]]
          ELSE UNCHANGED call
    /\ UNCHANGED <<store, tree, lock, taken, captures, edits, crashes>>

SnapOf(c) == CHOOSE s \in call[c].snap : TRUE
PathOf(c) == CHOOSE p \in call[c].path : TRUE

RestoreLock(c) ==
    /\ At(c, "restore") /\ lock = Nobody
    /\ lock' = c /\ Goto(c, "blob")
    /\ UNCHANGED <<store, tree, taken, bounds>>

(* Mutant: an unreadable tree is taken for one that lacks the path.        *)
RestoreBlobOrRemove(c) ==
    LET s == SnapOf(c)  p == PathOf(c)
        blob == IF BlobReadable(s) THEN BlobAt(s, p) ELSE Absent IN
    /\ At(c, "blob")
    /\ \/ /\ blob # disk[p]
          /\ Goto(c, IF blob = Absent THEN "remove" ELSE "write")
          /\ UNCHANGED lock
       \/ ReturnLocked(c)
    /\ UNCHANGED <<store, tree, taken, bounds>>

(* blobAt and currentBlobHash: an unreadable tree or file fails the        *)
(* restore, and content that already matches is left alone.                *)
RestoreBlob(c) ==
    LET s == SnapOf(c)  p == PathOf(c) IN
    /\ At(c, "blob")
    /\ \/ /\ BlobReadable(s) /\ BlobAt(s, p) # disk[p]
          /\ Goto(c, IF BlobAt(s, p) = Absent THEN "remove" ELSE "write")
          /\ UNCHANGED lock
       \/ ReturnLocked(c)
    /\ UNCHANGED <<store, tree, taken, bounds>>

(* A write puts the content there, except through a link that is there:    *)
(* os.WriteFile follows it and leaves the path as it was.                  *)
Through(p, v) == disk[p] \in Links /\ v \notin Links

(* What a write that does not end leaves at its path: os.Symlink comes     *)
(* after os.Remove, and os.WriteFile truncates first.                      *)
CutShort(v) == IF v \in Links THEN Absent ELSE Torn

(* The tree once a write of v has left w at p.                             *)
Left(p, v, w) == [disk EXCEPT ![p] = IF Through(p, v) THEN @ ELSE w]

(* catBlob, MkdirAll of the parent, and os.WriteFile or, for a link,       *)
(* os.Remove and os.Symlink.                                               *)
RestoreWrite(c) ==
    LET p == PathOf(c)  v == BlobAt(SnapOf(c), p) IN
    /\ At(c, "write")
    /\ \/ root' = TRUE /\ disk' \in {disk, Left(p, v, v), Left(p, v, CutShort(v))}
       \/ UNCHANGED <<root, disk>>
    /\ ReturnLocked(c)
    /\ UNCHANGED <<store, ignored, taken, bounds>>

RestoreRemove(c) ==
    /\ At(c, "remove")
    /\ \/ disk' = [disk EXCEPT ![PathOf(c)] = Absent]
       \/ UNCHANGED disk
    /\ ReturnLocked(c)
    /\ UNCHANGED <<store, root, ignored, taken, bounds>>

-----------------------------------------------------------------------------
(* Cleanup and Purge *)

CleanupOpen(c) ==
    /\ At(c, "idle") /\ calls < MaxCalls
    /\ calls' = calls + 1
    /\ IF OpenShadowRepo THEN Goto(c, "cleanup") ELSE UNCHANGED call
    /\ UNCHANGED <<store, tree, lock, taken, captures, edits, crashes>>

(* Mutant: Cleanup does not take the target's lock.                        *)
CleanupUnlocked(c) ==
    /\ At(c, "cleanup")
    /\ Goto(c, "list")
    /\ UNCHANGED <<store, tree, lock, taken, bounds>>

CleanupLock(c) ==
    /\ At(c, "cleanup") /\ lock = Nobody
    /\ lock' = c /\ Goto(c, "list")
    /\ UNCHANGED <<store, tree, taken, bounds>>

(* The captures a policy removes: the expired ones, which are the oldest,  *)
(* and all but the maxSets newest.                                         *)
OutsidePolicy(expired, maxSets) ==
    {i \in DOMAIN refs : i <= expired \/ (maxSets > 0 /\ Len(refs) - i >= maxSets)}

(* git for-each-ref; a store purged since it was opened fails it.          *)
CleanupList(c) ==
    /\ At(c, "list")
    /\ \/ /\ repo
          /\ \E expired \in 0..Len(refs), maxSets \in 0..Len(refs) :
                LET doomed == OutsidePolicy(expired, maxSets) IN
                IF doomed = {} THEN ReturnLocked(c)
                ELSE /\ call' = [call EXCEPT ![c].pc = "delete", ![c].doomed = doomed]
                     /\ UNCHANGED lock
       \/ ReturnLocked(c)
    /\ UNCHANGED <<store, tree, taken, bounds>>

(* git update-ref -d, newest first; then gc, or return at the first error. *)
CleanupDelete(c) ==
    /\ At(c, "delete")
    /\ \/ \E i \in call[c].doomed :
             /\ \A j \in call[c].doomed : j <= i
             /\ refs' = RemoveAt(refs, i)
             /\ call' = [call EXCEPT ![c].doomed = @ \ {i},
                                     ![c].pc = IF call[c].doomed = {i} THEN "gc" ELSE "delete"]
             /\ UNCHANGED lock
       \/ ReturnLocked(c) /\ UNCHANGED refs
    /\ UNCHANGED <<repo, meta, index, stale, objects, whole, tree, taken, bounds>>

(* git gc --prune=now first marks what is reachable, the index included,   *)
(* and then deletes the rest.                                              *)
GcMark(c) ==
    /\ At(c, "gc")
    /\ \/ /\ call' = [call EXCEPT ![c].pc = "prune", ![c].live = Range(refs) \cup {index}]
          /\ UNCHANGED lock
       \/ ReturnLocked(c)
    /\ UNCHANGED <<store, tree, taken, bounds>>

GcPrune(c) ==
    /\ At(c, "prune")
    /\ objects' \in {objects \cap call[c].live, objects}
    /\ ReturnLocked(c)
    /\ UNCHANGED <<repo, meta, index, stale, refs, whole, tree, taken, bounds>>

StartPurge(c) ==
    /\ At(c, "idle") /\ calls < MaxCalls
    /\ calls' = calls + 1 /\ Goto(c, "purge")
    /\ UNCHANGED <<store, tree, lock, taken, captures, edits, crashes>>

(* What may be left of refs/snapshots: any of the captures, in order.      *)
SomeRefs ==
    UNION {{[i \in 1..n |-> refs[at[i]]] :
               at \in {f \in [1..n -> DOMAIN refs] : \A i, j \in 1..n : i < j => f[i] < f[j]}}
           : n \in 0..Len(refs)}

(* os.RemoveAll of the target's directory, entry by entry in any order; it *)
(* may stop at an error, in shadow.git too, or with the process.           *)
Purge(c) ==
    /\ At(c, "purge") /\ lock = Nobody
    /\ meta' \in {meta, "none"}
    /\ \/ /\ repo' = FALSE /\ index' = Nothing /\ stale' = FALSE /\ objects' = {} /\ refs' = <<>>
          /\ whole' = TRUE
       \/ UNCHANGED <<repo, index, stale, objects, refs, whole>>
       \/ /\ repo /\ UNCHANGED repo
          /\ index' \in {index, Nothing} /\ stale' \in {stale, FALSE}
          /\ objects' \in SUBSET objects /\ refs' \in SomeRefs
          /\ whole' = FALSE
    /\ Return(c)
    /\ UNCHANGED <<tree, lock, taken, bounds>>

-----------------------------------------------------------------------------
(* The agent and the process *)

(* The agent writes or deletes a file; the capture in progress sees it.    *)
Sees(c, p) == lock = c /\ p \in call[c].scope

Edit ==
    /\ edits < MaxEdits /\ edits' = edits + 1
    /\ \E p \in Paths, v \in Contents \cup {Absent} :
          /\ v # disk[p] /\ root
          /\ disk' = [disk EXCEPT ![p] = v]
          /\ call' = [c \in Callers |-> IF Sees(c, p) THEN [call[c] EXCEPT !.saw[p] = @ \cup {v}]
                                                  ELSE call[c]]
    /\ UNCHANGED <<store, root, ignored, lock, taken, captures, calls, crashes>>

(* It writes a .gitignore, or makes a directory a repository, or undoes it. *)
Reignore ==
    /\ edits < MaxEdits /\ edits' = edits + 1
    /\ \E rules \in (SUBSET Paths) \ {ignored} :
          /\ ignored' = rules
          /\ call' = [c \in Callers |-> [call[c] EXCEPT !.apart = @ \cup {p \in KeptApart(rules) : Sees(c, p)}]]
    /\ UNCHANGED <<store, root, disk, lock, taken, captures, calls, crashes>>

(* Root and all it holds vanishes.                                         *)
RemoveRoot ==
    /\ edits < MaxEdits /\ edits' = edits + 1
    /\ root /\ root' = FALSE /\ disk' = Nothing
    /\ call' = [c \in Callers |->
                  [call[c] EXCEPT !.saw = [p \in Paths |-> IF Sees(c, p) THEN @[p] \cup {Absent} ELSE @[p]]]]
    /\ UNCHANGED <<store, ignored, lock, taken, captures, calls, crashes>>

(* The process dies: locks and calls are gone, files stay as they are, a   *)
(* git add cut short leaves its lock file or the index it has written, and *)
(* a restore's write may be cut short.                                     *)
Crash ==
    /\ crashes < MaxCrashes /\ crashes' = crashes + 1
    /\ call' = [c \in Callers |-> Idle] /\ lock' = Nobody
    /\ meta' \in {meta} \cup (IF \E c \in Callers : At(c, "meta") THEN {"torn"} ELSE {})
    /\ \/ UNCHANGED index /\ stale' \in {stale, stale \/ \E c \in Callers : At(c, "add")}
       \/ \E c \in Callers : /\ At(c, "add") /\ root /\ ~stale /\ UNCHANGED stale
                             /\ index' = Added(call[c].scope, call[c].skipped)
    /\ \/ UNCHANGED <<root, disk>>
       \/ \E c \in Callers :
             LET p == PathOf(c)  v == BlobAt(SnapOf(c), p) IN
             /\ At(c, "write") /\ root' = TRUE
             /\ disk' \in {disk, Left(p, v, CutShort(v))}
    /\ UNCHANGED <<repo, objects, refs, whole, ignored, taken, captures, calls, edits>>

CallerStep(c) ==
    \/ CaptureLock(c) \/ EnsureOpen(c) \/ EnsureInit(c) \/ EnsureMeta(c)
    \/ DetectOversizeUntracked(c) \/ GitAdd(c) \/ GitWriteTree(c) \/ GitUpdateRef(c)
    \/ RestoreLock(c) \/ RestoreBlob(c) \/ RestoreWrite(c) \/ RestoreRemove(c)
    \/ CleanupLock(c) \/ CleanupList(c) \/ CleanupDelete(c) \/ GcMark(c) \/ GcPrune(c)
    \/ Purge(c)

HostCalls(c) == StartCapture(c) \/ RestoreOpen(c) \/ CleanupOpen(c) \/ StartPurge(c)

SnapNext == (\E c \in Callers : HostCalls(c) \/ CallerStep(c))
            \/ Edit \/ Reignore \/ RemoveRoot \/ Crash

SnapSpec == SnapInit /\ [][SnapNext]_snapVars

-----------------------------------------------------------------------------
(* Properties *)

Snapshots == [tree: Tree \cup {NoTree}, scope: SUBSET Paths, skipped: SUBSET Paths,
              apart: SUBSET Paths, saw: [Paths -> SUBSET OnDisk]]

(* Where a call is once it has the target's lock.                          *)
UnderLock == {"ensure", "meta", "detect", "add", "tree", "ref", "blob", "write", "remove",
              "list", "delete", "gc", "prune"}

Calls == [pc: UnderLock \cup {"idle", "lock", "restore", "cleanup", "purge"},
          scope: SUBSET Paths, skipped: SUBSET Paths, apart: SUBSET Paths, wrote: Tree \cup {NoTree},
          saw: [Paths -> SUBSET OnDisk], snap: SUBSET Snapshots, path: SUBSET Paths,
          doomed: SUBSET Nat, live: SUBSET Tree]

(* The store, the tree and the calls have their types.                     *)
SnapTypeOK ==
    /\ repo \in BOOLEAN /\ stale \in BOOLEAN /\ root \in BOOLEAN /\ whole \in BOOLEAN
    /\ ignored \subseteq Paths
    /\ meta \in {"none", "mine", "torn"}
    /\ index \in Tree /\ disk \in Tree /\ objects \subseteq Tree /\ refs \in Seq(Tree)
    /\ lock \in Callers \cup {Nobody} /\ call \in [Callers -> Calls]
    /\ taken \subseteq Snapshots

(* Every capture that a ref retains can be restored, unless a Purge has    *)
(* stopped inside shadow.git: no Cleanup, running between another call's   *)
(* write-tree and its update-ref or after it, lets gc reclaim a tree a ref *)
(* names (the lock of Cleanup and captureOne), and neither does a crash.   *)
RetainedRestorable == whole => \A i \in DOMAIN refs : repo /\ refs[i] \in objects

(* No capture lands in a store whose identity is not on disk: a crash      *)
(* between git init and meta.json, or a torn meta.json, leaves a store     *)
(* that ensureShadowRepo refuses rather than uses.                         *)
IdentityBeforeCapture == [][Len(refs') > Len(refs) => repo /\ meta = "mine"]_snapVars

(* What a capture may hold at a path it covers: a content the path had     *)
(* while the capture ran, or nothing if it was listed as skipped or git    *)
(* ignored it for a while.                                                 *)
LeftOut(s) == s.skipped \cup s.apart
Held(s, p) == s.saw[p] \cup (IF p \in LeftOut(s) THEN {Absent} ELSE {})

(* A successful capture holds that for every path of its scope, and not    *)
(* what an earlier capture left in the persistent index.                   *)
CaptureTruthful ==
    \A s \in taken : s.tree # NoTree => \A p \in s.scope : s.tree[p] \in Held(s, p)

(* A path of the scope that is there for the whole capture is in the tree, *)
(* listed as skipped, or one that git's own rules kept apart although no   *)
(* earlier capture was following it; only the last is silent (types.go,    *)
(* SkippedPath).                                                           *)
NoSilentDrop ==
    \A s \in taken : s.tree # NoTree =>
        \A p \in s.scope : Absent \in s.saw[p] \/ s.tree[p] # Absent \/ p \in LeftOut(s)

(* The step in which caller c's restore changes the working tree; it may   *)
(* be the crash that cuts it short.                                        *)
Restores(c) == call[c].pc \in {"write", "remove"} /\ call'[c] = Idle /\ disk' # disk

(* Whatever Purge, Cleanup or another capture does between the time        *)
(* Restore opens the store and the time it locks it, a restore from a      *)
(* successful capture gives a covered path what the capture may hold for   *)
(* it, or leaves it cut short: torn, or absent if it was to be a link.  It *)
(* never deletes because the tree is gone; it does delete what the capture *)
(* left out.                                                               *)
RestoreGivesBack ==
    [][\A c \in Callers : Restores(c) =>
          LET s == SnapOf(c)  p == PathOf(c) IN
          s.tree # NoTree /\ p \in s.scope =>
             disk'[p] \in Held(s, p) \cup (IF At(c, "write") THEN {CutShort(BlobAt(s, p))} ELSE {})]_snapVars

(* Preview tells what Restore does: the restore of a path writes or        *)
(* removes it exactly when Preview says so of the state it works on.       *)
PreviewForetellsRestore ==
    [][\A c \in Callers : At(c, "blob") /\ call'[c].pc \in {"write", "remove"} =>
          Preview(SnapOf(c), PathOf(c)) \in
             IF call'[c].pc = "remove" THEN {"deleted"} ELSE {"added", "modified"}]_snapVars

(* Diff of two captures reports a path both cover only if they may hold    *)
(* two different contents of it, and leaves it out only if they may not.   *)
DiffTruthful ==
    \A a, b \in taken : \A p \in a.scope \cap b.scope :
        NoTree \notin {a.tree, b.tree} =>
           IF p \in Diff(a, b) THEN \E v \in Held(a, p), w \in Held(b, p) : v # w
                              ELSE Held(a, p) \cap Held(b, p) # {}

(* A call past its lock is the holder of it, and nobody else is.           *)
LockInOrder(c) == call[c].pc \in UnderLock <=> lock = c

(* What a capture knows as it goes: every path's present content is one it *)
(* has seen and every untracked ignored path one it counts as apart, the   *)
(* store it works in is its own, what it skips is not tracked, and from    *)
(* git add on, the index and then the tree it wrote hold what they may.    *)
CaptureInOrder(c) ==
    /\ call[c].skipped \subseteq call[c].scope
    /\ call[c].pc \in {"lock", "ensure", "meta", "detect", "add", "tree", "ref"} =>
          call[c].scope # {}
    /\ call[c].pc \in {"ensure", "meta", "detect", "add", "tree", "ref"} =>
          \A p \in call[c].scope : disk[p] \in call[c].saw[p]
    /\ call[c].pc \in {"ensure", "meta", "detect", "add"} =>
          KeptApart(ignored) \cap call[c].scope \subseteq call[c].apart
    /\ call[c].pc \in {"meta", "detect", "add", "tree", "ref"} => repo
    /\ call[c].pc \in {"detect", "add", "tree", "ref"} => meta = "mine"
    /\ call[c].pc = "add" => \A p \in call[c].skipped : index[p] = Absent
    /\ call[c].pc = "tree" => \A p \in call[c].scope : index[p] \in Held(call[c], p)
    /\ call[c].pc = "ref" =>
          /\ call[c].wrote \in Tree
          /\ \A p \in call[c].scope : call[c].wrote[p] \in Held(call[c], p)

(* A restore works on one path of one capture, and removes only what the   *)
(* capture does not have.                                                  *)
RestoreInOrder(c) ==
    /\ call[c].pc \in {"restore", "blob", "write", "remove"} =>
          \E s \in taken, p \in Paths : call[c].snap = {s} /\ call[c].path = {p}
    /\ call[c].pc = "remove" => BlobAt(SnapOf(c), PathOf(c)) = Absent

(* The captures a cleanup is to remove are there, and gc has marked every  *)
(* capture that is left.                                                   *)
CleanupInOrder(c) ==
    /\ call[c].pc = "delete" => call[c].doomed \subseteq DOMAIN refs
    /\ call[c].pc = "prune" => Range(refs) \subseteq call[c].live

(* What captures say is so, and what a diff of them says; with the facts   *)
(* about the calls in progress that make it inductive.                     *)
SnapInv ==
    /\ SnapTypeOK /\ CaptureTruthful /\ NoSilentDrop /\ DiffTruthful
    /\ \A c \in Callers : /\ LockInOrder(c) /\ CaptureInOrder(c) /\ RestoreInOrder(c)
                          /\ CleanupInOrder(c)

(* A restore gives back what its capture holds, and does what Preview says. *)
RestoreAsPreviewed == RestoreGivesBack /\ PreviewForetellsRestore

(* A capture that did not land changes nothing when it is restored from.   *)
(* "this one Target's capture just didn't land this time" (types.go) and   *)
(* "Restore selectively writes the given paths back to their content in    *)
(* set" (provider.go).                                                     *)
FailedCaptureRestoresNothing ==
    [][\A c \in Callers : Restores(c) => SnapOf(c).tree # NoTree]_snapVars
=============================================================================
