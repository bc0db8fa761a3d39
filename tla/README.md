# go-agent-wrapper: TLA+ verification project

This directory holds TLA+ models of go-agent-wrapper, TLC configurations that
check them on small instances, and TLAPS proofs of their main safety
properties for every instance. The models are translated from the Go source
under `src/`; `PROJECT.json` maps each definition to the lines it stands for.

## The system

go-agent-wrapper runs coding agents (Claude, Codex, OpenCode, Pi, Copilot) for
a host application, natively over their CLI or over ACP (JSON-RPC on the
child's stdin and stdout), and turns what they do into runtime events.

| Component | State it keeps | Operations | Hard parts |
| --- | --- | --- | --- |
| Permission coordinator (`acp/permission.go`) | turn generations with dispatch counts and a done channel, pending requests, responder count, closed flag | dispatch or direct Respond, BeginTurn, CloseTurnAdmission, EndTurn, CancelTurn, Close | every request is a goroutine that waits for a host callback; lifecycle calls revoke it at any point |
| NDJSON client (`acp/ndjsonclient.go`, `transport.go`, `writeframe.go`, `internal/closegate`, `internal/childoutput`) | turn in flight, pending calls, prompt/close gate, transport, event channel | Launch, Prompt, Cancel, Close; reader, process waiter and termination coordinator | four kinds of goroutine, one gate, bounded and unbounded waits, agent that may stall or exit anywhere |
| Session and manager (`acp/lifecycle.go`) | registration by id; state, outcome, latches, channels per session | Launch with Commit, Prompt, Cancel, Close, Wait, Shutdown; drain, finish, emitDiagnostic | launch races drain, close races exit, a late event meets a finished session |
| Copilot client (`adapters/copilotacp`) | as the NDJSON client, over stdio or TCP | the same | the same, with its own code |
| Wrapper, native run (`wrapper/wrapper.go`, `typed_order.go`, `turn_interrupt.go`) | input admission, open turn, interrupt mark, typed-event queue, fanout channel | Run, SendInput, Stop, CancelTurn | callbacks and a translator goroutine ordered through one channel |
| Wrapper, ACP run (`wrapper/acp_lifecycle.go`) | the current ACP session, admitted inputs, whether the exit was seen | runACP, SendInput, Stop, CancelTurn | Stop, CancelTurn and the context against launch, forwarding and teardown |
| Launch preparation (`launch`, `wrapper/prepared.go`, `environment.go`, `posture.go`, `acp/sandbox.go`, ...) | what one launch has settled on so far | Select, New, prepare, plant, sandbox, spawn, dial | a decision made in one place and relied on in another; nil against empty |
| Delivery (`adapters/delivery.go`, `wrapper/delivery.go`) | none | Plan | what is advertised against what works |
| Turn output reducer (`turnoutput`) | open turns with text blocks, tools, signals, requests; memory of finished ones | Observe, ObserveProvider, ObserveStream | long event sequences, late and repeated ends, size limits |
| Snapshots (`snapshot`) | one shadow git repository per target, on disk | Capture, Diff, Preview, Restore, Cleanup, Purge | per-target locks, crash between steps, best-effort failures |
| Translators, planter, policy, bridges, filters | none that outlives a call | conversions | none of TLC's kind |

How they interact: the wrapper drives an `acp.Session` through the manager; the
session owns one client, calls its Prompt, Cancel and Close, and drains its
event channel; natively it runs an agentkit session, whose callbacks and event
channel it orders and translates; the client owns a permission coordinator, whose response gate
is the client's own `promptCloseMu`, and calls back into the host's responder,
`OnDiagnostic` and `Commit`.

What makes each correct: a permission request is answered once, never with a
selection its turn no longer allows, and a turn's end is a barrier for its
requests; the client's event stream is complete and properly bracketed by
turns, Close always ends, and nothing deadlocks; a session is ready only after
its commit, ends once with the outcome that caused it, and is quiet when it
says it is done; a native run reports each turn's events in the agent's order
between one turn.started and one terminal event, and always returns; an ACP run
passes on its session's stream whole and reports one exit; a child that runs is
confined, and sees the environment, that the configuration asked for, and what
is reported of its sandbox is so; a turn yields one output, of the kind its
events give; a capture holds what was there, but for what it lists as skipped
and what git's rules keep out, and a restore gives back what the capture holds.

## Modules

- `PermissionContract`: what the coordinator promises, without goroutines. A
  turn is future, accepting, revoked or over; a request is unsent, open,
  decided and answered. An option may be selected only while the request's own
  turn accepts, and a turn is over only when the requests it counts are
  answered.
- `Permissions`: the coordinator. One action per critical section of `p.mu`, or
  per step between two of them. `stage` is the program counter of a request's
  goroutine (`admitted`, `announced`, `asking`, `answered`, `gated`,
  `committed`, `responded`, `retired`, `completed`, `done`); `turns`,
  `generation`, `asyncDispatches`, `callbacks`, `pending`, `canceled` and
  `committed` are the fields of the Go structs; `gate` is the lock installed
  with SetResponseGate and `reader` says which request occupies the protocol
  reader. The lifecycle calls may come in any order, so what is shown does not
  depend on a well-behaved client.
- `AcpClient`: the NDJSON client, EXTENDS `Permissions`, whose actions it calls
  from its own. `prompting`, `canceling`, `closing`, `readLoop`, `join` and
  `finish[g]` are the positions of Prompt, Cancel, Close, the reader, the
  termination coordinator and turn g's goroutine. `events` and `wire` hold what
  has been emitted and written; the action properties over them give the order.
- `CopilotClient`: the Copilot client, EXTENDS `AcpClient` and takes over the
  actions whose code is the same. `transport` is stdio, TCP to a spawned child
  or TCP to an agent that already runs; `closeSaw` is what Close read of
  `c.cmd`, `c.started` and the session before it waits; `onceLost` says that the
  transport's close-once ran before there was a transport. Its header lists the
  four differences between the two clients.
- `AcpSession`: the manager's registration of one id and the sessions launched
  under it. The client is its environment here (`client`, `chan`): it emits what
  `AcpClient` emits, in the order `AcpClient` allows, on a bounded channel that
  drops when full.
- `AcpRun`: the wrapper's Run on an ACP adapter, composed with `AcpSession`,
  whose steps it takes as its own (`SessionAlone`) or joins with steps of the
  wrapper (launch, prompt, publish, close). `run`, `watcher`, `forwarder`,
  `input` and `interrupt` are the positions of runACP, of its two goroutines,
  and of the host's SendInput and Stop or CancelTurn calls; `acpSession`,
  `inputsClosed` and `sawExit` are fields; `events` is the session's channel;
  `emitted` is what the activity bridge was given.
- `NativeRun`: one native run. `run` and `translator` are the positions of Run and
  of the translator goroutine, `input` and `canceling` those of the host's
  SendInput and CancelTurn calls; `fanout`, `typedItems`, `marking` and
  `fanoutClosed` are the event channel and the typed-event queue (`marking`: a
  callback holds `closeMu` and has yet to send its marker); `currentTurn`,
  `turnUsage`, `open` and `interrupted` are Run's and the turn marks' fields.
  agentkit's session is the environment: the agent answers inputs in turns,
  and its output is parsed in order into typed and stream events.
- `LaunchPlan`: from a configuration to a running child. The configuration is a
  constant of the behaviour; each action is one stage (`launch.Select`, New, the
  preparation of a native or an ACP run, the planter, the adapter's wrapping,
  the posture, the sandbox, spawn and dial, natively the start of the runtime and
  the host's Applier), and a stage's error refuses the launch. The variables hold
  what the stages decided: adapter, environment, the posture of the flags and of
  the answers, policy, confinement, reports and child. `reports` are the
  `sandbox.applied` events of all senders: those about the sandbox around the
  child (natively `SandboxOutcomeCallback` and, when `runtime.Start` fails,
  `emitRuntimeStartSandboxError`; over ACP the client) are `outcome`, what
  `runSandbox` passes on from `Config.Sandbox` is `applier`. A runtime with a
  process per turn has no child before its first turn (`StartTurn`). At the end
  a delivery is planned and the turn canceled.
- `TurnOutput`: the reducer. `r` is the Reducer struct: open turns, memory of
  finished ones, and what it keeps to tell repeated ends apart; one action per
  event. `log`, kept with a turn, is history: every event of it in order, and so
  are `begun`, `raised` and `called`, the points of the log at which a block, a
  signal and a tool call came. The reference definition of a turn's kind
  (`ReferenceKind`) reads only the log.
- `ShadowGit`: the snapshot provider for one target. `call[c]` is where caller c
  is in its operation; `repo`, `meta`, `index`, `stale`, `objects`, `refs` are
  the store on disk, `disk` and `root` the working tree, `lock` the target's
  mutex. `ignored` are the paths that git keeps out of the index as long as it
  does not track them, and `Links` the contents that are symbolic links. `whole`
  is history: it is false from when a Purge stops inside `shadow.git` until the
  store is made anew. The agent edits the tree and the ignore rules, git commands
  fail or are killed, and a crash ends all calls and leaves the disk as it is.
- `PermissionsProofs`, `AcpSessionProofs`, `AcpRunProofs`, `NativeRunProofs`,
  `LaunchPlanProofs`, `TurnOutputProofs`, `ShadowGitProofs`: the theorems about the
  module each is named after; `ClientProofs`: those about `AcpClient` and, on
  their lemmas, `CopilotClient`.
- `MC...`: the instances TLC checks.

Operators whose comment begins with `MUTANT:` or `Mutant:` are faulty variants of
the definition that follows; no specification uses them. Putting one in its
definition's place breaks the property it is paired with in `PROJECT.json`.

### Abstractions

- A permission frame is `valid`, `invalid` or of another session; a responder's
  answer is an offered option, an option that was not offered, none, an error
  (or panic) or a context error. Payloads, ids and wording are left out.
- A timer is a step that may happen at any time after it was set; a bounded
  wait is one that may end at any time.
- A write succeeds only while stdin is open, and may fail at any time.
- Launch of the NDJSON client is one step in `AcpClient`: it named the session
  and succeeded, or it failed. A launch that fails before the child starts has
  no goroutines; its stages are in `LaunchPlan`. In `CopilotClient` the start of
  the transport, of the goroutines and the handshake are steps, since Close may
  come between them.
- The content notifications a translator handles change no state and are left
  out, and so are `lastActivity`, `lastTurnOutcome` and the provider's id.
- The client's channel is unbounded in `AcpClient`; `AcpSession` has its limit.
- In `AcpSession` the ctx of Close and Wait does not end.
- In `AcpRun` heartbeats are left out and the bridge's sink takes every event.
- In `NativeRun` what precedes runtime.Start is one step that may fail, and Stop
  is one action for the host's Stop and for Run's watcher of its ctx. Typed
  events are those inside a turn (`result`, which stands for tool results,
  refusals and approval requests) and those about the session (`notice`).
  agentkit's own sends drop when the channel is full, as the comment on
  `typedQueue` says; its reader of a long-lived child ends before Wait returns,
  and with a child per turn SendInput parses the turn, one turn at a time.
  emitObserved's look at the mark (`wrapper.go:599`) and its Emit (609) are one
  step, so that an unmark between them (`turn_interrupt.go:90`), which would leave
  the reason on the event of a CancelTurn that failed, is not covered by
  `InterruptNotInvented`.
- In `LaunchPlan` a variable is a name and a value, a policy is its mode, its
  network and whether it conflicts with or covers the protected paths; argument
  vectors and paths are left out. The sandbox backend and the host's Applier are
  external: a backend is there or not, and applies or fails; an Applier says
  anything or fails. A session that runSandbox stops is gone in the same step
  (`NativeRun` has its end). Of a process per turn the first is followed; each
  later one repeats `StartTurn`. A preparation that was asked for and does not
  resolve is a configuration with `request` and without `prepared`, and is refused.
- In `TurnOutput` a text is the set of the deltas it is made of, which is enough
  to say where it was written, and not how it is trimmed or cut.
- In `ShadowGit` a tree is a function from paths to contents and is its own
  hash. The targets of a set do not share state, so one target is modelled.
  Gitignored paths, `.git` metadata and the files of an embedded repository are
  one set, what git keeps out while it is untracked. A mode is part of the content
  only as far as a link is one. Names stand for themselves: pathspec magic and
  quoting are left out, and an include is a path (of a directory, all paths in
  it). The steps inside a restore's write are one action with every outcome they
  may leave, since the lock keeps other calls away and an edit of the agent's
  commutes with them; so are those of Purge's RemoveAll. A later `git add` in a
  store that lost objects may write a tree it does not hold (`GitWriteTree`).

## Runs

| Run | Instance | Shows |
| --- | --- | --- |
| `permissions` | 2 of 2 dispatched and 1 direct request, 2 turns, 1 slot, any order of lifecycle calls, invalid frames, a responder that selects, selects wrongly, fails or never returns | `PermInv`, the inductive invariant; `EndTurnBarrier`; `CapacityHeld`; `EndTurnNeverStuck`; and that `Permissions` implements `PermissionContract` (`ImplementsContract`) |
| `client` | 1 request of this or another session at any time, 2 turns with an agent that sends a malformed stream, or 1 turn with Cancel and Close | `ClientInv`, `StreamComplete`, `NoEventAfterTurnEnd`, `NoSelectionAfterCancel` |
| `client_close` | Close, an agent and a responder that may do nothing; a request only after its prompt is written | `CloseCompletes`: Close returns and the event channel closes |
| `copilot` | three transports, 1 request, 2 turns, or 1 with Cancel or Close (both over stdio), writes that fail | `CopilotInv`, `TurnsMatched`, `CloseReleases`, `NothingAfterItsEnd` |
| `session` | 1 session with every end of its child, and one of: a second prompt, a diagnostic, Cancel, Close, a second launch of the id | `SessionInv`, `OneClientPerId`, `OutcomeIsCause`, `SessionEnds`, `TurnEndFreesSession` |
| `acp_run` | 1 input, auto-fired first prompt or Stop or CancelTurn, canceled context, a host that closes the session through the Manager, a channel with 1 slot | `RunInv` (with `StreamIntact` and `StreamInOrder`), `OneExit`, `ReturnedMeansQuiet`, `RunNeverStuck` |
| `native_run` | 2 inputs, 1 CancelTurn, 3 events of output, a channel with 1 slot, both kinds of child | `NativeInv`, `TurnsBracketed`, `SinkInOrder`, `InterruptNotInvented`, `RunReturns` |
| `launch` | 19579 configurations in five families: selections, host adapters, sandboxes with and without an Applier, prepared executions, environments | `NeverUnprotected`, `ReportTruthful`, `EnvironmentAsConfigured`, `OnePosture`, `CancelAsAdvertised` |
| `output` | 1 turn with 4 events of any sort, or several turns made of 5 texts, stop reasons and ends; all memories 1 to 3 long | `OutInv`, `KindMatchesReference`, `EndsKeptApart` |
| `snapshot` | 2 callers, 2 paths of which any are ignored, a link and an oversize regular file as contents, 2 captures, 2 other calls, 1 edit of a file or of the rules, 1 crash | `SnapInv`, `RetainedRestorable`, `IdentityBeforeCapture`, `RestoreAsPreviewed` |
| `client_gate`, `snapshot_restore` | see below | counterexamples |

The invariants that end in `Inv` are conjunctions of named parts, each with its
own comment: `PermInv` is the inductive invariant of the proofs; the others are
the module's type invariant and those of its relations that only mean something
together (`NativeInv`, for instance, that every typed event has its marker, that
nothing is sent on the closed channel and that usage is counted once).

Bounds. Two requests and one slot are the smallest instance in which a request
meets a full coordinator, and two turns the smallest in which a request, an
entry or an event of one turn meets the next; requests do not interact except
through the slots, the gate and the reader, which two of them exercise. The
client runs use one request because Prompt, Cancel, Close, the reader, the exit
and the join already interleave; the proofs carry the coordinator's part to any
number.

Six runs have a state constraint, which says which features meet in one
behaviour, since all of them together are beyond TLC:

- `TwoRequests` (`permissions`): any one request, or any two whose frames are
  well-formed and whose responders do not fail; in the second turn dispatched
  ones. A request that is declined or fails takes a slot and gives it back as
  the others do, and only what a turn leaves behind matters to the next.
- `TwoTurnsOrCalls` (`client`, `copilot`): two turns, or one turn with Cancel and
  Close. After either call the client admits no turn that differs from the
  first: Cancel leaves the turn in flight, and Close ends the client. A frame of
  another session, an empty answer and a malformed stream meet the turns only,
  and the end of the child is followed once Cancel or Close is over. In
  `copilot` two turns, and the two calls, meet over stdio: the transports differ
  in how they start and stop.
- `OneExtra` (`session`): one event beyond a prompt and the child's end. It cuts
  off only choices of the host and the agent, never a fair action of the first
  session, so the liveness properties are checked on whole behaviours of it. The
  second launch is followed until it has the id, which is what
  `OneClientPerId` is about.
- `AutoFireOrStop` (`acp_run`): the auto-fired prompt with an input or the
  canceled context, or an input with Stop or CancelTurn and the canceled context;
  the Manager's close with all of them.
- `Sessions` (`output`): one turn in depth, or many short ones. Turns meet only
  through ids, the memory of finished ones, stop reasons and repeated ends.

`ChanCap = 6` holds every lifecycle event of a session with two prompts;
`EventsCap = 1` overflows. In `native_run` one slot is the channel at its limit,
where stream events are dropped and a marker waits, and three events are enough
for a typed event between two others, for a turn with usage and its end, and
for an end followed by the next turn. In `output` a memory of one finished turn and one
open turn is the shortest that can forget; in `snapshot` two captures are
needed for a persistent index that is out of date, one crash for a half-made
store, and two callers for a Cleanup or Purge inside a Capture or Restore. A
link and an oversize file are the contents that the code treats apart; a small
regular file is an oversize one that is not skipped, as it is once it is tracked.
One change of the rules makes a tracked path an ignored one or the reverse. The
launch decisions depend on few values of each input, and the families cross the
ones that are read in the same place. Deadlock checking is off except in
`launch`: the host need not call anything more, and the bounds end behaviours.

### What the violations show

- `client_gate`: Prompt whose write fails runs the turn's EndTurn while it holds
  `promptCloseMu`. A permission request that was admitted to the turn in the
  meantime needs that gate to answer. Both wait for ever. On the instance of
  `client_close`, where no request comes before the prompt is on the wire, the
  client does not get stuck.
- `snapshot_restore`: a best-effort capture that failed leaves a RootSnapshot with
  `Err` and no tree. Restore does not look at `Err` and takes the missing tree
  for an empty one: it removes the file it was asked to restore.

### Known divergences

Disagreements between the code and its words that were met while modelling and
have no run of their own. Where a model contains one, its properties name the
exception.

- A `turn.failed` of an earlier Prompt, observed late, marks the session ready
  while the next turn runs; a Cancel is then not passed on
  (`acp/lifecycle.go:422`, against the comment at 302).
- The native wrapper opens a turn at its first event; CancelTurn before it finds
  no turn to mark, and the turn's `turn.failed` lacks the reason "interrupted"
  (`wrapper/turn_interrupt.go:84`, `README.md:83`).
- Wait of a session that was closed on purpose returns the child's exit error
  when the child exited with one (`acp/lifecycle.go:436`, against 342).
- Copilot's Prompt may register its call after the reader's end has failed the
  pending ones; nobody answers it, and the event channel never closes
  (`adapters/copilotacp/client.go:869` and 1337, `acp/client.go:134`).
  `TurnsMatched` speaks of channels that close.
- Copilot's Close before Launch has set `c.cmd` and `c.conn` releases neither
  (`client.go:972`, 1116). `CloseReleases` speaks of a client that had started.
- When the first prompt of an ACP run fails, runACP returns without draining the
  session's events and without a `process.exited` (`wrapper/acp_lifecycle.go:149`).
  `OneExit` and `ReturnedMeansQuiet` speak of a Run that served its session.
- A Done without stop reason and text is swallowed after an Error, since a failure
  resets `lastDone` to the signature of such a Done (`turnoutput/reducer.go:275`
  and 218, against `CHANGELOG.md:169`). `LoneDoneReported` speaks of a Done after
  a completed turn.
- A terminal event without a turn id that is all there is of its turn takes the
  stop reason that trailed the turn before (`turnoutput/reducer.go:224`): the
  reducer cannot tell a trailing one from a leading one. `TrailingStopDropped`
  speaks of turns that stay open after their first event.
- An ACP run ignores `Config.Sandbox`: runACP never calls runSandbox, and nothing
  says so (`wrapper/acp_lifecycle.go:23`, against `wrapper/wrapper.go:127`).
  `ReportTruthful` says that the Applier has its word on a native launch only.
- A sandbox that a native start could not apply may be reported twice, by the
  callback and by the error (`wrapper/wrapper.go:735` and 808). `ReportTruthful`
  asks that neither says enforced.
- `codexacp`'s launch environment turns an empty environment into nil, for which
  the spawn takes the parent's (`adapters/codexacp/client.go:225`,
  `acp/ndjsonclient.go:237`, against `acp/client.go:179`). Named
  `CodexNilEnvironment` in `LaunchPlan`.
- A host's CLIAdapter for Codex that has both interrupt interfaces loses the RPC
  one when a prepared execution wraps it (`wrapper/prepared.go:116`). Named
  `HidesInterrupter` in `LaunchPlan`; the proof of `CancelAsAdvertised` needs the
  name for every configuration, not only for those the run has.
- Restore's MkdirAll can bring back a Root that has vanished
  (`snapshot/shadowgit.go:387`, `snapshot/types.go:27`); its write is not atomic,
  which is why `RestoreGivesBack` allows a torn file or, where it was to make a
  link, none (390-395).
- A capture leaves out untracked ignored paths without a word, as
  `snapshot/types.go:72` says it does, and also `.git` metadata, which the same
  comment says is listed; of an embedded repository it keeps the commit only.
  Restoring such a path, or one that was skipped for its size, takes it for one
  that was not there and removes it (`snapshot/shadowgit.go:365-372`).
  `CaptureTruthful`, `NoSilentDrop` and `RestoreGivesBack` name these paths
  (`LeftOut`).
- A Purge that stops inside `shadow.git` may leave refs whose objects are gone
  (`snapshot/shadowgit.go:510`). `RetainedRestorable` ends there; a Restore then
  fails rather than removes, which `RestoreGivesBack` still says. A capture into
  such a store may land without all of its objects.
- Restoring a regular file to a path that has become a link writes through the
  link and leaves it there, and reports no error (`snapshot/shadowgit.go:401`).
- An include that names an untracked ignored path fails the capture, but only
  after `git add` has updated the index for the other paths
  (`snapshot/shadowgit.go:193`).

### Fairness

`client_close`, `client_gate`, `session` and `native_run` check liveness, under
weak fairness of every step of a goroutine the library started that waits for
nobody, of timers, and of the ends of bounded waits; and under strong fairness
of a request's Lock of the gate, since `sync.Mutex` hands the lock to a starving
waiter. A write to a closed pipe or a dead child fails; a dead child's output
ends. Nothing is assumed of the agent (it may never read, answer or exit), of
the host's calls or of its responder. `AcpSession` assumes that Commit and
OnDiagnostic return, and of the client what `client_close` shows: its Close
returns, and its channel closes. `NativeRun` assumes of agentkit that a stopped
session ends and that SendInput returns once its session has ended.

`EndTurnNeverStuck` and `RunNeverStuck` need no fairness: they are invariants that
say that, as long as the call has not returned, one of the steps which neither
the host nor the agent has to take is enabled. Every step of those modules can
be taken only a bounded number of times, so that such a call returns.

## Proofs

TLC checks the instances above; the theorems here hold for all values of the
constants that the named assumptions admit. Every theorem about an invariant has
the same shape: the initial states satisfy an inductive invariant, one lemma per
action (or per part that an action can disturb) shows that a step keeps it, and
the invariant implies the property. Each inductive invariant was checked by TLC
before it was proved; where the README calls a property an `Inv`, it contains it.

| Module | Theorem | Property |
| --- | --- | --- |
| `PermissionsProofs` | `PermSafety`, `PermTypeCorrect`, `EndTurnBarrierHolds`, `CapacityIsHeld`, `DoneIsClosedOnce`, `RevocationReaches`, `SelectionIsFailSafe` | `PermInv` and its parts, `EndTurnBarrier`, `CapacityHeld` |
| | `CoordinatorKeepsContract` | `ImplementsContract`: the refinement |
| `ClientProofs` | `ClientUsesCoordinator`, `ClientKeepsCoordinator` | the coordinator's, inside the client |
| | `ClientSafety`, `ClientTypeCorrect`, `StreamIsComplete`, `EventsBeforeTurnEnd`, `SelectionsBeforeCancel` | `ClientInv`, `StreamComplete`, `NoEventAfterTurnEnd`, `NoSelectionAfterCancel` |
| | `CopilotUsesCoordinator`, `CopilotKeepsCoordinator` | the coordinator's, inside the Copilot client |
| | `CopilotSafety`, `TurnsAreMatched`, `CloseReleasesAll`, `NothingFollowsItsEnd` | `CopilotInv`, `TurnsMatched`, `CloseReleases`, `NothingAfterItsEnd` |
| `AcpSessionProofs` | `SessionSafety`, `IdHasOneClient`, `OutcomeReported` | `SessionInv`, `OneClientPerId`, `OutcomeIsCause` |
| `AcpRunProofs` | `RunUsesSession`, `RunKeepsSession` | the session's, inside a run |
| | `RunReturnsQuiet`, `ExitReportedOnce`, `StreamReachesBridge` | `ReturnedMeansQuiet`, `OneExit`, `RunInv` |
| `NativeRunProofs` | `NativeInvariant`, `QueuesStayConsistent`, `TurnsAreBracketed`, `SinkKeepsOrder`, `InterruptIsNotInvented` | `NativeInv`, `TurnsBracketed`, `SinkInOrder`, `InterruptNotInvented` |
| `LaunchPlanProofs` | `LaunchSettles`, `ProtectedOrRefused`, `SandboxReportsAreTrue`, `PosturesAgree`, `CancelKeepsItsPromise`, `ChildSeesWhatIsAsked` | `NeverUnprotected`, `ReportTruthful`, `OnePosture`, `CancelAsAdvertised`, `EnvironmentAsConfigured` |
| `TurnOutputProofs` | `OutputComesOnceAndAnswers`, `KindIsWhatTheEventsSay`, `EndsStayApart` | `OutInv`, `KindMatchesReference`, `EndsKeptApart` |
| `ShadowGitProofs` | `CapturesTellTheTruth`, `RetainedStaysRestorable`, `CapturesAreIdentified`, `RestoresTellTheTruth` | `SnapInv`, `RetainedRestorable`, `IdentityBeforeCapture`, `RestoreAsPreviewed` |

### The coordinator

For any finite set of requests, any number of turns and any limit. None of the
properties is inductive alone. The barrier needs the counters to be exact
(`CountersExact`: `dispatches` is the number of requests in flight of the turn,
and likewise for the two limits), and the shape of a turn (`TurnShape`: done is
closed exactly when the turn is ending and its last dispatch is over, and only
the current generation is active). Revocation needs `EntryShape`, which ties
membership in `pending` and `committed` to the request's stage, and
`AdmissionShape`, which keeps an admission's generation at or below the current
one. The counting steps rest on lemmas about adding a member to, and removing
one from, a finite set.

The refinement maps a request's stage and its turn's flags to the contract's
state. Seven kinds of step are steps of the contract (a request arrives, an
option is selected, a request is declined, answered, a turn opens, is revoked,
ends), each with a lemma; every other action leaves the mapped state alone. That
a commit is the contract's Select, which is allowed only while the request's own
turn accepts, and that EndTurn returns is its End, is where `PermInv` is needed.

Assumption `PermissionConstants`: finitely many requests, and a responder, gate
and reader that are told apart.

### The client

Any finite set of requests and any number of turns. `ClientUsesCoordinator` is
`Spec => PermSpec`: each step of the client is a step of its coordinator or leaves
it alone, so that the coordinator's theorems hold in the client, and its
invariant can be used beside the client's own.

That one says whose the gate is (`GateInOrder`) and ties the position of each
turn's goroutine to the coordinator's record of the turn (`TurnInOrder`): a turn
is present from its admission until its barrier is over. With the coordinator's
exact counters a request in flight is then one of the current, present turn,
whose last event is not out (`TurnEvents`) and before whose end the event channel
is not closed (`ChannelInOrder`). From this `EventsBeforeTurnEnd` follows, and,
with what the channel shows of each request (`RequestEvents`), `StreamIsComplete`.
For `SelectionsBeforeCancel` the invariant has that what the wire says is
cancelled or closed was revoked first (`RevokedBeforeWire`), and that no such
frame is on the wire while a selection is committed and unwritten
(`CommitsInTime`): the responder holds the gate then, which Cancel and Close need
for the frame. Assumptions `PermissionConstants` and `ClientConstants`.

### The Copilot client

Also for any set of the three transports (`TransportsAssumption`). A step is
either one that `AcpClient` has, taken over with the transport left alone, or
the Copilot client's own. The parts of the invariant that the clients share are
kept by the first kind by the lemmas about `AcpClient`, which therefore assume
only the parts they use; its own (`OwnAction`: the start of the transport
and the goroutines, a Prompt that fails, most of Close, and the transport's end)
are proved here.

A Prompt whose write fails reports turn.failed before it ends the turn, so the
turn's position is described with that case (`FailingTurn` in `CopilotTurns`), and
a request of such a turn may be resolved after the turn's last event, or not be
shown as resolved (`UnwrittenTurn` in `CopilotRequestEvents`); this is why
`TurnsMatched` and `NoEventAfterResult` speak of written turns. `LaunchInOrder`
says what a Close that overtakes Launch can have seen: either the goroutines had
been started, or there has been no turn. `CloseInOrder` says what Close has
released by each of its positions, and that the transport's close-once is lost
only to a Close of a client that had not started; `CloseReleasesAll` follows.

### Sessions and the ACP run

Any launches of an id, prompts, host calls and channel capacity. A step belongs to
one session and leaves what it knows of the others as it was, so the invariant
is TypeOK and `Consistent(s)` of every session: where the teardown is
(`FinishInOrder`), who holds the id (`IdHeld`: `OneClientPerId` follows because
two sessions cannot both be registered), that a turn begins after the commit
(`TurnsAfterCommit`), in which order the client ends (`ClientEndsInOrder`), how
many events it can still emit (`RoomLeft`), and that what ended the agent is
known to the session or on its way to it (`CauseKept`). `OutcomeReported` assumes
`NothingDropped`, a channel that holds two events per prompt and two more: with a
dropped exit event the session takes a child's exit for a disconnect. The
client's channel holds 64.

`RunUsesSession` is `RunSpec => Spec`: each step of the wrapper is a step of
`AcpSession` or leaves it alone, so all of the above holds under the wrapper.
On top of it the wrapper's invariant says how far Run has come and what it has
joined by then (`RunInOrder`), and where the exit is that `sawExit` and the
bridge were told of (`ExitToldOnce`): still in a channel, in the forwarder's
hand, or emitted, and never in two of these places.

That the bridge sees the stream whole (`StreamIntact`) needs to say where the rest
of it is (`StreamInOrder`): as long as nothing was dropped, what the client sent
is what is on the bridge followed by what is in transit, which is the session's
channel, then the event in drain's hand, then the client's channel. A launch that
is given up may swallow session.ready, and nobody forwards for one; the forwarder
ends only when its channel is empty and closed, and by then the other two places
are empty as well. The session's events on the bridge are counted by cardinality
rather than by filtering the log: the n-th is the one with n of them up to its
index, and the lemmas say what appending to the log and receiving from a queue do
to such places. Assumption `RunConstants`: one session in a run, and more prompts
than inputs.

### The native run

Any finite set of inputs, any CancelTurn calls, channel capacity and amount of
output, both kinds of child. `SinkInOrder` is about a log, and the log's order
follows only from that of what is queued, so the invariant relates all four:
the numbers the agent gives its output increase along the channel, along the
typed queue, and along the log, and all of the log is older than all that is
queued (`QueuesInOrder`). Between the two queues the markers count: a stream
event is younger than the first k typed events exactly when k markers stand
before it (`QueuesAgree`), so that the translator, at a marker, takes the oldest
event there is. This rests on lemmas about counting the markers of a prefix
when a queue grows at its end or loses its head, and on `RunInOrder`: once the
channel is closed the session has ended and every input has been joined, so
that nobody reports any more (`QuietWhenClosed`), and Run has seen the
translator finish before it flushes the open turn.

Turns (`TurnsInOrder`): the log is bracketed, every turn up to the last has
begun, and every one but the open turn has ended. Usage (`UsageInOrder`) belongs
to the agent's turns, whose numbers increase along channel, carried usage and
log; it cannot ride on two terminal events since the usage still queued is of
later turns. A mark is there only if a CancelTurn put it there which has not
failed (`MarkedByCancel`). Assumption `NativeConstants`.

### Launches

Any set of configurations, finite or not. The behaviour is a sequence of stages,
and the invariant lists what the stages so far have settled: the kind of adapter
(`LaunchKinds`), confinement and reports (`SandboxSettled`: until the launch has
settled on a child no outcome says enforced, and then at most the one of this
child does; the Applier's word is there once a native session was up), the posture of flags
and of answers (`PostureSettled`), what the adapter advertises and whether its
interfaces can do it (`CancelSettled`).

The environment has an invariant of its own (`EnvironmentSettled`): from its
preparation on, what it shows of a name is what the configuration asks for, with
OpenCode's posture over it, and when it is empty where empty means inherit, then
the wrapper's own environment has nothing to inherit. `ChildSeesWhatIsAsked` adds
what agentkit and the clients' hooks do at the start. The lemmas say what each
operator does to what an environment shows of one name (`SeenPut`, `SeenInherited`,
`SeenResolved`, `SeenSealed`, `SeenPosture`, `HookAsExpected`). A loop that writes a
slice into a map is defined by its result, each name's last entry, because a fold
could not be reasoned about. The first statement of the property did not survive
this proof: it held on the instance and was wrong of a posture of another runtime
with `OPENCODE_PERMISSION` in the environment, of a host that has `CODEX_PATH` or the
marker in its own, and of an adapter whose environment repeats a name; the property now
says what becomes of these, and the instance has them. Assumption
`LaunchConstants`: the fields that the decisions read have their types.

### Turn outputs

Any call ids and ids of turns, any memory limits from 1, any number of events.
`TextFollowsSignal` is about an Output and compares block positions with points
of the log, so the invariant (`IInv`) says of every open turn that its positions
are right: the blocks from the position of a signal or a call on are exactly
those that began after it (`Split`). What disturbs this is the drop of the
oldest block, when `blocksShifted` moves every position down but those at 0;
that it still holds, and that it holds of a call's position when only the call
places the signal, is what the lemmas on `Trim`, `Shift` and `AddTool` show. A
signal raised by a call takes the call's place, and finds it by id, so
the invariant also says that while no more than `maxTools` calls came the turn
holds them all (`CallsOK`), and that the newest one is last (`LastCalled`).

`KindIsWhatTheEventsSay` compares what a turn decides from its memories with what
the whole log says. While the log stays within those memories (`Remembered`), the
invariant says that nothing of it was lost (`Recorded`, a part of `IInv` through
`TurnKept`): every call is held once (`CallsRecorded`), the facts found for a call,
with the call or early, are its first result and whether it was denied
(`FactsRecorded`), `pending` holds exactly the requests without an answer, and
`signals` those of the questions, denials and refused requests (`SignalsRecorded`). The reducer compares `seq` stamps
and the reference compares places in the log, so each stamp is tied to a place: both
part the calls at the same point (`Tied`). That there is room for what the next event
brings follows by counting (`Counted`). Each event has a lemma (`DeltaMindful`,
`ToolUseMindful`, ...), and `KindIsReference` is the step from the memories to the
kind: a signal is open exactly when no work comes after its point (`OpenIs`), and
those are the points of the reference (`QuestionsAre`, `ApprovalsAre`). It says
nothing of a turn that outgrew a memory, as the property does not.

`OncePerTurn` needs that the reducer's memory is the last ids reported
(`MemoryOK`) and that no open turn is among them (`IdsOK`): an id the memory has
may not be opened, and a minted id is larger than all before it. `EndsStayApart`
is about a stop reason that trails a turn and the next turn if it stays open, and
about a Done after a completed turn; it needs that a reducer that has settled has no
open turn and no pending stop, and that `lastDone` is the signature of the last Output. What is emitted is tied to
its turn by `OutMade`: the kind and text of an Output are those its turn decided.
Assumption `OutputConstants`: the memories hold at least one entry, and ids that
the reducer mints are told apart from the feed's.

### Snapshots

Any callers, paths, contents, captures, calls, edits and crashes. The target's
lock carries the argument: the stages between taking the lock and its release
belong to the holder (`LockInOrder`), and only those change the store, so what a
capture, restore or cleanup knows of it stays so while other calls go on
(`CaptureInOrder`, `RestoreInOrder`, `CleanupInOrder`); a crash ends every call at
once. What a capture may hold at a path (`Held`) grows while it runs: each content
it saw, and nothing if the path is skipped or was, untracked, among those git keeps
apart. That `git add` adds no other is why the untracked ignored paths have to be
counted from the lock on, and why a skipped path has to be untracked still.
`RetainedRestorable` is inductive with these, because a Cleanup's gc marks every
ref that is left before it prunes; it is stated of stores in which no Purge has
stopped (`whole`), and needs that without a repository the index is empty
(`NoRepoNoIndex`). A restore's statement does not depend on `whole`: a tree that is
gone is an error, and `remove` is reached only where the capture has nothing
(`RestoreInOrder`). Assumption `SnapshotConstants`.

### Only model-checked

- Liveness (`CloseCompletes`, `SessionEnds`, `TurnEndFreesSession`,
  `RunReturns`), and `EndTurnNeverStuck` and `RunNeverStuck`, which speak of ENABLED: the prover handles neither fairness nor
  ENABLED.

No module has a RECURSIVE operator.

## Plan

1. Done: the ACP core (`Permissions`, `AcpClient`, `CopilotClient`,
   `AcpSession`, `AcpRun`), `NativeRun`, `LaunchPlan`, `TurnOutput`, `ShadowGit`;
   the proofs of the coordinator and its contract, the session, the ACP run, the
   native run, the launch, the turn outputs and the snapshots.
2. Done: the proofs of both clients, on top of the coordinator's.
3. Left: a session over the client. `AcpSession` states of its client what
   `AcpClient` shows (the channel closes after the exit and the last turn's end);
   a mapping of the client's positions to `client` and `chan` would make that a
   theorem too.

## Not modelled

`PROJECT.json` lists every part with the reason. In short: the translators of
notifications, the parsing of the handshake, MCP server configuration, the
planter's artifact tree, policy observation, filters and the two bridges convert
values and keep no state between calls; the byte-level framing and write, stderr
and heartbeats carry nothing that the properties tell apart; agentkit, git, the
sandbox backend and the materializer are external and appear as the steps their
callers rely on; examples and test support are not part of the library.
