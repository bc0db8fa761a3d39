------------------------------- MODULE LaunchPlan -------------------------------
(***************************************************************************)
(* From a configuration to a running child: launch.Select, wrapper.New,    *)
(* the part of Wrapper.Run and runACP that comes before the session, and   *)
(* the spawn inside the ACP clients.  The configuration is an input; every *)
(* action is one stage of the code, in the code's order, and a stage that  *)
(* returns an error refuses the launch.  The sandbox, the spawn, the dial, *)
(* the planter and the host's Applier may fail.  A runtime with a child    *)
(* per turn is followed to its first child.  At the end the host plans a   *)
(* delivery and cancels the turn.                                          *)
(*                                                                         *)
(* A variable of an environment is an entry [name, value].  A slice that   *)
(* is nil differs from one that is empty: NilEnv against {}.  What a map   *)
(* holds after a loop has written a slice into it is each name's last      *)
(* entry; it is defined as that, so that it can be reasoned about.         *)
(***************************************************************************)
EXTENDS Naturals, FiniteSets, SequencesExt

CONSTANTS
  Configs,  \* the configurations Run is called with
  None,     \* what is absent
  NilEnv,   \* the nil slice
  BaseEnv   \* a Spec.Env that is the environment the adapter was given

VARIABLES
  cfg,       \* Selection, Config and what the platform offers
  pc,        \* the stage
  adapter,   \* Select's adapter: protocol, transport, its CLIAdapter
  childEnv,  \* the environment Run settles on
  flags,     \* the permission posture of the launch's flags
  answers,   \* the posture approval requests are answered from
  policy,    \* LaunchParams.SandboxPolicy
  confined,  \* what the sandbox did to the command
  reports,   \* the sandbox.applied events
  child,     \* the child process
  delivery   \* the plan for a cancel_turn and what CancelTurn said

vars == <<cfg, pc, adapter, childEnv, flags, answers, policy, confined,
          reports, child, delivery>>

Marker == [name |-> "GO_AGENT_WRAPPER_EMPTY_ENVIRONMENT", value |-> "1"]
CodexPath == [name |-> "CODEX_PATH", value |-> "found"]
PostureVar(p) == [name |-> "OPENCODE_PERMISSION", value |-> p]

NoPolicy == [mode |-> None, network |-> "full", conflicts |-> FALSE, protects |-> FALSE]

\* sandboxprofile.ResolvedAccessPolicy, as far as the launch reads it: a network
\* is full or not.
SandboxPolicies ==
  [mode : {None, "disabled", "required"}, network : {"full", "none"}, conflicts : BOOLEAN, protects : BOOLEAN]

\* The optional interrupt interfaces of a CLIAdapter.
Interrupters == {"TurnInterrupter", "RPCTurnInterrupter"}

\* What the sandbox did to a command.
Boxes == [policy : BOOLEAN, protect : BOOLEAN]

Variables == [name : STRING, value : STRING]

ASSUME LaunchConstants ==
  /\ None \notin Boxes /\ None \notin STRING
  /\ \A c \in Configs :
       /\ c.ambient \in Seq(Variables) /\ c.env.set \in Seq(Variables)
       /\ c.specEnv \in {NilEnv, BaseEnv} \cup Seq(Variables)
       /\ c.prepared # None => c.prepared.env \in SUBSET Variables
       /\ c.profile \in BOOLEAN
       /\ c.policy \in SandboxPolicies
       /\ c.prepared # None => c.prepared.policy \in SandboxPolicies
       /\ c.given => c.prepared # None
       /\ c.prepared # None => c.given \/ c.request
       /\ c.sel.interfaces \subseteq Interrupters

NoChild == [up |-> FALSE, env |-> NilEnv]
Child(env) == [up |-> TRUE, env |-> env]

Step(ok, next) == pc' = IF ok THEN next ELSE "refused"

-----------------------------------------------------------------------------
(* launch.Select                                                           *)

acpKeys == {"claude", "codex", "opencode", "copilot", "pi"} \X {"acp"}
           \cup {<<"copilot", "acp_tcp">>}

\* The wire protocol of every native pair; "" is one process per turn.
nativeSpecs == [k \in {<<"claude", "streaming">>, <<"codex", "jsonrpc">>, <<"opencode", "http">>}
                      \cup ({"claude", "codex", "opencode", "antigravity"} \X {"turn"})
                |-> CASE k[2] = "streaming" -> "claude_stream_json"
                      [] k[2] = "jsonrpc" -> "codex_app_server"
                      [] k[2] = "http" -> "opencode_native"
                      [] OTHER -> ""]

Key(s) == <<s.runtime, s.mode>>
IsACP(s) == s.mode \in {"acp", "acp_tcp"}

\* A custom CLIAdapter's shape cannot be inspected; a go-providers one must fit the mode.
validateCLIAdapter(s) == s.cli \notin {"other_runtime", "other_mode"}

validate(s) ==
  /\ s.developer => s.runtime = "claude" /\ ~IsACP(s)
  /\ s.cli # None => /\ ~IsACP(s)
                     /\ ~s.developer
                     /\ validateCLIAdapter(s)
  /\ s.port # 0 => s.mode = "acp_tcp"
  /\ s.port <= 65535

\* configure: only a go-providers adapter can be given Binary and ExtraArgs.
configure(s) == s.args => s.cli # "custom"

\* The optional interfaces of go-providers' own adapters.
ProviderInterfaces(s) ==
  CASE s.runtime = "claude" -> {"TurnInterrupter"}
    [] s.runtime = "codex" -> {"RPCTurnInterrupter"}
    [] OTHER -> {}

nativeTurnCancel(protocol, interfaces) ==
  CASE protocol = "claude_stream_json" -> "TurnInterrupter" \in interfaces
    [] protocol = "codex_app_server" -> "RPCTurnInterrupter" \in interfaces
    [] protocol = "opencode_native" -> TRUE
    [] OTHER -> FALSE

DeliveryCapabilitiesForRuntime(interrupt, turnScopedCancel) ==
  {"send_turn", "lifecycle_stop"}
    \cup (IF interrupt = "turn" THEN {"interrupt"} ELSE {})
    \cup (IF turnScopedCancel THEN {"cancel_turn"} ELSE {})

newNative(s) ==
  LET interfaces == IF s.cli = "custom" THEN s.interfaces ELSE ProviderInterfaces(s)
      protocol == nativeSpecs[Key(s)]
  IN [protocol |-> protocol, transport |-> IF s.mode = "http" THEN "http" ELSE "stdio",
      custom |-> s.cli = "custom", interfaces |-> interfaces,
      delivery |-> DeliveryCapabilitiesForRuntime(IF s.mode = "http" THEN "turn" ELSE "process",
                                                  nativeTurnCancel(protocol, interfaces))]

newACP(s) ==
  [protocol |-> "acp", transport |-> IF s.mode = "acp_tcp" THEN "tcp" ELSE "stdio",
   custom |-> FALSE, interfaces |-> {},
   delivery |-> DeliveryCapabilitiesForRuntime("turn", TRUE)]

Select ==
  /\ pc = "select"
  /\ LET s == cfg.sel
         known == Key(s) \in acpKeys \cup DOMAIN nativeSpecs
         ok == known /\ validate(s) /\ (IsACP(s) \/ configure(s))
     IN /\ Step(ok, "new")
        /\ adapter' = IF ~ok THEN None ELSE IF IsACP(s) THEN newACP(s) ELSE newNative(s)
  /\ UNCHANGED <<cfg, childEnv, flags, answers, policy, confined, reports, child, delivery>>

-----------------------------------------------------------------------------
(* wrapper/environment.go                                                  *)

canonicalEnvironmentName(name) ==
  IF cfg.goos = "windows" /\ name = "Path" THEN "PATH" ELSE name

\* A name or an assignment the code rejects is the empty name.
ValidEnvironment(e) ==
  /\ e.mode \in {"", "inherit", "merge", "replace"}
  /\ e.mode \in {"", "inherit"} => e.set = <<>>
  /\ e.mode = "replace" => e.allow = NilEnv
  /\ "" \notin e.unset /\ (e.allow # NilEnv => "" \notin e.allow)
  /\ \A i \in DOMAIN e.set : e.set[i].name # ""

Canonical(names) == {canonicalEnvironmentName(n) : n \in names}

Named(entries, name) == {i \in DOMAIN entries : canonicalEnvironmentName(entries[i].name) = name}

\* The loops of values[canonicalKey] = entry: the last entry of a name stays.
Put(values, entries) ==
  {v \in values : Named(entries, canonicalEnvironmentName(v.name)) = {}}
    \cup {entries[i] : i \in {j \in DOMAIN entries :
                               \A k \in Named(entries, canonicalEnvironmentName(entries[j].name)) : k <= j}}

\* An entry is skipped for its canonical name, so either all of a name are or none.
Inherited(e) ==
  IF e.mode = "replace" THEN {}
  ELSE {v \in Put({}, cfg.ambient) :
         /\ v.name # ""
         /\ e.allow # NilEnv => canonicalEnvironmentName(v.name) \in Canonical(e.allow)}

resolveForOS(e) ==
  {v \in Put(Inherited(e), e.set) : canonicalEnvironmentName(v.name) \notin Canonical(e.unset)}

explicit(e) == e.mode # "" \/ e.allow # NilEnv \/ e.unset # {}

\* Adapter.Resolve's Spec.Env: nil, the base it was given, or an environment of its own.
\* One of its own is read like Set, and may be refused like it.
OwnEnv == cfg.specEnv \notin {NilEnv, BaseEnv}
ReplaceBy(set) == [mode |-> "replace", allow |-> NilEnv, unset |-> {}, set |-> set]

resolvedSpecEnvironment(base) == IF OwnEnv THEN resolveForOS(ReplaceBy(cfg.specEnv)) ELSE base
SpecEnvironmentOK == OwnEnv => ValidEnvironment(ReplaceBy(cfg.specEnv))

AdapterExplicit == cfg.specEnv # NilEnv

\* MUTANT: an empty environment is passed on as it is.
SealNothing(env, longLived) == env

\* An explicitly empty environment gets a marker where empty would mean inherit.
Seal(env, longLived) ==
  IF env = {} /\ (explicit(cfg.env) \/ AdapterExplicit) /\ longLived THEN {Marker} ELSE env

New ==
  /\ pc = "new"
  /\ Step(ValidEnvironment(cfg.env) /\ cfg.protected # "relative" /\ cfg.posture # "unknown", "run")
  /\ UNCHANGED <<cfg, adapter, childEnv, flags, answers, policy, confined, reports, child, delivery>>

-----------------------------------------------------------------------------
(* Wrapper.Run and runACP up to the planter                                *)

\* resolvePreparedExecution and the conflicts around it: cfg.prepared is what
\* Config.PreparedExecution gives or PrepareRequest resolves to, None for a
\* request that does not resolve.
PreparedOK ==
  /\ cfg.workdir
  /\ ~(cfg.given /\ cfg.request)
  /\ cfg.request => cfg.prepared # None
  /\ cfg.prepared # None => /\ cfg.prepared.valid
                            /\ cfg.policy.mode = None
                            /\ ~(cfg.prepared.materialized /\ cfg.planter # None)

\* The agentkit lifecycle of a native protocol.
runtimeCaps(protocol) ==
  CASE protocol = "claude_stream_json" -> "streaming"
    [] protocol = "codex_app_server" -> "jsonrpc"
    [] protocol = "opencode_native" -> "http"
    [] OTHER -> "turn"

UsesLongLivedProcess == runtimeCaps(adapter.protocol) # "turn"

\* withPostureEnv: OpenCode's posture is a variable, the others' are flags.
withPostureEnv(env) ==
  IF cfg.posture # "" /\ cfg.sel.runtime = "opencode"
  THEN {v \in env : v.name # "OPENCODE_PERMISSION"} \cup {PostureVar(cfg.posture)}
  ELSE env

\* nativePosture may find no mapping for the posture (external: go-providers' registry).
PrepareNative ==
  /\ pc = "run" /\ adapter.protocol # "acp"
  /\ \E mapped \in IF cfg.prepared = None /\ cfg.posture # "" THEN BOOLEAN ELSE {TRUE} :
     LET ok == /\ ~(cfg.policy.mode # None /\ cfg.profile)
               /\ PreparedOK
               /\ cfg.prepared = None => SpecEnvironmentOK
               /\ mapped
         base == resolveForOS(cfg.env)
         env == resolvedSpecEnvironment(base)
     IN /\ Step(ok, "plant")
        /\ childEnv' = IF ~ok THEN NilEnv
                       ELSE IF cfg.prepared # None THEN base ELSE withPostureEnv(Seal(env, UsesLongLivedProcess))
        /\ flags' = IF ~ok THEN "" ELSE IF cfg.prepared # None THEN cfg.prepared.posture ELSE cfg.posture
  /\ UNCHANGED <<cfg, adapter, answers, policy, confined, reports, child, delivery>>

PrepareACP ==
  /\ pc = "run" /\ adapter.protocol = "acp"
  /\ LET ok == ~cfg.profile /\ PreparedOK /\ (cfg.prepared = None => SpecEnvironmentOK)
         env == resolvedSpecEnvironment(resolveForOS(cfg.env))
     IN /\ Step(ok, "plant")
        /\ childEnv' = IF ~ok THEN NilEnv
                       ELSE IF cfg.prepared # None THEN cfg.prepared.env ELSE Seal(env, TRUE)
        /\ policy' = IF cfg.prepared # None THEN cfg.prepared.policy ELSE cfg.policy
  /\ UNCHANGED <<cfg, adapter, flags, answers, confined, reports, child, delivery>>

\* runPlanter, or the report of a materialization that is already done.
Plant ==
  /\ pc = "plant"
  /\ Step(cfg.planter # "fails", IF adapter.protocol = "acp" THEN "protect" ELSE "wrap")
  /\ UNCHANGED <<cfg, adapter, childEnv, flags, answers, policy, confined, reports, child, delivery>>

-----------------------------------------------------------------------------
(* The native launch                                                       *)

\* withPostureArgs: flags need a go-providers adapter.
withPostureArgs ==
  cfg.prepared = None /\ cfg.posture # "" /\ cfg.sel.runtime # "opencode" => ~adapter.custom

\* MUTANT: the prepared adapter forwards no interrupt interface.
preparedCLIAdapterBare(interfaces) == {}

\* preparedCLIAdapter forwards one of the two interrupt interfaces.
preparedCLIAdapter(interfaces) ==
  IF "TurnInterrupter" \in interfaces THEN {"TurnInterrupter"}
  ELSE interfaces \cap {"RPCTurnInterrupter"}

WrapAdapter ==
  /\ pc = "wrap"
  /\ Step(withPostureArgs, "posture")
  /\ adapter' = IF cfg.prepared = None THEN adapter
                ELSE [adapter EXCEPT !.interfaces = preparedCLIAdapter(@)]
  /\ UNCHANGED <<cfg, childEnv, flags, answers, policy, confined, reports, child, delivery>>

\* MUTANT: Config.PermissionPosture overrides the plan's.
sessionPostureConfigWins ==
  IF cfg.posture # "" THEN cfg.posture
  ELSE IF cfg.prepared # None /\ cfg.prepared.posture # "" THEN cfg.prepared.posture
  ELSE "default"

\* The posture approvals are answered from, or "conflict".
sessionPosture ==
  LET planned == IF cfg.prepared = None THEN "" ELSE cfg.prepared.posture
  IN IF planned # "" THEN IF cfg.posture \in {"", planned} THEN planned ELSE "conflict"
     ELSE IF cfg.posture # "" THEN cfg.posture ELSE "default"

Posture ==
  /\ pc = "posture"
  /\ Step(sessionPosture # "conflict", "start")
  /\ answers' = IF sessionPosture = "conflict" THEN "" ELSE sessionPosture
  /\ UNCHANGED <<cfg, adapter, childEnv, flags, policy, confined, reports, child, delivery>>

\* Config.SandboxPolicy or the plan's, the profile, the protected paths.
NativePolicy == IF cfg.prepared # None THEN cfg.prepared.policy ELSE cfg.policy
NativeBox == [policy |-> NativePolicy.mode = "required" \/ (cfg.prepared = None /\ cfg.profile),
              protect |-> cfg.protected = "yes"]
NativeConfines  == NativeBox.policy \/ NativeBox.protect
NativeSandboxed == NativeConfines \/ NativePolicy.mode # None

\* External (agentkit): a long-lived runtime takes an empty Env for none at
\* all, a prepared execution brings its own.
NativeEnv ==
  IF cfg.prepared # None THEN cfg.prepared.env
  ELSE IF childEnv = {} /\ UsesLongLivedProcess THEN ToSet(cfg.ambient)
  ELSE childEnv

\* emitSandboxOutcome: what was done to a command before it started.
Outcome(log, state) == Append(log, [from |-> "outcome", state |-> state, enforced |-> state = "applied"])

\* External (agentkit): one sandbox wraps the child, with the protected paths in
\* it, and SandboxOutcomeCallback hears of it.
NativeChild ==
  /\ NativeBox.protect => cfg.backend
  /\ child' = Child(NativeEnv)
  /\ confined' = IF NativeConfines THEN NativeBox ELSE None
  /\ reports' = IF NativeSandboxed
                THEN Outcome(reports, IF NativeConfines THEN "applied" ELSE "disabled") ELSE reports

\* External (agentkit): no child; the callback may have heard of the sandbox.
NativeFailure(told) ==
  /\ told => NativeSandboxed
  /\ pc' = "refused" /\ child' = NoChild /\ confined' = None

Unconfined(log, told) == IF told THEN Outcome(log, "failed") ELSE log

\* runtime.Start: of a long-lived runtime it starts the child; an error of the
\* sandbox is reported once more (emitRuntimeStartSandboxError).
StartNative ==
  /\ pc = "start"
  /\ \/ UsesLongLivedProcess /\ NativeChild /\ pc' = "ready"
     \/ ~UsesLongLivedProcess /\ pc' = "ready" /\ UNCHANGED <<child, confined, reports>>
     \/ \E told, sandboxErr \in BOOLEAN :
          /\ NativeFailure(told \/ sandboxErr)
          /\ reports' = Unconfined(Unconfined(reports, told), sandboxErr)
  /\ UNCHANGED <<cfg, adapter, childEnv, flags, answers, policy, delivery>>

\* What the host's Applier said of a pid.
Word(log, state, applied) == Append(log, [from |-> "applier", state |-> state, enforced |-> applied])

\* Config.Sandbox: the host's Applier is called once the session is up, with a
\* pid that is zero between turns; its error stops the session.
runSandbox ==
  /\ pc = "ready"
  /\ LET next == IF UsesLongLivedProcess THEN "running" ELSE "turn" IN
     IF ~cfg.applier THEN pc' = next /\ UNCHANGED <<child, confined, reports>>
     ELSE \E applied, failed \in BOOLEAN :
            /\ Step(~failed, next)
            /\ reports' = Word(reports, IF failed THEN "error" ELSE "done", applied)
            /\ child' = IF failed THEN NoChild ELSE child
            /\ confined' = IF failed THEN None ELSE confined
  /\ UNCHANGED <<cfg, adapter, childEnv, flags, answers, policy, delivery>>

\* External (agentkit): the first turn of a runtime with a child per turn.
StartTurn ==
  /\ pc = "turn"
  /\ \/ NativeChild /\ pc' = "running"
     \/ \E told \in BOOLEAN : NativeFailure(told) /\ reports' = Unconfined(reports, told)
  /\ UNCHANGED <<cfg, adapter, childEnv, flags, answers, policy, delivery>>

-----------------------------------------------------------------------------
(* The ACP launch: acpProtectedPolicy, then the client's own checks        *)

ProtectedPaths == cfg.protected = "yes"

acpProtectedPolicy ==
  /\ pc = "protect"
  /\ LET merges == policy.mode = "required"
         ok == ProtectedPaths => cfg.backend /\ (merges => ~policy.conflicts)
     IN /\ Step(ok, "sandbox")
        /\ policy' = [policy EXCEPT !.protects = ok /\ ProtectedPaths /\ merges]
  /\ UNCHANGED <<cfg, adapter, childEnv, flags, answers, confined, reports, child, delivery>>

requiredPolicy == policy.mode \notin {None, "disabled"}
launchSandboxed == policy.mode # None \/ ProtectedPaths
Remote == adapter.transport = "tcp" /\ cfg.dialOnly

Report(state) == Outcome(reports, state)

\* Copilot, when it only dials an agent that already runs.
CheckRemoteSandbox ==
  /\ pc = "sandbox" /\ Remote
  /\ Step(~requiredPolicy /\ ~ProtectedPaths, "dial")
  /\ reports' = CASE ~launchSandboxed -> reports
                  [] requiredPolicy \/ ProtectedPaths -> Report("unsupported")
                  [] OTHER -> Report("disabled")
  /\ UNCHANGED <<cfg, adapter, childEnv, flags, answers, policy, confined, child, delivery>>

LinuxTCPUnsupported ==
  /\ adapter.transport = "tcp" /\ cfg.goos = "linux"
  /\ policy.mode = "required" /\ policy.network # "full"

rejectUnsupportedLinuxTCPSandbox ==
  /\ pc = "sandbox" /\ ~Remote /\ LinuxTCPUnsupported
  /\ pc' = "refused"
  /\ reports' = Report("unsupported")
  /\ UNCHANGED <<cfg, adapter, childEnv, flags, answers, policy, confined, child, delivery>>

\* sandbox.Apply and ApplyResolved are external: they confine the command or fail.
applyProtectOnly(applied) ==
  LET ok == cfg.backend /\ applied
  IN /\ Step(ok, "spawn")
     /\ confined' = IF ok THEN [policy |-> FALSE, protect |-> TRUE] ELSE None
     /\ reports' = IF ok THEN reports ELSE Report(IF cfg.backend THEN "failed" ELSE "unsupported")

ApplyPolicy(applied) ==
  LET merges == ProtectedPaths
      ok == applied /\ (merges => ~policy.conflicts)
  IN /\ Step(ok, "spawn")
     /\ confined' = IF ok /\ requiredPolicy
                    THEN [policy |-> TRUE, protect |-> merges \/ policy.protects] ELSE None
     /\ reports' = IF ok THEN reports ELSE Report("failed")

\* MUTANT: protected paths without a policy are ignored.
PrepareLaunchSandboxByPolicy ==
  /\ pc = "sandbox" /\ ~Remote /\ ~LinuxTCPUnsupported
  /\ \E applied \in IF requiredPolicy THEN {TRUE, FALSE} ELSE {TRUE} :
       IF policy.mode = None THEN pc' = "spawn" /\ UNCHANGED <<confined, reports>>
       ELSE ApplyPolicy(applied)
  /\ UNCHANGED <<cfg, adapter, childEnv, flags, answers, policy, child, delivery>>

PrepareLaunchSandbox ==
  /\ pc = "sandbox" /\ ~Remote /\ ~LinuxTCPUnsupported
  /\ \E applied \in IF requiredPolicy \/ ProtectedPaths THEN {TRUE, FALSE} ELSE {TRUE} :
       IF ProtectedPaths /\ ~requiredPolicy THEN applyProtectOnly(applied)
       ELSE IF policy.mode = None
       THEN pc' = "spawn" /\ UNCHANGED <<confined, reports>>
       ELSE ApplyPolicy(applied)
  /\ UNCHANGED <<cfg, adapter, childEnv, flags, answers, policy, child, delivery>>

\* codexacp's LaunchEnv hook adds the codex it found, but not for a plan's command.
AddsCodexPath ==
  /\ cfg.sel.runtime = "codex" /\ cfg.prepared = None /\ cfg.codexFound
  /\ \A v \in childEnv : canonicalEnvironmentName(v.name) # "CODEX_PATH"

\* Its copy of an empty slice is nil, and cmd.Env inherits for a nil one.
launchEnv ==
  IF AddsCodexPath THEN childEnv \cup {CodexPath}
  ELSE IF cfg.sel.runtime = "codex" /\ childEnv = {} THEN ToSet(cfg.ambient)
  ELSE childEnv

\* MUTANT: the sandbox is reported before the child has started.
SpawnReportsFirst ==
  /\ pc = "spawn"
  /\ \E started \in BOOLEAN :
       /\ Step(started, IF adapter.transport = "tcp" THEN "dial" ELSE "running")
       /\ child' = IF ~started THEN NoChild
                   ELSE Child(launchEnv)
       /\ reports' = IF launchSandboxed
                     THEN Report(IF confined = None THEN "disabled" ELSE "applied") ELSE reports
  /\ UNCHANGED <<cfg, adapter, childEnv, flags, answers, policy, confined, delivery>>

\* cmd.Start and the report of the sandbox.
Spawn ==
  /\ pc = "spawn"
  /\ \E started \in BOOLEAN :
       LET failed == IF confined = None THEN "disabled" ELSE "configured"
           state == IF ~started THEN failed
                    ELSE IF confined = None THEN "disabled" ELSE "applied"
       IN /\ Step(started, IF adapter.transport = "tcp" THEN "dial" ELSE "running")
          /\ child' = IF ~started THEN NoChild
                      ELSE Child(launchEnv)
          /\ reports' = IF launchSandboxed THEN Report(state) ELSE reports
  /\ UNCHANGED <<cfg, adapter, childEnv, flags, answers, policy, confined, delivery>>

\* dialWithRetry; on failure a spawned child is killed and the sandbox undone.
Dial ==
  /\ pc = "dial"
  /\ \E connected \in BOOLEAN :
       /\ Step(connected, "running")
       /\ child' = IF connected THEN child ELSE NoChild
       /\ confined' = IF connected THEN confined ELSE None
  /\ UNCHANGED <<cfg, adapter, childEnv, flags, answers, policy, reports, delivery>>

-----------------------------------------------------------------------------
(* Delivery on the running session                                         *)

\* External (agentkit): which native sessions implement TurnInterrupter.
SessionInterrupts ==
  CASE adapter.protocol = "claude_stream_json" -> "TurnInterrupter" \in adapter.interfaces
    [] adapter.protocol = "codex_app_server" -> "RPCTurnInterrupter" \in adapter.interfaces
    [] OTHER -> adapter.protocol = "opencode_native"

CancelTurn == IF adapter.protocol = "acp" \/ SessionInterrupts THEN "requested" ELSE "unsupported"

\* DeliveryCapabilities.Plan of a cancel_turn with a binding generation.
Plan(state, bound, expected) ==
  IF bound # expected THEN "route_stale"
  ELSE IF "cancel_turn" \notin adapter.delivery THEN "unsupported"
  ELSE IF state = "offline" THEN "offline" ELSE "planned"

Deliver ==
  /\ pc = "running"
  /\ \E state \in {"idle", "busy", "offline"}, bound \in 0..1 :
       delivery' = [plan |-> Plan(state, bound, 0), cancel |-> CancelTurn]
  /\ pc' = "delivered"
  /\ UNCHANGED <<cfg, adapter, childEnv, flags, answers, policy, confined, reports, child>>

Done == pc \in {"refused", "delivered"} /\ UNCHANGED vars

-----------------------------------------------------------------------------

Init ==
  /\ cfg \in Configs
  /\ pc = "select" /\ adapter = None /\ childEnv = NilEnv /\ flags = "" /\ answers = ""
  /\ policy = NoPolicy /\ confined = None /\ reports = <<>>
  /\ child = NoChild /\ delivery = None

Next ==
  \/ Select \/ New \/ PrepareNative \/ PrepareACP \/ Plant
  \/ WrapAdapter \/ Posture \/ StartNative \/ runSandbox \/ StartTurn
  \/ acpProtectedPolicy \/ CheckRemoteSandbox \/ rejectUnsupportedLinuxTCPSandbox
  \/ PrepareLaunchSandbox \/ Spawn \/ Dial
  \/ Deliver \/ Done

Spec == Init /\ [][Next]_vars

-----------------------------------------------------------------------------
(* Properties                                                              *)

Running == pc \in {"running", "delivered"}

\* A session whose Config names protected paths runs only on a child that the
\* wrapper spawned and that cannot write them, whatever policy, transport and
\* backend it was given: acpProtectedPolicy and the client's own check between
\* them leave no way round (wrapper.go, ProtectedPaths: "an ACP endpoint the
\* wrapper does not spawn cannot be protected and is refused").
NeverUnprotected ==
  Running /\ ProtectedPaths => child.up /\ confined # None /\ confined.protect

\* The sandbox.applied events of what wraps the child, and of the host's Applier.
Outcomes == {i \in DOMAIN reports : reports[i].from = "outcome"}
AppliersWord == {i \in DOMAIN reports : reports[i].from = "applier"}
ApplierFailed == \E i \in AppliersWord : reports[i].state = "error"

Sandboxed == IF adapter.protocol = "acp" THEN launchSandboxed ELSE NativeSandboxed

\* What the host hears of the sandbox around the child is so, whichever of its
\* senders says it (emitSandboxOutcome, emitRuntimeStartSandboxError, the ACP
\* clients' callback): an outcome that says enforced is the only one, it is there
\* while the child runs exactly when the child is confined, and never for a child
\* that did not start; a launch that was to be sandboxed is never silent.  The
\* Applier's own sandbox.applied comes beside it, on a native launch exactly when
\* the host configured one, and a session whose Applier failed is not left to run.
ReportTruthful ==
  /\ \A i, j \in Outcomes : reports[i].enforced => i = j
  /\ Running => /\ confined # None <=> \E i \in Outcomes : reports[i].enforced
                /\ Sandboxed => Outcomes # {}
                /\ AppliersWord # {} <=> cfg.applier /\ adapter.protocol # "acp"
                /\ ~ApplierFailed
  /\ pc = "refused" /\ adapter # None /\ adapter.transport # "tcp" /\ ~ApplierFailed =>
       \A i \in Outcomes : ~reports[i].enforced

\* The value a configuration asks for: of the adapter's own environment if it has
\* one, else the last Set of the name, else the last inherited one that the
\* allowlist admits, and none for a name in Unset.
LastValue(entries, name) ==
  IF Named(entries, name) = {} THEN None
  ELSE entries[CHOOSE i \in Named(entries, name) : \A j \in Named(entries, name) : j <= i].value

Asked(name) ==
  LET e == cfg.env
      admitted == e.mode # "replace" /\ (e.allow = NilEnv \/ name \in Canonical(e.allow))
  IN CASE OwnEnv -> LastValue(cfg.specEnv, name)
       [] ~OwnEnv /\ name \in Canonical(e.unset) -> None
       [] OTHER -> IF Named(e.set, name) # {} THEN LastValue(e.set, name)
                   ELSE IF admitted THEN LastValue(cfg.ambient, name) ELSE None

\* The posture's variable goes over what is asked, codex's path under it.
Expected(name) ==
  IF name = "OPENCODE_PERMISSION" /\ cfg.sel.runtime = "opencode" /\ flags # "" THEN {flags}
  ELSE IF /\ name = "CODEX_PATH" /\ cfg.sel.runtime = "codex" /\ adapter.protocol = "acp"
          /\ cfg.codexFound /\ Asked(name) = None
  THEN {CodexPath.value}
  ELSE {Asked(name)} \ {None}

\* What the child sees of a name, and the names that it sees or could be meant to.
Seen(env, name) == {v.value : v \in {w \in env : canonicalEnvironmentName(w.name) = name}}

Names ==
  Canonical({v.name : v \in child.env \cup ToSet(cfg.ambient) \cup ToSet(cfg.env.set)
                            \cup IF OwnEnv THEN ToSet(cfg.specEnv) ELSE {}})
    \ {"", Marker.name}

\* codexacp gives a prepared launch without variables a nil environment, which
\* the spawn takes for the parent's: a known divergence, see the README.
CodexNilEnvironment == cfg.sel.runtime = "codex" /\ cfg.prepared # None /\ cfg.prepared.env = {}

\* The child sees what the configuration asks for and nothing else of the
\* ambient environment, through the adapter's Resolve, the empty-environment
\* marker, the posture's variable and the client's own hook; and a prepared
\* launch sees the plan's variables only.
EnvironmentAsConfigured ==
  child.up /\ ~(adapter.protocol = "acp" /\ CodexNilEnvironment) =>
    IF cfg.prepared # None THEN child.env = cfg.prepared.env
    ELSE \A name \in Names : Seen(child.env, name) = Expected(name)

\* A native session's approvals are answered from the posture its flags were
\* mapped from, when they were (posture.go: "answering its approval requests
\* from a different posture would apply two").
OnePosture ==
  Running /\ adapter.protocol # "acp" /\ flags # "" => answers = flags

\* preparedCLIAdapter forwards TurnInterrupter and then drops the other, so a
\* host's adapter with both loses the one the JSON-RPC session asks for: a known
\* divergence, see the README.
HidesInterrupter ==
  cfg.prepared # None /\ cfg.sel.cli = "custom" /\ Interrupters \subseteq cfg.sel.interfaces

\* CancelTurn works on a session exactly where the adapter that Select built
\* advertised cancel_turn (wrapper.go: "exactly where this works"), whether or
\* not a prepared execution wrapped it since; a plan is made only there.
CancelAsAdvertised ==
  delivery # None /\ ~HidesInterrupter =>
    /\ (delivery.cancel = "requested") = ("cancel_turn" \in adapter.delivery)
    /\ delivery.plan = "planned" => delivery.cancel = "requested"

=============================================================================
