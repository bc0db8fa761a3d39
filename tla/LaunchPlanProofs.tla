---------------------------- MODULE LaunchPlanProofs ----------------------------
(***************************************************************************)
(* Proofs about the launch, for every set of configurations: what a stage  *)
(* has settled stays settled in the stages after it, so each stage is      *)
(* proved from what the stages before it left behind.                      *)
(***************************************************************************)
EXTENDS LaunchPlan, WellFoundedInduction, TLAPS

Stages == {"select", "new", "run", "plant", "wrap", "posture", "start", "ready", "turn",
           "protect", "sandbox", "spawn", "dial", "running", "delivered", "refused"}

Unspawned == {"select", "new", "run", "plant", "wrap", "posture", "start", "protect", "sandbox"}

NativeStages == {"wrap", "posture", "start", "ready", "turn"}

ACPStages == {"protect", "sandbox", "spawn", "dial"}

Protocols == {"claude_stream_json", "codex_app_server", "opencode_native", ""}

Transports == {"stdio", "http", "tcp"}

Capabilities == {"send_turn", "lifecycle_stop", "interrupt", "cancel_turn"}

Adapters == [protocol : Protocols \cup {"acp"}, transport : Transports, custom : BOOLEAN,
             interfaces : SUBSET Interrupters, delivery : SUBSET Capabilities]

ReportStates == {"applied", "failed", "unsupported", "disabled", "configured"}

SandboxReports == [from : {"outcome", "applier"}, state : ReportStates \cup {"error", "done"},
                   enforced : BOOLEAN]

\* What the variables hold.
LaunchTypes ==
  /\ cfg \in Configs /\ pc \in Stages
  /\ pc \notin {"select", "refused"} => adapter \in Adapters
  /\ policy \in SandboxPolicies
  /\ confined \in Boxes \cup {None}
  /\ reports \in Seq(SandboxReports)

\* The stage tells the kind of launch.
LaunchKinds ==
  /\ pc \in NativeStages => adapter.protocol # "acp"
  /\ pc \in ACPStages => adapter.protocol = "acp"
  /\ pc = "dial" => adapter.transport = "tcp"

\* What a log of sandbox.applied events says, as Outcomes and AppliersWord read it.
OutcomesIn(log) == {i \in DOMAIN log : log[i].from = "outcome"}
WordIn(log)     == {i \in DOMAIN log : log[i].from = "applier"}
EnforcedIn(log) == \E i \in OutcomesIn(log) : log[i].enforced
FailedIn(log)   == \E i \in WordIn(log) : log[i].state = "error"
OnceIn(log)     == \A i, j \in OutcomesIn(log) : log[i].enforced => i = j

\* A child that is confined as it should be, and of which the host has heard so.
HeardOfChild ==
  /\ ProtectedPaths => child.up /\ confined # None /\ confined.protect
  /\ confined # None <=> EnforcedIn(reports)
  /\ Sandboxed => OutcomesIn(reports) # {}

\* The Applier had its turn and did not fail.
ApplierHeard ==
  /\ WordIn(reports) # {} <=> cfg.applier /\ adapter.protocol # "acp"
  /\ ~FailedIn(reports)

\* Nothing is confined or reported before the sandbox; from the child on it is
\* confined as it should be and the reports agree with it; the Applier's word
\* comes after the start of the session and never instead of an outcome.
SandboxSettled ==
  /\ pc \in Unspawned => confined = None /\ reports = <<>>
  /\ pc = "spawn" => /\ reports = <<>> /\ (confined # None => launchSandboxed)
                     /\ ProtectedPaths => confined # None /\ confined.protect
  /\ pc = "ready" => /\ WordIn(reports) = {}
                     /\ UsesLongLivedProcess => HeardOfChild
                     /\ ~UsesLongLivedProcess => confined = None /\ OutcomesIn(reports) = {}
  /\ pc = "turn" => confined = None /\ OutcomesIn(reports) = {}
  /\ pc \in {"dial", "running", "delivered"} => HeardOfChild
  /\ pc \in {"turn", "dial", "running", "delivered"} => ApplierHeard
  /\ OnceIn(reports)
  /\ pc = "refused" /\ adapter # None /\ adapter.transport # "tcp" /\ ~FailedIn(reports) =>
       ~EnforcedIn(reports)

LaunchedPosture == IF cfg.prepared # None THEN cfg.prepared.posture ELSE cfg.posture

\* A native launch's flags and answers are settled once and never after.
PostureSettled ==
  /\ pc \in NativeStages \cup {"plant", "running", "delivered"} /\ adapter.protocol # "acp" =>
       flags = LaunchedPosture
  /\ pc \in {"start", "ready", "turn", "running", "delivered"} /\ adapter.protocol # "acp" =>
       answers = sessionPosture /\ sessionPosture # "conflict"

Cancels(a) ==
  \/ a.protocol \in {"acp", "opencode_native"}
  \/ a.protocol = "claude_stream_json" /\ "TurnInterrupter" \in a.interfaces
  \/ a.protocol = "codex_app_server" /\ "RPCTurnInterrupter" \in a.interfaces

\* The adapter advertises what it can do, and the prepared one hides nothing.
AdapterHonest(a) ==
  /\ ("cancel_turn" \in a.delivery) = Cancels(a)
  /\ cfg.prepared # None => ~(Interrupters \subseteq a.interfaces)

\* What Select built holds until the session is delivered to.
CancelSettled ==
  /\ pc \notin {"select", "refused"} /\ ~HidesInterrupter => AdapterHonest(adapter)
  /\ delivery = None \/ pc = "delivered"
  /\ pc = "delivered" /\ ~HidesInterrupter =>
       /\ (delivery.cancel = "requested") = ("cancel_turn" \in adapter.delivery)
       /\ delivery.plan = "planned" => delivery.cancel = "requested"

LaunchInv == LaunchTypes /\ LaunchKinds /\ SandboxSettled /\ PostureSettled /\ CancelSettled


-----------------------------------------------------------------------------
(* Lemmas about the operators *)

\* The empty log says nothing.
LEMMA NoReport ==
  /\ <<>> \in Seq(SandboxReports)
  /\ OutcomesIn(<<>>) = {} /\ WordIn(<<>>) = {} /\ ~EnforcedIn(<<>>) /\ ~FailedIn(<<>>) /\ OnceIn(<<>>)
<1>1. <<>> \in Seq(SandboxReports)
  OBVIOUS
<1>2. DOMAIN <<>> = {}
  OBVIOUS
<1>3. OutcomesIn(<<>>) = {} /\ WordIn(<<>>) = {}
  BY <1>2 DEF OutcomesIn, WordIn
<1> QED
  BY <1>1, <1>3 DEF EnforcedIn, FailedIn, OnceIn

\* A log with one more report.
LEMMA OneMore ==
  ASSUME NEW log \in Seq(SandboxReports), NEW r \in SandboxReports
  PROVE  \E n : /\ n \notin DOMAIN log /\ DOMAIN Append(log, r) = DOMAIN log \cup {n}
                /\ \A i \in DOMAIN log : Append(log, r)[i] = log[i]
                /\ Append(log, r)[n] = r
                /\ Append(log, r) \in Seq(SandboxReports)
<1> HIDE DEF SandboxReports
<1> DEFINE n == Len(log) + 1
<1>1. Len(log) \in Nat /\ DOMAIN log = 1..Len(log)
  OBVIOUS
<1>2. n \notin DOMAIN log /\ 1..n = (1..Len(log)) \cup {n}
  BY <1>1
<1>3. DOMAIN Append(log, r) = 1..n
  OBVIOUS
<1>4. (\A i \in 1..Len(log) : Append(log, r)[i] = log[i]) /\ Append(log, r)[n] = r
  OBVIOUS
<1>5. Append(log, r) \in Seq(SandboxReports)
  OBVIOUS
<1> HIDE DEF n
<1> QED
  BY <1>1, <1>2, <1>3, <1>4, <1>5

\* One more outcome.
LEMMA OutcomeAdds ==
  ASSUME NEW log \in Seq(SandboxReports), NEW state \in ReportStates
  PROVE  /\ Outcome(log, state) \in Seq(SandboxReports)
         /\ OutcomesIn(Outcome(log, state)) # {}
         /\ WordIn(Outcome(log, state)) = WordIn(log)
         /\ FailedIn(Outcome(log, state)) <=> FailedIn(log)
         /\ EnforcedIn(Outcome(log, state)) <=> EnforcedIn(log) \/ state = "applied"
         /\ OnceIn(log) /\ ~EnforcedIn(log) /\ state # "applied" => OnceIn(Outcome(log, state))
         /\ OutcomesIn(log) = {} => OnceIn(Outcome(log, state))
<1> DEFINE r == [from |-> "outcome", state |-> state, enforced |-> state = "applied"]
           q == Append(log, r)
<1>1. r \in SandboxReports /\ r.from = "outcome" /\ r.from # "applier" /\ (r.enforced <=> state = "applied")
  BY DEF SandboxReports
<1>2. Outcome(log, state) = q
  BY DEF Outcome
<1> HIDE DEF r
<1>3. PICK n : /\ n \notin DOMAIN log /\ DOMAIN q = DOMAIN log \cup {n}
               /\ \A i \in DOMAIN log : q[i] = log[i]
               /\ q[n] = r /\ q \in Seq(SandboxReports)
  BY <1>1, OneMore
<1> HIDE DEF q
<1>4. OutcomesIn(q) = OutcomesIn(log) \cup {n} /\ WordIn(q) = WordIn(log)
  BY <1>1, <1>3 DEF OutcomesIn, WordIn
<1>5. \A i \in OutcomesIn(log) \cup WordIn(log) : i \in DOMAIN log /\ q[i] = log[i]
  BY <1>3 DEF OutcomesIn, WordIn
<1>6. FailedIn(q) <=> FailedIn(log)
  BY <1>4, <1>5 DEF FailedIn
<1>7. EnforcedIn(q) <=> EnforcedIn(log) \/ state = "applied"
  BY <1>1, <1>3, <1>4, <1>5 DEF EnforcedIn
<1>8. OnceIn(log) /\ ~EnforcedIn(log) /\ state # "applied" => OnceIn(q)
  BY <1>1, <1>3, <1>4, <1>5 DEF EnforcedIn, OnceIn
<1>9. OutcomesIn(log) = {} => OnceIn(q)
  BY <1>4 DEF OnceIn
<1> QED
  BY <1>2, <1>3, <1>4, <1>6, <1>7, <1>8, <1>9

\* The Applier's word.
LEMMA WordAdds ==
  ASSUME NEW log \in Seq(SandboxReports), NEW state \in {"error", "done"}, NEW applied \in BOOLEAN
  PROVE  LET q == Word(log, state, applied)
         IN /\ q \in Seq(SandboxReports) /\ WordIn(q) # {}
            /\ OutcomesIn(q) = OutcomesIn(log)
            /\ EnforcedIn(q) <=> EnforcedIn(log)
            /\ OnceIn(q) <=> OnceIn(log)
            /\ FailedIn(q) <=> FailedIn(log) \/ state = "error"
<1> DEFINE r == [from |-> "applier", state |-> state, enforced |-> applied]
           q == Word(log, state, applied)
<1>1. r \in SandboxReports /\ r.from = "applier" /\ r.from # "outcome" /\ r.state = state
  BY DEF SandboxReports
<1>2. q = Append(log, r)
  BY DEF Word
<1> HIDE DEF r, q
<1>3. PICK n : /\ n \notin DOMAIN log /\ DOMAIN q = DOMAIN log \cup {n}
               /\ \A i \in DOMAIN log : q[i] = log[i]
               /\ q[n] = r /\ q \in Seq(SandboxReports)
  BY <1>1, <1>2, OneMore
<1>4. OutcomesIn(q) = OutcomesIn(log) /\ WordIn(q) = WordIn(log) \cup {n}
  BY <1>1, <1>3 DEF OutcomesIn, WordIn
<1>5. \A i \in OutcomesIn(log) \cup WordIn(log) : i \in DOMAIN log /\ q[i] = log[i]
  BY <1>3 DEF OutcomesIn, WordIn
<1>6. FailedIn(q) <=> FailedIn(log) \/ state = "error"
  BY <1>1, <1>3, <1>4, <1>5 DEF FailedIn
<1>7. EnforcedIn(q) <=> EnforcedIn(log)
  BY <1>4, <1>5 DEF EnforcedIn
<1>8. OnceIn(q) <=> OnceIn(log)
  BY <1>4, <1>5 DEF OnceIn
<1> QED
  BY <1>3, <1>4, <1>6, <1>7, <1>8 DEF q

\* Failures enforce nothing.
LEMMA FailureAdds ==
  ASSUME NEW log \in Seq(SandboxReports), OnceIn(log), ~EnforcedIn(log), NEW told \in BOOLEAN
  PROVE  /\ Unconfined(log, told) \in Seq(SandboxReports)
         /\ OnceIn(Unconfined(log, told)) /\ ~EnforcedIn(Unconfined(log, told))
<1>1. CASE told
  <2>1. "failed" \in ReportStates /\ "failed" # "applied"
    BY DEF ReportStates
  <2>2. Unconfined(log, told) = Outcome(log, "failed")
    BY <1>1 DEF Unconfined
  <2> QED
    BY <2>1, <2>2, OutcomeAdds
<1>2. CASE ~told
  BY <1>2 DEF Unconfined
<1> QED
  BY <1>1, <1>2

\* The wire protocol of a native pair is never ACP's.
LEMMA NativeProtocol ==
  ASSUME NEW k \in DOMAIN nativeSpecs
  PROVE  nativeSpecs[k] \in Protocols
BY DEF nativeSpecs, Protocols

\* cancel_turn is advertised exactly where the flag says so.
LEMMA Advertised ==
  ASSUME NEW interrupt, NEW b \in BOOLEAN
  PROVE  /\ DeliveryCapabilitiesForRuntime(interrupt, b) \in SUBSET Capabilities
         /\ ("cancel_turn" \in DeliveryCapabilitiesForRuntime(interrupt, b)) = b
<1> DEFINE D == DeliveryCapabilitiesForRuntime(interrupt, b)
<1>1. D \in SUBSET Capabilities
  BY DEF DeliveryCapabilitiesForRuntime, Capabilities
<1>2. CASE b
  <2>1. "cancel_turn" \in D
    BY <1>2 DEF DeliveryCapabilitiesForRuntime
  <2> QED
    BY <1>1, <1>2, <2>1
<1>3. CASE ~b
  <2>1. "cancel_turn" \notin D
    BY <1>3 DEF DeliveryCapabilitiesForRuntime
  <2> QED
    BY <1>1, <1>3, <2>1
<1> QED
  BY <1>2, <1>3

\* What newNative builds.
LEMMA NativeBuilt ==
  ASSUME NEW s, Key(s) \in DOMAIN nativeSpecs, s.interfaces \subseteq Interrupters
  PROVE  /\ newNative(s) \in Adapters /\ newNative(s).protocol # "acp"
         /\ ("cancel_turn" \in newNative(s).delivery) = Cancels(newNative(s))
         /\ Interrupters \subseteq newNative(s).interfaces =>
              s.cli = "custom" /\ Interrupters \subseteq s.interfaces
<1> DEFINE protocol == nativeSpecs[Key(s)]
           interfaces == IF s.cli = "custom" THEN s.interfaces ELSE ProviderInterfaces(s)
           interrupt == IF s.mode = "http" THEN "turn" ELSE "process"
           cancel == nativeTurnCancel(protocol, interfaces)
           transport == IF s.mode = "http" THEN "http" ELSE "stdio"
           del == DeliveryCapabilitiesForRuntime(interrupt, cancel)
           a == [protocol |-> protocol, transport |-> transport, custom |-> s.cli = "custom",
                 interfaces |-> interfaces, delivery |-> del]
<1>1. protocol \in Protocols
  BY NativeProtocol
<1>2. /\ interfaces \in SUBSET Interrupters
      /\ Interrupters \subseteq interfaces => s.cli = "custom" /\ Interrupters \subseteq s.interfaces
  <2>1. ProviderInterfaces(s) \in {{"TurnInterrupter"}, {"RPCTurnInterrupter"}, {}}
    BY DEF ProviderInterfaces
  <2> QED
    BY <2>1 DEF Interrupters
<1>3. newNative(s) = a
  BY DEF newNative
<1>4. cancel \in BOOLEAN
  <2>1. CASE protocol = "claude_stream_json"
    BY <2>1 DEF nativeTurnCancel
  <2>2. CASE protocol = "codex_app_server"
    BY <2>2 DEF nativeTurnCancel
  <2>3. CASE protocol \in {"opencode_native", ""}
    BY <2>3 DEF nativeTurnCancel
  <2> QED
    BY <1>1, <2>1, <2>2, <2>3 DEF Protocols
<1>5. del \in SUBSET Capabilities /\ ("cancel_turn" \in del) = cancel
  BY <1>4, Advertised
<1>6. transport \in Transports
  BY DEF Transports
<1>7. cancel <=> \/ protocol = "opencode_native"
                 \/ protocol = "claude_stream_json" /\ "TurnInterrupter" \in interfaces
                 \/ protocol = "codex_app_server" /\ "RPCTurnInterrupter" \in interfaces
  BY <1>1 DEF nativeTurnCancel, Protocols
<1> HIDE DEF protocol, interfaces, interrupt, cancel, transport, del
<1>8. a \in Adapters
  BY <1>1, <1>2, <1>5, <1>6 DEF Adapters
<1>9. a.protocol = protocol /\ a.interfaces = interfaces /\ a.delivery = del
  OBVIOUS
<1>10. Cancels(a) <=> cancel
  BY <1>1, <1>7, <1>9 DEF Cancels, Protocols
<1> HIDE DEF a
<1>11. ("cancel_turn" \in a.delivery) = Cancels(a)
  BY <1>4, <1>5, <1>9, <1>10 DEF Cancels
<1> QED
  BY <1>1, <1>2, <1>3, <1>8, <1>9, <1>11 DEF Protocols

\* What newACP builds.
LEMMA ACPBuilt ==
  ASSUME NEW s
  PROVE  /\ newACP(s) \in Adapters /\ newACP(s).protocol = "acp"
         /\ ("cancel_turn" \in newACP(s).delivery) = Cancels(newACP(s))
         /\ ~(Interrupters \subseteq newACP(s).interfaces)
<1> DEFINE transport == IF s.mode = "acp_tcp" THEN "tcp" ELSE "stdio"
           del == DeliveryCapabilitiesForRuntime("turn", TRUE)
           a == [protocol |-> "acp", transport |-> transport, custom |-> FALSE,
                 interfaces |-> {}, delivery |-> del]
<1>1. del \in SUBSET Capabilities /\ "cancel_turn" \in del
  BY Advertised
<1>2. transport \in Transports
  BY DEF Transports
<1>3. newACP(s) = a
  BY DEF newACP
<1> HIDE DEF transport, del
<1>4. a \in Adapters /\ a.protocol = "acp" /\ a.interfaces = {} /\ a.delivery = del
  BY <1>1, <1>2 DEF Adapters, Interrupters
<1> HIDE DEF a
<1> QED
  BY <1>1, <1>3, <1>4 DEF Cancels, Interrupters

-----------------------------------------------------------------------------
(* Every stage keeps the invariant *)

\* The start.
LEMMA InitStep == Init => LaunchInv
<1> SUFFICES ASSUME Init PROVE LaunchInv
  OBVIOUS
<1>1. /\ cfg \in Configs /\ pc = "select" /\ adapter = None /\ confined = None /\ reports = <<>>
      /\ delivery = None /\ policy = NoPolicy
  BY DEF Init
<1>2. policy \in SandboxPolicies
  BY <1>1 DEF NoPolicy, SandboxPolicies
<1>t. LaunchTypes
  BY <1>1, <1>2, NoReport DEF LaunchTypes, Stages
<1>k. LaunchKinds
  BY <1>1 DEF LaunchKinds, NativeStages, ACPStages
<1>s. SandboxSettled
  BY <1>1, NoReport DEF SandboxSettled, Unspawned
<1>p. PostureSettled
  BY <1>1 DEF PostureSettled, NativeStages
<1>c. CancelSettled
  BY <1>1 DEF CancelSettled
<1> QED
  BY <1>t, <1>k, <1>s, <1>p, <1>c DEF LaunchInv

\* Up to the sandbox a stage leaves the command and the reports alone.
LEMMA StillUnspawned ==
  ASSUME LaunchInv, pc \in Unspawned, pc' \in Unspawned \cup {"refused"},
         confined' = confined, reports' = reports, delivery' = delivery
  PROVE  SandboxSettled' /\ delivery' = None /\ confined' = None /\ reports' = <<>>
<1>1. confined' = None /\ reports' = <<>> /\ delivery' = None
  BY DEF LaunchInv, SandboxSettled, CancelSettled, Unspawned
<1>2. ~EnforcedIn(reports') /\ OnceIn(reports')
  BY <1>1, NoReport
<1> QED
  BY <1>1, <1>2 DEF SandboxSettled, Unspawned

\* A stage before the delivery that leaves the adapter alone.
LEMMA SameAdapter ==
  ASSUME LaunchInv, pc \notin {"select", "refused", "delivered"}, pc' # "delivered",
         cfg' = cfg, adapter' = adapter, delivery' = delivery
  PROVE  CancelSettled'
BY DEF LaunchInv, CancelSettled, AdapterHonest, HidesInterrupter

\* launch.Select.
LEMMA SelectStep == LaunchInv /\ Select => LaunchInv'
<1> SUFFICES ASSUME LaunchInv, Select PROVE LaunchInv'
  OBVIOUS
<1>1. /\ pc = "select" /\ pc' \in {"new", "refused"}
      /\ cfg' = cfg /\ policy' = policy /\ confined' = confined /\ reports' = reports
      /\ delivery' = delivery
  BY DEF Select, Step
<1>s. SandboxSettled' /\ delivery' = None
  BY <1>1, StillUnspawned DEF Unspawned
<1>2. cfg \in Configs
  BY <1>1 DEF LaunchInv, LaunchTypes
<1>3. ASSUME pc' = "new" PROVE LaunchTypes' /\ CancelSettled'
  <2>1. cfg.sel.interfaces \subseteq Interrupters
    BY <1>2, LaunchConstants
  <2>2. \/ adapter' = newACP(cfg.sel)
        \/ adapter' = newNative(cfg.sel) /\ Key(cfg.sel) \in DOMAIN nativeSpecs
    BY <1>3 DEF Select, Step, acpKeys, Key, IsACP
  <2>3. /\ adapter' \in Adapters
        /\ ("cancel_turn" \in adapter'.delivery) = Cancels(adapter')
        /\ Interrupters \subseteq adapter'.interfaces =>
             cfg.sel.cli = "custom" /\ Interrupters \subseteq cfg.sel.interfaces
    BY <2>1, <2>2, NativeBuilt, ACPBuilt
  <2>4. LaunchTypes'
    BY <1>1, <1>3, <2>3 DEF LaunchInv, LaunchTypes, Stages
  <2>5. CancelSettled'
    BY <1>1, <1>s, <1>3, <2>3 DEF CancelSettled, AdapterHonest, HidesInterrupter
  <2> QED
    BY <2>4, <2>5
<1>4. ASSUME pc' = "refused" PROVE LaunchTypes' /\ CancelSettled'
  BY <1>1, <1>s, <1>4 DEF LaunchInv, LaunchTypes, Stages, CancelSettled
<1>t. LaunchTypes'
  BY <1>1, <1>3, <1>4
<1>k. LaunchKinds'
  BY <1>1 DEF LaunchKinds, NativeStages, ACPStages
<1>p. PostureSettled'
  BY <1>1 DEF PostureSettled, NativeStages
<1>c. CancelSettled'
  BY <1>1, <1>3, <1>4
<1> QED
  BY <1>t, <1>k, <1>s, <1>p, <1>c DEF LaunchInv

\* wrapper.New.
LEMMA NewStep == LaunchInv /\ New => LaunchInv'
<1> SUFFICES ASSUME LaunchInv, New PROVE LaunchInv'
  OBVIOUS
<1>1. /\ pc = "new" /\ pc' \in {"run", "refused"}
      /\ cfg' = cfg /\ adapter' = adapter /\ policy' = policy /\ confined' = confined
      /\ reports' = reports /\ delivery' = delivery
  BY DEF New, Step
<1>t. LaunchTypes'
  BY <1>1 DEF LaunchInv, LaunchTypes, Stages
<1>k. LaunchKinds'
  BY <1>1 DEF LaunchKinds, NativeStages, ACPStages
<1>s. SandboxSettled'
  BY <1>1, StillUnspawned DEF Unspawned
<1>p. PostureSettled'
  BY <1>1 DEF PostureSettled, NativeStages
<1>c. CancelSettled'
  BY <1>1, SameAdapter
<1> QED
  BY <1>t, <1>k, <1>s, <1>p, <1>c DEF LaunchInv

\* A native launch settles its flags.
LEMMA PrepareNativeStep == LaunchInv /\ PrepareNative => LaunchInv'
<1> SUFFICES ASSUME LaunchInv, PrepareNative PROVE LaunchInv'
  OBVIOUS
<1>1. /\ pc = "run" /\ pc' \in {"plant", "refused"} /\ adapter.protocol # "acp"
      /\ cfg' = cfg /\ adapter' = adapter /\ policy' = policy /\ confined' = confined
      /\ reports' = reports /\ delivery' = delivery /\ answers' = answers
      /\ pc' = "plant" => flags' = LaunchedPosture
  BY DEF PrepareNative, Step, LaunchedPosture
<1>t. LaunchTypes'
  BY <1>1 DEF LaunchInv, LaunchTypes, Stages
<1>k. LaunchKinds'
  BY <1>1 DEF LaunchKinds, NativeStages, ACPStages
<1>s. SandboxSettled'
  BY <1>1, StillUnspawned DEF Unspawned
<1>p. PostureSettled'
  BY <1>1 DEF PostureSettled, NativeStages, LaunchedPosture
<1>c. CancelSettled'
  BY <1>1, SameAdapter
<1> QED
  BY <1>t, <1>k, <1>s, <1>p, <1>c DEF LaunchInv

\* An ACP launch settles its policy.
LEMMA PrepareACPStep == LaunchInv /\ PrepareACP => LaunchInv'
<1> SUFFICES ASSUME LaunchInv, PrepareACP PROVE LaunchInv'
  OBVIOUS
<1>1. /\ pc = "run" /\ pc' \in {"plant", "refused"} /\ adapter.protocol = "acp"
      /\ cfg' = cfg /\ adapter' = adapter /\ confined' = confined
      /\ reports' = reports /\ delivery' = delivery
      /\ policy' = IF cfg.prepared # None THEN cfg.prepared.policy ELSE cfg.policy
  BY DEF PrepareACP, Step
<1>2. cfg \in Configs
  BY DEF LaunchInv, LaunchTypes
<1>3. policy' \in SandboxPolicies
  BY <1>1, <1>2, LaunchConstants
<1>t. LaunchTypes'
  BY <1>1, <1>3 DEF LaunchInv, LaunchTypes, Stages
<1>k. LaunchKinds'
  BY <1>1 DEF LaunchKinds, NativeStages, ACPStages
<1>s. SandboxSettled'
  BY <1>1, StillUnspawned DEF Unspawned
<1>p. PostureSettled'
  BY <1>1 DEF PostureSettled, NativeStages
<1>c. CancelSettled'
  BY <1>1, SameAdapter
<1> QED
  BY <1>t, <1>k, <1>s, <1>p, <1>c DEF LaunchInv

\* The planter; the two kinds of launch part.
LEMMA PlantStep == LaunchInv /\ Plant => LaunchInv'
<1> SUFFICES ASSUME LaunchInv, Plant PROVE LaunchInv'
  OBVIOUS
<1>1. /\ pc = "plant"
      /\ pc' \in {IF adapter.protocol = "acp" THEN "protect" ELSE "wrap", "refused"}
      /\ cfg' = cfg /\ adapter' = adapter /\ policy' = policy /\ confined' = confined
      /\ reports' = reports /\ delivery' = delivery /\ flags' = flags
  BY DEF Plant, Step
<1>2. pc' \in {"protect", "wrap", "refused"}
  BY <1>1
<1>t. LaunchTypes'
  BY <1>1, <1>2 DEF LaunchInv, LaunchTypes, Stages
<1>k. LaunchKinds'
  BY <1>1, <1>2 DEF LaunchKinds, NativeStages, ACPStages
<1>s. SandboxSettled'
  BY <1>1, <1>2, StillUnspawned DEF Unspawned
<1>p. PostureSettled'
  BY <1>1, <1>2 DEF LaunchInv, PostureSettled, NativeStages, LaunchedPosture
<1>c. CancelSettled'
  BY <1>1, <1>2, SameAdapter
<1> QED
  BY <1>t, <1>k, <1>s, <1>p, <1>c DEF LaunchInv

\* A prepared execution wraps the adapter and hides neither interface.
LEMMA WrapAdapterStep == LaunchInv /\ WrapAdapter => LaunchInv'
<1> SUFFICES ASSUME LaunchInv, WrapAdapter PROVE LaunchInv'
  OBVIOUS
<1>1. /\ pc = "wrap" /\ pc' \in {"posture", "refused"}
      /\ cfg' = cfg /\ policy' = policy /\ confined' = confined
      /\ reports' = reports /\ delivery' = delivery /\ flags' = flags
      /\ adapter' = IF cfg.prepared = None THEN adapter
                    ELSE [adapter EXCEPT !.interfaces = preparedCLIAdapter(adapter.interfaces)]
  BY DEF WrapAdapter, Step
<1>2. adapter \in Adapters /\ adapter.protocol # "acp"
  BY <1>1 DEF LaunchInv, LaunchTypes, LaunchKinds, NativeStages
<1> DEFINE forwarded == preparedCLIAdapter(adapter.interfaces)
           wrapped == [adapter EXCEPT !.interfaces = forwarded]
<1>3. adapter.interfaces \in SUBSET Interrupters
  BY <1>2 DEF Adapters
<1>4. /\ forwarded \in SUBSET Interrupters
      /\ "TurnInterrupter" \in forwarded <=> "TurnInterrupter" \in adapter.interfaces
      /\ ~(Interrupters \subseteq adapter.interfaces) =>
           ("RPCTurnInterrupter" \in forwarded <=> "RPCTurnInterrupter" \in adapter.interfaces)
      /\ ~(Interrupters \subseteq forwarded)
  BY <1>3 DEF preparedCLIAdapter, Interrupters
<1> HIDE DEF forwarded
<1>5. /\ wrapped \in Adapters
      /\ wrapped.protocol = adapter.protocol /\ wrapped.transport = adapter.transport
      /\ wrapped.delivery = adapter.delivery /\ wrapped.interfaces = forwarded
  BY <1>2, <1>4 DEF Adapters
<1>6. adapter' = IF cfg.prepared = None THEN adapter ELSE wrapped
  BY <1>1 DEF forwarded
<1> HIDE DEF wrapped
<1>7. adapter' \in Adapters /\ adapter'.protocol = adapter.protocol
  BY <1>2, <1>5, <1>6
<1>8. ASSUME ~HidesInterrupter PROVE AdapterHonest(adapter)'
  <2>1. AdapterHonest(adapter)
    BY <1>1, <1>8 DEF LaunchInv, CancelSettled
  <2>2. CASE cfg.prepared = None
    BY <1>1, <1>6, <2>1, <2>2 DEF AdapterHonest
  <2>3. CASE cfg.prepared # None
    <3>1. Cancels(wrapped) = Cancels(adapter)
      BY <1>4, <1>5, <2>1, <2>3 DEF Cancels, AdapterHonest
    <3> QED
      BY <1>1, <1>4, <1>5, <1>6, <2>1, <2>3, <3>1 DEF AdapterHonest
  <2> QED
    BY <2>2, <2>3
<1>t. LaunchTypes'
  BY <1>1, <1>7 DEF LaunchInv, LaunchTypes, Stages
<1>k. LaunchKinds'
  BY <1>1, <1>2, <1>7 DEF LaunchKinds, NativeStages, ACPStages
<1>s. SandboxSettled' /\ delivery' = None
  BY <1>1, StillUnspawned DEF Unspawned
<1>p. PostureSettled'
  BY <1>1, <1>2, <1>7 DEF LaunchInv, PostureSettled, NativeStages, LaunchedPosture
<1>c. CancelSettled'
  BY <1>1, <1>8, <1>s DEF CancelSettled, HidesInterrupter
<1> QED
  BY <1>t, <1>k, <1>s, <1>p, <1>c DEF LaunchInv

\* A native launch settles what approvals are answered from.
LEMMA PostureStep == LaunchInv /\ Posture => LaunchInv'
<1> SUFFICES ASSUME LaunchInv, Posture PROVE LaunchInv'
  OBVIOUS
<1>1. /\ pc = "posture" /\ pc' \in {"start", "refused"}
      /\ cfg' = cfg /\ adapter' = adapter /\ policy' = policy /\ confined' = confined
      /\ reports' = reports /\ delivery' = delivery /\ flags' = flags
      /\ pc' = "start" => answers' = sessionPosture /\ sessionPosture # "conflict"
  BY DEF Posture, Step
<1>2. sessionPosture' = sessionPosture
  BY <1>1 DEF sessionPosture
<1>t. LaunchTypes'
  BY <1>1 DEF LaunchInv, LaunchTypes, Stages
<1>k. LaunchKinds'
  BY <1>1 DEF LaunchInv, LaunchKinds, NativeStages, ACPStages
<1>s. SandboxSettled'
  BY <1>1, StillUnspawned DEF Unspawned
<1>p. PostureSettled'
  BY <1>1, <1>2 DEF LaunchInv, PostureSettled, NativeStages, LaunchedPosture
<1>c. CancelSettled'
  BY <1>1, SameAdapter
<1> QED
  BY <1>t, <1>k, <1>s, <1>p, <1>c DEF LaunchInv

\* The protected paths are merged into the policy.
LEMMA acpProtectedPolicyStep == LaunchInv /\ acpProtectedPolicy => LaunchInv'
<1> SUFFICES ASSUME LaunchInv, acpProtectedPolicy PROVE LaunchInv'
  OBVIOUS
<1>1. /\ pc = "protect" /\ pc' \in {"sandbox", "refused"}
      /\ cfg' = cfg /\ adapter' = adapter /\ confined' = confined
      /\ reports' = reports /\ delivery' = delivery
  BY DEF acpProtectedPolicy, Step
<1>2. policy \in SandboxPolicies
  BY DEF LaunchInv, LaunchTypes
<1>3. PICK b \in BOOLEAN : policy' = [policy EXCEPT !.protects = b]
  BY DEF acpProtectedPolicy
<1>4. policy' \in SandboxPolicies
  BY <1>2, <1>3 DEF SandboxPolicies
<1>t. LaunchTypes'
  BY <1>1, <1>4 DEF LaunchInv, LaunchTypes, Stages
<1>k. LaunchKinds'
  BY <1>1 DEF LaunchInv, LaunchKinds, NativeStages, ACPStages
<1>s. SandboxSettled'
  BY <1>1, StillUnspawned DEF Unspawned
<1>p. PostureSettled'
  BY <1>1 DEF PostureSettled, NativeStages
<1>c. CancelSettled'
  BY <1>1, SameAdapter
<1> QED
  BY <1>t, <1>k, <1>s, <1>p, <1>c DEF LaunchInv

\* Which sandbox a launch was to have stays as it is.
LEMMA SameSandbox ==
  ASSUME cfg' = cfg, adapter' = adapter, policy' = policy
  PROVE  /\ ProtectedPaths' = ProtectedPaths /\ launchSandboxed' = launchSandboxed
         /\ NativeSandboxed' = NativeSandboxed /\ Sandboxed' = Sandboxed
         /\ UsesLongLivedProcess' = UsesLongLivedProcess
BY DEF ProtectedPaths, launchSandboxed, NativeSandboxed, NativeConfines, NativeBox, NativePolicy,
       Sandboxed, UsesLongLivedProcess, runtimeCaps

\* agentkit starts a native child, confined and reported.
LEMMA NativeChildIs ==
  ASSUME LaunchInv, NativeChild, adapter.protocol # "acp", OutcomesIn(reports) = {},
         cfg' = cfg, adapter' = adapter, policy' = policy
  PROVE  /\ confined' \in Boxes \cup {None} /\ reports' \in Seq(SandboxReports)
         /\ HeardOfChild' /\ OnceIn(reports')
         /\ WordIn(reports') = WordIn(reports) /\ (FailedIn(reports') <=> FailedIn(reports))
<1>1. cfg \in Configs /\ reports \in Seq(SandboxReports)
  BY DEF LaunchInv, LaunchTypes
<1>2. /\ child'.up /\ confined' = IF NativeConfines THEN NativeBox ELSE None
      /\ reports' = IF NativeSandboxed
                    THEN Outcome(reports, IF NativeConfines THEN "applied" ELSE "disabled") ELSE reports
  BY DEF NativeChild, Child
<1>3. cfg.profile \in BOOLEAN
  BY <1>1, LaunchConstants
<1>4. NativeBox \in Boxes /\ (NativeBox.protect <=> ProtectedPaths)
  BY <1>3 DEF NativeBox, Boxes, ProtectedPaths
<1>5. NativeBox # None
  BY <1>4, LaunchConstants
<1>6. (NativeConfines => NativeSandboxed) /\ (ProtectedPaths => NativeConfines)
  BY <1>4 DEF NativeSandboxed, NativeConfines
<1>7. ~EnforcedIn(reports) /\ OnceIn(reports)
  BY DEF EnforcedIn, OnceIn
<1>8. /\ reports' \in Seq(SandboxReports) /\ OnceIn(reports')
      /\ WordIn(reports') = WordIn(reports) /\ (FailedIn(reports') <=> FailedIn(reports))
      /\ EnforcedIn(reports') <=> NativeConfines
      /\ NativeSandboxed => OutcomesIn(reports') # {}
  <2>1. CASE NativeSandboxed
    <3> DEFINE state == IF NativeConfines THEN "applied" ELSE "disabled"
    <3>1. state \in ReportStates /\ (state = "applied" <=> NativeConfines)
      BY DEF ReportStates
    <3>2. reports' = Outcome(reports, state)
      BY <1>2, <2>1
    <3> HIDE DEF state
    <3> QED
      BY <1>1, <1>7, <3>1, <3>2, OutcomeAdds
  <2>2. CASE ~NativeSandboxed
    BY <1>1, <1>2, <1>6, <1>7, <2>2
  <2> QED
    BY <2>1, <2>2
<1>9. (confined' # None <=> NativeConfines) /\ (NativeConfines => confined' = NativeBox)
      /\ confined' \in Boxes \cup {None}
  BY <1>2, <1>4, <1>5
<1>10. Sandboxed' <=> NativeSandboxed
  BY SameSandbox DEF Sandboxed
<1>11. HeardOfChild'
  <2>1. ProtectedPaths' <=> ProtectedPaths
    BY SameSandbox
  <2> QED
    BY <1>2, <1>4, <1>6, <1>8, <1>9, <1>10, <2>1 DEF HeardOfChild
<1> QED
  BY <1>8, <1>9, <1>11

\* A native stage that goes on or refuses leaves the rest of the invariant.
LEMMA NativeMoves ==
  ASSUME LaunchInv, pc \in {"start", "ready", "turn"}, pc' \in {"ready", "turn", "running", "refused"},
         cfg' = cfg, adapter' = adapter, policy' = policy, flags' = flags, answers' = answers,
         delivery' = delivery, confined' \in Boxes \cup {None}, reports' \in Seq(SandboxReports)
  PROVE  LaunchTypes' /\ LaunchKinds' /\ PostureSettled' /\ CancelSettled'
<1>1. adapter.protocol # "acp"
  BY DEF LaunchInv, LaunchKinds, NativeStages
<1>t. LaunchTypes'
  BY DEF LaunchInv, LaunchTypes, Stages
<1>k. LaunchKinds'
  BY <1>1 DEF LaunchKinds, NativeStages, ACPStages
<1>p. PostureSettled'
  BY DEF LaunchInv, PostureSettled, NativeStages, LaunchedPosture, sessionPosture
<1>c. CancelSettled'
  BY SameAdapter
<1> QED
  BY <1>t, <1>k, <1>p, <1>c

\* agentkit starts the session, and the child of a long-lived runtime with it.
LEMMA StartNativeStep == LaunchInv /\ StartNative => LaunchInv'
<1> SUFFICES ASSUME LaunchInv, StartNative PROVE LaunchInv'
  OBVIOUS
<1>1. /\ pc = "start" /\ cfg' = cfg /\ adapter' = adapter /\ policy' = policy
      /\ flags' = flags /\ answers' = answers /\ delivery' = delivery
  BY DEF StartNative
<1>2. /\ adapter.protocol # "acp" /\ confined = None /\ reports = <<>>
      /\ reports \in Seq(SandboxReports)
  BY <1>1 DEF LaunchInv, LaunchTypes, LaunchKinds, SandboxSettled, NativeStages, Unspawned
<1>3. /\ OutcomesIn(reports) = {} /\ WordIn(reports) = {} /\ ~EnforcedIn(reports)
      /\ ~FailedIn(reports) /\ OnceIn(reports)
  BY <1>2, NoReport
<1>4. \/ UsesLongLivedProcess /\ NativeChild /\ pc' = "ready"
      \/ /\ ~UsesLongLivedProcess /\ pc' = "ready" /\ confined' = confined /\ reports' = reports
      \/ /\ pc' = "refused" /\ confined' = None
         /\ \E told, sandboxErr \in BOOLEAN : reports' = Unconfined(Unconfined(reports, told), sandboxErr)
  BY DEF StartNative, NativeFailure
<1>5. UsesLongLivedProcess' = UsesLongLivedProcess
  BY <1>1, SameSandbox
<1>6. CASE UsesLongLivedProcess /\ NativeChild /\ pc' = "ready"
  <2>1. /\ confined' \in Boxes \cup {None} /\ reports' \in Seq(SandboxReports)
        /\ HeardOfChild' /\ OnceIn(reports') /\ WordIn(reports') = {}
    BY <1>1, <1>2, <1>3, <1>6, NativeChildIs
  <2>2. SandboxSettled'
    BY <1>5, <1>6, <2>1 DEF SandboxSettled, Unspawned
  <2> QED
    BY <1>1, <1>6, <2>1, <2>2, NativeMoves DEF LaunchInv
<1>7. CASE ~UsesLongLivedProcess /\ pc' = "ready" /\ confined' = confined /\ reports' = reports
  <2>1. SandboxSettled'
    BY <1>2, <1>3, <1>5, <1>7 DEF SandboxSettled, Unspawned
  <2> QED
    BY <1>1, <1>2, <1>7, <2>1, NativeMoves DEF LaunchInv
<1>8. ASSUME pc' = "refused", confined' = None, NEW told \in BOOLEAN, NEW sandboxErr \in BOOLEAN,
             reports' = Unconfined(Unconfined(reports, told), sandboxErr)
      PROVE  LaunchInv'
  <2>1. /\ reports' \in Seq(SandboxReports) /\ OnceIn(reports') /\ ~EnforcedIn(reports')
    BY <1>2, <1>3, <1>8, FailureAdds
  <2>2. SandboxSettled'
    BY <1>8, <2>1 DEF SandboxSettled, Unspawned
  <2> QED
    BY <1>1, <1>8, <2>1, <2>2, NativeMoves DEF LaunchInv
<1> QED
  BY <1>4, <1>6, <1>7, <1>8

\* The host's Applier has its word; its error ends the session.
LEMMA runSandboxStep == LaunchInv /\ runSandbox => LaunchInv'
<1> SUFFICES ASSUME LaunchInv, runSandbox PROVE LaunchInv'
  OBVIOUS
<1> DEFINE next == IF UsesLongLivedProcess THEN "running" ELSE "turn"
<1>1. /\ pc = "ready" /\ cfg' = cfg /\ adapter' = adapter /\ policy' = policy
      /\ flags' = flags /\ answers' = answers /\ delivery' = delivery
  BY DEF runSandbox
<1>2. /\ adapter.protocol # "acp" /\ reports \in Seq(SandboxReports)
      /\ WordIn(reports) = {} /\ OnceIn(reports) /\ confined \in Boxes \cup {None}
      /\ UsesLongLivedProcess => HeardOfChild
      /\ ~UsesLongLivedProcess => confined = None /\ OutcomesIn(reports) = {}
  BY <1>1 DEF LaunchInv, LaunchTypes, LaunchKinds, SandboxSettled, NativeStages
<1>3. ~FailedIn(reports)
  BY <1>2 DEF FailedIn
<1>4. /\ next \in {"running", "turn"}
      /\ next = "running" <=> UsesLongLivedProcess
  OBVIOUS
<1>5. \/ ~cfg.applier /\ pc' = next /\ child' = child /\ confined' = confined /\ reports' = reports
      \/ /\ cfg.applier
         /\ \E applied, failed \in BOOLEAN :
              /\ pc' = IF ~failed THEN next ELSE "refused"
              /\ reports' = Word(reports, IF failed THEN "error" ELSE "done", applied)
              /\ child' = IF failed THEN NoChild ELSE child
              /\ confined' = IF failed THEN None ELSE confined
  BY DEF runSandbox, Step
<1>6. ProtectedPaths' = ProtectedPaths /\ Sandboxed' = Sandboxed
  BY <1>1, SameSandbox
<1> HIDE DEF next
<1>7. ASSUME pc' = next, child' = child, confined' = confined,
             reports' \in Seq(SandboxReports), OnceIn(reports'),
             OutcomesIn(reports') = OutcomesIn(reports), EnforcedIn(reports') <=> EnforcedIn(reports),
             ~FailedIn(reports'), WordIn(reports') # {} <=> cfg.applier
      PROVE  LaunchInv'
  <2>1. ApplierHeard'
    BY <1>1, <1>2, <1>7 DEF ApplierHeard
  <2>2. HeardOfChild => HeardOfChild'
    BY <1>6, <1>7 DEF HeardOfChild
  <2>3. SandboxSettled'
    BY <1>2, <1>4, <1>7, <2>1, <2>2 DEF SandboxSettled, Unspawned
  <2> QED
    BY <1>1, <1>2, <1>4, <1>7, <2>3, NativeMoves DEF LaunchInv
<1>8. CASE ~cfg.applier /\ pc' = next /\ child' = child /\ confined' = confined /\ reports' = reports
  BY <1>2, <1>3, <1>7, <1>8
<1>9. ASSUME cfg.applier, NEW applied \in BOOLEAN, NEW failed \in BOOLEAN,
             pc' = IF ~failed THEN next ELSE "refused",
             reports' = Word(reports, IF failed THEN "error" ELSE "done", applied),
             child' = IF failed THEN NoChild ELSE child,
             confined' = IF failed THEN None ELSE confined
      PROVE  LaunchInv'
  <2> DEFINE state == IF failed THEN "error" ELSE "done"
  <2>1. state \in {"error", "done"} /\ (state = "error" <=> failed)
    OBVIOUS
  <2>2. reports' = Word(reports, state, applied)
    BY <1>9
  <2> HIDE DEF state
  <2>3. /\ reports' \in Seq(SandboxReports) /\ WordIn(reports') # {} /\ OnceIn(reports')
        /\ OutcomesIn(reports') = OutcomesIn(reports)
        /\ EnforcedIn(reports') <=> EnforcedIn(reports)
        /\ FailedIn(reports') <=> failed
    <3>1. reports \in Seq(SandboxReports) /\ OnceIn(reports) /\ ~FailedIn(reports)
      BY <1>2, <1>3
    <3>2. /\ reports' \in Seq(SandboxReports) /\ WordIn(reports') # {}
          /\ OutcomesIn(reports') = OutcomesIn(reports)
          /\ EnforcedIn(reports') <=> EnforcedIn(reports)
          /\ OnceIn(reports') <=> OnceIn(reports)
          /\ FailedIn(reports') <=> FailedIn(reports) \/ state = "error"
      BY <2>1, <2>2, <3>1, WordAdds
    <3> QED
      BY <2>1, <3>1, <3>2
  <2>4. CASE ~failed
    BY <1>7, <1>9, <2>3, <2>4
  <2>5. CASE failed
    <3>1. pc' = "refused" /\ confined' = None
      BY <1>9, <2>5
    <3>2. SandboxSettled'
      BY <2>3, <2>5, <3>1 DEF SandboxSettled, Unspawned
    <3> QED
      BY <1>1, <2>3, <3>1, <3>2, NativeMoves DEF LaunchInv
  <2> QED
    BY <2>4, <2>5
<1> QED
  BY <1>5, <1>8, <1>9

\* agentkit starts the child of the first turn.
LEMMA StartTurnStep == LaunchInv /\ StartTurn => LaunchInv'
<1> SUFFICES ASSUME LaunchInv, StartTurn PROVE LaunchInv'
  OBVIOUS
<1>1. /\ pc = "turn" /\ cfg' = cfg /\ adapter' = adapter /\ policy' = policy
      /\ flags' = flags /\ answers' = answers /\ delivery' = delivery
  BY DEF StartTurn
<1>2. /\ adapter.protocol # "acp" /\ reports \in Seq(SandboxReports)
      /\ OutcomesIn(reports) = {} /\ OnceIn(reports) /\ ApplierHeard
  BY <1>1 DEF LaunchInv, LaunchTypes, LaunchKinds, SandboxSettled, NativeStages
<1>3. ~EnforcedIn(reports)
  BY <1>2 DEF EnforcedIn
<1>4. \/ NativeChild /\ pc' = "running"
      \/ /\ pc' = "refused" /\ confined' = None
         /\ \E told \in BOOLEAN : reports' = Unconfined(reports, told)
  BY DEF StartTurn, NativeFailure
<1>5. CASE NativeChild /\ pc' = "running"
  <2>1. /\ confined' \in Boxes \cup {None} /\ reports' \in Seq(SandboxReports)
        /\ HeardOfChild' /\ OnceIn(reports')
        /\ WordIn(reports') = WordIn(reports) /\ (FailedIn(reports') <=> FailedIn(reports))
    BY <1>1, <1>2, <1>5, NativeChildIs
  <2>2. ApplierHeard'
    BY <1>1, <1>2, <2>1 DEF ApplierHeard
  <2>3. SandboxSettled'
    BY <1>5, <2>1, <2>2 DEF SandboxSettled, Unspawned
  <2> QED
    BY <1>1, <1>5, <2>1, <2>3, NativeMoves DEF LaunchInv
<1>6. ASSUME pc' = "refused", confined' = None, NEW told \in BOOLEAN, reports' = Unconfined(reports, told)
      PROVE  LaunchInv'
  <2>1. /\ reports' \in Seq(SandboxReports) /\ OnceIn(reports') /\ ~EnforcedIn(reports')
    BY <1>2, <1>3, <1>6, FailureAdds
  <2>2. SandboxSettled'
    BY <1>6, <2>1 DEF SandboxSettled, Unspawned
  <2> QED
    BY <1>1, <1>6, <2>1, <2>2, NativeMoves DEF LaunchInv
<1> QED
  BY <1>4, <1>5, <1>6

\* An agent the wrapper does not spawn is never sandboxed.
LEMMA CheckRemoteSandboxStep == LaunchInv /\ CheckRemoteSandbox => LaunchInv'
<1> SUFFICES ASSUME LaunchInv, CheckRemoteSandbox PROVE LaunchInv'
  OBVIOUS
<1>1. /\ pc = "sandbox" /\ Remote
      /\ pc' = IF ~requiredPolicy /\ ~ProtectedPaths THEN "dial" ELSE "refused"
      /\ cfg' = cfg /\ adapter' = adapter /\ policy' = policy /\ confined' = confined
      /\ delivery' = delivery
      /\ reports' = CASE ~launchSandboxed -> reports
                      [] requiredPolicy \/ ProtectedPaths -> Report("unsupported")
                      [] OTHER -> Report("disabled")
  BY DEF CheckRemoteSandbox, Step
<1>2. /\ adapter.protocol = "acp" /\ confined = None /\ reports = <<>> /\ adapter.transport = "tcp"
      /\ adapter \in Adapters
  BY <1>1 DEF LaunchInv, LaunchTypes, LaunchKinds, SandboxSettled, ACPStages, Unspawned, Remote
<1>3. \/ ~launchSandboxed /\ reports' = <<>>
      \/ \E state \in {"unsupported", "disabled"} : reports' = Report(state)
  BY <1>1, <1>2
<1>6. /\ reports \in Seq(SandboxReports) /\ OutcomesIn(reports) = {} /\ WordIn(reports) = {}
      /\ ~EnforcedIn(reports) /\ ~FailedIn(reports) /\ OnceIn(reports)
  BY <1>2, NoReport
<1>4. /\ reports' \in Seq(SandboxReports) /\ ~EnforcedIn(reports') /\ OnceIn(reports')
      /\ WordIn(reports') = {} /\ ~FailedIn(reports')
      /\ launchSandboxed => OutcomesIn(reports') # {}
  <2>1. CASE ~launchSandboxed /\ reports' = <<>>
    BY <2>1, NoReport
  <2>2. ASSUME NEW state \in {"unsupported", "disabled"}, reports' = Report(state)
        PROVE  /\ reports' \in Seq(SandboxReports) /\ ~EnforcedIn(reports') /\ OnceIn(reports')
               /\ WordIn(reports') = {} /\ ~FailedIn(reports') /\ OutcomesIn(reports') # {}
    <3>1. state \in ReportStates /\ state # "applied" /\ reports' = Outcome(reports, state)
      BY <2>2 DEF ReportStates, Report
    <3> QED
      BY <1>6, <3>1, OutcomeAdds
  <2> QED
    BY <1>3, <2>1, <2>2
<1>5. /\ ProtectedPaths' = ProtectedPaths /\ (Sandboxed' <=> launchSandboxed)
  BY <1>1, <1>2, SameSandbox DEF Sandboxed
<1>7. ApplierHeard'
  BY <1>1, <1>2, <1>4 DEF ApplierHeard
<1>8. pc' = "dial" => HeardOfChild'
  BY <1>1, <1>2, <1>4, <1>5 DEF HeardOfChild
<1>t. LaunchTypes'
  BY <1>1, <1>2, <1>4 DEF LaunchInv, LaunchTypes, Stages
<1>k. LaunchKinds'
  BY <1>1, <1>2 DEF LaunchInv, LaunchKinds, NativeStages, ACPStages
<1>s. SandboxSettled'
  BY <1>1, <1>2, <1>4, <1>7, <1>8 DEF SandboxSettled, Unspawned
<1>p. PostureSettled'
  BY <1>1, <1>2 DEF LaunchInv, PostureSettled, NativeStages, LaunchedPosture, sessionPosture
<1>c. CancelSettled'
  BY <1>1, <1>2, SameAdapter
<1> QED
  BY <1>t, <1>k, <1>s, <1>p, <1>c DEF LaunchInv

\* A network policy the platform cannot keep is refused.
LEMMA rejectUnsupportedLinuxTCPSandboxStep == LaunchInv /\ rejectUnsupportedLinuxTCPSandbox => LaunchInv'
<1> SUFFICES ASSUME LaunchInv, rejectUnsupportedLinuxTCPSandbox PROVE LaunchInv'
  OBVIOUS
<1>1. /\ pc = "sandbox" /\ pc' = "refused"
      /\ cfg' = cfg /\ adapter' = adapter /\ policy' = policy /\ confined' = confined
      /\ delivery' = delivery /\ reports' = Report("unsupported")
  BY DEF rejectUnsupportedLinuxTCPSandbox
<1>2. confined = None /\ reports = <<>>
  BY <1>1 DEF LaunchInv, SandboxSettled, Unspawned
<1>3. /\ reports \in Seq(SandboxReports) /\ OutcomesIn(reports) = {} /\ ~EnforcedIn(reports)
  BY <1>2, NoReport
<1>4. reports' \in Seq(SandboxReports) /\ ~EnforcedIn(reports') /\ OnceIn(reports')
  <2>1. "unsupported" \in ReportStates /\ reports' = Outcome(reports, "unsupported")
    BY <1>1 DEF ReportStates, Report
  <2> QED
    BY <1>3, <2>1, OutcomeAdds
<1>t. LaunchTypes'
  BY <1>1, <1>2, <1>4 DEF LaunchInv, LaunchTypes, Stages
<1>k. LaunchKinds'
  BY <1>1, <1>2, <1>4 DEF LaunchInv, LaunchKinds, NativeStages, ACPStages
<1>s. SandboxSettled'
  BY <1>1, <1>2, <1>4 DEF SandboxSettled, Unspawned
<1>p. PostureSettled'
  BY <1>1, <1>2 DEF LaunchInv, PostureSettled, NativeStages, LaunchedPosture, sessionPosture
<1>c. CancelSettled'
  BY <1>1, <1>2, SameAdapter
<1> QED
  BY <1>t, <1>k, <1>s, <1>p, <1>c DEF LaunchInv

\* The client confines the command, or refuses.
LEMMA PrepareLaunchSandboxStep == LaunchInv /\ PrepareLaunchSandbox => LaunchInv'
<1> SUFFICES ASSUME LaunchInv, PrepareLaunchSandbox PROVE LaunchInv'
  OBVIOUS
<1>1. /\ pc = "sandbox" /\ pc' \in {"spawn", "refused"}
      /\ cfg' = cfg /\ adapter' = adapter /\ policy' = policy /\ delivery' = delivery
  BY DEF PrepareLaunchSandbox, applyProtectOnly, ApplyPolicy, Step
<1>2. /\ adapter.protocol = "acp" /\ confined = None /\ reports = <<>>
      /\ adapter \in Adapters /\ policy \in SandboxPolicies
  BY <1>1 DEF LaunchInv, LaunchTypes, LaunchKinds, SandboxSettled, ACPStages, Unspawned
<1>3. /\ confined' \in Boxes \cup {None}
      /\ pc' = "spawn" => /\ reports' = <<>>
                          /\ ProtectedPaths => confined' # None /\ confined'.protect
                          /\ confined' # None => launchSandboxed
      /\ pc' = "refused" => \E state \in {"failed", "unsupported"} : reports' = Report(state)
  <2> DEFINE Goal == /\ confined' \in Boxes \cup {None}
                     /\ pc' = "spawn" => /\ reports' = <<>>
                                         /\ ProtectedPaths => confined' # None /\ confined'.protect
                                         /\ confined' # None => launchSandboxed
                     /\ pc' = "refused" =>
                          \E state \in {"failed", "unsupported"} : reports' = Report(state)
  <2>1. PICK applied \in BOOLEAN :
          \/ ProtectedPaths /\ ~requiredPolicy /\ applyProtectOnly(applied)
          \/ /\ ~ProtectedPaths /\ policy.mode = None
             /\ pc' = "spawn" /\ confined' = confined /\ reports' = reports
          \/ /\ ProtectedPaths => requiredPolicy
             /\ policy.mode # None /\ ApplyPolicy(applied)
    BY DEF PrepareLaunchSandbox, requiredPolicy
  <2>2. ASSUME ProtectedPaths, applyProtectOnly(applied) PROVE Goal
    <3> DEFINE box == [policy |-> FALSE, protect |-> TRUE]
    <3>1. box \in Boxes /\ box.protect
      BY DEF Boxes
    <3>3. box # None
      BY <3>1, LaunchConstants
    <3>2. \/ pc' = "spawn" /\ confined' = box /\ reports' = reports
          \/ /\ pc' = "refused" /\ confined' = None
             /\ reports' = Report(IF cfg.backend THEN "failed" ELSE "unsupported")
      BY <2>2 DEF applyProtectOnly, Step
    <3> HIDE DEF box
    <3> QED
      BY <1>2, <2>2, <3>1, <3>2, <3>3 DEF launchSandboxed
  <2>3. ASSUME ~ProtectedPaths, pc' = "spawn", confined' = confined, reports' = reports PROVE Goal
    BY <1>2, <2>3
  <2>4. ASSUME ProtectedPaths => requiredPolicy, policy.mode # None, ApplyPolicy(applied) PROVE Goal
    <3> DEFINE box == [policy |-> TRUE, protect |-> ProtectedPaths \/ policy.protects]
    <3>0. policy.protects \in BOOLEAN
      BY <1>2 DEF SandboxPolicies
    <3>1. box \in Boxes /\ (ProtectedPaths => box.protect)
      BY <3>0 DEF Boxes
    <3>3. box # None
      BY <3>1, LaunchConstants
    <3>2. \/ pc' = "spawn" /\ confined' = (IF requiredPolicy THEN box ELSE None) /\ reports' = reports
          \/ pc' = "refused" /\ confined' = None /\ reports' = Report("failed")
      BY <2>4 DEF ApplyPolicy, Step
    <3> HIDE DEF box
    <3> QED
      BY <1>2, <2>4, <3>1, <3>2, <3>3 DEF launchSandboxed
  <2> QED
    BY <2>1, <2>2, <2>3, <2>4
<1>4. /\ reports' \in Seq(SandboxReports) /\ ~EnforcedIn(reports') /\ OnceIn(reports')
  <2>1. CASE pc' = "spawn"
    BY <1>3, <2>1, NoReport
  <2>2. CASE pc' = "refused"
    <3>1. PICK state \in {"failed", "unsupported"} : reports' = Report(state)
      BY <1>3, <2>2
    <3>2. state \in ReportStates /\ state # "applied" /\ reports' = Outcome(reports, state)
      BY <3>1 DEF ReportStates, Report
    <3>3. reports \in Seq(SandboxReports) /\ OutcomesIn(reports) = {} /\ ~EnforcedIn(reports)
      BY <1>2, NoReport
    <3> QED
      BY <3>2, <3>3, OutcomeAdds
  <2> QED
    BY <1>1, <2>1, <2>2
<1>5. launchSandboxed' = launchSandboxed /\ ProtectedPaths' = ProtectedPaths
  BY <1>1 DEF launchSandboxed, ProtectedPaths
<1>t. LaunchTypes'
  BY <1>1, <1>2, <1>3, <1>4, <1>5 DEF LaunchInv, LaunchTypes, Stages
<1>k. LaunchKinds'
  BY <1>1, <1>2, <1>3, <1>4, <1>5 DEF LaunchInv, LaunchKinds, NativeStages, ACPStages
<1>s. SandboxSettled'
  BY <1>1, <1>2, <1>3, <1>4, <1>5 DEF SandboxSettled, Unspawned
<1>p. PostureSettled'
  BY <1>1, <1>2 DEF LaunchInv, PostureSettled, NativeStages, LaunchedPosture, sessionPosture
<1>c. CancelSettled'
  BY <1>1, <1>2, SameAdapter
<1> QED
  BY <1>t, <1>k, <1>s, <1>p, <1>c DEF LaunchInv

\* The child starts, and the report says what it runs in.
LEMMA SpawnStep == LaunchInv /\ Spawn => LaunchInv'
<1> SUFFICES ASSUME LaunchInv, Spawn PROVE LaunchInv'
  OBVIOUS
<1>1. PICK started \in BOOLEAN :
        /\ pc = "spawn"
        /\ pc' = IF started THEN IF adapter.transport = "tcp" THEN "dial" ELSE "running" ELSE "refused"
        /\ cfg' = cfg /\ adapter' = adapter /\ policy' = policy /\ confined' = confined
        /\ delivery' = delivery
        /\ started => child'.up
        /\ reports' = IF launchSandboxed
                      THEN Report(IF ~started THEN IF confined = None THEN "disabled" ELSE "configured"
                                  ELSE IF confined = None THEN "disabled" ELSE "applied")
                      ELSE reports
  BY DEF Spawn, Step, Child
<1>2. /\ adapter.protocol = "acp" /\ reports = <<>> /\ adapter \in Adapters
      /\ confined # None => launchSandboxed
      /\ ProtectedPaths => confined # None /\ confined.protect
      /\ pc' \in {"dial", "running", "refused"}
  BY <1>1 DEF LaunchInv, LaunchTypes, LaunchKinds, SandboxSettled, ACPStages
<1>3. /\ reports \in Seq(SandboxReports) /\ OutcomesIn(reports) = {} /\ WordIn(reports) = {}
      /\ ~EnforcedIn(reports) /\ ~FailedIn(reports) /\ OnceIn(reports)
  BY <1>2, NoReport
<1>4. /\ reports' \in Seq(SandboxReports) /\ OnceIn(reports')
      /\ WordIn(reports') = {} /\ ~FailedIn(reports')
      /\ EnforcedIn(reports') <=> started /\ confined # None
      /\ launchSandboxed => OutcomesIn(reports') # {}
  <2>1. CASE ~launchSandboxed
    BY <1>1, <1>2, <1>3, <2>1
  <2>2. CASE launchSandboxed
    <3>1. PICK state \in {"disabled", "configured", "applied"} :
            reports' = Report(state) /\ (state = "applied" <=> started /\ confined # None)
      BY <1>1, <2>2
    <3>2. state \in ReportStates /\ reports' = Outcome(reports, state)
      BY <3>1 DEF ReportStates, Report
    <3> QED
      BY <1>3, <3>1, <3>2, OutcomeAdds
  <2> QED
    BY <2>1, <2>2
<1>5. /\ ProtectedPaths' = ProtectedPaths /\ (Sandboxed' <=> launchSandboxed)
  BY <1>1, <1>2, SameSandbox DEF Sandboxed
<1>6. ApplierHeard'
  BY <1>1, <1>2, <1>4 DEF ApplierHeard
<1>7. started => HeardOfChild'
  BY <1>1, <1>2, <1>4, <1>5 DEF HeardOfChild
<1>8. started <=> pc' # "refused"
  BY <1>1
<1>t. LaunchTypes'
  BY <1>1, <1>2, <1>4 DEF LaunchInv, LaunchTypes, Stages
<1>k. LaunchKinds'
  BY <1>1, <1>2 DEF LaunchInv, LaunchKinds, NativeStages, ACPStages
<1>s. SandboxSettled'
  BY <1>2, <1>4, <1>6, <1>7, <1>8 DEF SandboxSettled, Unspawned
<1>p. PostureSettled'
  BY <1>1, <1>2 DEF LaunchInv, PostureSettled, NativeStages, LaunchedPosture, sessionPosture
<1>c. CancelSettled'
  BY <1>1, <1>2, SameAdapter
<1> QED
  BY <1>t, <1>k, <1>s, <1>p, <1>c DEF LaunchInv

\* The dial succeeds, or undoes the launch.
LEMMA DialStep == LaunchInv /\ Dial => LaunchInv'
<1> SUFFICES ASSUME LaunchInv, Dial PROVE LaunchInv'
  OBVIOUS
<1>1. PICK connected \in BOOLEAN :
        /\ pc = "dial" /\ pc' = IF connected THEN "running" ELSE "refused"
        /\ cfg' = cfg /\ adapter' = adapter /\ policy' = policy /\ reports' = reports
        /\ delivery' = delivery
        /\ connected => child' = child /\ confined' = confined
        /\ ~connected => confined' = None
  BY DEF Dial, Step
<1>2. adapter.protocol = "acp" /\ adapter.transport = "tcp" /\ pc' \in {"running", "refused"}
  BY <1>1 DEF LaunchInv, LaunchKinds, ACPStages
<1>3. confined' \in Boxes \cup {None}
  BY <1>1 DEF LaunchInv, LaunchTypes
<1>4. ProtectedPaths' = ProtectedPaths /\ Sandboxed' = Sandboxed
  BY <1>1, SameSandbox
<1>5. HeardOfChild /\ ApplierHeard /\ OnceIn(reports)
  BY <1>1 DEF LaunchInv, SandboxSettled
<1>6. ApplierHeard' /\ (connected => HeardOfChild')
  BY <1>1, <1>4, <1>5 DEF ApplierHeard, HeardOfChild
<1>t. LaunchTypes'
  BY <1>1, <1>2, <1>3, <1>4 DEF LaunchInv, LaunchTypes, Stages
<1>k. LaunchKinds'
  BY <1>1, <1>2, <1>3, <1>4 DEF LaunchInv, LaunchKinds, NativeStages, ACPStages
<1>s. SandboxSettled'
  BY <1>1, <1>2, <1>5, <1>6 DEF SandboxSettled, Unspawned
<1>p. PostureSettled'
  BY <1>1, <1>2 DEF LaunchInv, PostureSettled, NativeStages, LaunchedPosture, sessionPosture
<1>c. CancelSettled'
  BY <1>1, <1>2, SameAdapter
<1> QED
  BY <1>t, <1>k, <1>s, <1>p, <1>c DEF LaunchInv

\* A plan is made and the turn cancelled.
LEMMA DeliverStep == LaunchInv /\ Deliver => LaunchInv'
<1> SUFFICES ASSUME LaunchInv, Deliver PROVE LaunchInv'
  OBVIOUS
<1>1. /\ pc = "running" /\ pc' = "delivered"
      /\ cfg' = cfg /\ adapter' = adapter /\ policy' = policy /\ reports' = reports
      /\ confined' = confined /\ child' = child /\ flags' = flags /\ answers' = answers
      /\ \E state \in {"idle", "busy", "offline"}, bound \in 0..1 :
           delivery' = [plan |-> Plan(state, bound, 0), cancel |-> CancelTurn]
  BY DEF Deliver
<1>5. ProtectedPaths' = ProtectedPaths /\ Sandboxed' = Sandboxed
  BY <1>1, SameSandbox
<1>6. HeardOfChild /\ ApplierHeard /\ OnceIn(reports)
  BY <1>1 DEF LaunchInv, SandboxSettled
<1>2. ApplierHeard' /\ HeardOfChild' /\ OnceIn(reports')
  BY <1>1, <1>5, <1>6 DEF ApplierHeard, HeardOfChild
<1>3. adapter \in Adapters
  BY <1>1 DEF LaunchInv, LaunchTypes
<1>4. ASSUME ~HidesInterrupter
      PROVE  /\ (delivery'.cancel = "requested") = ("cancel_turn" \in adapter.delivery)
             /\ delivery'.plan = "planned" => delivery'.cancel = "requested"
  <2>1. ("cancel_turn" \in adapter.delivery) = Cancels(adapter)
    BY <1>1, <1>4 DEF LaunchInv, CancelSettled, AdapterHonest
  <2>2. adapter.protocol \in Protocols \cup {"acp"}
    BY <1>3 DEF Adapters
  <2>3. (CancelTurn = "requested") <=> Cancels(adapter)
    BY <2>2 DEF CancelTurn, SessionInterrupts, Cancels, Protocols
  <2>4. PICK state, bound : delivery' = [plan |-> Plan(state, bound, 0), cancel |-> CancelTurn]
    BY <1>1
  <2>5. Plan(state, bound, 0) = "planned" => "cancel_turn" \in adapter.delivery
    BY DEF Plan
  <2>6. delivery'.cancel = CancelTurn /\ delivery'.plan = Plan(state, bound, 0)
    BY <2>4
  <2> QED
    <3>1. Cancels(adapter) \in BOOLEAN
      BY DEF Cancels
    <3> QED
      BY <2>1, <2>3, <2>5, <2>6, <3>1
<1>t. LaunchTypes'
  BY <1>1, <1>2 DEF LaunchInv, LaunchTypes, Stages
<1>k. LaunchKinds'
  BY <1>1, <1>2 DEF LaunchInv, LaunchKinds, NativeStages, ACPStages
<1>s. SandboxSettled'
  BY <1>1, <1>2 DEF LaunchInv, SandboxSettled, Unspawned
<1>p. PostureSettled'
  BY <1>1, <1>2 DEF LaunchInv, PostureSettled, NativeStages, LaunchedPosture, sessionPosture
<1>c. CancelSettled'
  BY <1>1, <1>4 DEF LaunchInv, CancelSettled, AdapterHonest, HidesInterrupter
<1> QED
  BY <1>t, <1>k, <1>s, <1>p, <1>c DEF LaunchInv

\* A step that changes nothing.
LEMMA Unmoved == LaunchInv /\ UNCHANGED vars => LaunchInv'
<1> SUFFICES ASSUME LaunchInv, UNCHANGED vars PROVE LaunchInv'
  OBVIOUS
<1>1. /\ cfg' = cfg /\ pc' = pc /\ adapter' = adapter /\ flags' = flags /\ answers' = answers
      /\ policy' = policy /\ confined' = confined /\ reports' = reports /\ child' = child
      /\ delivery' = delivery
  BY DEF vars
<1>2. LaunchTypes' /\ LaunchKinds'
  BY <1>1 DEF LaunchInv, LaunchTypes, LaunchKinds
<1>3. SandboxSettled'
  <2>1. /\ ProtectedPaths' = ProtectedPaths /\ launchSandboxed' = launchSandboxed
        /\ Sandboxed' = Sandboxed /\ UsesLongLivedProcess' = UsesLongLivedProcess
    BY <1>1, SameSandbox
  <2>2. HeardOfChild' = HeardOfChild /\ ApplierHeard' = ApplierHeard
    BY <1>1, <2>1 DEF HeardOfChild, ApplierHeard
  <2> QED
    BY <1>1, <2>1, <2>2 DEF LaunchInv, SandboxSettled
<1>4. PostureSettled'
  <2>1. sessionPosture' = sessionPosture /\ LaunchedPosture' = LaunchedPosture
    BY <1>1 DEF sessionPosture, LaunchedPosture
  <2> QED
    BY <1>1, <2>1 DEF LaunchInv, PostureSettled
<1>5. CancelSettled'
  BY <1>1 DEF LaunchInv, CancelSettled, AdapterHonest, HidesInterrupter
<1> QED
  BY <1>2, <1>3, <1>4, <1>5 DEF LaunchInv

\* Nothing moves any more.
LEMMA DoneStep == LaunchInv /\ Done => LaunchInv'
<1> SUFFICES ASSUME LaunchInv, Done PROVE LaunchInv'
  OBVIOUS
<1>1. UNCHANGED vars
  BY DEF Done
<1> QED
  BY <1>1, Unmoved

-----------------------------------------------------------------------------
(* What an environment shows of a name *)

\* A set of indices has a last one.
LEMMA LastExists ==
  ASSUME NEW n \in Nat, NEW I, I \subseteq 1..n, I # {}
  PROVE  \E i \in I : \A j \in I : j <= i
<1> DEFINE T == {n - i : i \in I}
<1>1. T \subseteq Nat /\ T # {}
  <2>1. \A i \in I : i \in 1..n
    OBVIOUS
  <2>2. \A i \in 1..n : n - i \in Nat
    OBVIOUS
  <2> QED
    BY <2>1, <2>2, Zenon
<1> DEFINE R == OpToRel(<, Nat)
<1>2. \A x, y \in Nat : x < y => <<x, y>> \in R
  BY DEF OpToRel
<1>3. IsWellFoundedOn(R, Nat)
  BY NatLessThanWellFounded
<1> HIDE DEF R
<1>4. PICK x \in T : \A y \in T : ~ (<<y, x>> \in R)
  <2> HIDE DEF T
  <2> QED
    BY <1>1, <1>3, WFMin
<1>5. PICK i \in I : x = n - i
  BY <1>4
<1>6. ASSUME NEW j \in I PROVE j <= i
  <2>1. n - j \in T /\ n - j \in Nat /\ x \in Nat
    BY <1>1, <1>4
  <2>2. ~ (n - j < x)
    BY <1>2, <1>4, <2>1
  <2> QED
    BY <1>5, <2>2
<1> QED
  BY <1>6

\* The last entry of a name gives its value.
LEMMA LastOfName ==
  ASSUME NEW entries \in Seq(Variables), NEW name, Named(entries, name) # {}
  PROVE  /\ LastValue(entries, name) \in STRING
         /\ \E i \in Named(entries, name) :
              /\ \A j \in Named(entries, name) : j <= i
              /\ LastValue(entries, name) = entries[i].value
<1> DEFINE I == Named(entries, name)
           last == CHOOSE i \in I : \A j \in I : j <= i
<1>1. I \subseteq 1..Len(entries) /\ Len(entries) \in Nat
  BY DEF Named
<1>2. LastValue(entries, name) = entries[last].value
  BY DEF LastValue
<1> HIDE DEF I
<1>3. \E i \in I : \A j \in I : j <= i
  BY <1>1, LastExists DEF I
<1>4. last \in I /\ \A j \in I : j <= last
  BY <1>3
<1>5. entries[last] \in Variables
  <2>1. last \in 1..Len(entries)
    BY <1>1, <1>4
  <2> HIDE DEF last
  <2> QED
    BY <2>1
<1> HIDE DEF last
<1> QED
  BY <1>2, <1>4, <1>5 DEF I, Variables

\* Put changes a name's value to that of its last entry, and no other.
LEMMA SeenPut ==
  ASSUME NEW entries \in Seq(Variables), NEW values, NEW name
  PROVE  Seen(Put(values, entries), name) =
           IF Named(entries, name) = {} THEN Seen(values, name) ELSE {LastValue(entries, name)}
<1> DEFINE kept == {v \in values : Named(entries, canonicalEnvironmentName(v.name)) = {}}
           lasts == {j \in DOMAIN entries :
                       \A k \in Named(entries, canonicalEnvironmentName(entries[j].name)) : k <= j}
           written == {entries[i] : i \in lasts}
<1>1. Put(values, entries) = kept \cup written
  BY DEF Put
<1>2. ASSUME NEW i \in DOMAIN entries, canonicalEnvironmentName(entries[i].name) = name
      PROVE  i \in Named(entries, name)
  BY <1>2 DEF Named
<1>3. Seen(Put(values, entries), name) = Seen(kept, name) \cup Seen(written, name)
  <2> HIDE DEF kept, written
  <2> QED
    BY <1>1 DEF Seen
<1>4. CASE Named(entries, name) = {}
  <2>1. Seen(kept, name) = Seen(values, name)
    BY <1>4 DEF Seen
  <2>2. Seen(written, name) = {}
    BY <1>2, <1>4 DEF Seen
  <2> QED
    BY <1>3, <1>4, <2>1, <2>2
<1>5. CASE Named(entries, name) # {}
  <2>1. Seen(kept, name) = {}
    BY <1>5 DEF Seen
  <2>2. PICK i \in Named(entries, name) :
          /\ \A j \in Named(entries, name) : j <= i
          /\ LastValue(entries, name) = entries[i].value
    BY <1>5, LastOfName
  <2>3. /\ i \in DOMAIN entries /\ canonicalEnvironmentName(entries[i].name) = name
        /\ DOMAIN entries \subseteq Int
    BY DEF Named
  <2>4. i \in lasts
    BY <2>2, <2>3
  <2>5. ASSUME NEW j \in lasts, canonicalEnvironmentName(entries[j].name) = name PROVE j = i
    <3>1. j \in Named(entries, name) /\ i <= j
      BY <1>2, <2>5
    <3> QED
      BY <2>2, <2>3, <3>1
  <2>6. {w \in written : canonicalEnvironmentName(w.name) = name} = {entries[i]}
    <3> HIDE DEF lasts
    <3> QED
      BY <2>3, <2>4, <2>5
  <2>7. Seen(written, name) = {entries[i].value}
    <3> HIDE DEF written
    <3> QED
      BY <2>6 DEF Seen
  <2> QED
    BY <1>3, <1>5, <2>1, <2>2, <2>7
<1> QED
  BY <1>4, <1>5

\* It writes variables.
LEMMA PutTyped ==
  ASSUME NEW entries \in Seq(Variables), NEW values, values \subseteq Variables
  PROVE  Put(values, entries) \subseteq Variables
<1>1. \A i \in DOMAIN entries : entries[i] \in Variables
  OBVIOUS
<1> QED
  BY <1>1 DEF Put

\* A filter that looks at the canonical name shows all of a name or nothing.
LEMMA SeenInherited ==
  ASSUME NEW e, NEW name, name # "", cfg.ambient \in Seq(Variables)
  PROVE  /\ Inherited(e) \subseteq Variables
         /\ Seen(Inherited(e), name) =
              IF /\ e.mode # "replace" /\ (e.allow = NilEnv \/ name \in Canonical(e.allow))
                 /\ Named(cfg.ambient, name) # {}
              THEN {LastValue(cfg.ambient, name)} ELSE {}
<1> DEFINE all == Put({}, cfg.ambient)
           admitted == {v \in all : /\ v.name # ""
                                    /\ e.allow # NilEnv => canonicalEnvironmentName(v.name) \in Canonical(e.allow)}
<1>1. Inherited(e) = IF e.mode = "replace" THEN {} ELSE admitted
  BY DEF Inherited
<1>2. all \subseteq Variables
  BY PutTyped
<1>3. Seen({}, name) = {}
  BY DEF Seen
<1>4. Seen(all, name) = IF Named(cfg.ambient, name) = {} THEN {} ELSE {LastValue(cfg.ambient, name)}
  BY <1>3, SeenPut
<1>5. \A v : canonicalEnvironmentName(v.name) = name => v.name # ""
  BY DEF canonicalEnvironmentName
<1> HIDE DEF all
<1>6. Seen(admitted, name) =
        IF e.allow = NilEnv \/ name \in Canonical(e.allow) THEN Seen(all, name) ELSE {}
  <2>1. CASE e.allow = NilEnv \/ name \in Canonical(e.allow)
    <3>1. {w \in admitted : canonicalEnvironmentName(w.name) = name} =
            {w \in all : canonicalEnvironmentName(w.name) = name}
      BY <1>5, <2>1
    <3> QED
      BY <2>1, <3>1 DEF Seen
  <2>2. CASE ~(e.allow = NilEnv \/ name \in Canonical(e.allow))
    <3>1. {w \in admitted : canonicalEnvironmentName(w.name) = name} = {}
      BY <2>2
    <3> QED
      BY <2>2, <3>1 DEF Seen
  <2> QED
    BY <2>1, <2>2
<1>7. admitted \subseteq Variables
  BY <1>2
<1> HIDE DEF admitted
<1> QED
  BY <1>1, <1>3, <1>4, <1>6, <1>7

\* What a resolved configuration shows of a name.
LEMMA SeenResolved ==
  ASSUME NEW e, NEW name, name # "", cfg.ambient \in Seq(Variables), e.set \in Seq(Variables)
  PROVE  /\ resolveForOS(e) \subseteq Variables
         /\ Seen(resolveForOS(e), name) =
              IF name \in Canonical(e.unset) THEN {}
              ELSE IF Named(e.set, name) # {} THEN {LastValue(e.set, name)}
              ELSE Seen(Inherited(e), name)
<1> DEFINE all == Put(Inherited(e), e.set)
<1>1. all \subseteq Variables
  BY SeenInherited, PutTyped
<1>2. Seen(all, name) = IF Named(e.set, name) = {} THEN Seen(Inherited(e), name)
                        ELSE {LastValue(e.set, name)}
  BY SeenPut
<1>3. resolveForOS(e) = {v \in all : canonicalEnvironmentName(v.name) \notin Canonical(e.unset)}
  BY DEF resolveForOS
<1> HIDE DEF all
<1>4. CASE name \in Canonical(e.unset)
  <2>1. {w \in resolveForOS(e) : canonicalEnvironmentName(w.name) = name} = {}
    BY <1>3, <1>4
  <2> QED
    BY <1>1, <1>3, <1>4, <2>1 DEF Seen
<1>5. CASE name \notin Canonical(e.unset)
  <2>1. {w \in resolveForOS(e) : canonicalEnvironmentName(w.name) = name} =
          {w \in all : canonicalEnvironmentName(w.name) = name}
    BY <1>3, <1>5
  <2>2. Seen(resolveForOS(e), name) = Seen(all, name)
    BY <2>1 DEF Seen
  <2> QED
    BY <1>1, <1>2, <1>3, <1>5, <2>2
<1> QED
  BY <1>4, <1>5

\* The environment before marker, posture and hooks.
Base == resolvedSpecEnvironment(resolveForOS(cfg.env))

\* It shows what is asked.
LEMMA BaseAsAsked ==
  ASSUME cfg \in Configs, NEW name, name # ""
  PROVE  Base \subseteq Variables /\ Seen(Base, name) = {Asked(name)} \ {None}
<1>1. /\ cfg.ambient \in Seq(Variables) /\ cfg.env.set \in Seq(Variables)
      /\ OwnEnv => cfg.specEnv \in Seq(Variables)
  BY LaunchConstants DEF OwnEnv
<1>2. \A entries \in Seq(Variables) :
        {LastValue(entries, name)} \ {None} =
          IF Named(entries, name) # {} THEN {LastValue(entries, name)} ELSE {}
  <2> SUFFICES ASSUME NEW entries \in Seq(Variables)
               PROVE  {LastValue(entries, name)} \ {None} =
                        IF Named(entries, name) # {} THEN {LastValue(entries, name)} ELSE {}
    OBVIOUS
  <2>1. CASE Named(entries, name) # {}
    <3>1. LastValue(entries, name) # None
      BY <2>1, LastOfName, LaunchConstants
    <3> QED
      BY <2>1, <3>1
  <2>2. CASE Named(entries, name) = {}
    BY <2>2 DEF LastValue
  <2> QED
    BY <2>1, <2>2
<1>3. CASE OwnEnv
  <2> DEFINE e == ReplaceBy(cfg.specEnv)
  <2>1. e.mode = "replace" /\ e.set = cfg.specEnv /\ Canonical(e.unset) = {}
    BY DEF ReplaceBy, Canonical
  <2>2. Base = resolveForOS(e)
    BY <1>3 DEF Base, resolvedSpecEnvironment
  <2> HIDE DEF e
  <2>3. Seen(Inherited(e), name) = {}
    BY <1>1, <2>1, SeenInherited
  <2>4. /\ Base \subseteq Variables
        /\ Seen(Base, name) = IF Named(cfg.specEnv, name) # {} THEN {LastValue(cfg.specEnv, name)} ELSE {}
    BY <1>1, <1>3, <2>1, <2>2, <2>3, SeenResolved
  <2>5. Asked(name) = LastValue(cfg.specEnv, name)
    BY <1>3 DEF Asked
  <2> QED
    BY <1>1, <1>2, <1>3, <2>4, <2>5
<1>4. CASE ~OwnEnv
  <2> DEFINE e == cfg.env
             admitted == e.mode # "replace" /\ (e.allow = NilEnv \/ name \in Canonical(e.allow))
  <2>1. Base = resolveForOS(e)
    BY <1>4 DEF Base, resolvedSpecEnvironment
  <2>2. Asked(name) = IF name \in Canonical(e.unset) THEN None
                      ELSE IF Named(e.set, name) # {} THEN LastValue(e.set, name)
                      ELSE IF admitted THEN LastValue(cfg.ambient, name) ELSE None
    BY <1>4 DEF Asked
  <2>3. Seen(Inherited(e), name) =
          IF admitted THEN {LastValue(cfg.ambient, name)} \ {None} ELSE {}
    BY <1>1, <1>2, SeenInherited
  <2>4. /\ Base \subseteq Variables
        /\ Seen(Base, name) = IF name \in Canonical(e.unset) THEN {}
                              ELSE IF Named(e.set, name) # {} THEN {LastValue(e.set, name)}
                              ELSE Seen(Inherited(e), name)
    BY <1>1, <2>1, SeenResolved
  <2> HIDE DEF admitted
  <2> QED
    BY <1>1, <1>2, <2>2, <2>3, <2>4
<1> QED
  BY <1>3, <1>4

-----------------------------------------------------------------------------
(* What every stage keeps of it *)

EnvStages == {"plant", "wrap", "posture", "start", "ready", "turn", "protect", "sandbox", "spawn"}
Launched == {"ready", "turn", "dial", "running", "delivered"}

\* The names the launch's environment is about.
Told(name) == name \notin {"", Marker.name}

\* What the environment shows before a client's hook.
Prepared(name) ==
  IF name = "OPENCODE_PERMISSION" /\ cfg.sel.runtime = "opencode" /\ flags # "" THEN {flags}
  ELSE {Asked(name)} \ {None}

\* The wrapper's own environment has nothing to inherit.
BlankAmbient == \A name : Told(name) => Named(cfg.ambient, name) = {}

EnvironmentKept ==
  cfg.prepared = None =>
    /\ \A name : Told(name) => Seen(childEnv, name) = Prepared(name)
    /\ childEnv = {} /\ (adapter.protocol = "acp" \/ UsesLongLivedProcess) => BlankAmbient

ChildAsConfigured ==
  ~(adapter.protocol = "acp" /\ CodexNilEnvironment) =>
    IF cfg.prepared # None THEN child.env = cfg.prepared.env
    ELSE \A name : Told(name) => Seen(child.env, name) = Expected(name)

\* From its preparation on the launch's environment is what the configuration
\* asks for, and once there is a child it is the child's.
EnvironmentSettled ==
  /\ pc \in {"select", "new", "run"} => flags = ""
  /\ pc \notin {"select", "refused"} /\ adapter.protocol = "acp" => flags = ""
  /\ pc \in EnvStages => EnvironmentKept
  /\ pc \in EnvStages /\ adapter.protocol = "acp" /\ cfg.prepared # None => childEnv = cfg.prepared.env
  /\ child.up => pc \in Launched /\ ChildAsConfigured

\* What is asked and seen depends on the configuration only.
LEMMA SameAsked ==
  ASSUME cfg' = cfg
  PROVE  /\ \A name : Asked(name)' = Asked(name)
         /\ \A E, name : Seen(E, name)' = Seen(E, name) /\ Named(E, name)' = Named(E, name)
<1>1. \A E, name : Seen(E, name)' = Seen(E, name)
  BY DEF Seen, canonicalEnvironmentName
<1>2. \A E, name : Named(E, name)' = Named(E, name)
  BY DEF Named, canonicalEnvironmentName
<1>3. \A E, name : LastValue(E, name)' = LastValue(E, name)
  <2> SUFFICES ASSUME NEW E, NEW name PROVE LastValue(E, name)' = LastValue(E, name)
    OBVIOUS
  <2> DEFINE last(I) == IF I = {} THEN None ELSE E[CHOOSE i \in I : \A j \in I : j <= i].value
  <2>1. LastValue(E, name) = last(Named(E, name))
    BY DEF LastValue
  <2>2. LastValue(E, name)' = last(Named(E, name)')
    BY DEF LastValue
  <2> HIDE DEF last
  <2> QED
    BY <1>2, <2>1, <2>2
<1>4. \A E : Canonical(E)' = Canonical(E)
  BY DEF Canonical, canonicalEnvironmentName
<1>5. OwnEnv' = OwnEnv
  BY DEF OwnEnv
<1>6. \A name : Asked(name)' = Asked(name)
  BY <1>2, <1>3, <1>4, <1>5 DEF Asked
<1> QED
  BY <1>1, <1>2, <1>6

\* So does the rest, given the flags and the protocol.
LEMMA SameLaunch ==
  ASSUME cfg' = cfg, flags' = flags, adapter'.protocol = adapter.protocol
  PROVE  /\ \A name : Prepared(name)' = Prepared(name) /\ Expected(name)' = Expected(name)
         /\ BlankAmbient' = BlankAmbient /\ UsesLongLivedProcess' = UsesLongLivedProcess
         /\ CodexNilEnvironment' = CodexNilEnvironment
<1>1. \A name : Prepared(name)' = Prepared(name) /\ Expected(name)' = Expected(name)
  <2>1. \A name : Asked(name)' = Asked(name)
    BY SameAsked
  <2> QED
    BY <2>1 DEF Prepared, Expected
<1>2. BlankAmbient' = BlankAmbient
  BY SameAsked DEF BlankAmbient
<1> QED
  BY <1>1, <1>2 DEF UsesLongLivedProcess, runtimeCaps, CodexNilEnvironment

\* A stage that settles nothing of the environment.
LEMMA EnvironmentStays ==
  ASSUME LaunchInv, EnvironmentSettled,
         cfg' = cfg, flags' = flags, childEnv' = childEnv, child' = child,
         adapter'.protocol = adapter.protocol,
         pc' \in {"select", "new", "run"} => pc \in {"select", "new", "run"},
         pc' \in EnvStages => pc \in EnvStages,
         pc' \notin {"select", "refused"} => flags = "" \/ pc \notin {"select", "refused"},
         pc \in Launched => pc' \in Launched
  PROVE  EnvironmentSettled'
<1>0. \A name : /\ Seen(childEnv, name)' = Seen(childEnv, name)
                /\ Seen(child.env, name)' = Seen(child.env, name)
  BY DEF Seen, canonicalEnvironmentName
<1>1. EnvironmentKept' = EnvironmentKept
  <2>1. /\ \A name : Prepared(name)' = Prepared(name)
        /\ BlankAmbient' = BlankAmbient /\ UsesLongLivedProcess' = UsesLongLivedProcess
    BY SameLaunch
  <2> QED
    BY <1>0, <2>1 DEF EnvironmentKept
<1>2. ChildAsConfigured' = ChildAsConfigured
  <2>1. (\A name : Expected(name)' = Expected(name)) /\ CodexNilEnvironment' = CodexNilEnvironment
    BY SameLaunch
  <2> QED
    BY <1>0, <2>1 DEF ChildAsConfigured
<1> QED
  BY <1>1, <1>2 DEF EnvironmentSettled

\* The marker shows under its own name only.
LEMMA SeenSealed ==
  ASSUME NEW env, NEW longLived, NEW name, Told(name)
  PROVE  Seen(Seal(env, longLived), name) = Seen(env, name)
<1>1. Marker.name = "GO_AGENT_WRAPPER_EMPTY_ENVIRONMENT"
  BY DEF Marker
<1>2. canonicalEnvironmentName(Marker.name) = Marker.name
  BY <1>1 DEF canonicalEnvironmentName
<1>3. Seen({Marker}, name) = {} /\ Seen({}, name) = {}
  BY <1>2 DEF Seen, Told
<1> QED
  BY <1>3 DEF Seal

\* An environment that is empty though sealed was not configured at all.
LEMMA EmptyIsBlank ==
  ASSUME cfg \in Configs, Base = {}, ~explicit(cfg.env), ~AdapterExplicit
  PROVE  BlankAmbient
<1> SUFFICES ASSUME NEW name, Told(name) PROVE Named(cfg.ambient, name) = {}
  BY DEF BlankAmbient
<1>1. {Asked(name)} \ {None} = {}
  BY BaseAsAsked DEF Told, Seen
<1>2. Asked(name) = None
  BY <1>1
<1>3. ~OwnEnv /\ name \notin Canonical(cfg.env.unset) /\ cfg.env.mode = "" /\ cfg.env.allow = NilEnv
  BY DEF AdapterExplicit, OwnEnv, explicit, Canonical
<1>4. Asked(name) = IF Named(cfg.env.set, name) # {} THEN LastValue(cfg.env.set, name)
                    ELSE LastValue(cfg.ambient, name)
  BY <1>3 DEF Asked
<1>5. cfg.ambient \in Seq(Variables) /\ cfg.env.set \in Seq(Variables) /\ None \notin STRING
  BY LaunchConstants
<1>6. Named(cfg.env.set, name) = {}
  BY <1>2, <1>4, <1>5, LastOfName
<1> QED
  BY <1>2, <1>4, <1>5, <1>6, LastOfName

\* OpenCode's posture replaces the variable of its name.
LEMMA SeenPosture ==
  ASSUME NEW env, NEW name
  PROVE  /\ Seen(withPostureEnv(env), name) =
              IF cfg.posture # "" /\ cfg.sel.runtime = "opencode" /\ name = "OPENCODE_PERMISSION"
              THEN {cfg.posture} ELSE Seen(env, name)
         /\ withPostureEnv(env) = {} => env = {}
<1> DEFINE rest == {v \in env : v.name # "OPENCODE_PERMISSION"}
           posture == PostureVar(cfg.posture)
<1>1. posture.name = "OPENCODE_PERMISSION" /\ posture.value = cfg.posture
  BY DEF PostureVar
<1>2. \A n : canonicalEnvironmentName(n) = "OPENCODE_PERMISSION" <=> n = "OPENCODE_PERMISSION"
  BY DEF canonicalEnvironmentName
<1>3. CASE ~(cfg.posture # "" /\ cfg.sel.runtime = "opencode")
  BY <1>3 DEF withPostureEnv
<1>4. CASE cfg.posture # "" /\ cfg.sel.runtime = "opencode"
  <2>1. withPostureEnv(env) = rest \cup {posture}
    BY <1>4 DEF withPostureEnv
  <2> HIDE DEF posture
  <2>2. CASE name = "OPENCODE_PERMISSION"
    <3>1. {w \in rest \cup {posture} : canonicalEnvironmentName(w.name) = name} = {posture}
      BY <1>1, <1>2, <2>2
    <3> QED
      BY <1>1, <1>4, <2>1, <2>2, <3>1 DEF Seen
  <2>3. CASE name # "OPENCODE_PERMISSION"
    <3>1. {w \in rest \cup {posture} : canonicalEnvironmentName(w.name) = name} =
            {w \in env : canonicalEnvironmentName(w.name) = name}
      BY <1>1, <1>2, <2>3
    <3> QED
      BY <1>4, <2>1, <2>3, <3>1 DEF Seen
  <2> QED
    BY <2>1, <2>2, <2>3
<1> QED
  BY <1>3, <1>4

\* A native launch settles its environment.
LEMMA NativeEnvironment == LaunchInv /\ EnvironmentSettled /\ PrepareNative => EnvironmentSettled'
<1> SUFFICES ASSUME LaunchInv, EnvironmentSettled, PrepareNative PROVE EnvironmentSettled'
  OBVIOUS
<1> DEFINE sealed == Seal(Base, UsesLongLivedProcess)
<1>1. /\ pc = "run" /\ pc' \in {"plant", "refused"} /\ adapter.protocol # "acp"
      /\ cfg' = cfg /\ adapter' = adapter /\ child' = child
      /\ pc' = "plant" /\ cfg.prepared = None => childEnv' = withPostureEnv(sealed) /\ flags' = cfg.posture
  BY DEF PrepareNative, Step, Base
<1>2. cfg \in Configs
  BY DEF LaunchInv, LaunchTypes
<1>3. ~child'.up
  BY <1>1 DEF EnvironmentSettled, Launched
<1>4. ASSUME pc' = "plant", cfg.prepared = None PROVE EnvironmentKept'
  <2>1. ASSUME NEW name, Told(name) PROVE Seen(childEnv, name)' = Prepared(name)'
    <3>1. Seen(sealed, name) = {Asked(name)} \ {None}
      BY <1>2, <2>1, SeenSealed, BaseAsAsked DEF Told
    <3>2. Seen(withPostureEnv(sealed), name) =
            IF cfg.posture # "" /\ cfg.sel.runtime = "opencode" /\ name = "OPENCODE_PERMISSION"
            THEN {cfg.posture} ELSE {Asked(name)} \ {None}
      BY <3>1, SeenPosture
    <3>3. Asked(name)' = Asked(name) /\ \A E : Seen(E, name)' = Seen(E, name)
      BY <1>1, SameAsked
    <3> HIDE DEF sealed
    <3>4. Seen(childEnv, name)' = Seen(withPostureEnv(sealed), name)
      <4>1. Seen(childEnv, name)' = Seen(childEnv', name)
        BY <1>1 DEF Seen, canonicalEnvironmentName
      <4> QED
        BY <1>1, <1>4, <4>1
    <3> QED
      BY <1>1, <1>4, <3>2, <3>3, <3>4 DEF Prepared
  <2>2. ASSUME childEnv' = {}, UsesLongLivedProcess PROVE BlankAmbient'
    <3>1. sealed = {}
      BY <1>1, <1>4, <2>2, SeenPosture
    <3>2. Base = {} /\ ~explicit(cfg.env) /\ ~AdapterExplicit
      BY <2>2, <3>1 DEF Seal
    <3>3. BlankAmbient
      BY <1>2, <3>2, EmptyIsBlank
    <3> QED
      BY <1>1, <3>3, SameAsked DEF BlankAmbient
  <2>3. UsesLongLivedProcess' = UsesLongLivedProcess
    BY <1>1 DEF UsesLongLivedProcess, runtimeCaps
  <2> QED
    BY <1>1, <2>1, <2>2, <2>3 DEF EnvironmentKept
<1>5. pc' = "plant" => EnvironmentKept'
  BY <1>1, <1>4 DEF EnvironmentKept
<1> QED
  BY <1>1, <1>3, <1>5 DEF EnvironmentSettled, EnvStages

\* So does an ACP launch.
LEMMA ACPEnvironment == LaunchInv /\ EnvironmentSettled /\ PrepareACP => EnvironmentSettled'
<1> SUFFICES ASSUME LaunchInv, EnvironmentSettled, PrepareACP PROVE EnvironmentSettled'
  OBVIOUS
<1> DEFINE sealed == Seal(Base, TRUE)
<1>1. /\ pc = "run" /\ pc' \in {"plant", "refused"} /\ adapter.protocol = "acp" /\ flags = ""
      /\ cfg' = cfg /\ adapter' = adapter /\ child' = child /\ flags' = flags
      /\ pc' = "plant" => childEnv' = IF cfg.prepared # None THEN cfg.prepared.env ELSE sealed
  BY DEF PrepareACP, Step, Base, EnvironmentSettled
<1>2. cfg \in Configs
  BY DEF LaunchInv, LaunchTypes
<1>3. ~child'.up
  BY <1>1 DEF EnvironmentSettled, Launched
<1>4. ASSUME pc' = "plant", cfg.prepared = None PROVE EnvironmentKept'
  <2>0. childEnv' = sealed
    BY <1>1, <1>4
  <2>1. ASSUME NEW name, Told(name) PROVE Seen(childEnv, name)' = Prepared(name)'
    <3>1. Seen(sealed, name) = {Asked(name)} \ {None}
      BY <1>2, <2>1, SeenSealed, BaseAsAsked DEF Told
    <3> HIDE DEF sealed
    <3>2. Seen(childEnv, name)' = Seen(childEnv', name)
      BY <1>1 DEF Seen, canonicalEnvironmentName
    <3> QED
      BY <1>1, <2>0, <3>1, <3>2, SameAsked DEF Prepared
  <2>2. ASSUME childEnv' = {} PROVE BlankAmbient'
    <3>1. Base = {} /\ ~explicit(cfg.env) /\ ~AdapterExplicit
      BY <2>0, <2>2 DEF Seal
    <3>2. BlankAmbient
      BY <1>2, <3>1, EmptyIsBlank
    <3> QED
      BY <1>1, <3>2, SameAsked DEF BlankAmbient
  <2> QED
    BY <2>1, <2>2 DEF EnvironmentKept
<1>5. pc' = "plant" => EnvironmentKept'
  BY <1>1, <1>4 DEF EnvironmentKept
<1> QED
  BY <1>1, <1>3, <1>5 DEF EnvironmentSettled, EnvStages

\* With nothing to inherit, the wrapper's own environment shows nothing.
LEMMA BlankShowsNothing ==
  ASSUME BlankAmbient, NEW name, Told(name)
  PROVE  Seen(ToSet(cfg.ambient), name) = {}
<1>1. Named(cfg.ambient, name) = {}
  BY DEF BlankAmbient
<1> QED
  BY <1>1 DEF Seen, ToSet, Named

\* agentkit gives the child the launch's environment, or the wrapper's own when
\* there is nothing in that either.
LEMMA NativeChildEnvironment ==
  ASSUME LaunchInv, EnvironmentSettled, NativeChild,
         pc \in {"start", "turn"}, pc' \in {"ready", "running"},
         cfg' = cfg, adapter' = adapter, flags' = flags, childEnv' = childEnv
  PROVE  EnvironmentSettled'
<1>1. child' = Child(NativeEnv)
  BY DEF NativeChild
<1>2. adapter.protocol # "acp" /\ EnvironmentKept
  BY DEF LaunchInv, LaunchKinds, NativeStages, EnvironmentSettled, EnvStages
<1>3. ASSUME cfg.prepared = None, NEW name, Told(name)
      PROVE  Seen(NativeEnv, name) = Expected(name)
  <2>1. Seen(childEnv, name) = Prepared(name) /\ Expected(name) = Prepared(name)
    BY <1>2, <1>3 DEF EnvironmentKept, Expected, Prepared
  <2>2. ASSUME childEnv = {}, UsesLongLivedProcess PROVE Seen(ToSet(cfg.ambient), name) = Seen(childEnv, name)
    <3>1. BlankAmbient
      BY <1>2, <1>3, <2>2 DEF EnvironmentKept
    <3>2. Seen({}, name) = {}
      BY DEF Seen
    <3> QED
      BY <1>3, <2>2, <3>1, <3>2, BlankShowsNothing
  <2> QED
    BY <1>3, <2>1, <2>2 DEF NativeEnv
<1>4. ChildAsConfigured'
  <2>1. child'.env = NativeEnv
    BY <1>1 DEF Child
  <2>2. \A name : /\ Expected(name)' = Expected(name)
                  /\ Seen(child.env, name)' = Seen(NativeEnv, name)
    <3>1. \A name : Seen(child.env, name)' = Seen(child'.env, name)
      BY DEF Seen, canonicalEnvironmentName
    <3>2. \A name : Expected(name)' = Expected(name)
      BY SameLaunch
    <3> QED
      BY <2>1, <3>1, <3>2
  <2>3. cfg.prepared # None => NativeEnv = cfg.prepared.env
    BY DEF NativeEnv
  <2> QED
    BY <1>3, <2>1, <2>2, <2>3 DEF ChildAsConfigured
<1>5. EnvironmentKept'
  <2>1. /\ \A name : Prepared(name)' = Prepared(name)
        /\ BlankAmbient' = BlankAmbient /\ UsesLongLivedProcess' = UsesLongLivedProcess
    BY SameLaunch
  <2>2. \A name : Seen(childEnv, name)' = Seen(childEnv, name)
    BY DEF Seen, canonicalEnvironmentName
  <2> QED
    BY <1>2, <2>1, <2>2 DEF EnvironmentKept
<1> QED
  BY <1>2, <1>4, <1>5 DEF EnvironmentSettled, EnvStages, Launched

\* The native stages from the start of the session to its first child.
LEMMA NativeStartEnvironment ==
  ASSUME LaunchInv, EnvironmentSettled, StartNative \/ runSandbox \/ StartTurn
  PROVE  EnvironmentSettled'
<1>1. /\ cfg' = cfg /\ adapter' = adapter /\ flags' = flags /\ childEnv' = childEnv
  BY DEF StartNative, runSandbox, StartTurn
<1>2. \/ /\ NativeChild /\ pc \in {"start", "turn"} /\ pc' \in {"ready", "running"}
      \/ /\ child' = child
         /\ \/ pc = "start" /\ pc' = "ready"
            \/ pc = "ready" /\ pc' \in {"turn", "running"}
      \/ pc' = "refused" /\ child' = NoChild
  <2>1. CASE StartNative
    BY <2>1 DEF StartNative, NativeFailure
  <2>2. CASE runSandbox
    BY <2>2 DEF runSandbox, Step
  <2>3. CASE StartTurn
    BY <2>3 DEF StartTurn, NativeFailure
  <2> QED
    BY <2>1, <2>2, <2>3
<1>3. CASE NativeChild /\ pc \in {"start", "turn"} /\ pc' \in {"ready", "running"}
  BY <1>1, <1>3, NativeChildEnvironment
<1>4. CASE /\ child' = child
           /\ \/ pc = "start" /\ pc' = "ready"
              \/ pc = "ready" /\ pc' \in {"turn", "running"}
  BY <1>1, <1>4, EnvironmentStays DEF EnvStages, Launched
<1>5. CASE pc' = "refused" /\ child' = NoChild
  BY <1>5 DEF EnvironmentSettled, EnvStages, NoChild
<1> QED
  BY <1>2, <1>3, <1>4, <1>5

\* A client gives it the launch's environment through its own hook.
LEMMA HookAsExpected ==
  ASSUME LaunchInv, EnvironmentSettled, pc = "spawn", cfg.prepared = None, NEW name, Told(name)
  PROVE  Seen(launchEnv, name) = Expected(name)
<1>1. adapter.protocol = "acp" /\ flags = "" /\ EnvironmentKept
  BY DEF LaunchInv, LaunchKinds, ACPStages, EnvironmentSettled, EnvStages
<1>2. Seen(childEnv, name) = {Asked(name)} \ {None}
  BY <1>1 DEF EnvironmentKept, Prepared
<1>3. Expected(name) = IF /\ name = "CODEX_PATH" /\ cfg.sel.runtime = "codex"
                          /\ cfg.codexFound /\ Asked(name) = None
                       THEN {CodexPath.value} ELSE {Asked(name)} \ {None}
  BY <1>1 DEF Expected
<1>4. /\ CodexPath.name = "CODEX_PATH"
      /\ canonicalEnvironmentName("CODEX_PATH") = "CODEX_PATH"
  BY DEF CodexPath, canonicalEnvironmentName
<1> DEFINE hasPath == \E v \in childEnv : canonicalEnvironmentName(v.name) = "CODEX_PATH"
<1>5. Seen(childEnv, "CODEX_PATH") # {} <=> hasPath
  BY DEF Seen
<1>6. AddsCodexPath <=> cfg.sel.runtime = "codex" /\ cfg.codexFound /\ ~hasPath
  BY DEF AddsCodexPath
<1>7. CASE AddsCodexPath
  <2>1. Seen(launchEnv, name) = IF name = "CODEX_PATH" THEN Seen(childEnv, name) \cup {CodexPath.value}
                                ELSE Seen(childEnv, name)
    <3>1. launchEnv = childEnv \cup {CodexPath}
      BY <1>7 DEF launchEnv
    <3> QED
      BY <1>4, <3>1 DEF Seen
  <2>2. CASE name = "CODEX_PATH"
    <3>1. Seen(childEnv, name) = {}
      BY <1>5, <1>6, <1>7, <2>2
    <3>2. Asked(name) = None
      BY <1>2, <3>1
    <3> QED
      BY <1>3, <1>6, <1>7, <2>1, <2>2, <3>1, <3>2
  <2> QED
    BY <1>2, <1>3, <2>1, <2>2
<1>8. CASE ~AddsCodexPath
  <2>1. Expected(name) = {Asked(name)} \ {None}
    <3>1. CASE hasPath
      <4>1. name = "CODEX_PATH" => Asked(name) # None
        BY <1>2, <1>5, <3>1
      <4> QED
        BY <1>3, <4>1
    <3>2. CASE ~hasPath
      BY <1>3, <1>6, <1>8, <3>2
    <3> QED
      BY <3>1, <3>2
  <2>2. CASE cfg.sel.runtime = "codex" /\ childEnv = {}
    <3>1. BlankAmbient
      BY <1>1, <2>2 DEF EnvironmentKept
    <3>2. launchEnv = ToSet(cfg.ambient) /\ Seen({}, name) = {}
      BY <1>8, <2>2 DEF launchEnv, Seen
    <3> QED
      BY <1>2, <2>1, <2>2, <3>1, <3>2, BlankShowsNothing
  <2>3. CASE ~(cfg.sel.runtime = "codex" /\ childEnv = {})
    <3>1. launchEnv = childEnv
      BY <1>8, <2>3 DEF launchEnv
    <3> QED
      BY <1>2, <2>1, <3>1
  <2> QED
    BY <2>2, <2>3
<1> QED
  BY <1>7, <1>8

\* The child of an ACP launch starts with it.
LEMMA SpawnEnvironment == LaunchInv /\ EnvironmentSettled /\ Spawn => EnvironmentSettled'
<1> SUFFICES ASSUME LaunchInv, EnvironmentSettled, Spawn PROVE EnvironmentSettled'
  OBVIOUS
<1>1. /\ pc = "spawn" /\ cfg' = cfg /\ adapter' = adapter /\ flags' = flags
      /\ pc' \in {"dial", "running", "refused"}
      /\ child' = NoChild \/ (pc' \in {"dial", "running"} /\ child' = Child(launchEnv))
  BY DEF Spawn, Step
<1>2. adapter.protocol = "acp" /\ flags = ""
  BY <1>1 DEF LaunchInv, LaunchKinds, ACPStages, EnvironmentSettled
<1>3. ASSUME child'.up PROVE pc' \in {"dial", "running"} /\ ChildAsConfigured'
  <2>1. pc' \in {"dial", "running"} /\ child'.env = launchEnv
    BY <1>1, <1>3 DEF NoChild, Child
  <2>2. \A name : /\ Expected(name)' = Expected(name)
                  /\ Seen(child.env, name)' = Seen(launchEnv, name)
    <3>1. \A name : Seen(child.env, name)' = Seen(child'.env, name)
      BY <1>1 DEF Seen, canonicalEnvironmentName
    <3>2. \A name : Expected(name)' = Expected(name)
      BY <1>1, SameLaunch
    <3> QED
      BY <2>1, <3>1, <3>2
  <2>3. ASSUME cfg.prepared # None, ~CodexNilEnvironment PROVE launchEnv = cfg.prepared.env
    <3>1. childEnv = cfg.prepared.env
      BY <1>1, <1>2, <2>3 DEF EnvironmentSettled, EnvStages
    <3> QED
      BY <2>3, <3>1 DEF launchEnv, AddsCodexPath, CodexNilEnvironment
  <2>4. CodexNilEnvironment' = CodexNilEnvironment
    BY <1>1 DEF CodexNilEnvironment
  <2>5. ASSUME cfg.prepared = None PROVE \A name : Told(name) => Seen(launchEnv, name) = Expected(name)
    BY <1>1, <2>5, HookAsExpected
  <2> QED
    BY <1>1, <1>2, <2>1, <2>2, <2>3, <2>4, <2>5 DEF ChildAsConfigured
<1> QED
  BY <1>1, <1>2, <1>3 DEF EnvironmentSettled, EnvStages, Launched

\* A child whose dial fails is killed.
LEMMA DialEnvironment == LaunchInv /\ EnvironmentSettled /\ Dial => EnvironmentSettled'
<1> SUFFICES ASSUME LaunchInv, EnvironmentSettled, Dial PROVE EnvironmentSettled'
  OBVIOUS
<1>1. /\ pc = "dial" /\ cfg' = cfg /\ adapter' = adapter /\ flags' = flags /\ childEnv' = childEnv
      /\ \/ pc' = "running" /\ child' = child
         \/ pc' = "refused" /\ child' = NoChild
  BY DEF Dial, Step
<1>2. CASE pc' = "running" /\ child' = child
  BY <1>1, <1>2, EnvironmentStays DEF EnvStages, Launched
<1>3. CASE pc' = "refused" /\ child' = NoChild
  BY <1>3 DEF EnvironmentSettled, EnvStages, NoChild
<1> QED
  BY <1>1, <1>2, <1>3

\* Every other stage leaves it alone.
LEMMA OtherEnvironment ==
  ASSUME LaunchInv, EnvironmentSettled,
         \/ Select \/ New \/ Plant \/ WrapAdapter \/ Posture \/ acpProtectedPolicy
         \/ CheckRemoteSandbox \/ rejectUnsupportedLinuxTCPSandbox \/ PrepareLaunchSandbox
         \/ Deliver \/ UNCHANGED vars
  PROVE  EnvironmentSettled'
<1>1. CASE Select
  <2>1. /\ pc = "select" /\ pc' \in {"new", "refused"} /\ cfg' = cfg /\ flags' = flags /\ child' = child
    BY <1>1 DEF Select, Step
  <2> QED
    BY <2>1 DEF EnvironmentSettled, EnvStages, Launched
<1>2. CASE New \/ Plant
  <2>1. /\ cfg' = cfg /\ flags' = flags /\ child' = child /\ childEnv' = childEnv /\ adapter' = adapter
        /\ \/ pc = "new" /\ pc' \in {"run", "refused"}
           \/ pc = "plant" /\ pc' \in {"protect", "wrap", "refused"}
    BY <1>2 DEF New, Plant, Step
  <2> QED
    BY <2>1, EnvironmentStays DEF EnvStages, Launched
<1>3. CASE WrapAdapter
  <2>1. /\ cfg' = cfg /\ flags' = flags /\ child' = child /\ childEnv' = childEnv
        /\ pc = "wrap" /\ pc' \in {"posture", "refused"}
    BY <1>3 DEF WrapAdapter, Step
  <2>2. adapter \in Adapters
    BY <2>1 DEF LaunchInv, LaunchTypes
  <2>3. adapter'.protocol = adapter.protocol
    BY <1>3, <2>2 DEF WrapAdapter, Adapters
  <2> QED
    BY <2>1, <2>3, EnvironmentStays DEF EnvStages, Launched
<1>4. CASE Posture \/ acpProtectedPolicy
  <2>1. /\ cfg' = cfg /\ flags' = flags /\ child' = child /\ childEnv' = childEnv /\ adapter' = adapter
        /\ \/ pc = "posture" /\ pc' \in {"start", "refused"}
           \/ pc = "protect" /\ pc' \in {"sandbox", "refused"}
    BY <1>4 DEF Posture, acpProtectedPolicy, Step
  <2> QED
    BY <2>1, EnvironmentStays DEF EnvStages, Launched
<1>5. CASE CheckRemoteSandbox \/ rejectUnsupportedLinuxTCPSandbox \/ PrepareLaunchSandbox
  <2>1. /\ cfg' = cfg /\ flags' = flags /\ child' = child /\ childEnv' = childEnv /\ adapter' = adapter
        /\ pc = "sandbox" /\ pc' \in {"dial", "spawn", "refused"}
    BY <1>5 DEF CheckRemoteSandbox, rejectUnsupportedLinuxTCPSandbox, PrepareLaunchSandbox,
       applyProtectOnly, ApplyPolicy, Step
  <2> QED
    BY <2>1, EnvironmentStays DEF EnvStages, Launched
<1>6. CASE Deliver
  <2>1. /\ cfg' = cfg /\ flags' = flags /\ child' = child /\ childEnv' = childEnv /\ adapter' = adapter
        /\ pc = "running" /\ pc' = "delivered"
    BY <1>6 DEF Deliver
  <2> QED
    BY <2>1, EnvironmentStays DEF EnvStages, Launched
<1>7. CASE UNCHANGED vars
  BY <1>7, EnvironmentStays DEF vars
<1> QED
  BY <1>1, <1>2, <1>3, <1>4, <1>5, <1>6, <1>7

-----------------------------------------------------------------------------
(* The theorems *)

\* What every stage settles stays settled.
THEOREM LaunchSettles == Spec => []LaunchInv
<1>1. LaunchInv /\ [Next]_vars => LaunchInv'
  BY SelectStep, NewStep, PrepareNativeStep, PrepareACPStep, PlantStep, WrapAdapterStep,
     PostureStep, StartNativeStep, runSandboxStep, StartTurnStep, acpProtectedPolicyStep, CheckRemoteSandboxStep,
     rejectUnsupportedLinuxTCPSandboxStep, PrepareLaunchSandboxStep, SpawnStep, DialStep,
     DeliverStep, DoneStep, Unmoved DEF Next
<1> QED
  BY <1>1, InitStep, PTL DEF Spec

\* Whatever the configuration, a session with protected paths runs only on a
\* child the wrapper spawned and confined to them.
THEOREM ProtectedOrRefused == Spec => []NeverUnprotected
<1>1. LaunchInv => NeverUnprotected
  BY DEF LaunchInv, SandboxSettled, HeardOfChild, NeverUnprotected, Running
<1> QED
  BY <1>1, LaunchSettles, PTL

\* Whatever the configuration, what the host hears of the sandbox is so: an
\* outcome that says enforced stands alone and stands for a confined child, a
\* launch that was to be sandboxed is not silent, the Applier's word comes beside
\* it and its failure ends the session.
THEOREM SandboxReportsAreTrue == Spec => []ReportTruthful
<1>1. /\ Outcomes = OutcomesIn(reports) /\ AppliersWord = WordIn(reports)
      /\ ApplierFailed <=> FailedIn(reports)
  BY DEF Outcomes, AppliersWord, ApplierFailed, OutcomesIn, WordIn, FailedIn
<1>2. LaunchInv => ReportTruthful
  BY <1>1 DEF LaunchInv, SandboxSettled, HeardOfChild, ApplierHeard, ReportTruthful, Running,
              EnforcedIn, OnceIn
<1> QED
  BY <1>2, LaunchSettles, PTL

\* Whatever the configuration, a native session's approvals are answered from
\* the posture of its flags.
THEOREM PosturesAgree == Spec => []OnePosture
<1>1. LaunchInv => OnePosture
  <2> SUFFICES ASSUME LaunchInv, Running, adapter.protocol # "acp", flags # "" PROVE answers = flags
    BY DEF OnePosture
  <2>1. flags = LaunchedPosture /\ answers = sessionPosture /\ sessionPosture # "conflict"
    BY DEF LaunchInv, PostureSettled, Running
  <2>2. CASE cfg.prepared = None
    BY <2>1, <2>2 DEF LaunchedPosture, sessionPosture
  <2>3. CASE cfg.prepared # None
    <3>1. flags = cfg.prepared.posture
      BY <2>1, <2>3 DEF LaunchedPosture
    <3> DEFINE planned == IF cfg.prepared = None THEN "" ELSE cfg.prepared.posture
    <3>2. planned = flags /\ planned # ""
      BY <2>3, <3>1
    <3>3. sessionPosture = IF planned # "" THEN IF cfg.posture \in {"", planned} THEN planned
                                                ELSE "conflict"
                           ELSE IF cfg.posture # "" THEN cfg.posture ELSE "default"
      BY DEF sessionPosture
    <3> HIDE DEF planned
    <3> QED
      BY <2>1, <3>2, <3>3
  <2> QED
    BY <2>2, <2>3
<1> QED
  BY <1>1, LaunchSettles, PTL

\* Whatever the adapter and the plan, CancelTurn works exactly where cancel_turn
\* was advertised, but for the host's adapter with both interrupt interfaces.
THEOREM CancelKeepsItsPromise == Spec => []CancelAsAdvertised
<1>1. LaunchInv => CancelAsAdvertised
  BY DEF LaunchInv, CancelSettled, CancelAsAdvertised
<1> QED
  BY <1>1, LaunchSettles, PTL

\* Whatever the configuration, the ambient environment and the adapter's own, the
\* child sees the variables asked for and no others: what the maps, the marker,
\* the posture and the hooks do on the way adds up to that.
THEOREM ChildSeesWhatIsAsked == Spec => []EnvironmentAsConfigured
<1>1. Init => EnvironmentSettled
  <2> SUFFICES ASSUME Init PROVE EnvironmentSettled
    OBVIOUS
  <2>1. pc = "select" /\ flags = "" /\ ~child.up
    BY DEF Init, NoChild
  <2> QED
    BY <2>1 DEF EnvironmentSettled, EnvStages
<1>2. LaunchInv /\ EnvironmentSettled /\ [Next]_vars => EnvironmentSettled'
  BY NativeEnvironment, ACPEnvironment, NativeStartEnvironment, SpawnEnvironment, DialEnvironment,
     OtherEnvironment DEF Next, Done
<1>3. EnvironmentSettled => EnvironmentAsConfigured
  <2>1. \A name \in Names : Told(name)
    BY DEF Names, Told
  <2> QED
    BY <2>1 DEF EnvironmentSettled, ChildAsConfigured, EnvironmentAsConfigured
<1> QED
  BY <1>1, <1>2, <1>3, LaunchSettles, PTL DEF Spec

=============================================================================
