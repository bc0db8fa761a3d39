------------------------------ MODULE MCLaunchPlan ------------------------------
(***************************************************************************)
(* Three families of configurations: every selection, every sandbox and    *)
(* prepared execution, every small environment.                            *)
(***************************************************************************)
EXTENDS LaunchPlan

Selection(r, m) == [runtime |-> r, mode |-> m, cli |-> None, interfaces |-> {}, args |-> FALSE,
                    developer |-> FALSE, port |-> 0]

ZeroEnv == [mode |-> "", allow |-> NilEnv, set |-> <<>>, unset |-> {}]

Var(n, v) == [name |-> n, value |-> v]

Zero == [sel |-> Selection("claude", "streaming"), goos |-> "linux", workdir |-> TRUE,
         ambient |-> <<Var("PATH", "bin"), Var("TOKEN", "t")>>, env |-> ZeroEnv, specEnv |-> BaseEnv,
         codexFound |-> TRUE, posture |-> "", prepared |-> None, given |-> FALSE, request |-> FALSE,
         applier |-> FALSE,
         policy |-> NoPolicy, profile |-> FALSE, protected |-> "no", planter |-> None,
         dialOnly |-> FALSE, backend |-> TRUE]

Policies == {NoPolicy} \cup
  [mode : {"disabled", "required"}, network : {"full", "none"}, conflicts : BOOLEAN, protects : {FALSE}]

Prepared(p, e, po) ==
  [valid |-> TRUE, materialized |-> FALSE, posture |-> p, env |-> e, policy |-> po]

Runtimes == {"claude", "codex", "opencode", "copilot", "pi", "antigravity", "other"}
Modes == {"streaming", "turn", "jsonrpc", "http", "acp", "acp_tcp", "pty"}

Selections ==
  {[Zero EXCEPT !.sel = [Selection(r, m) EXCEPT !.developer = d, !.port = p]] :
     r \in Runtimes, m \in Modes, d \in BOOLEAN, p \in {0, 7, 65536}}
  \cup {[Zero EXCEPT !.sel = [Selection(r[1], r[2]) EXCEPT !.args = TRUE], !.posture = po, !.planter = pl] :
          r \in acpKeys \cup DOMAIN nativeSpecs, po \in {"", "plan", "unknown"}, pl \in {None, "ok", "fails"}}

HostAdapters ==
  {[Zero EXCEPT !.sel = [Selection(r[1], r[2]) EXCEPT !.cli = c, !.interfaces = i, !.args = a],
                !.posture = po, !.prepared = pr, !.given = pr # None] :
     r \in {<<"claude", "streaming">>, <<"codex", "jsonrpc">>, <<"opencode", "http">>,
            <<"claude", "turn">>, <<"claude", "acp">>},
     c \in {"custom", "builtin", "other_runtime", "other_mode"},
     i \in SUBSET Interrupters, a \in BOOLEAN,
     po \in {"", "plan", "yolo"},
     pr \in {None} \cup {Prepared(q, {Var("PATH", "plan")}, NoPolicy) : q \in {"", "plan"}}}

Sandboxes ==
  {[Zero EXCEPT !.sel = Selection(r[1], r[2]), !.goos = os, !.policy = po, !.profile = f,
                !.protected = pr, !.backend = b, !.dialOnly = d, !.applier = a] :
     r \in {<<"claude", "streaming">>, <<"claude", "turn">>, <<"pi", "acp">>, <<"copilot", "acp_tcp">>},
     os \in {"linux", "windows"}, po \in Policies, f \in BOOLEAN,
     pr \in {"no", "yes", "relative"}, b \in BOOLEAN, d \in BOOLEAN, a \in BOOLEAN}

Plans ==
  {[Zero EXCEPT !.sel = Selection(r[1], r[2]), !.prepared = [Prepared("", e, po) EXCEPT !.valid = v,
                                                             !.materialized = m],
                !.policy = q, !.planter = pl, !.given = g[1], !.request = g[2],
                !.protected = pr, !.workdir = w] :
     r \in {<<"claude", "streaming">>, <<"codex", "acp">>, <<"copilot", "acp_tcp">>},
     e \in {{}, {Var("PATH", "plan")}}, po \in Policies, v \in BOOLEAN, m \in BOOLEAN,
     q \in {NoPolicy, [NoPolicy EXCEPT !.mode = "required"]}, pl \in {None, "ok"},
     g \in {<<TRUE, FALSE>>, <<FALSE, TRUE>>, <<TRUE, TRUE>>}, pr \in {"no", "yes"}, w \in BOOLEAN}
  \cup {[Zero EXCEPT !.sel = Selection(r[1], r[2]), !.request = TRUE, !.policy = q, !.workdir = w] :
     r \in {<<"claude", "streaming">>, <<"codex", "acp">>},
     q \in {NoPolicy, [NoPolicy EXCEPT !.mode = "required"]}, w \in BOOLEAN}

\* Runtime, mode, posture and whether codex is found on PATH.
EnvLaunches == {<<"claude", "turn", "plan", TRUE>>, <<"opencode", "http", "", TRUE>>,
                <<"opencode", "http", "plan", TRUE>>,
                <<"codex", "acp", "", TRUE>>, <<"codex", "acp", "", FALSE>>}

\* A host may be a wrapper's child itself, with the marker and a path in its environment.
Ambients == {<<>>, <<Var("PATH", "bin"), Var("", "bad"), Var("Path", "sbin"), Var("TOKEN", "t"),
                     Var("CODEX_PATH", "host"), Var("OPENCODE_PERMISSION", "host"), Marker>>}

EnvConfig(l, os, am, sp, e) ==
  [Zero EXCEPT !.sel = Selection(l[1], l[2]), !.posture = l[3], !.codexFound = l[4], !.goos = os,
               !.ambient = am, !.specEnv = sp, !.env = e]

Environments ==
  {EnvConfig(l, os, am, BaseEnv, e) :
     l \in EnvLaunches, os \in {"linux", "windows"}, am \in Ambients,
     e \in [mode : {"", "merge", "replace"}, allow : {NilEnv, {}, {"Path"}, {"", "PATH"}},
            unset : {{}, {"PATH"}, {"PATH", "Path", "TOKEN"}},
            set : {<<>>, <<Var("", "bad")>>, <<Var("PATH", "set")>>,
                   <<Var("Path", "set2"), Var("PATH", "set")>>,
                   <<Var("OPENCODE_PERMISSION", "set"), Var("CODEX_PATH", "set")>>}]}
  \cup {EnvConfig(l, os, am, sp, e) :
     l \in EnvLaunches, os \in {"linux", "windows"}, am \in Ambients,
     sp \in {NilEnv, <<>>, <<Var("PATH", "own")>>, <<Var("Path", "own"), Var("", "bad")>>,
            <<Var("Path", "own2"), Var("TOKEN", "own"), Var("PATH", "own")>>},
     e \in {ZeroEnv, [ZeroEnv EXCEPT !.mode = "replace"], [ZeroEnv EXCEPT !.allow = {}]}}

MCConfigs == Selections \cup HostAdapters \cup Sandboxes \cup Plans \cup Environments

=============================================================================
