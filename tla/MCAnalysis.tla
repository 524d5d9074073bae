----------------------------- MODULE MCAnalysis -----------------------------
(***************************************************************************)
(* Small repositories, in families that each vary one part of them, and    *)
(* what their files say of every credential, defined without the graph.    *)
(***************************************************************************)
EXTENDS Analysis, TLC

MCKey ==
  {"TOKEN", "token", "ALIAS", "DB_PASSWORD", "AWS_KEY", "VITE_URL", "LOG_LEVEL", "DATA", "%",
   "in", "key", "out", "build", "deploy", "call", "web", "web-prod", "db", "generic", "aws", "[REDACTED]"}
MCName == (MCKey \ {"%", "[REDACTED]"}) \cup {"", "unknown", "REDACTED"}
MCIdentifier == [k \in MCKey |-> CASE k = "%" -> "" [] k = "[REDACTED]" -> "REDACTED" [] OTHER -> k]
MCUpper == [n \in MCName |-> IF n = "token" THEN "TOKEN" ELSE n]

MCMarker == [f \in {"compose.yml", "compose.local.yml", "db.yml"} |->
               IF f = "compose.local.yml" THEN "local" ELSE "none"]

(***************************************************************************)
(* Values.                                                                 *)
(***************************************************************************)
Of(context, n) == [context |-> context, member |-> n]
Only(context, n) == [expressions |-> {<<Of(context, n)>>}, bare |-> TRUE]
Secret(n)  == Only("secrets", n)
In(n)      == Only("inputs", n)
Within(t)  == [t EXCEPT !.bare = FALSE]
Two        == [expressions |-> {<<Of("secrets", "TOKEN")>>, <<Of("secrets", "DATA")>>}, bare |-> FALSE]
Or(m, n)   == [expressions |-> {<<Of("secrets", m), Of("secrets", n)>>}, bare |-> TRUE]
CallOn(n)  == [expressions |-> {<<Of("call", "DATA"), Of("secrets", n)>>}, bare |-> TRUE]
Plain      == [expressions |-> {}, bare |-> FALSE]

Use(class, target, raw) == [raw |-> raw, class |-> class, target |-> target, owner |-> "none", pinned |-> FALSE]
Local(target)  == Use("local", target, 5)
External(owner, pinned) == [Use("external", "", 4) EXCEPT !.owner = owner, !.pinned = pinned]
Unresolved     == {Use("expression", "", 1), Use("docker", "", 2), Use("rejected", "", 3), External("other", FALSE)}

(***************************************************************************)
(* Files.                                                                  *)
(***************************************************************************)
AStep == [name |-> "", uses |-> Absent, run |-> Absent, with |-> Absent, env |-> Absent, other |-> {}]
Run(t)       == [AStep EXCEPT !.run = t]
Calls(u, with) == [AStep EXCEPT !.uses = u, !.with = with]

AJob == [needs |-> {}, permissions |-> Absent, env |-> Absent, environment |-> Absent, uses |-> Absent,
         with |-> Absent, secrets |-> Absent, outputs |-> Absent, steps |-> <<>>, other |-> {}]
Steps(s) == [AJob EXCEPT !.steps = s]
CallJob(target, secrets) == [AJob EXCEPT !.uses = target, !.secrets = secrets]

AWorkflow(f, jobs) == [file |-> f, name |-> "", on |-> {"push"}, call |-> Absent,
                       permissions |-> {[scope |-> "contents", level |-> "read"]}, env |-> Absent, jobs |-> jobs]
Reusable(f, contract, jobs) == [AWorkflow(f, jobs) EXCEPT !.on = {"workflow_call"}, !.call = contract]

AnAction(d, inputs, s) == [dir |-> d, name |-> d, using |-> "composite", inputs |-> inputs, steps |-> s]

AService == [environment |-> Absent, secrets |-> Absent, envFiles |-> Absent, ports |-> Absent, networks |-> Absent,
             volumes |-> Absent, dependsOn |-> Absent, privileged |-> Absent, networkMode |-> "", user |-> Absent,
             profiles |-> Absent]
ACompose(f, services) == [file |-> f, services |-> services, secrets |-> Absent, networks |-> Absent]

InFile(name) == [place |-> "relative", name |-> name]
AFinding(label, name) ==
  [rule |-> "generic", key |-> label, commit |-> Absent, secret |-> "s1", match |-> Absent, fingerprint |-> Absent,
   file |-> InFile(name), line |-> 1]

NoOptions == [ignorePaths |-> {}, ignoreVariables |-> {}, ignoreFindings |-> {}, ignoreRules |-> {}, disabled |-> {},
              classifications |-> NoKeys, pathPrefix |-> "none", profile |-> "auto", maxDepth |-> 0, maxPaths |-> 0, maxTotal |-> 0]
Files(workflows) == [workflows |-> workflows, compose |-> <<>>, actions |-> {}, findings |-> <<>>, options |-> NoOptions]
-----------------------------------------------------------------------------
(***************************************************************************)
(* Secrets handed to reusable workflows, in one hop and in two.            *)
(***************************************************************************)
Callee(contract) == Reusable("callee.yml", contract, ("build" :> Steps(<<Run(Secret("ALIAS"))>>)))
Caller(target, secrets) == AWorkflow("caller.yml", ("call" :> CallJob(target, secrets)))

HandedOver == {Absent, Inherit} \cup
  {("ALIAS" :> t) : t \in {Secret("TOKEN"), Two, Only("env", "TOKEN"), Within(Secret("TOKEN")), Or("TOKEN", "DATA"),
                           CallOn("TOKEN"), Secret("ALIAS"), Secret("%")}}

Targets == {Local("callee.yml"), Local("none.yml"), Local("caller.yml")} \cup Unresolved

Middle == Reusable("middle.yml", {"ALIAS"}, ("call" :> CallJob(Local("last.yml"), ("DATA" :> Secret("ALIAS")))))
Last   == Reusable("last.yml", {"DATA"}, ("build" :> Steps(<<Run(Secret("DATA")), Run(Secret("TOKEN"))>>)))
First  == AWorkflow("first.yml", ("call" :> CallJob(Local("middle.yml"), ("ALIAS" :> Secret("TOKEN")))))

Forwarding ==
  {Files({Caller(t, s), Callee({"ALIAS"})}) : t \in {Local("callee.yml")}, s \in HandedOver}
  \cup {Files({Caller(t, ("ALIAS" :> Secret("TOKEN"))), Callee({"ALIAS"})}) : t \in Targets}
  \cup {Files({Caller(Local("callee.yml"), ("ALIAS" :> Secret("TOKEN"))), Callee(c)}) : c \in {Absent, {"DATA"}, {}}}
  \cup {[Files({First, Middle, Last}) EXCEPT !.options.maxDepth = n] : n \in 0 .. 2}
  \cup {Files({Caller(Local("callee.yml"), ("ALIAS" :> Secret("TOKEN"))),
                Reusable("callee.yml", {"ALIAS"}, ("build" :> Steps(<<Run(Plain)>>))),
                AWorkflow("other.yml", ("build" :> Steps(<<Run(Secret("ALIAS"))>>)))})}
  \cup {Files({[AWorkflow("env.yml", ("call" :> [j EXCEPT !.steps = <<Run(Plain)>>, !.env = ("DATA" :> Secret("DATA"))]))
                  EXCEPT !.env = ("TOKEN" :> Secret("TOKEN"))]}) : j \in {AJob, CallJob(Local("none.yml"), Absent)}}

(***************************************************************************)
(* Secrets handed to actions: .github/a calls .github/b, which calls a.    *)
(***************************************************************************)
Runner(u, with) == AWorkflow("run.yml", ("build" :> Steps(<<Calls(u, with)>>)))
A(with)  == AnAction("a", {"in", "out"}, <<Run(In("in")), Calls(Local("b"), with)>>)
B(again) == AnAction("b", {"key", "out"}, <<Run(Within(In("key"))), Calls(Local("a"), again)>>)
C        == AnAction("c", {"in"}, <<Run(Plain), Calls(Local("d"), ("in" :> In("in")))>>)

Acting(with, actions) == [Files({Runner(Local("a"), with)}) EXCEPT !.actions = actions]

Given1 == {("in" :> t) : t \in {Secret("TOKEN"), Within(Secret("TOKEN")), Two, Plain}}
          \cup {("in" :> Secret("TOKEN")) @@ ("out" :> Secret("DATA")), ("key" :> Secret("TOKEN"))}
Given2 == {("key" :> t) : t \in {In("in"), Within(In("in")), In("out"), Secret("TOKEN")}}
          \cup {("key" :> In("in")) @@ ("out" :> In("in")), ("in" :> In("in"))}

Ignoring(f, v) == [f EXCEPT !.options.ignoreVariables = v]

Composite ==
  {Acting(w, {A(("key" :> In("in"))), B(Absent)}) : w \in Given1}
  \cup {Acting(("in" :> Secret("TOKEN")), {A(w), B(("in" :> In("key")))}) : w \in Given2}
  \cup {Ignoring(Acting(("in" :> Secret("TOKEN")), {A(("key" :> In("in"))), B(Absent)}), v)
          : v \in {{"TOKEN"}, {"token"}, {"DATA"}}}
  \cup {Acting(("in" :> Secret("TOKEN")), {A(("key" :> In("in")))} \cup more)
          : more \in {{}, {[B(Absent) EXCEPT !.name = ""]}, {[B(Absent) EXCEPT !.using = "docker"]},
                      {B(Absent), [B(Absent) EXCEPT !.name = "second"]}}}
  \cup {[Files({Runner(u, ("in" :> Secret("TOKEN")))}) EXCEPT !.actions = {C}] : u \in Unresolved \cup {Local("c")}}
  \cup {[Acting(("in" :> Secret("TOKEN")), {A(("key" :> In("in"))), B(Absent)}) EXCEPT
           !.options.ignorePaths = {"run.yml"}]}

(***************************************************************************)
(* Compose files, and a repository that most rules are about.              *)
(***************************************************************************)
Mount(type, readOnly) == [source |-> "/run", target |-> "/run", type |-> type, readOnly |-> readOnly,
                          hostPath |-> TRUE, dockerSocket |-> TRUE]
Ports == {[published |-> "1", target |-> "1", host |-> h] : h \in {"", "127.0.0.1"}}
Web == [AService EXCEPT !.environment = ("DB_PASSWORD" :> {}) @@ ("VITE_URL" :> {"TOKEN"}), !.ports = Ports,
                        !.privileged = TRUE, !.networkMode = "host", !.user = "root", !.secrets = {"DATA"},
                        !.volumes = <<Mount("bind", FALSE), Mount("bind", TRUE)>>, !.envFiles = {".env"}]
Db  == [AService EXCEPT !.environment = ("LOG_LEVEL" :> {}) @@ ("DB_PASSWORD" :> {}), !.dependsOn = {"web"},
                        !.networks = {"back"}, !.user = "app", !.profiles = {"db"}]

Everything ==
  [AWorkflow("all.yml",
     ("deploy" :> [Steps(<<Run(Secret("DB_PASSWORD")), [Calls(External("other", FALSE), ("in" :> Secret("TOKEN"))) EXCEPT
                                                          !.env = ("AWS_KEY" :> Secret("AWS_KEY"))]>>) EXCEPT
                     !.environment = "web-prod", !.outputs = ("out" :> Secret("DB_PASSWORD")),
                     !.permissions = {[scope |-> "all", level |-> "write-all"]}])
     @@ ("call" :> [CallJob(External("other", FALSE), Absent) EXCEPT !.needs = {"deploy"},
                                                                     !.env = ("DATA" :> Secret("DB_PASSWORD"))]))
   EXCEPT !.on = {"push", "pull_request_target"}, !.permissions = Absent, !.env = ("DATA" :> Secret("DATA"))]

Services == {("web" :> Web), ("web-prod" :> Web) @@ ("db" :> Db), ("web" :> Web) @@ ("db" :> Db)}

Large == [Files({Everything}) EXCEPT !.compose = <<ACompose("compose.yml", ("web-prod" :> Web) @@ ("db" :> Db))>>,
                                     !.findings = <<AFinding("DB_PASSWORD", "all.yml")>>]

Composing ==
  {[Files({}) EXCEPT !.compose = <<ACompose("compose.yml", s)>>] : s \in Services}
  \cup {[Large EXCEPT !.options.profile = p] : p \in Profile}
  \cup {[Files({}) EXCEPT !.compose = <<ACompose(f, ("web" :> Web)), ACompose("db.yml", ("db" :> Db))>>,
                          !.options.classifications = c]
          : f \in {"compose.yml", "compose.local.yml"}, c \in {NoKeys, ("DB_PASSWORD" :> "public_configuration")}}

(***************************************************************************)
(* Findings, and what a configuration ignores: findings by an ID or, as a  *)
(* tuple of one, by a rule.                                                *)
(***************************************************************************)
One   == AFinding("ALIAS", "run.yml")
Other == [AFinding("AWS_KEY", "callee.yml") EXCEPT !.secret = "s2"]
Found == [Files({Runner(Absent, Absent), Caller(Local("callee.yml"), ("ALIAS" :> Secret("TOKEN"))), Callee({"ALIAS"})})
            EXCEPT !.findings = <<One, Other, [AFinding("AWS_KEY", "") EXCEPT !.rule = "aws"]>>]
IdOf(n) == FindingIdOf(Found.findings[n])

Ignores ==
  {Found}
  \cup {[Found EXCEPT !.options.ignorePaths = p] : p \in {{"run.yml"}, {"callee.yml"}, {"run.yml", "callee.yml"}}}
  \cup {[Found EXCEPT !.options.ignoreFindings = f]
          : f \in {{IdOf(1)}, {<<"generic">>}, {<<"generic">>, IdOf(2)}, {<<"aws">>}}}
  \cup {[Found EXCEPT !.options.ignoreRules = {"CRD101", "CRD102"}, !.options.disabled = d] : d \in {{}, {"CRD102"}}}
  \cup {Ignoring(Found, v) : v \in {{"AWS_KEY"}, {"token", "ALIAS"}}}
  \cup {[Found EXCEPT !.options.ignorePaths = {"run.yml"}, !.options.ignoreFindings = {IdOf(1)}]}

\* Reports that name a leak twice, hide its name or have no name for it.
Reported(entries) == [Found EXCEPT !.findings = entries]
At(place, name)   == [place |-> place, name |-> name]

Reports ==
  {Reported(<<One, e>>) : e \in {[One EXCEPT !.key = "DATA"], [One EXCEPT !.key = "DATA", !.line = 2],
                                 [One EXCEPT !.key = "DATA", !.commit = "db"], [One EXCEPT !.key = "DATA", !.match = "s1"],
                                 [One EXCEPT !.key = "DATA", !.file = InFile("tests/run.yml")]}}
  \cup {Reported(<<e>>) : e \in {[One EXCEPT !.key = Absent], [One EXCEPT !.key = "%"], [One EXCEPT !.secret = "ALIAS"],
                                  [One EXCEPT !.secret = Absent, !.match = "ALIAS"], [One EXCEPT !.rule = Absent],
                                  [One EXCEPT !.secret = Absent, !.fingerprint = "f1"],
                                  [One EXCEPT !.key = Absent, !.secret = "generic"]}}
  \cup {Reported(<<e, [e EXCEPT !.key = "DATA"], [e EXCEPT !.line = 2]>>) : e \in {[One EXCEPT !.secret = Absent]}}
  \cup {[Reported(<<[One EXCEPT !.file = At(p, "run.yml")]>>) EXCEPT !.options.pathPrefix = c, !.options.ignorePaths = i]
          : p \in {"prefixed", "outside"}, c \in {"none", "valid"}, i \in {{}, {"run.yml"}}}
  \cup {Reported(<<>>), Reported(<<One, Malformed>>), Reported(<<[One EXCEPT !.line = -1]>>)}

(***************************************************************************)
(* Limits, and files that do not parse.                                    *)
(***************************************************************************)
Limited ==
  {[Found EXCEPT !.options.maxDepth = d] : d \in 1 .. 3}
  \cup {[Found EXCEPT !.options.maxPaths = 4], [Found EXCEPT !.options.maxTotal = 12]}
  \cup {[Large EXCEPT !.workflows = @ \cup {Callee(Absent), Runner(Absent, Absent)},
                      !.compose = @ \o <<ACompose("db.yml", ("web" :> Web))>>]}

\* One step, job or workflow that the parser refuses, and some that it does not.
OddSteps == {[AStep EXCEPT !.with = Malformed], [AStep EXCEPT !.env = Malformed], Calls(Absent, ("%" :> Plain))}
OddJobs  == {[AJob EXCEPT !.permissions = Malformed], [AJob EXCEPT !.env = Malformed], [AJob EXCEPT !.outputs = Malformed],
             [AJob EXCEPT !.secrets = Malformed], [AJob EXCEPT !.with = Malformed]} \cup {Steps(<<s>>) : s \in OddSteps}
OddWorkflows ==
  {[AWorkflow("odd.yml", NoKeys) EXCEPT !.on = Malformed], [AWorkflow("odd.yml", NoKeys) EXCEPT !.env = Malformed],
   AWorkflow("odd.yml", Absent), Reusable("odd.yml", Malformed, NoKeys)}
  \cup {AWorkflow("odd.yml", ("build" :> j)) : j \in OddJobs}
OddServices == {[AService EXCEPT !.environment = Malformed], [AService EXCEPT !.ports = {[published |-> "1", target |-> "", host |-> ""]}],
                [AService EXCEPT !.volumes = Malformed], [AService EXCEPT !.privileged = Malformed]}

Unparsed ==
  {Files({w}) : w \in OddWorkflows}
  \cup {[Files({}) EXCEPT !.compose = <<c>>] : c \in {ACompose("compose.yml", ("web" :> s)) : s \in OddServices}
                                                      \cup {ACompose("compose.yml", Absent)}}
  \cup {[Files({}) EXCEPT !.findings = Malformed]}

MCInputs == Forwarding \cup Composite \cup Composing \cup Ignores \cup Reports \cup Limited \cup Unparsed
-----------------------------------------------------------------------------
(***************************************************************************)
(* A secret that is handed to a reusable workflow reaches an alias only    *)
(* where that workflow uses it.                                            *)
(***************************************************************************)
ForwardsReachUsedAliases ==
  \A e \in edges : e.class = "reusable" =>
    \E w \in repo.workflows :
      /\ w.call # Absent /\ \E n \in w.call : CredentialId(Upper[n]) = e.to
      /\ \E r \in w.references : r.kind = "secret" /\ CredentialId(Upper[r.name]) = e.to
=============================================================================
