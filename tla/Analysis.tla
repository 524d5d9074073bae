------------------------------- MODULE Analysis -------------------------------
(***************************************************************************)
(* The analysis of a repository, from its files to the assessment of every *)
(* credential (internal/ingest: Repository, internal/analysis: Analyze).   *)
(* The files are parsed and the actions their steps use are resolved; what *)
(* the configuration ignores is left out; calls and input flows are linked *)
(* and the graph is built (module GraphBuild); then each credential is     *)
(* assessed by the paths that lead from it (module Assessment).            *)
(*                                                                         *)
(* CompositeResolution, InputFlow and Traversal model how the actions are  *)
(* resolved, the flows linked and the paths found.  Here each is its       *)
(* result.                                                                 *)
(***************************************************************************)
EXTENDS Assessment, Gitleaks

CONSTANTS
  Inputs,                           \* the repositories, with their configurations
  DefaultMaxDepth,                  \* 12 in the code
  DefaultMaxEvidencePaths,          \* 10000
  DefaultMaxTotalEvidencePaths,     \* 50000
  MaxReusableWorkflowHops,          \* 9
  MaxCompositeActionForwardingHops, \* 9
  MaxCompositeActionNestingDepth    \* 10

ASSUME LimitsAssumption ==
  /\ {DefaultMaxDepth, DefaultMaxEvidencePaths, DefaultMaxTotalEvidencePaths,
      MaxCompositeActionNestingDepth} \subseteq Nat \ {0}
  /\ {MaxReusableWorkflowHops, MaxCompositeActionForwardingHops} \subseteq Nat

\* The hops of a path mirror the nesting of actions: ten actions are nine transitions.
ASSUME HopsAssumption == MaxCompositeActionNestingDepth - 1 <= MaxCompositeActionForwardingHops

\* A report is read from its first entry to its last, and the Compose files one after the other.
ASSUME ReportsAssumption == \A d \in Inputs : d.findings = Malformed \/ DOMAIN d.findings \subseteq Nat
ASSUME ComposeAssumption ==
  \A d \in Inputs : DOMAIN d.compose \subseteq Nat /\ \A i \in DOMAIN d.compose : d.compose[i].file \in DOMAIN FileMarker

\* Every file is found once.
ASSUME FilesAssumption ==
  \A d \in Inputs :
    /\ IsFiniteSet(d.workflows) /\ \A v, w \in d.workflows : v.file = w.file => v = w
    /\ IsFiniteSet(DOMAIN d.compose) /\ \A i, j \in DOMAIN d.compose : d.compose[i].file = d.compose[j].file => i = j
    /\ d.findings = Malformed \/ IsFiniteSet(DOMAIN d.findings)
    /\ IsFiniteSet(d.actions)

\* Every uses: value has a place in their order and a class, a contract that is there is not one that is left
\* out, and a value has finitely many expressions.
ASSUME ValuesAssumption ==
  \A d \in Inputs :
    /\ \A w \in d.workflows : w.call # Malformed => {Identifier[k] : k \in Given(w.call, {})} # Absent
    /\ \A w \in d.workflows : w.jobs \notin {Absent, Malformed} =>
         \A k \in DOMAIN w.jobs :
           /\ w.jobs[k].uses \in Uses \cup {Absent}
           /\ \A i \in DOMAIN w.jobs[k].steps : w.jobs[k].steps[i].uses \in Uses \cup {Absent}
           /\ w.jobs[k].secrets \notin {Absent, Inherit, Malformed} =>
                \A n \in DOMAIN w.jobs[k].secrets : IsFiniteSet(w.jobs[k].secrets[n].expressions)
    /\ \A a \in d.actions : a.using = "composite" /\ a.steps # Malformed =>
         \A i \in DOMAIN a.steps : a.steps[i].uses \in Uses \cup {Absent}

\* config.Validate and the command line know the classifications and the profiles, no variable is without a name,
\* and a depth that is not above zero stands for the default.
ASSUME OptionsAssumption ==
  \A d \in Inputs :
    /\ d.options.profile \in Profile
    /\ \A k \in DOMAIN d.options.classifications : d.options.classifications[k] \in Classification
    /\ d.options.ignoreVariables \subseteq Name \ {""}
    /\ d.options.maxDepth \in Nat

VARIABLES
  docs,         \* the files of the repository and the configuration
  selection,    \* the profile that applies
  suppressed,   \* what was ignored and how often: a bag of items
  totalPaths,
  analyses      \* the assessment of each credential

vars == <<buildVars, docs, selection, suppressed, totalPaths, analyses>>

options == docs.options
-----------------------------------------------------------------------------
(***************************************************************************)
(* Local composite actions, as ingest finds them.                          *)
(***************************************************************************)
MetadataIn(dir) == {d \in docs.actions : d.dir = dir}
ActionIn(dir)   == parseActionMetadata(CHOOSE d \in MetadataIn(dir) : TRUE)

metadataStatus(dir) ==
  CASE MetadataIn(dir) = {}              -> "metadata_missing"
    [] Cardinality(MetadataIn(dir)) > 1  -> "metadata_ambiguous"
    [] \E d \in MetadataIn(dir) : MetadataIn(dir) = {d} /\ ActionFails(d) -> "malformed_metadata"
    [] OTHER -> IF ActionIn(dir).using = "composite" THEN "resolved_local_composite" ELSE "target_not_composite"

ActionStatus(u) ==
  CASE u.class = "expression" -> "unsupported_expression"
    [] u.class = "external"   -> "opaque_external"
    [] u.class = "docker"     -> "opaque_docker"
    [] u.class = "rejected"   -> "rejected_path"
    [] u.class = "local"      -> metadataStatus(u.target)


\* Jobs and steps that use an action: <<workflow, job, place>>.
UsingSteps(W) ==
  UNION {{<<x[1], x[2], i>> : i \in {k \in DOMAIN x[2].steps : x[2].steps[k].action # Absent}} : x \in JobsOf(W)}

ResolveSteps(W) ==
  LET Call(x) == LET u == x[2].steps[x[3]].action.uses IN
                 [workflow |-> x[1].file, job |-> x[2].id, step |-> x[3], raw |-> u.raw,
                  status |-> ActionStatus(u), dir |-> u.target]
  IN  {Call(x) : x \in UsingSteps(W)}

\* What the steps of a composite action call.
CallsIn(dir) ==
  LET steps == ActionIn(dir).steps IN
  {[parent |-> dir, step |-> i, status |-> ActionStatus(steps[i].action.uses), dir |-> steps[i].action.uses.target]
     : i \in {k \in DOMAIN steps : steps[k].action # Absent}}

DirsOf(calls) == {c.dir : c \in {x \in calls : x.status = "resolved_local_composite"}}

\* The composite actions that calls lead to, however deep.
CanonicalActions(calls) ==
  LET dirs == {dir \in {d.dir : d \in docs.actions} : metadataStatus(dir) = "resolved_local_composite"}
      grow[found \in SUBSET dirs] ==
        LET more == found \cup DirsOf(UNION {CallsIn(d) : d \in found})
        IN  IF more = found THEN found ELSE grow[more]
  IN  grow[DirsOf(calls)]
-----------------------------------------------------------------------------
(***************************************************************************)
(* ingest.Repository: one file that does not parse fails the analysis.     *)
(***************************************************************************)
IngestFails ==
  \/ \E d \in docs.workflows : WorkflowFails(d)
  \/ \E i \in DOMAIN docs.compose : ComposeFails(docs.compose[i])
  \/ ReportFails(docs.findings, options.pathPrefix)

\* domain.ParsedRepository, and what Analyze computes from it.
NoFiles ==
  [workflows |-> {}, compose |-> {}, findings |-> {}, stepCalls |-> {}, composites |-> {}, nestedCalls |-> {},
   calls |-> {}, flows |-> {}, nestedFlows |-> {}, ignoredVariables |-> {}, classifications |-> NoKeys]

Parsed(W, composites, stepCalls) ==
  [NoFiles EXCEPT !.workflows   = W,
                  !.compose     = {parseCompose(docs.compose[i]) : i \in DOMAIN docs.compose},
                  !.findings    = Findings(docs.findings),
                  !.stepCalls   = stepCalls,
                  !.composites  = composites,
                  !.nestedCalls = UNION {CallsIn(d) : d \in composites}]

Ingest ==
  LET W     == {parseWorkflow(d) : d \in docs.workflows}
      calls == ResolveSteps(W)
  IN  /\ phase = "ingest"
      /\ phase' = IF IngestFails THEN "failed" ELSE "ingested"
      /\ repo'  = IF IngestFails THEN repo ELSE Parsed(W, CanonicalActions(calls), calls)
      /\ UNCHANGED <<todo, graph, credentials, ignored, warnings, docs, selection, suppressed, totalPaths, analyses>>
-----------------------------------------------------------------------------
(***************************************************************************)
(* applyRepositoryIgnores.  A pattern of paths stands for the files that   *)
(* it matches; a finding is looked for by its ID, its rule, which is then  *)
(* written as a tuple like an ID, and its path.                            *)
(***************************************************************************)
HiddenPath(name) == name \in options.ignorePaths

HiddenFinding(f) == {f.id, <<f.rule>>} \cap options.ignoreFindings # {} \/ HiddenPath(f.path)

\* What is reported of a finding that is left out.
FindingItem(f) ==
  IF f.id \in options.ignoreFindings THEN <<"finding", f.id>>
  ELSE IF <<f.rule>> \in options.ignoreFindings THEN <<"finding", <<f.rule>>>> ELSE <<"path", f.path>>

\* The bag of the items that what is left out, each as <<item, element>>, is reported as.
Tally(left) == [i \in {x[1] : x \in left} |-> Cardinality({x \in left : x[1] = i})]

\* appendOrIncrement
Added(bag, more) ==
  [i \in DOMAIN bag \cup DOMAIN more |->
     (IF i \in DOMAIN bag THEN bag[i] ELSE 0) + (IF i \in DOMAIN more THEN more[i] ELSE 0)]

PathItem(d) == <<"path", d.file>>

Ignored(r) ==
  Added(Tally({<<PathItem(d), d>> : d \in {x \in r.workflows \cup r.compose : HiddenPath(x.file)}}),
        Tally({<<FindingItem(f), f>> : f \in {x \in r.findings : HiddenFinding(x)}}))

Kept(r) ==
  [r EXCEPT !.workflows = {w \in @ : ~HiddenPath(w.file)},
            !.compose   = {c \in @ : ~HiddenPath(c.file)},
            !.findings  = {f \in @ : ~HiddenFinding(f)}]

\* Compose files that are kept, in the order of their names.
ComposeFiles ==
  [i \in {x \in DOMAIN docs.compose : ~HiddenPath(docs.compose[x].file)} |-> parseCompose(docs.compose[i])]
-----------------------------------------------------------------------------
(***************************************************************************)
(* reusableworkflow.Resolve                                                *)
(***************************************************************************)
resolveCall(u, W) ==
  LET target == {w \in W : w.file = u.target} IN
  CASE u.class = "expression"             -> "unsupported_expression"
    [] u.class \in {"external", "docker"} -> "opaque_external"
    [] u.class = "rejected"               -> "rejected_path"
    [] u.class = "local" /\ target = {}   -> "target_missing"
    [] u.class = "local" /\ target # {}   ->
         IF \E w \in target : "workflow_call" \in w.triggers THEN "resolved_local" ELSE "target_not_reusable"

ResolveJobs(W) ==
  {[workflow |-> x[1].file, job |-> x[2].id, raw |-> x[2].uses.uses.raw,
    status |-> resolveCall(x[2].uses.uses, W), target |-> x[2].uses.uses.target]
   : x \in {y \in JobsOf(W) : y[2].uses # Absent}}
-----------------------------------------------------------------------------
(***************************************************************************)
(* compositeactionflow.Link and nestedcompositeactionflow.Link: a binding  *)
(* whose value is one mention of a secret, or of an input, and nothing     *)
(* else.                                                                   *)
(***************************************************************************)
Whole(t, context) ==
  t.bare /\ \E e \in t.expressions : t.expressions = {e} /\ Len(e) = 1 /\ Head(e).context = context
WholeName(t)      == Identifier[Head(CHOOSE e \in t.expressions : TRUE).member]

\* InternalUsages: the steps of the action in dir that read its input n.
InternalUsages(dir, n) ==
  LET steps == ActionIn(dir).steps IN
  {i \in DOMAIN steps : [kind |-> "action_input", name |-> n] \in steps[i].references}

Reads(dir, n) == n \in ActionIn(dir).inputs /\ InternalUsages(dir, n) # {}

FlowsOfStep(x, call) ==
  {[workflow |-> x[1].file, job |-> x[2].id, step |-> x[3], rootInput |-> b.name, path |-> <<>>,
    input |-> b.name, dir |-> call.dir, secret |-> WholeName(b.value), usages |-> InternalUsages(call.dir, b.name)]
   : b \in {c \in x[2].steps[x[3]].with : Reads(call.dir, c.name) /\ Whole(c.value, "secrets")}}

LinkSteps(r) ==
  LET Resolutions(x) ==
        {c \in r.stepCalls : /\ c.workflow = x[1].file /\ c.job = x[2].id /\ c.step = x[3]
                             /\ c = LastOf({d \in r.stepCalls : d.workflow = c.workflow /\ d.job = c.job /\ d.step = c.step})
                             /\ c.status = "resolved_local_composite"}
  IN  UNION {UNION {FlowsOfStep(x, c) : c \in Resolutions(x)} : x \in UsingSteps(r.workflows)}

\* The calls that lead to where a flow is, the action of the root step first.
Visited(f) == {f.dir} \cup {f.path[i].parent : i \in DOMAIN f.path}

\* One level further: the steps that read the flow's input and call an action with it.
Hops(r, f) ==
  LET calls == {c \in r.nestedCalls :
                  /\ c.parent = f.dir /\ c.step \in f.usages
                  /\ c.status = "resolved_local_composite" /\ c.dir \notin Visited(f)
                  /\ Len(f.path) + 2 <= MaxCompositeActionNestingDepth}
      With(c) == {b \in ActionIn(f.dir).steps[c.step].with :
                    Whole(b.value, "inputs") /\ WholeName(b.value) = f.input /\ Reads(c.dir, b.name)}
  IN  UNION {{[workflow |-> f.workflow, job |-> f.job, step |-> f.step, rootInput |-> f.rootInput,
               path |-> Append(f.path, [parent |-> f.dir, at |-> c.step, child |-> c.dir]),
               parent |-> f.dir, parentInput |-> f.input, at |-> c.step,
               input |-> b.name, dir |-> c.dir, secret |-> f.secret, usages |-> InternalUsages(c.dir, b.name)]
              : b \in With(c)} : c \in calls}

\* All flows that the root flows go on in.
LinkNested(r, roots) ==
  LET level[n \in 1 .. MaxCompositeActionNestingDepth] ==
        IF n = 1 THEN roots ELSE UNION {Hops(r, f) : f \in level[n - 1]}
  IN  UNION {level[n] : n \in 2 .. MaxCompositeActionNestingDepth}

\* FAULT: the names of ignored variables are taken as they are spelled.
AsSpelled(names) == names

IgnoredKeys(names) == {Upper[n] : n \in names}

(***************************************************************************)
(* The first half of analysis.Analyze: everything the builder is given.    *)
(***************************************************************************)
Prepare ==
  LET kept   == Kept(repo)
      linked == [kept EXCEPT !.calls = ResolveJobs(kept.workflows), !.flows = LinkSteps(kept)]
  IN  /\ phase = "ingested"
      /\ suppressed' = Ignored(repo)
      /\ selection' = Select(options.profile, kept.workflows, ComposeFiles)
      /\ repo' = [linked EXCEPT !.nestedFlows = LinkNested(linked, linked.flows),
                                !.ignoredVariables = IgnoredKeys(options.ignoreVariables),
                                !.classifications = options.classifications]
      /\ phase' = "canonical" /\ todo' = {"canonical"}
      /\ UNCHANGED <<graph, credentials, ignored, warnings, docs, totalPaths, analyses>>

Build == BuildNext /\ UNCHANGED <<docs, selection, suppressed, totalPaths, analyses>>
-----------------------------------------------------------------------------
(***************************************************************************)
(* graph.TraverseLimited, as module Traversal has it: every simple path of *)
(* walkable edges from a node that its budgets allow, a path at the depth  *)
(* not being followed further.                                             *)
(***************************************************************************)
OrDefault(n, default) == IF n > 0 THEN n ELSE default

maxDepth == OrDefault(options.maxDepth, DefaultMaxDepth)

Walkable(e) == e.kind \notin {"topology", "structural"} /\ {e.from, e.to} \subseteq DOMAIN nodes

NodesOn(start, p) == {start} \cup {p[i].to : i \in DOMAIN p}
EndOf(start, p)   == IF p = <<>> THEN start ELSE p[Len(p)].to
Spent(p, classes) == Cardinality({i \in DOMAIN p : p[i].class \in classes})
AtDepth(p)        == Spent(p, {"plain", "reusable"}) >= maxDepth

Onward(start, p) == {e \in edges : e.from = EndOf(start, p) /\ Walkable(e) /\ e.to \notin NodesOn(start, p)}

WithinHops(p) ==
  /\ Spent(p, {"reusable"}) <= MaxReusableWorkflowHops
  /\ Spent(p, {"crossing"}) <= MaxCompositeActionForwardingHops

Longer(start, p) ==
  IF p # <<>> /\ AtDepth(p) THEN {} ELSE {q \in {Append(p, e) : e \in Onward(start, p)} : WithinHops(q)}

Paths(start) ==
  LET grow[F \in SUBSET Seq(edges)] ==
        LET more == UNION {Longer(start, p) : p \in F} IN IF more = {} THEN {} ELSE more \cup grow[more]
  IN  grow[{<<>>}]

\* A path at the depth with an edge to a node it has not met.
Truncated(start, p) == AtDepth(p) /\ Onward(start, p) # {}
-----------------------------------------------------------------------------
(***************************************************************************)
(* The second half: one credential after the other.                        *)
(***************************************************************************)
Matched(affected)   == {r \in RuleId : affected[r] # {}}
Silenced            == options.disabled \cup options.ignoreRules

DirectOf(k) == {e \in edges : e.from = CredentialId(k)}

\* The rules that match and count, with the nodes they are about.
Assess(reach, direct) ==
  LET affected == Evaluate(reach, direct) IN Restrict(affected, Matched(affected) \ Silenced)

Analyzed(k, paths) ==
  LET reach    == UNION {NodesOn(CredentialId(k), p) : p \in paths \cup {<<>>}}
      affected == Assess(reach, DirectOf(k))
  IN  [reach        |-> reach,
       truncated    |-> \E p \in paths : Truncated(CredentialId(k), p),
       class        |-> Classify(k),
       result       |-> Calculate(affected, selection, ExpectedSecret(k)),
       remediations |-> removeRotation(k, Generate(k, DOMAIN affected)),
       reachable    |-> reachableCounts(reach)]

\* Matches that are reported as ignored, not those of rules that are disabled.
RuleItems(k, reach) ==
  LET matched == Matched(Evaluate(reach, DirectOf(k))) \ options.disabled IN
  [i \in {<<"rule", r>> : r \in matched \cap options.ignoreRules} |-> 1]

TooManyPaths(n) ==
  \/ n >= OrDefault(options.maxPaths, DefaultMaxEvidencePaths)
  \/ totalPaths + n > OrDefault(options.maxTotal, DefaultMaxTotalEvidencePaths)

AnalyzeCredential(k) ==
  LET paths == Paths(CredentialId(k))  n == Cardinality(paths) IN
  /\ phase = "built" /\ ~limitExceeded
  /\ k \in Known \ DOMAIN analyses
  /\ totalPaths' = totalPaths + n
  /\ \/ /\ TooManyPaths(n)
        /\ phase' = "failed"
        /\ UNCHANGED <<analyses, suppressed>>
     \/ /\ ~TooManyPaths(n)
        /\ analyses' = [x \in DOMAIN analyses \cup {k} |-> IF x = k THEN Analyzed(k, paths) ELSE analyses[x]]
        /\ suppressed' = Added(suppressed, RuleItems(k, Analyzed(k, paths).reach))
        /\ UNCHANGED phase
  /\ UNCHANGED <<repo, todo, graph, credentials, ignored, warnings, docs, selection>>

\* The graph is too large, or everything is analyzed.
Finish ==
  /\ phase = "built"
  /\ \/ limitExceeded /\ phase' = "failed" /\ UNCHANGED suppressed
     \/ /\ ~limitExceeded /\ Known = DOMAIN analyses
        /\ phase' = "done"
        /\ suppressed' = Added(suppressed, [i \in {<<"variable", k>> : k \in ignored} |-> 1])
  /\ UNCHANGED <<repo, todo, graph, credentials, ignored, warnings, docs, selection, totalPaths, analyses>>

Init ==
  /\ docs \in Inputs
  /\ repo = NoFiles
  /\ phase = "ingest" /\ todo = {}
  /\ NewBuilder
  /\ selection = "auto" /\ suppressed = NoKeys
  /\ totalPaths = 0 /\ analyses = NoKeys

Next ==
  \/ Ingest
  \/ Prepare
  \/ Build
  \/ \E k \in Name : AnalyzeCredential(k)
  \/ Finish

Spec == Init /\ [][Next]_vars
-----------------------------------------------------------------------------
(***************************************************************************)
(* The score stays within its scale, whatever the rules add up to, and the *)
(* severity and the confidence are ones the report knows.                  *)
(***************************************************************************)
Phase == {"ingest", "ingested", "built", "done", "failed"} \cup DOMAIN NextPhase

TypeOK ==
  /\ phase \in Phase
  /\ selection \in Profile
  /\ DOMAIN analyses \subseteq Known
  /\ \A k \in DOMAIN analyses :
       /\ analyses[k].class \in Classification
       /\ analyses[k].result.score \in 0 .. 100
       /\ analyses[k].result.severity \in Severity
       /\ \A r \in DOMAIN analyses[k].result.contributions : analyses[k].result.contributions[r] \in Nat
-----------------------------------------------------------------------------
\* Entries of the report that no later one with the same ID replaces, by their names in the graph.
Leaks         == {i \in DOMAIN docs.findings :
                    ~\E k \in DOMAIN docs.findings : k > i /\ FindingIdOf(docs.findings[k]) = FindingIdOf(docs.findings[i])}
Leak(i)       == convert(docs.findings[i])
Unnamed(i)    == {Leak(i).id, <<Leak(i).rule>>} \cap options.ignoreFindings = {}
Leaked        == {Upper[Leak(i).label] : i \in {x \in Leaks : Unnamed(x) /\ Leak(x).path \notin options.ignorePaths}}

(***************************************************************************)
(* Rotation (REM001) is recommended exactly for the credentials that a     *)
(* scanner has found, where that finding and its rule count: not for one   *)
(* that is a secret by its name, nor for one that merely reaches a finding *)
(* of another credential.                                                  *)
(***************************************************************************)
RotationIsFounded ==
  \A k \in DOMAIN analyses :
    "REM001" \in analyses[k].remediations <=>
      "CRD101" \notin Silenced /\ k \in Leaked
-----------------------------------------------------------------------------
(***************************************************************************)
(* Less evidence never makes a credential riskier, and neither does a less *)
(* exposed deployment: the score without any one of the nodes reached, and *)
(* under a milder profile, is no higher.                                   *)
(***************************************************************************)
Milder == <<"local", "ci", "auto", "staging", "production">>

ScoreOf(k, reach, profile) ==
  Calculate(Assess(reach, {e \in DirectOf(k) : e.to \in reach}), profile, ExpectedSecret(k)).score

ScoreIsMonotone ==
  phase = "done" =>
    \A k \in DOMAIN analyses :
      LET reach == analyses[k].reach IN
      /\ \A n \in reach \ {CredentialId(k)} : ScoreOf(k, reach \ {n}, selection) <= analyses[k].result.score
      /\ \A i \in 1 .. Len(Milder) - 1 : ScoreOf(k, reach, Milder[i]) <= ScoreOf(k, reach, Milder[i + 1])
-----------------------------------------------------------------------------
(***************************************************************************)
(* What the files say.  A value names the secret that its expressions open *)
(* with, by the key that all spellings of a name share.                    *)
(***************************************************************************)
KeyOf(n) == Upper[Identifier[n]]
SecretsIn(texts) ==
  {KeyOf(Head(e).member) : e \in {x \in UNION {t.expressions : t \in texts} : Head(x).context = "secrets"}} \ {""}
ValuesOf(m) == IF m = Absent THEN {} ELSE {m[k] : k \in DOMAIN m}

KeptWorkflows == {d \in docs.workflows : d.file \notin options.ignorePaths}
KeptCompose   == {docs.compose[i] : i \in {x \in DOMAIN docs.compose : docs.compose[x].file \notin options.ignorePaths}}

StepValues(s) == ValuesOf(s.env) \cup ValuesOf(s.with) \cup s.other \cup ({s.run} \ {Absent})

\* Everything a job may say, its call included.
JobValues(j) ==
  ValuesOf(j.env) \cup ValuesOf(j.with) \cup ValuesOf(j.outputs) \cup j.other
  \cup (IF j.secrets \in {Absent, Inherit} THEN {} ELSE ValuesOf(j.secrets))
  \cup UNION {StepValues(j.steps[i]) : i \in DOMAIN j.steps}

MentionedIn(d) ==
  SecretsIn(ValuesOf(d.env) \cup UNION {JobValues(d.jobs[k]) : k \in DOMAIN d.jobs})

\* A service has the variables it is given, or else those of the same name, and its secrets.
ServiceHas(s) ==
  LET env == IF s.environment = Absent THEN NoKeys ELSE s.environment
  IN  {KeyOf(n) : n \in (UNION {IF env[k] = {} THEN {k} ELSE env[k] : k \in DOMAIN env})
                        \cup (IF s.secrets = Absent THEN {} ELSE s.secrets)}

IgnoredKey(k) == \E n \in options.ignoreVariables : Upper[n] = k

(***************************************************************************)
(* What the configuration ignores has no part in the result and is listed, *)
(* with how often it was met, and nothing else is: a file and a finding by *)
(* what the configuration names first, a variable once under the name that *)
(* its spellings share, a rule for each credential it was left out of.     *)
(***************************************************************************)
PathHits(p) ==
  Cardinality({d \in docs.workflows : d.file = p})
  + Cardinality({i \in DOMAIN docs.compose : docs.compose[i].file = p})
  + Cardinality({i \in Leaks : Leak(i).path = p /\ Unnamed(i)})
ListedPaths == [i \in {<<"path", p>> : p \in {x \in options.ignorePaths : PathHits(x) > 0}} |-> PathHits(i[2])]

FindingHits(x) == {i \in Leaks : Leak(i).id = x \/ (<<Leak(i).rule>> = x /\ Leak(i).id \notin options.ignoreFindings)}
ListedFindings ==
  [i \in {<<"finding", x>> : x \in {y \in options.ignoreFindings : FindingHits(y) # {}}} |-> Cardinality(FindingHits(i[2]))]

MetAnywhere ==
  Leaked \cup (UNION {MentionedIn(d) : d \in KeptWorkflows})
  \cup UNION {UNION {ServiceHas(c.services[k]) : k \in DOMAIN c.services} : c \in KeptCompose}
ListedVariables == [i \in {<<"variable", k>> : k \in {x \in MetAnywhere : IgnoredKey(x)}} |-> 1]

Listed(kind) == Restrict(suppressed, {i \in DOMAIN suppressed : i[1] = kind})

SuppressionsAreReported ==
  phase = "done" =>
    /\ Listed("path") = ListedPaths
    /\ Listed("finding") = ListedFindings
    /\ Listed("variable") = ListedVariables
    /\ \A i \in DOMAIN Listed("rule") : i[2] \in options.ignoreRules /\ suppressed[i] \in 1 .. Cardinality(DOMAIN analyses)
    /\ \A k \in DOMAIN analyses : ~IgnoredKey(k) /\ DOMAIN analyses[k].result.contributions \cap Silenced = {}
    /\ \A n \in DOMAIN nodes : n[1] \in {"workflow", "job", "step", "service"} => n[2] \notin options.ignorePaths
-----------------------------------------------------------------------------
(***************************************************************************)
(* Who has a credential, as the files say it.  A step, <<workflow, job,    *)
(* place>>, has what it names itself, and the environments of its job and  *)
(* its workflow; a service, <<file, name>>, has what ServiceHas says.      *)
(***************************************************************************)
StepsAt    == UNION {UNION {{<<d, k, i>> : i \in DOMAIN d.jobs[k].steps} : k \in DOMAIN d.jobs} : d \in KeptWorkflows}
ServicesAt == UNION {{<<c, k>> : k \in DOMAIN c.services} : c \in KeptCompose}

StepOf(x)  == x[1].jobs[x[2]].steps[x[3]]
StepHas(x) ==
  LET j == x[1].jobs[x[2]] IN
  SecretsIn(StepValues(StepOf(x)) \cup ValuesOf(j.env) \cup (IF j.uses = Absent THEN ValuesOf(x[1].env) ELSE {}))

\* The mention of a context that a value is, if it is nothing else.
Alone(t, context) ==
  {Head(e) : e \in {x \in t.expressions : t.bare /\ t.expressions = {x} /\ Len(x) = 1 /\ Head(x).context = context}}

(***************************************************************************)
(* The steps of a local composite action that read an input it declares,   *)
(* and whether a uses: value names such an action.                         *)
(***************************************************************************)
Runs(u) == /\ u # Absent /\ u.class = "local"
           /\ \E d \in docs.actions : MetadataIn(u.target) = {d} /\ d.using = "composite" /\ ~ActionFails(d)

TheAction(dir) == CHOOSE d \in docs.actions : d.dir = dir

Reading(dir, n) ==
  {i \in DOMAIN TheAction(dir).steps :
     /\ n # "" /\ \E k \in Given(TheAction(dir).inputs, {}) : Identifier[k] = n
     /\ \E t \in StepValues(TheAction(dir).steps[i]) :
          \E e \in t.expressions : Head(e).context = "inputs" /\ Identifier[Head(e).member] = n}

(***************************************************************************)
(* An action is handed s in an input by a step of a workflow, or by a step *)
(* of an action that reads it, as it is, down to the nesting that is       *)
(* followed and never back to an action on the way.                        *)
(***************************************************************************)
With(x) == Given(x.with, NoKeys)

HandedByStep(s, x) ==
  {[file |-> x[1].file, job |-> Identifier[x[2]], step |-> x[3], root |-> Identifier[k], chain |-> <<>>,
    dir |-> StepOf(x).uses.target, input |-> Identifier[k]] :
     k \in {n \in DOMAIN With(StepOf(x)) :
              /\ Reading(StepOf(x).uses.target, Identifier[n]) # {}
              /\ \E m \in Alone(With(StepOf(x))[n], "secrets") : KeyOf(m.member) = s}}

HandedByAction(h, i) ==
  LET a == TheAction(h.dir).steps[i] IN
  IF /\ Runs(a.uses) /\ Len(h.chain) + 2 <= MaxCompositeActionNestingDepth
     /\ a.uses.target \notin {h.dir} \cup {h.chain[c][1] : c \in DOMAIN h.chain}
  THEN {[h EXCEPT !.chain = Append(h.chain, <<h.dir, i>>), !.dir = a.uses.target, !.input = Identifier[k]] :
          k \in {n \in DOMAIN With(a) : /\ Reading(a.uses.target, Identifier[n]) # {}
                                        /\ \E m \in Alone(With(a)[n], "inputs") : Identifier[m.member] = h.input}}
  ELSE {}

HandedDown(s) ==
  LET level[n \in 1 .. MaxCompositeActionNestingDepth] ==
        IF n = 1 THEN UNION {HandedByStep(s, x) : x \in {y \in StepsAt : Runs(StepOf(y).uses)}}
        ELSE UNION {UNION {HandedByAction(h, i) : i \in Reading(h.dir, h.input)} : h \in level[n - 1]}
  IN  UNION {level[n] : n \in 1 .. MaxCompositeActionNestingDepth}

Readers(h) == {<<"usage", h.file, h.job, h.step, h.root, h.chain, h.dir, h.input, i>> : i \in Reading(h.dir, h.input)}

(***************************************************************************)
(* A job hands a secret to the workflow it calls under an alias that this  *)
(* one declares, if something of that name is known from the workflows or  *)
(* the scanner.                                                            *)
(***************************************************************************)
KnownAliases == {k \in Leaked \cup UNION {MentionedIn(d) : d \in KeptWorkflows} : k # "" /\ ~IgnoredKey(k)}

NamesIn(t) == {Identifier[Head(e).member] : e \in {x \in t.expressions : Head(x).context = "secrets"}} \ {""}

\* Job j hands s on as a.
HandsOn(j, s, a) ==
  /\ j.secrets \notin {Absent, Inherit} /\ j.uses # Absent /\ j.uses.class = "local"
  /\ \E n \in DOMAIN j.secrets :
       /\ KeyOf(n) = a
       /\ \E m \in NamesIn(j.secrets[n]) : NamesIn(j.secrets[n]) = {m} /\ Upper[m] = s
       /\ \E t \in KeptWorkflows : /\ t.file = j.uses.target /\ "workflow_call" \in Given(t.on, {})
                                   /\ \E c \in Given(t.call, {}) : Identifier[c] = Identifier[n]

HandedOn(s) == {a \in KnownAliases \ {s} : \E d \in KeptWorkflows : \E k \in DOMAIN d.jobs : HandsOn(d.jobs[k], s, a)}

\* What s is called after at most that many calls.
Aliases(s) ==
  LET after[n \in 0 .. MaxReusableWorkflowHops] ==
        IF n = 0 THEN {s} ELSE after[n - 1] \cup UNION {HandedOn(a) : a \in after[n - 1]}
  IN  after[MaxReusableWorkflowHops]

Holders(s) ==
  {<<"step", x[1].file, Identifier[x[2]], x[3]>> : x \in {y \in StepsAt : s \in StepHas(y)}}
  \cup {<<"service", x[1].file, Identifier[x[2]]>> : x \in {y \in ServicesAt : s \in ServiceHas(y[1].services[y[2]])}}
  \cup UNION {Readers(h) : h \in HandedDown(s)}

\* The same, as the analysis has it.
Places(reach) ==
  {<<"step", n[2], n[4], n[5]>> : n \in {x \in reach : x[1] = "step"}}
  \cup {<<"service", n[2], n[3]>> : n \in {x \in reach : x[1] = "service"}}
  \cup {<<"usage", n[2][1], n[2][2], n[2][3], n[2][4],
          [i \in DOMAIN n[3] |-> <<n[3][i].parent, n[3][i].at>>], n[4], n[5], n[6]>>
        : n \in {x \in reach : x[1] = "usage"}}

(***************************************************************************)
(* A credential reaches the steps, services and steps of actions that the  *)
(* files hand it to, under its own name or another, and no others: a step  *)
(* that is missing hides what the secret can do, one too many accuses a    *)
(* step that never sees it.  A walk cut at its depth may miss some, and    *)
(* jobs of one file whose names come out the same are not told apart.      *)
(***************************************************************************)
JobsApart == \A d \in KeptWorkflows : \A k, l \in DOMAIN d.jobs : Identifier[k] = Identifier[l] => k = l

ReachIsExact ==
  phase = "done" /\ JobsApart =>
    \A k \in DOMAIN analyses :
      LET found == Places(analyses[k].reach)
          held  == UNION {Holders(a) : a \in Aliases(k)}
      IN  found \subseteq held /\ (analyses[k].truncated \/ found = held)
=============================================================================
