------------------------------ MODULE GraphBuild ------------------------------
(***************************************************************************)
(* The evidence graph of a repository (internal/graph: BuildWithOptions).  *)
(* It is built in phases, each over one list of what the parsers, the      *)
(* resolvers and the linkers returned.  Within a phase the order is left   *)
(* open: todo holds the items of the phase that are still to come.         *)
(*                                                                         *)
(* An identity is the tuple that the code hashes (stableID), its type      *)
(* first.  nodes maps an identity to the metadata that is not part of it.  *)
(* An edge stands for all the edges of the code that differ in locations   *)
(* and wording only; why keeps the two types of evidence that a rule asks  *)
(* for.                                                                    *)
(***************************************************************************)
EXTENDS Documents

CONSTANTS
  Upper,      \* strings.ToUpper, on names
  ProductionEnvironment,  \* names that contain "prod" or "release"
  MaxNodes,   \* DefaultMaxGraphNodes, 10000 in the code
  MaxEdges    \* DefaultMaxGraphEdges, 50000

ASSUME UpperAssumption ==
  Upper \in [Name -> Name] /\ \A n \in Name : Upper[Upper[n]] = Upper[n] /\ (Upper[n] = "" <=> n = "")
ASSUME GraphLimitsAssumption == MaxNodes \in Nat /\ MaxEdges \in Nat

VARIABLES
  repo,           \* what the builder is given
  phase, todo,
  nodes, edges,
  credentials,    \* the uses of credentials, by key
  ignored,        \* keys of ignored variables that were met
  warnings,
  limitExceeded

graph == <<nodes, edges, limitExceeded>>
buildVars == <<repo, phase, todo, nodes, edges, credentials, ignored, warnings, limitExceeded>>

CallStatus ==
  {"unsupported_expression", "opaque_external", "opaque_docker", "rejected_path", "target_missing",
   "target_not_reusable", "resolved_local", "metadata_missing", "metadata_ambiguous",
   "malformed_metadata", "target_not_composite", "resolved_local_composite"}

\* The call of a job or a step: raw orders the calls of one caller.
LastOf(calls) == CHOOSE c \in calls : \A d \in calls : d.raw <= c.raw
-----------------------------------------------------------------------------
(***************************************************************************)
(* Identities.                                                             *)
(***************************************************************************)
RepositoryId       == <<"repository">>
FileId(f)          == <<"file", f>>
FindingId(f)       == <<"finding", f.id>>
CredentialId(k)    == <<"credential", k>>
WorkflowId(w)      == <<"workflow", w.file, w.name>>
JobId(w, j)        == <<"job", w.file, w.name, j.id>>
TriggerId(w, t)    == <<"trigger", w.file, w.name, t>>
EnvironmentId(w, j) == <<"environment", w.file, j.environment>>
ReusableId(w, j)   == <<"reusable", w.file, w.name, j.id, j.uses.uses.raw>>
StepId(w, j, i)    == <<"step", w.file, w.name, j.id, i, j.steps[i].label>>
ActionId(w, j, i)  == <<"action", w.file, w.name, j.id, i, j.steps[i].label, j.steps[i].action.uses.raw>>
CompositeId(d)     == <<"composite", d>>
ServiceId(c, s)    == <<"service", c.file, s.name>>
PortId(c, s, p)    == <<"port", c.file, s.name, p.published, p.target, p.host>>
VolumeId(c, s, v)  == <<"volume", c.file, s.name, v.source, v.target, v.type>>
ComposeSecretId(c, n) == <<"composesecret", c.file, n>>
EnvFileId(c, p)    == <<"envfile", c.file, p>>

\* owner is <<>> for the workflow's own permissions, <<job>> for a job's.
PermissionId(w, owner, p) == <<"permission", w.file, w.name, owner, p.scope, p.level>>

(***************************************************************************)
(* What one call binds is a node of its own, and so is each step of the    *)
(* called action that reads it: root names the step and the input of the   *)
(* workflow, path the calls from the action it names down to this one.     *)
(***************************************************************************)
RootOf(f)        == <<f.workflow, f.job, f.step, f.rootInput>>
BindingId(f)     == <<"binding", RootOf(f), f.path, f.input>>
UsageId(f, i)    == <<"usage", RootOf(f), f.path, f.dir, f.input, i>>

\* nestedParentUsageNodeID: the step of the parent that makes the call.
ParentUsageId(f) ==
  <<"usage", RootOf(f), SubSeq(f.path, 1, Len(f.path) - 1), f.parent, f.parentInput, f.at>>
-----------------------------------------------------------------------------
(***************************************************************************)
(* What an operation of the builder adds: nodes, edges, and uses of        *)
(* credentials, those of ignored variables included.                       *)
(***************************************************************************)
Nothing == [nodes |-> {}, edges |-> {}, uses |-> {}]
Join(pieces) == [nodes |-> UNION {p.nodes : p \in pieces},
                 edges |-> UNION {p.edges : p \in pieces},
                 uses  |-> UNION {p.uses : p \in pieces}]
When(condition, p) == IF condition THEN p ELSE Nothing

Tags(condition, tag) == IF condition THEN {tag} ELSE {}

addNode(id, traits) == [nodes |-> {[id |-> id, traits |-> traits]}, edges |-> {}, uses |-> {}]

defaultEvidenceKind(type) ==
  CASE type \in {"depends_on", "network_reachable"} -> "topology"
    [] type \in {"exposes_port", "mounts_volume", "reads_env_file", "has_permission", "triggered_by",
                 "uses_environment", "runs_action", "calls_workflow", "detected_in", "belongs_to"} -> "exposure"
    [] OTHER -> "confirmed"

EdgeOf(from, to, type, kind, why, class) ==
  [from |-> from, to |-> to, type |-> type, kind |-> kind, why |-> why, class |-> class]

Drawn(E) == [nodes |-> {}, edges |-> E, uses |-> {}]

addTypedEdge(from, to, type, kind) == Drawn({EdgeOf(from, to, type, kind, "", "plain")})
addEdge(from, to, type)            == addTypedEdge(from, to, type, defaultEvidenceKind(type))

CredentialKind == {"secret", "compose_variable", "compose_secret"}

UseOf(r) == [key |-> Upper[r.name], kind |-> r.kind, finding |-> FALSE, fixture |-> FALSE]

\* A use that b.credential turns into a node.
Credited(u) == u.key # "" /\ u.key \notin repo.ignoredVariables

\* The node of a credential, and edges that begin there.
credential(u, out) ==
  [nodes |-> IF Credited(u) THEN {[id |-> CredentialId(u.key), traits |-> {}]} ELSE {},
   edges |-> IF Credited(u) THEN out ELSE {},
   uses  |-> {u}]

\* The credentials among refs, each with an edge to a node.
reference(refs, to, type, kind, why) ==
  Join({credential(UseOf(r), {EdgeOf(CredentialId(Upper[r.name]), to, type, kind, why, "plain")}) :
          r \in {x \in refs : x.kind \in CredentialKind}})

file(f) == addNode(FileId(f), {})
-----------------------------------------------------------------------------
(***************************************************************************)
(* Workflows.                                                              *)
(***************************************************************************)
permission(parent, w, owner, p) ==
  Join({addNode(PermissionId(w, owner, p), {}),
        addEdge(parent, PermissionId(w, owner, p), "has_permission")})

CallsOf(w, j) == {c \in repo.calls : c.workflow = w.file /\ c.job = j.id}

\* The zero DirectCall if the resolver has none.
CallOf(w, j) == IF CallsOf(w, j) = {} THEN [status |-> "unknown", target |-> ""] ELSE LastOf(CallsOf(w, j))

Resolved(w, j)  == CallOf(w, j).status = "resolved_local"
TargetsOf(w, j) == {t \in repo.workflows : Resolved(w, j) /\ t.file = CallOf(w, j).target}

reusableWorkflowCall(w, j) ==
  Join({addNode(ReusableId(w, j), Tags(~Resolved(w, j), "unresolved")),
        addEdge(JobId(w, j), ReusableId(w, j), "calls_workflow")}
       \cup {addTypedEdge(ReusableId(w, j), WorkflowId(t), "calls_workflow", "structural") : t \in TargetsOf(w, j)})

StepCallsOf(w, j, i) == {c \in repo.stepCalls : c.workflow = w.file /\ c.job = j.id /\ c.step = i}

\* The composite action that a step runs, if it is a local one with a node.
CompositeOf(w, j, i) ==
  {d \in repo.composites : /\ StepCallsOf(w, j, i) # {}
                           /\ LastOf(StepCallsOf(w, j, i)).status = "resolved_local_composite"
                           /\ LastOf(StepCallsOf(w, j, i)).dir = d}

compositeActionCall(w, j, i) ==
  Join({addTypedEdge(ActionId(w, j, i), CompositeId(d), "runs_action", "structural") : d \in CompositeOf(w, j, i)})

\* References whose name the step's shell mentions as well.
InShell(s) == {r \in s.references : \E q \in s.run : q.kind \in CredentialKind /\ q.name = r.name}

step(w, j, i) ==
  LET s == j.steps[i]
      a == s.action
  IN  Join({addNode(StepId(w, j, i), {}),
            addEdge(StepId(w, j, i), JobId(w, j), "belongs_to"),
            reference(InShell(s), StepId(w, j, i), "referenced_by_process", "confirmed", "shell"),
            reference(s.references \ InShell(s), StepId(w, j, i), "explicitly_forwarded_to", "confirmed", "step"),
            When(a # Absent,
                 Join({addNode(ActionId(w, j, i), Tags(a.thirdParty, "third_party") \cup Tags(a.mutable, "mutable")),
                       addEdge(StepId(w, j, i), ActionId(w, j, i), "runs_action"),
                       compositeActionCall(w, j, i)}))})

\* FAULT: the workflow's environment does not reach the steps.
JobScopeOnly(w, j) == j.env

\* A reusable workflow does not inherit the environment of its caller.
Inherited(w, j)  == IF j.uses = Absent THEN w.env ELSE {}
Propagated(w, j) == Inherited(w, j) \cup j.env

job(w, j) ==
  Join({addEdge(JobId(w, j), WorkflowId(w), "belongs_to"),
        reference(j.references, JobId(w, j), "configured_in", "exposure", "job"),
        reference(j.env, JobId(w, j), "explicitly_forwarded_to", "confirmed", "environment"),
        reference(Inherited(w, j), JobId(w, j), "available_to_process", "confirmed", "environment"),
        reference(j.outputs, JobId(w, j), "explicitly_forwarded_to", "confirmed", "job_output"),
        When(j.uses # Absent, reusableWorkflowCall(w, j)),
        When(j.environment # "",
             Join({addNode(EnvironmentId(w, j), Tags(j.environment \in ProductionEnvironment, "production_like")),
                   addEdge(JobId(w, j), EnvironmentId(w, j), "uses_environment")}))}
       \cup {addEdge(JobId(w, j), JobId(w, n), "depends_on") : n \in {x \in w.jobs : x.id \in j.needs}}
       \cup {permission(JobId(w, j), w, <<j.id>>, p) : p \in j.permissions}
       \cup {Join({step(w, j, i),
                   reference(Propagated(w, j), StepId(w, j, i), "available_to_process", "confirmed", "environment")})
             : i \in DOMAIN j.steps})

workflow(w) ==
  Join({file(w.file),
        addEdge(FileId(w.file), RepositoryId, "detected_in"),
        addNode(WorkflowId(w), Tags(w.missingPermissions, "missing_permissions")),
        addEdge(WorkflowId(w), FileId(w.file), "detected_in"),
        reference(w.references, WorkflowId(w), "configured_in", "exposure", "workflow"),
        reference(w.env, WorkflowId(w), "configured_in", "confirmed", "environment")}
       \cup {addNode(TriggerId(w, t), {}) : t \in w.triggers}
       \cup {addEdge(WorkflowId(w), TriggerId(w, t), "triggered_by") : t \in w.triggers}
       \cup {permission(WorkflowId(w), w, <<>>, p) : p \in w.permissions}
       \cup {addNode(JobId(w, j), {}) : j \in w.jobs}
       \cup {job(w, j) : j \in w.jobs})
-----------------------------------------------------------------------------
(***************************************************************************)
(* Findings, input flows, Compose.                                         *)
(***************************************************************************)
\* A finding of an ignored variable is left out, file and all.
finding(f) ==
  LET u == [key |-> Upper[f.label], kind |-> "", finding |-> TRUE, fixture |-> f.fixture] IN
  Join({credential(u, {}),
        When(Credited(u),
             Join({addNode(FindingId(f), {}),
                   addEdge(CredentialId(u.key), FindingId(f), "detected_in"),
                   When(f.path # "",
                        Join({file(f.path),
                              addEdge(FindingId(f), FileId(f.path), "detected_in"),
                              addEdge(FileId(f.path), RepositoryId, "detected_in")}))}))})

\* An input flow of a step: the credential, its binding, and the action's steps that read it.
compositeActionInputFlow(f) ==
  LET u == UseOf([kind |-> "secret", name |-> f.secret]) IN
  Join({credential(u, {}),
        When(Credited(u),
             Join({addNode(BindingId(f), {}),
                   addTypedEdge(CredentialId(u.key), BindingId(f), "explicitly_forwarded_to", "confirmed")}
                  \cup {addNode(UsageId(f, i), {}) : i \in f.usages}
                  \cup {addTypedEdge(BindingId(f), UsageId(f, i), "explicitly_forwarded_to", "confirmed")
                        : i \in f.usages}))})

nestedFlowNodes(f) ==
  Join({addNode(BindingId(f), {})} \cup {addNode(UsageId(f, i), {}) : i \in f.usages})

nestedFlowEdges(f) ==
  Drawn({EdgeOf(ParentUsageId(f), BindingId(f), "explicitly_forwarded_to", "confirmed", "", "crossing")}
        \cup {EdgeOf(BindingId(f), UsageId(f, i), "explicitly_forwarded_to", "confirmed", "", "within") : i \in f.usages})

shareComposeNetwork(s, t) == s.networks \cap t.networks # {} \/ s.networks \cup t.networks = {}

\* Of two mounts with one identity the first counts.
MountsOf(s) == {i \in DOMAIN s.volumes :
                 \A k \in 1 .. i - 1 : LET v == s.volumes[i]  u == s.volumes[k]
                                       IN  <<u.source, u.target, u.type>> # <<v.source, v.target, v.type>>}

volume(c, s, v) ==
  Join({addNode(VolumeId(c, s, v), Tags(v.dockerSocket, "docker_socket")
                                   \cup Tags(WritableHostBind(v), "writable_host_bind")),
        addEdge(ServiceId(c, s), VolumeId(c, s, v), "mounts_volume")})

service(c, s) ==
  LET At == ServiceId(c, s) IN
  Join({addNode(At, s.traits),
        addEdge(At, FileId(c.file), "detected_in"),
        reference({r \in s.references : r.kind # "compose_secret"}, At, "available_to_service", "confirmed", "compose"),
        reference({r \in s.references : r.kind = "compose_secret"}, At, "mounted_as_secret", "confirmed", "compose")}
       \cup {addNode(PortId(c, s, p), {}) : p \in s.ports}
       \cup {addEdge(At, PortId(c, s, p), "exposes_port") : p \in s.ports}
       \cup {volume(c, s, s.volumes[i]) : i \in MountsOf(s)}
       \cup {addNode(ComposeSecretId(c, n), {}) : n \in s.secrets}
       \cup {addTypedEdge(ComposeSecretId(c, n), At, "mounted_as_secret", "confirmed") : n \in s.secrets}
       \cup {addNode(EnvFileId(c, p), {}) : p \in s.envFiles}
       \cup {addEdge(At, EnvFileId(c, p), "reads_env_file") : p \in s.envFiles}
       \cup {addEdge(At, ServiceId(c, t), "depends_on") : t \in {x \in c.services : x.name \in s.dependsOn}}
       \cup {addEdge(At, ServiceId(c, t), "network_reachable") :
               t \in {x \in c.services : x # s /\ shareComposeNetwork(s, x)}})

compose(c) ==
  Join({file(c.file), addEdge(FileId(c.file), RepositoryId, "detected_in")}
       \cup {service(c, s) : s \in c.services})
-----------------------------------------------------------------------------
(***************************************************************************)
(* The builder.                                                            *)
(***************************************************************************)
\* addNode: the metadata a node was created with stays.
Extended(more) ==
  [x \in DOMAIN nodes \cup {n.id : n \in more} |->
     IF x \in DOMAIN nodes THEN nodes[x] ELSE (CHOOSE n \in more : n.id = x).traits]

AtMost(S, n) == IsFiniteSet(S) /\ Cardinality(S) <= n

WithinLimits(more, e) ==
  ~limitExceeded /\ AtMost(DOMAIN Extended(more), MaxNodes) /\ AtMost(edges \cup e, MaxEdges)

\* Past a limit the analysis fails: what is still recorded plays no part.
AddToGraph(p) ==
  \/ /\ WithinLimits(p.nodes, p.edges)
     /\ nodes' = Extended(p.nodes)
     /\ edges' = edges \cup p.edges
     /\ UNCHANGED limitExceeded
  \/ /\ ~WithinLimits(p.nodes, p.edges)
     /\ limitExceeded' = TRUE
     /\ UNCHANGED <<nodes, edges>>

\* b.ignored
Met(uses) == {u.key : u \in uses} \cap repo.ignoredVariables

\* What every action that adds p does, with the warnings of its own.
Put(p, more) ==
  /\ AddToGraph(p)
  /\ credentials' = credentials \cup {u \in p.uses : Credited(u)}
  /\ ignored' = ignored \cup Met(p.uses)
  /\ warnings' = warnings \cup more \cup Tags(\E u \in p.uses : u.key = "", <<"empty_name">>)

Do(item, p, more) == todo' = todo \ {item} /\ Put(p, more) /\ UNCHANGED <<repo, phase>>

ActionableStatus == {"rejected_path", "metadata_missing", "metadata_ambiguous", "malformed_metadata"}

CallWarnings(calls) == {<<"composite", c.workflow, c.job, c.step, c.status>> :
                          c \in {x \in calls : x.status \in ActionableStatus}}

\* canonicalCompositeActionNodes, and the node of the repository.
AddCanonicalNodes ==
  /\ phase = "canonical" /\ todo # {}
  /\ Do("canonical", Join({addNode(CompositeId(d), {}) : d \in repo.composites}
                          \cup {addNode(RepositoryId, {})}), {})

AddFinding(f) == phase = "findings" /\ f \in todo /\ Do(f, finding(f), {})

StepCallsIn(w) ==
  {LastOf(StepCallsOf(w, x[1], x[2])) :
     x \in {y \in w.jobs \X UNION {DOMAIN j.steps : j \in w.jobs} :
              y[2] \in DOMAIN y[1].steps /\ y[1].steps[y[2]].action # Absent /\ StepCallsOf(w, y[1], y[2]) # {}}}

AddWorkflow(w) == phase = "workflows" /\ w \in todo /\ Do(w, workflow(w), CallWarnings(StepCallsIn(w)))

\* singleSecretReference: a value that mentions one secret.
SecretsOf(b) == {r \in b.references : r.kind = "secret"}
Single(b)    == Cardinality(SecretsOf(b)) = 1
SourceOf(b)  == UseOf(CHOOSE r \in SecretsOf(b) : TRUE)

Known == {u.key : u \in credentials}

\* The alias is looked up among all the credentials there are.
forwardReusableWorkflowSecret(b) ==
  LET u == SourceOf(b)  alias == Upper[b.name] IN
  When(Single(b) /\ alias \in Known,
       credential(u, IF u.key = alias THEN {}
                     ELSE {EdgeOf(CredentialId(u.key), CredentialId(alias), "explicitly_forwarded_to",
                                  "confirmed", "", "reusable")}))

\* Callee's contract, where the call resolves to one.
Declared(w, j, b) == \E t \in TargetsOf(w, j) : t.call # Absent /\ b.name \in t.call
HasContract(w, j) == \E t \in TargetsOf(w, j) : t.call # Absent

\* propagateReusableWorkflowSecrets
ForwardSecrets(w, j) ==
  /\ phase = "forwarding" /\ <<w, j>> \in todo
  /\ Do(<<w, j>>,
        Join({forwardReusableWorkflowSecret(b) : b \in {x \in j.secrets : Declared(w, j, x)}}),
        {<<"undeclared_alias", w.file, j.id, b.name>> :
           b \in {x \in j.secrets : HasContract(w, j) /\ ~Declared(w, j, x)}})

\* emitReusableSecretsInheritDiagnostics
ReportInherit(w, j) ==
  /\ phase = "inherit" /\ <<w, j>> \in todo
  /\ Do(<<w, j>>, Nothing, Tags(j.inherit, <<"inherit", w.file, j.id, CallOf(w, j).status>>))

AddInputFlow(f) == phase = "flows" /\ f \in todo /\ Do(f, compositeActionInputFlow(f), {})

\* The first pass, which looks nothing up.
AddNestedNodes(f) == phase = "nested_nodes" /\ f \in todo /\ Do(f, nestedFlowNodes(f), {})

\* FAULT: the step that makes the call is taken to be in the graph.
AssumesParent(f) == TRUE

HasParent(f) == ParentUsageId(f) \in DOMAIN nodes

\* The second pass.
AddNestedEdges(f) ==
  phase = "nested_edges" /\ f \in todo /\ Do(f, When(HasParent(f), nestedFlowEdges(f)), {})

nestedCompositeActionCall(c) ==
  When(c.status = "resolved_local_composite" /\ {c.parent, c.dir} \subseteq repo.composites,
       addTypedEdge(CompositeId(c.parent), CompositeId(c.dir), "runs_action", "structural"))

AddNestedCall(c) ==
  /\ phase = "calls" /\ c \in todo
  /\ Do(c, nestedCompositeActionCall(c),
        Tags(c.status \in ActionableStatus, <<"nested", c.parent, c.step, c.status>>))

AddCompose(c) == phase = "compose" /\ c \in todo /\ Do(c, compose(c), {})

NextPhase ==
  [canonical |-> "findings", findings |-> "workflows", workflows |-> "forwarding",
   forwarding |-> "inherit", inherit |-> "flows", flows |-> "nested_nodes",
   nested_nodes |-> "nested_edges", nested_edges |-> "calls", calls |-> "compose", compose |-> "built"]

JobsOf(W) == {x \in W \X UNION {w.jobs : w \in W} : x[2] \in x[1].jobs}

ItemsOf(p) ==
  CASE p = "canonical" -> {"canonical"}
    [] p = "findings"  -> repo.findings
    [] p = "workflows" -> repo.workflows
    [] p \in {"forwarding", "inherit"} -> JobsOf(repo.workflows)
    [] p = "flows"     -> repo.flows
    [] p \in {"nested_nodes", "nested_edges"} -> repo.nestedFlows
    [] p = "calls"     -> repo.nestedCalls
    [] p = "compose"   -> repo.compose
    [] OTHER -> {}

NextList ==
  /\ phase \in DOMAIN NextPhase /\ todo = {}
  /\ phase' = NextPhase[phase]
  /\ todo' = ItemsOf(phase')
  /\ UNCHANGED <<repo, graph, credentials, ignored, warnings>>

\* build
BuildNext ==
  \/ AddCanonicalNodes
  \/ \E i \in todo :
       \/ AddFinding(i) \/ AddWorkflow(i)
       \/ AddInputFlow(i) \/ AddNestedNodes(i) \/ AddNestedEdges(i)
       \/ AddNestedCall(i) \/ AddCompose(i)
  \/ \E x \in JobsOf(repo.workflows) : ForwardSecrets(x[1], x[2]) \/ ReportInherit(x[1], x[2])
  \/ NextList

NewBuilder ==
  /\ nodes = NoKeys /\ edges = {} /\ limitExceeded = FALSE
  /\ credentials = {} /\ ignored = {} /\ warnings = {}
-----------------------------------------------------------------------------
(***************************************************************************)
(* An edge leads from a node to a node of the graph.  Only the call of a   *)
(* local workflow may be drawn before its target: traversal drops an edge  *)
(* that ends nowhere without a word, so a target that never comes, or a    *)
(* nested flow whose parent was left out with an ignored variable, would   *)
(* be a silent hole in the evidence.                                       *)
(***************************************************************************)
Pending == IF phase = "workflows" THEN {WorkflowId(w) : w \in todo} ELSE {}

EdgesJoinNodes ==
  ~limitExceeded =>
    \A e \in edges : {e.from, e.to} \subseteq DOMAIN nodes \cup Pending
=============================================================================
