------------------------------ MODULE Documents ------------------------------
(***************************************************************************)
(* What the parsers make of the files of a repository                      *)
(* (internal/parsers/githubactions and internal/parsers/compose): the      *)
(* records of internal/domain/parsed.go that the later stages read.        *)
(*                                                                         *)
(* A document is the YAML tree as far as the parsers look at it.  A value  *)
(* that is left out is Absent, one whose shape the parser refuses (a list  *)
(* where it wants a mapping, a duplicate key, a word where it wants a      *)
(* truth value) is Malformed, and a mapping is a function on its keys.     *)
(* Evidence (file, line, field, wording) is left out, and so are the       *)
(* signals, which are evidence under another name.                         *)
(***************************************************************************)
EXTENDS Integers, Sequences, FiniteSets

CONSTANTS
  Absent,           \* a value that is left out
  Malformed,        \* one the parser refuses
  Inherit,          \* the scalar "inherit" as the value of a job's secrets
  Key,              \* keys and names as files spell them
  Name,             \* what sanitizer.Identifier makes of them
  Identifier,       \* that function
  ProductionLike    \* names that contain "prod", and such

ASSUME KeywordAssumption == Cardinality({Absent, Malformed, Inherit}) = 3
ASSUME NameAssumption    == Identifier \in [Key -> Name] /\ "" \in Name

Given(x, default) == IF x = Absent THEN default ELSE x

NoKeys    == [k \in {} |-> {}]
Values(m) == {m[k] : k \in DOMAIN m}

\* Two keys, or one, that the identifiers do not tell apart or do not show.
Collides(m) ==
  \/ \E k \in DOMAIN m : Identifier[k] = ""
  \/ \E k, l \in DOMAIN m : k # l /\ Identifier[k] = Identifier[l]

(***************************************************************************)
(* A scalar, by the expressions ${{ ... }} in it; it is bare if it is      *)
(* nothing but one of them.  An expression is the mentions context.member  *)
(* in it, in order; one that opens with anything else (a call, a literal)  *)
(* has a first mention of the context "call".                              *)
(***************************************************************************)
Context == {"secrets", "env", "inputs", "github", "call"}
Mention == [context : Context, member : Key]
Text    == [expressions : SUBSET Seq(Mention), bare : BOOLEAN]

ReferenceKind ==
  {"secret", "environment", "action_input", "github_context", "compose_variable", "compose_secret"}
Reference == [kind : ReferenceKind, name : Name]

\* Contexts other than secrets and env keep their own name; no stage reads it.
extractReferences(t) ==
  LET KindOf(m) == CASE m.context = "secrets" -> "secret"
                     [] m.context = "env"     -> "environment"
                     [] OTHER                 -> "github_context"
      Heads == {Head(e) : e \in t.expressions}
  IN  {[kind |-> KindOf(m), name |-> Identifier[m.member]] :
         m \in {x \in Heads : x.context # "call" /\ Identifier[x.member] # ""}}

\* In an action's metadata inputs are inputs and secrets are nothing special.
extractActionReferences(t) ==
  LET KindOf(m) == CASE m.context = "inputs" -> "action_input"
                     [] m.context = "env"    -> "environment"
                     [] OTHER                -> "github_context"
      Heads == {Head(e) : e \in t.expressions}
  IN  {[kind |-> KindOf(m), name |-> Identifier[m.member]] :
         m \in {x \in Heads : x.context # "call" /\ Identifier[x.member] # ""}}

References(texts)       == UNION {extractReferences(t) : t \in texts}
ActionReferences(texts) == UNION {extractActionReferences(t) : t \in texts}

Binding     == [name : Name, value : Text, references : SUBSET Reference]
Bindings(m) == {[name |-> Identifier[k], value |-> m[k], references |-> extractReferences(m[k])] :
                  k \in DOMAIN m}
-----------------------------------------------------------------------------
(***************************************************************************)
(* A uses: value.  raw is its place in the order of all such texts, class  *)
(* how the resolvers see it, target the file or directory it then names.   *)
(***************************************************************************)
UsesClass == {"expression", "external", "docker", "rejected", "local"}
Uses == [raw : Nat, class : UsesClass, target : STRING,
         owner : {"none", "official", "other"}, pinned : BOOLEAN]

ActionReference == [uses : Uses, thirdParty : BOOLEAN, mutable : BOOLEAN]

\* A path that is refused may well read as owner/repository.
classifyAction(u) ==
  LET remote == u.class \notin {"local", "docker"} IN
  [uses       |-> u,
   thirdParty |-> remote /\ u.owner = "other",
   mutable    |-> remote /\ ~u.pinned]

\* No action is one that is left out, and no value that names one.
ASSUME AbsentAssumption == Absent \notin Uses \cup ActionReference

Action(u) == IF u = Absent THEN Absent ELSE classifyAction(u)
-----------------------------------------------------------------------------
(***************************************************************************)
(* Workflows.                                                              *)
(***************************************************************************)
Level      == {"read", "write", "write-all", "none"}
Permission == [scope : STRING, level : Level]

\* A scalar is one level for the scope "all".
parsePermissions(p) == Given(p, {})

\* The scalars below a step; id, shell and such are in "other".
StepTexts(d) ==
  Values(Given(d.env, NoKeys)) \cup Values(Given(d.with, NoKeys)) \cup d.other
  \cup (IF d.run = Absent THEN {} ELSE {d.run})

parseStep(d) ==
  [label      |-> d.name,
   action     |-> Action(d.uses),
   run        |-> IF d.run = Absent THEN {} ELSE extractReferences(d.run),
   with       |-> Bindings(Given(d.with, NoKeys)),
   references |-> References(StepTexts(d))]

\* parseWorkflowStepInputBindings refuses keys that normalise to one name.
StepFails(d) ==
  \/ d.with = Malformed \/ d.env = Malformed
  \/ d.with # Absent /\ Collides(d.with)

\* The scalars below a job.
JobTexts(d) ==
  Values(Given(d.env, NoKeys)) \cup Values(Given(d.outputs, NoKeys)) \cup d.other
  \cup Values(Given(d.with, NoKeys))
  \cup (IF d.secrets \in {Absent, Inherit} THEN {} ELSE Values(d.secrets))
  \cup UNION {StepTexts(d.steps[i]) : i \in DOMAIN d.steps}

Mentioned(m) == UNION {b.references : b \in Bindings(Given(m, NoKeys))}

parseJob(k, d) ==
  [id          |-> Identifier[k],
   needs       |-> {Identifier[n] : n \in d.needs},
   permissions |-> parsePermissions(d.permissions),
   env         |-> Mentioned(d.env),
   environment |-> Given(d.environment, ""),
   uses        |-> Action(d.uses),
   secrets     |-> IF d.secrets \in {Absent, Inherit} THEN {} ELSE Bindings(d.secrets),
   inherit     |-> d.secrets = Inherit,
   outputs     |-> Mentioned(d.outputs),
   steps       |-> [i \in DOMAIN d.steps |-> parseStep(d.steps[i])],
   references  |-> References(JobTexts(d))]

\* secrets is a mapping or the word "inherit"; any other scalar is Malformed.
JobFails(d) ==
  \/ Malformed \in {d.permissions, d.env, d.environment, d.with, d.secrets, d.outputs}
  \/ \E i \in DOMAIN d.steps : StepFails(d.steps[i])

\* on.workflow_call.secrets by name; Absent without that trigger.
parseWorkflowCallContract(d) ==
  IF "workflow_call" \in Given(d.on, {}) THEN {Identifier[k] : k \in Given(d.call, {})} ELSE Absent

collectWorkflowReferences(env, jobs) == env \cup UNION {j.references : j \in jobs}

parseWorkflow(d) ==
  LET env  == Mentioned(d.env)
      jobs == {parseJob(k, d.jobs[k]) : k \in DOMAIN d.jobs}
  IN  [file        |-> d.file,
       name        |-> IF d.name = "" THEN d.file ELSE d.name,
       triggers    |-> Given(d.on, {}),
       call        |-> parseWorkflowCallContract(d),
       missingPermissions |-> d.permissions = Absent,
       permissions |-> parsePermissions(d.permissions),
       env         |-> env,
       jobs        |-> jobs,
       references  |-> collectWorkflowReferences(env, jobs)]

WorkflowFails(d) ==
  \/ Malformed \in {d.on, d.call, d.permissions, d.env, d.jobs}
  \/ d.jobs = Absent
  \/ \E k \in DOMAIN d.jobs : JobFails(d.jobs[k])
-----------------------------------------------------------------------------
(***************************************************************************)
(* Action metadata.  The steps of an action that is not composite are not  *)
(* looked at.                                                              *)
(***************************************************************************)
parseActionStep(d) ==
  [action     |-> Action(d.uses),
   with       |-> {[name |-> Identifier[k], value |-> d.with[k]] : k \in DOMAIN Given(d.with, NoKeys)},
   references |-> ActionReferences(StepTexts(d))]

\* Unlike a workflow's, an action's with: may repeat an identifier.
ActionStepFails(d) ==
  \/ d.with = Malformed \/ d.env = Malformed
  \/ d.uses # Absent /\ d.run # Absent

parseActionMetadata(d) ==
  [dir    |-> d.dir,
   using  |-> d.using,
   inputs |-> {Identifier[k] : k \in Given(d.inputs, {})},
   steps  |-> IF d.using = "composite" THEN [i \in DOMAIN d.steps |-> parseActionStep(d.steps[i])]
              ELSE <<>>]

ActionFails(d) ==
  \/ d.name = "" \/ d.using = ""
  \/ d.inputs = Malformed
  \/ d.inputs # Absent /\ \E k, l \in d.inputs : k # l /\ Identifier[k] = Identifier[l]
  \/ d.using = "composite" /\ d.steps = Malformed
  \/ d.using = "composite" /\ \E i \in DOMAIN d.steps : ActionStepFails(d.steps[i])
-----------------------------------------------------------------------------
(***************************************************************************)
(* Compose files.  A value is the set of names it mentions as ${NAME} or   *)
(* ${NAME:-...}.                                                           *)
(***************************************************************************)
ComposeVariable(n) == [kind |-> "compose_variable", name |-> n]
ComposeSecret(n)   == [kind |-> "compose_secret", name |-> n]

\* A value that mentions no variable stands for the variable of its own name.
EnvironmentReferences(k, mentioned) ==
  IF mentioned = {} THEN {ComposeVariable(Identifier[k])}
  ELSE {ComposeVariable(Identifier[n]) : n \in mentioned}

collectServiceReferences(d) ==
  LET env == Given(d.environment, NoKeys) IN
  {r \in (UNION {EnvironmentReferences(k, env[k]) : k \in DOMAIN env})
         \cup {ComposeSecret(Identifier[k]) : k \in Given(d.secrets, {})} : r.name # ""}

\* target is all a port needs; host is "" unless the file binds an address.
Port   == [published : STRING, target : STRING, host : STRING]
Volume == [source : STRING, target : STRING, type : STRING, readOnly : BOOLEAN,
           hostPath : BOOLEAN, dockerSocket : BOOLEAN]

HostBind(v)         == v.type = "bind" \/ v.hostPath
WritableHostBind(v) == HostBind(v) /\ ~v.readOnly

explicitRootUser(u) == u \in {"root", "0"}

parseService(k, d) ==
  [name       |-> Identifier[k],
   references |-> collectServiceReferences(d),
   secrets    |-> {Identifier[s] : s \in Given(d.secrets, {})},
   envFiles   |-> Given(d.envFiles, {}),
   ports      |-> Given(d.ports, {}),
   networks   |-> Given(d.networks, {}),
   volumes    |-> Given(d.volumes, <<>>),
   dependsOn  |-> Given(d.dependsOn, {}),
   traits     |-> (IF Given(d.privileged, FALSE) THEN {"privileged"} ELSE {})
             \cup (IF d.networkMode = "host" THEN {"host_network"} ELSE {})
             \cup (IF d.user = Absent THEN {} ELSE {"user_specified"})
             \cup (IF d.user # Absent /\ explicitRootUser(d.user) THEN {"root"} ELSE {})
             \cup (IF ({k} \cup Given(d.profiles, {})) \cap ProductionLike = {} THEN {}
                   ELSE {"production_like"})]

\* A port needs a target.
ServiceFails(d) ==
  \/ Malformed \in {d.environment, d.envFiles, d.secrets, d.ports, d.networks, d.volumes,
                    d.privileged, d.dependsOn, d.profiles}
  \/ \E p \in Given(d.ports, {}) : p.target = ""

parseCompose(d) ==
  [file |-> d.file, services |-> {parseService(k, d.services[k]) : k \in DOMAIN d.services}]

ComposeFails(d) ==
  \/ d.services \in {Absent, Malformed}
  \/ Malformed \in {d.secrets, d.networks}
  \/ \E k \in DOMAIN d.services : ServiceFails(d.services[k])
=============================================================================
