--------------------------- MODULE GraphBuildProofs ---------------------------
(***************************************************************************)
(* Every operation of the builder keeps the edges of the graph between its *)
(* nodes (GraphBuild.EdgesJoinNodes), for every repository and every       *)
(* limit.                                                                  *)
(*                                                                         *)
(* The operations are put together from pieces, so the proof goes piece by *)
(* piece: a piece is Within a set of identities if its edges are, and      *)
(* Backed if it brings a node for each credential that it uses.  A whole   *)
(* of such pieces is such a piece (JoinWithin, JoinBacked).  What is left  *)
(* for each operation is to name where the ends of its own edges come      *)
(* from: itself, the operation it is part of, or an earlier phase, which   *)
(* is what the inductive invariant BuildInv keeps track of.                *)
(*                                                                         *)
(* In the same way the findings are followed: the operation of a finding   *)
(* brings the use and the edge that belong to it, and all others are Quiet *)
(* about findings (FindingsFound).  What an operation names and the files  *)
(* it is about are followed to the variables that are met (VariablesMet).  *)
(* Last, the edges that lead from a credential to who has it are exactly   *)
(* those that the items of the lists call for (LedInv).                    *)
(***************************************************************************)
EXTENDS GraphBuild, FiniteSetTheorems, TLAPS

Ids(p)       == {n.id : n \in p.nodes}
Within(p, K) == \A e \in p.edges : e.from \in K /\ e.to \in K
Backed(p)    == \A u \in p.uses : Credited(u) => CredentialId(u.key) \in Ids(p)
-----------------------------------------------------------------------------
(***************************************************************************)
(* The pieces.                                                             *)
(***************************************************************************)
LEMMA JoinIds == \A P : \A p \in P : Ids(p) \subseteq Ids(Join(P))
  BY DEF Ids, Join

LEMMA JoinWithin == \A P, K : (\A p \in P : Within(p, K)) => Within(Join(P), K)
  BY DEF Within, Join

LEMMA JoinBacked == \A P : (\A p \in P : Backed(p)) => Backed(Join(P))
<1> SUFFICES ASSUME NEW P, \A p \in P : Backed(p), NEW u \in Join(P).uses, Credited(u)
             PROVE  CredentialId(u.key) \in Ids(Join(P))
  BY DEF Backed
<1>1. PICK p \in P : u \in p.uses
  BY DEF Join
<1>2. CredentialId(u.key) \in Ids(p)
  BY <1>1 DEF Backed
<1> QED BY <1>2, JoinIds

LEMMA Whens == \A c, p, K : /\ (c => Within(p, K)) => Within(When(c, p), K)
                            /\ (c => Backed(p)) => Backed(When(c, p))
                            /\ c => When(c, p) = p
  BY DEF When, Within, Backed, Nothing

LEMMA Nodes == \A i, t, K : /\ Ids(addNode(i, t)) = {i}
                            /\ Within(addNode(i, t), K)
                            /\ Backed(addNode(i, t))
  BY DEF addNode, Ids, Within, Backed

LEMMA NodeOf == \A P, i, t : addNode(i, t) \in P => i \in Ids(Join(P))
  BY Nodes, JoinIds

LEMMA TypedEdges == \A a, b, y, k : /\ Backed(addTypedEdge(a, b, y, k))
                                    /\ \A K : {a, b} \subseteq K => Within(addTypedEdge(a, b, y, k), K)
<1> SUFFICES ASSUME NEW a, NEW b, NEW y, NEW k
             PROVE  /\ Backed(addTypedEdge(a, b, y, k))
                    /\ \A K : {a, b} \subseteq K => Within(addTypedEdge(a, b, y, k), K)
  OBVIOUS
<1>1. /\ addTypedEdge(a, b, y, k).edges = {EdgeOf(a, b, y, k, "", "plain")}
      /\ addTypedEdge(a, b, y, k).uses = {}
  BY DEF addTypedEdge, Drawn
<1>2. EdgeOf(a, b, y, k, "", "plain").from = a /\ EdgeOf(a, b, y, k, "", "plain").to = b
  BY DEF EdgeOf
<1> QED BY <1>1, <1>2 DEF Within, Backed

LEMMA TypedWithin == \A a, b, y, k, K : a \in K /\ b \in K => Within(addTypedEdge(a, b, y, k), K)
  BY TypedEdges

LEMMA PlainEdges == \A a, b, y : Backed(addEdge(a, b, y))
  BY TypedEdges DEF addEdge

LEMMA PlainWithin == \A a, b, y, K : a \in K /\ b \in K => Within(addEdge(a, b, y), K)
  BY TypedWithin DEF addEdge

LEMMA Credentials == \A u, out : /\ Backed(credential(u, out))
                                 /\ Credited(u) => CredentialId(u.key) \in Ids(credential(u, out))
  BY DEF credential, Backed, Ids

LEMMA CredentialWithin == \A u, K : Within(credential(u, {}), K)
  BY DEF credential, Within

\* The node a credential is referenced from, and the credential's own, are all that a reference needs.
LEMMA ReferenceParts ==
  ASSUME NEW refs, NEW to, NEW y, NEW k, NEW why
  PROVE  /\ Backed(reference(refs, to, y, k, why))
         /\ \A K : to \in K /\ Ids(reference(refs, to, y, k, why)) \subseteq K
                     => Within(reference(refs, to, y, k, why), K)
<1> DEFINE One(r) == credential(UseOf(r), {EdgeOf(CredentialId(Upper[r.name]), to, y, k, why, "plain")})
           P == {One(r) : r \in {x \in refs : x.kind \in CredentialKind}}
<1>1. reference(refs, to, y, k, why) = Join(P)
  BY DEF reference
<1>2. ASSUME NEW r PROVE Backed(One(r))
  BY Credentials
<1>3. ASSUME NEW r, NEW K, to \in K, Ids(One(r)) \subseteq K PROVE Within(One(r), K)
  <2> SUFFICES ASSUME NEW e \in One(r).edges PROVE e.from \in K /\ e.to \in K
    BY DEF Within
  <2>1. Credited(UseOf(r)) /\ e = EdgeOf(CredentialId(Upper[r.name]), to, y, k, why, "plain")
    BY DEF credential
  <2>2. CredentialId(UseOf(r).key) \in Ids(One(r))
    BY <2>1, Credentials
  <2>3. UseOf(r).key = Upper[r.name]
    BY DEF UseOf
  <2> QED BY <1>3, <2>1, <2>2, <2>3 DEF EdgeOf
<1> HIDE DEF One
<1>4. Backed(Join(P))
  BY <1>2, JoinBacked
<1>5. ASSUME NEW K, to \in K, Ids(Join(P)) \subseteq K PROVE Within(Join(P), K)
  <2>1. \A p \in P : Within(p, K)
    BY <1>3, <1>5, JoinIds
  <2> QED BY <2>1, JoinWithin
<1> QED BY <1>1, <1>4, <1>5

LEMMA ReferenceWithin ==
  \A refs, to, y, k, why, K :
    to \in K /\ Ids(reference(refs, to, y, k, why)) \subseteq K => Within(reference(refs, to, y, k, why), K)
  BY ReferenceParts

LEMMA ReferenceBacked == \A refs, to, y, k, why : Backed(reference(refs, to, y, k, why))
  BY ReferenceParts

LEMMA Files == \A f, K : Ids(file(f)) = {FileId(f)} /\ Within(file(f), K) /\ Backed(file(f))
  BY Nodes DEF file
-----------------------------------------------------------------------------
(***************************************************************************)
(* Workflows.                                                              *)
(***************************************************************************)
Actions == {CompositeId(d) : d \in repo.composites}
Targets == {WorkflowId(t) : t \in repo.workflows}

LEMMA StepParts ==
  ASSUME NEW w, NEW j, NEW i
  PROVE  /\ Backed(step(w, j, i))
         /\ StepId(w, j, i) \in Ids(step(w, j, i))
         /\ \A K : /\ Ids(step(w, j, i)) \subseteq K
                   /\ JobId(w, j) \in K
                   /\ Actions \subseteq K
                   => Within(step(w, j, i), K)
<1> DEFINE s == j.steps[i]
           t == Tags(s.action.thirdParty, "third_party") \cup Tags(s.action.mutable, "mutable")
           shell  == reference(InShell(s), StepId(w, j, i), "referenced_by_process", "confirmed", "shell")
           others == reference(s.references \ InShell(s), StepId(w, j, i),
                               "explicitly_forwarded_to", "confirmed", "step")
           A == {addNode(ActionId(w, j, i), t), addEdge(StepId(w, j, i), ActionId(w, j, i), "runs_action"),
                 compositeActionCall(w, j, i)}
           P == {addNode(StepId(w, j, i), {}), addEdge(StepId(w, j, i), JobId(w, j), "belongs_to"),
                 shell, others, When(s.action # Absent, Join(A))}
<1>1. step(w, j, i) = Join(P)
  BY DEF step
<1>2. Backed(compositeActionCall(w, j, i))
  BY TypedEdges, JoinBacked DEF compositeActionCall
<1>3. Backed(Join(A))
  <2>1. \A p \in A : Backed(p)
    BY <1>2, Nodes, PlainEdges
  <2> QED BY <2>1, JoinBacked
<1>4. \A p \in P : Backed(p)
  BY <1>3, Nodes, PlainEdges, ReferenceBacked, Whens
<1>5. StepId(w, j, i) \in Ids(Join(P))
  BY Nodes, JoinIds
<1>6. ASSUME NEW K, Ids(Join(P)) \subseteq K, JobId(w, j) \in K, Actions \subseteq K
      PROVE  Within(Join(P), K)
  <2>1. Within(shell, K) /\ Within(others, K)
    BY <1>5, <1>6, JoinIds, ReferenceWithin
  <2>2. ASSUME s.action # Absent PROVE Within(Join(A), K)
    <3>1. ActionId(w, j, i) \in K
      <4>1. Ids(When(s.action # Absent, Join(A))) \subseteq K
        BY <1>6, JoinIds
      <4>2. When(s.action # Absent, Join(A)) = Join(A)
        BY <2>2, Whens
      <4>3. ActionId(w, j, i) \in Ids(Join(A))
        BY Nodes, JoinIds
      <4> QED BY <4>1, <4>2, <4>3
    <3>2. \A d \in CompositeOf(w, j, i) : CompositeId(d) \in K
      BY <1>6 DEF Actions, CompositeOf
    <3>3. Within(compositeActionCall(w, j, i), K)
      <4>1. \A d \in CompositeOf(w, j, i) :
              Within(addTypedEdge(ActionId(w, j, i), CompositeId(d), "runs_action", "structural"), K)
        BY <3>1, <3>2, TypedWithin
      <4> QED BY <4>1, JoinWithin DEF compositeActionCall
    <3>4. Within(addEdge(StepId(w, j, i), ActionId(w, j, i), "runs_action"), K)
      BY <1>5, <1>6, <3>1, PlainWithin
    <3>5. \A p \in A : Within(p, K)
      BY <3>3, <3>4, Nodes
    <3> QED BY <3>5, JoinWithin
  <2>3. Within(When(s.action # Absent, Join(A)), K)
    BY <2>2, Whens
  <2>4. Within(addEdge(StepId(w, j, i), JobId(w, j), "belongs_to"), K)
    BY <1>5, <1>6, PlainWithin
  <2>5. \A p \in P : Within(p, K)
    BY <2>1, <2>3, <2>4, Nodes
  <2> QED BY <2>5, JoinWithin
<1> QED BY <1>1, <1>4, <1>5, <1>6, JoinBacked

LEMMA ReusableCallParts ==
  ASSUME NEW w, NEW j
  PROVE  /\ Backed(reusableWorkflowCall(w, j))
         /\ \A K : /\ Ids(reusableWorkflowCall(w, j)) \subseteq K
                   /\ JobId(w, j) \in K
                   /\ Targets \subseteq K
                   => Within(reusableWorkflowCall(w, j), K)
<1> DEFINE target(t) == addTypedEdge(ReusableId(w, j), WorkflowId(t), "calls_workflow", "structural")
           own == {addNode(ReusableId(w, j), Tags(~Resolved(w, j), "unresolved")),
                   addEdge(JobId(w, j), ReusableId(w, j), "calls_workflow")}
           P == own \cup {target(t) : t \in TargetsOf(w, j)}
<1>1. reusableWorkflowCall(w, j) = Join(P)
  BY DEF reusableWorkflowCall
<1>2. \A p \in P : Backed(p)
  BY Nodes, PlainEdges, TypedEdges
<1>3. ASSUME NEW K, Ids(Join(P)) \subseteq K, JobId(w, j) \in K, Targets \subseteq K
      PROVE  Within(Join(P), K)
  <2>1. ReusableId(w, j) \in K
    <3>1. addNode(ReusableId(w, j), Tags(~Resolved(w, j), "unresolved")) \in P
      OBVIOUS
    <3> QED BY <1>3, <3>1, NodeOf
  <2>2. \A t \in TargetsOf(w, j) : WorkflowId(t) \in K
    BY <1>3 DEF Targets, TargetsOf
  <2>3. \A p \in own : Within(p, K)
    BY <1>3, <2>1, Nodes, PlainWithin
  <2>4. \A t \in TargetsOf(w, j) : Within(target(t), K)
    BY <2>1, <2>2, TypedWithin
  <2> QED BY <2>3, <2>4, JoinWithin
<1> QED BY <1>1, <1>2, <1>3, JoinBacked

LEMMA PermissionParts ==
  ASSUME NEW parent, NEW w, NEW owner, NEW p
  PROVE  /\ Backed(permission(parent, w, owner, p))
         /\ \A K : /\ Ids(permission(parent, w, owner, p)) \subseteq K
                   /\ parent \in K
                   => Within(permission(parent, w, owner, p), K)
<1> DEFINE At == PermissionId(w, owner, p)
           P == {addNode(At, {}), addEdge(parent, At, "has_permission")}
<1>1. permission(parent, w, owner, p) = Join(P)
  BY DEF permission
<1>2. \A q \in P : Backed(q)
  BY Nodes, PlainEdges
<1>3. ASSUME NEW K, Ids(Join(P)) \subseteq K, parent \in K PROVE Within(Join(P), K)
  <2>1. At \in K
    BY <1>3, Nodes, JoinIds
  <2>2. \A q \in P : Within(q, K)
    BY <1>3, <2>1, Nodes, PlainWithin
  <2> QED BY <2>2, JoinWithin
<1> QED BY <1>1, <1>2, <1>3, JoinBacked

LEMMA JobParts ==
  ASSUME NEW w, NEW j
  PROVE  /\ Backed(job(w, j))
         /\ \A K : /\ Ids(job(w, j)) \subseteq K
                   /\ JobId(w, j) \in K
                   /\ \A n \in w.jobs : JobId(w, n) \in K
                   /\ WorkflowId(w) \in K
                   /\ Actions \subseteq K /\ Targets \subseteq K
                   => Within(job(w, j), K)
<1> DEFINE At == JobId(w, j)
           inherited(i) == reference(Propagated(w, j), StepId(w, j, i),
                                     "available_to_process", "confirmed", "environment")
           both(i) == {step(w, j, i), inherited(i)}
           R == {reference(j.references, At, "configured_in", "exposure", "job"),
                 reference(j.env, At, "explicitly_forwarded_to", "confirmed", "environment"),
                 reference(Inherited(w, j), At, "available_to_process", "confirmed", "environment"),
                 reference(j.outputs, At, "explicitly_forwarded_to", "confirmed", "job_output")}
           call == reusableWorkflowCall(w, j)
           E == {addNode(EnvironmentId(w, j), Tags(j.environment \in ProductionEnvironment, "production_like")),
                 addEdge(At, EnvironmentId(w, j), "uses_environment")}
           O == {addEdge(At, WorkflowId(w), "belongs_to"),
                 When(j.uses # Absent, call), When(j.environment # "", Join(E))}
           D == {addEdge(At, JobId(w, n), "depends_on") : n \in {x \in w.jobs : x.id \in j.needs}}
           M == {permission(At, w, <<j.id>>, p) : p \in j.permissions}
           S == {Join(both(i)) : i \in DOMAIN j.steps}
           P == R \cup O \cup D \cup M \cup S
<1>1. job(w, j) = Join(P)
  <2>1. job(w, j) =
          Join({addEdge(At, WorkflowId(w), "belongs_to"),
                reference(j.references, At, "configured_in", "exposure", "job"),
                reference(j.env, At, "explicitly_forwarded_to", "confirmed", "environment"),
                reference(Inherited(w, j), At, "available_to_process", "confirmed", "environment"),
                reference(j.outputs, At, "explicitly_forwarded_to", "confirmed", "job_output"),
                When(j.uses # Absent, call),
                When(j.environment # "", Join(E))} \cup D \cup M \cup S)
    BY DEF job
  <2> HIDE DEF At, E, call, D, M, S
  <2>2. {addEdge(At, WorkflowId(w), "belongs_to"),
         reference(j.references, At, "configured_in", "exposure", "job"),
         reference(j.env, At, "explicitly_forwarded_to", "confirmed", "environment"),
         reference(Inherited(w, j), At, "available_to_process", "confirmed", "environment"),
         reference(j.outputs, At, "explicitly_forwarded_to", "confirmed", "job_output"),
         When(j.uses # Absent, call),
         When(j.environment # "", Join(E))} \cup D \cup M \cup S = P
    OBVIOUS
  <2> QED BY <2>1, <2>2
<1>2. \A p \in P : Backed(p)
  <2>1. \A i : Backed(Join(both(i)))
    BY StepParts, ReferenceBacked, JoinBacked
  <2>2. Backed(Join(E))
    BY Nodes, PlainEdges, JoinBacked
  <2>3. \A p \in O : Backed(p)
    <3>1. Backed(call)
      BY ReusableCallParts
    <3>2. Backed(When(j.uses # Absent, call)) /\ Backed(When(j.environment # "", Join(E)))
      BY <2>2, <3>1, Whens
    <3> QED BY <3>2, PlainEdges
  <2>4. \A p \in D : Backed(p)
    BY PlainEdges
  <2>5. \A p \in M : Backed(p)
    BY PermissionParts
  <2>6. \A p \in R : Backed(p)
    BY ReferenceBacked
  <2> QED BY <2>1, <2>3, <2>4, <2>5, <2>6
<1>3. ASSUME NEW K, Ids(Join(P)) \subseteq K, At \in K, \A n \in w.jobs : JobId(w, n) \in K,
             WorkflowId(w) \in K, Actions \subseteq K, Targets \subseteq K
      PROVE  Within(Join(P), K)
  <2>0. \A p \in P : Ids(p) \subseteq K
    BY <1>3, JoinIds
  <2>1. \A p \in R : Within(p, K)
    <3>1. \A p \in R : Ids(p) \subseteq K
      BY <2>0
    <3>2. At \in K
      BY <1>3
    <3> HIDE DEF At, P
    <3> QED BY <3>1, <3>2, ReferenceWithin
  <2>2. ASSUME j.environment # "" PROVE Within(Join(E), K)
    <3>1. When(j.environment # "", Join(E)) \in P
      OBVIOUS
    <3>2. Ids(Join(E)) \subseteq K
      BY <2>0, <2>2, <3>1, Whens
    <3>3. addNode(EnvironmentId(w, j), Tags(j.environment \in ProductionEnvironment, "production_like")) \in E
      OBVIOUS
    <3>4. EnvironmentId(w, j) \in K
      BY <3>2, <3>3, NodeOf
    <3>5. Within(addEdge(At, EnvironmentId(w, j), "uses_environment"), K)
      BY <1>3, <3>4, PlainWithin
    <3>6. \A p \in E : Within(p, K)
      BY <3>5, Nodes
    <3> QED BY <3>6, JoinWithin
  <2>3. ASSUME j.uses # Absent PROVE Within(call, K)
    <3>1. When(j.uses # Absent, call) \in P
      OBVIOUS
    <3>2. Ids(call) \subseteq K
      BY <2>0, <2>3, <3>1, Whens
    <3> QED BY <1>3, <3>2, ReusableCallParts
  <2>4. \A p \in O : Within(p, K)
    <3>1. Within(addEdge(At, WorkflowId(w), "belongs_to"), K)
      BY <1>3, PlainWithin
    <3>2. Within(When(j.uses # Absent, call), K) /\ Within(When(j.environment # "", Join(E)), K)
      BY <2>2, <2>3, Whens
    <3> QED BY <3>1, <3>2
  <2>5. \A p \in D : Within(p, K)
    <3>1. \A n \in w.jobs : Within(addEdge(At, JobId(w, n), "depends_on"), K)
      BY <1>3, PlainWithin
    <3> QED BY <3>1
  <2>6. \A p \in M : Within(p, K)
    <3>1. \A p \in M : Ids(p) \subseteq K
      BY <2>0
    <3>2. At \in K
      BY <1>3
    <3> HIDE DEF At
    <3> QED BY <3>1, <3>2, PermissionParts
  <2>7. ASSUME NEW i \in DOMAIN j.steps PROVE Within(Join(both(i)), K)
    <3>1. Ids(Join(both(i))) \subseteq K
      BY <2>0
    <3>2. Ids(step(w, j, i)) \subseteq K /\ Ids(inherited(i)) \subseteq K
      BY <3>1, JoinIds
    <3>3. Within(step(w, j, i), K) /\ StepId(w, j, i) \in K
      BY <1>3, <3>2, StepParts
    <3>4. Within(inherited(i), K)
      BY <3>2, <3>3, ReferenceWithin
    <3> QED BY <3>3, <3>4, JoinWithin
  <2>8. \A p \in S : Within(p, K)
    BY <2>7
  <2>9. \A p \in P : Within(p, K)
    BY <2>1, <2>4, <2>5, <2>6, <2>8
  <2> QED BY <2>9, JoinWithin
<1> QED BY <1>1, <1>2, <1>3, JoinBacked

LEMMA WorkflowParts ==
  ASSUME NEW w
  PROVE  /\ Backed(workflow(w))
         /\ WorkflowId(w) \in Ids(workflow(w))
         /\ \A K : /\ Ids(workflow(w)) \subseteq K
                   /\ RepositoryId \in K
                   /\ Actions \subseteq K /\ Targets \subseteq K
                   => Within(workflow(w), K)
<1> DEFINE At == WorkflowId(w)
           root == addNode(At, Tags(w.missingPermissions, "missing_permissions"))
           R == {reference(w.references, At, "configured_in", "exposure", "workflow"),
                 reference(w.env, At, "configured_in", "confirmed", "environment")}
           O == {file(w.file), addEdge(FileId(w.file), RepositoryId, "detected_in"), root,
                 addEdge(At, FileId(w.file), "detected_in")}
           T == {addNode(TriggerId(w, t), {}) : t \in w.triggers}
           U == {addEdge(At, TriggerId(w, t), "triggered_by") : t \in w.triggers}
           M == {permission(At, w, <<>>, p) : p \in w.permissions}
           N == {addNode(JobId(w, j), {}) : j \in w.jobs}
           J == {job(w, j) : j \in w.jobs}
           P == R \cup O \cup T \cup U \cup M \cup N \cup J
<1>1. workflow(w) = Join(P)
  <2>1. workflow(w) =
          Join({file(w.file), addEdge(FileId(w.file), RepositoryId, "detected_in"), root,
                addEdge(At, FileId(w.file), "detected_in"),
                reference(w.references, At, "configured_in", "exposure", "workflow"),
                reference(w.env, At, "configured_in", "confirmed", "environment")}
               \cup T \cup U \cup M \cup N \cup J)
    BY DEF workflow
  <2> HIDE DEF At, root, T, U, M, N, J
  <2>2. {file(w.file), addEdge(FileId(w.file), RepositoryId, "detected_in"), root,
         addEdge(At, FileId(w.file), "detected_in"),
         reference(w.references, At, "configured_in", "exposure", "workflow"),
         reference(w.env, At, "configured_in", "confirmed", "environment")}
        \cup T \cup U \cup M \cup N \cup J = P
    OBVIOUS
  <2> QED BY <2>1, <2>2
<1>2. \A p \in P : Backed(p)
  <2>1. \A p \in O : Backed(p)
    BY Files, Nodes, PlainEdges
  <2>2. \A p \in T \cup U \cup N : Backed(p)
    BY Nodes, PlainEdges
  <2>3. \A p \in M : Backed(p)
    BY PermissionParts
  <2>4. \A p \in J : Backed(p)
    BY JobParts
  <2>5. \A p \in R : Backed(p)
    BY ReferenceBacked
  <2> QED BY <2>1, <2>2, <2>3, <2>4, <2>5
<1>3. At \in Ids(Join(P))
  <2>1. root \in P
    OBVIOUS
  <2> QED BY <2>1, NodeOf
<1>4. ASSUME NEW K, Ids(Join(P)) \subseteq K, RepositoryId \in K, Actions \subseteq K, Targets \subseteq K
      PROVE  Within(Join(P), K)
  <2>0. (\A p \in P : Ids(p) \subseteq K) /\ At \in K
    BY <1>3, <1>4, JoinIds
  <2>1. \A p \in R : Within(p, K)
    <3>1. \A p \in R : Ids(p) \subseteq K
      BY <2>0
    <3>2. At \in K
      BY <2>0
    <3> HIDE DEF At, P
    <3> QED BY <3>1, <3>2, ReferenceWithin
  <2>2. \A p \in O : Within(p, K)
    <3>1. FileId(w.file) \in K
      BY <2>0, Files
    <3>2. /\ Within(addEdge(FileId(w.file), RepositoryId, "detected_in"), K)
          /\ Within(addEdge(At, FileId(w.file), "detected_in"), K)
      BY <1>4, <2>0, <3>1, PlainWithin
    <3> QED BY <3>2, Files, Nodes
  <2>3. \A p \in T \cup N : Within(p, K)
    BY Nodes
  <2>4. \A t \in w.triggers : Within(addEdge(At, TriggerId(w, t), "triggered_by"), K)
    <3>1. \A p \in T : p \in P
      OBVIOUS
    <3>2. \A t \in w.triggers : TriggerId(w, t) \in K
      BY <1>4, <3>1, NodeOf
    <3> QED BY <2>0, <3>2, PlainWithin
  <2>5. \A p \in M : Within(p, K)
    <3>1. \A p \in M : Ids(p) \subseteq K
      BY <2>0
    <3>2. At \in K
      BY <2>0
    <3> HIDE DEF At
    <3> QED BY <3>1, <3>2, PermissionParts
  <2>6. \A n \in w.jobs : JobId(w, n) \in K
    <3>1. \A p \in N : p \in P
      OBVIOUS
    <3> QED BY <1>4, <3>1, NodeOf
  <2>7. \A p \in J : Within(p, K)
    <3>1. \A j \in w.jobs : Ids(job(w, j)) \subseteq K
      BY <2>0
    <3>2. WorkflowId(w) \in K
      BY <2>0
    <3>3. ASSUME NEW j \in w.jobs PROVE Within(job(w, j), K)
      BY <1>4, <2>6, <3>1, <3>2, JobParts
    <3> QED BY <3>3
  <2>8. \A p \in P : Within(p, K)
    BY <2>1, <2>2, <2>3, <2>4, <2>5, <2>7
  <2> QED BY <2>8, JoinWithin
<1> QED BY <1>1, <1>2, <1>3, <1>4, JoinBacked
-----------------------------------------------------------------------------
(***************************************************************************)
(* Findings and input flows.                                               *)
(***************************************************************************)
LEMMA FindingParts ==
  ASSUME NEW f
  PROVE  /\ Backed(finding(f))
         /\ \A K : Ids(finding(f)) \subseteq K /\ RepositoryId \in K => Within(finding(f), K)
<1> DEFINE u == [key |-> Upper[f.label], kind |-> "", finding |-> TRUE, fixture |-> f.fixture]
           A == {file(f.path), addEdge(FindingId(f), FileId(f.path), "detected_in"),
                 addEdge(FileId(f.path), RepositoryId, "detected_in")}
           B == {addNode(FindingId(f), {}), addEdge(CredentialId(u.key), FindingId(f), "detected_in"),
                 When(f.path # "", Join(A))}
           P == {credential(u, {}), When(Credited(u), Join(B))}
<1>1. finding(f) = Join(P)
  BY DEF finding
<1> HIDE DEF u
<1>2. \A p \in A : Backed(p)
  BY Files, PlainEdges
<1>3. \A p \in B : Backed(p)
  <2>1. Backed(When(f.path # "", Join(A)))
    BY <1>2, JoinBacked, Whens
  <2>2. /\ Backed(addNode(FindingId(f), {}))
        /\ Backed(addEdge(CredentialId(u.key), FindingId(f), "detected_in"))
    BY Nodes, PlainEdges
  <2> HIDE DEF A
  <2> QED BY <2>1, <2>2
<1>4. \A p \in P : Backed(p)
  <2>1. Backed(When(Credited(u), Join(B)))
    <3>1. Backed(Join(B))
      BY <1>3, JoinBacked
    <3> HIDE DEF A, B
    <3> QED BY <3>1, Whens
  <2> HIDE DEF A, B
  <2> QED BY <2>1, Credentials
<1>5. ASSUME NEW K, Ids(Join(P)) \subseteq K, RepositoryId \in K PROVE Within(Join(P), K)
  <2>1. ASSUME Credited(u) PROVE Within(Join(B), K)
    <3>1. Ids(credential(u, {})) \subseteq K /\ Ids(When(Credited(u), Join(B))) \subseteq K
      BY <1>5, JoinIds
    <3>2. CredentialId(u.key) \in K
      BY <2>1, <3>1, Credentials
    <3>3. Ids(Join(B)) \subseteq K
      BY <2>1, <3>1, Whens
    <3>4. addNode(FindingId(f), {}) \in B
      OBVIOUS
    <3>5. FindingId(f) \in K
      <4> HIDE DEF A, B
      <4> QED BY <3>3, <3>4, NodeOf
    <3>6. ASSUME f.path # "" PROVE Within(Join(A), K)
      <4>1. When(f.path # "", Join(A)) \in B
        OBVIOUS
      <4>2. Ids(Join(A)) \subseteq K
        BY <3>3, <3>6, <4>1, JoinIds, Whens
      <4>3. file(f.path) \in A
        OBVIOUS
      <4>4. FileId(f.path) \in K
        <5> HIDE DEF A
        <5> QED BY <4>2, <4>3, JoinIds, Files
      <4>5. /\ Within(file(f.path), K)
            /\ Within(addEdge(FindingId(f), FileId(f.path), "detected_in"), K)
            /\ Within(addEdge(FileId(f.path), RepositoryId, "detected_in"), K)
        BY <1>5, <3>5, <4>4, Files, PlainWithin
      <4> QED BY <4>5, JoinWithin
    <3>7. Within(When(f.path # "", Join(A)), K)
      BY <3>6, Whens
    <3>8. /\ Within(addNode(FindingId(f), {}), K)
          /\ Within(addEdge(CredentialId(u.key), FindingId(f), "detected_in"), K)
      BY <3>2, <3>5, Nodes, PlainWithin
    <3>9. \A p \in B : Within(p, K)
      <4> HIDE DEF A
      <4> QED BY <3>7, <3>8
    <3> QED BY <3>9, JoinWithin
  <2>2. Within(When(Credited(u), Join(B)), K)
    <3> HIDE DEF A, B, P
    <3> QED BY <2>1, Whens
  <2>3. \A p \in P : Within(p, K)
    <3> HIDE DEF A, B
    <3> QED BY <2>2, CredentialWithin
  <2> QED BY <2>3, JoinWithin
<1> QED BY <1>1, <1>4, <1>5, JoinBacked

LEMMA FlowParts ==
  ASSUME NEW f
  PROVE  /\ Backed(compositeActionInputFlow(f))
         /\ \A K : Ids(compositeActionInputFlow(f)) \subseteq K => Within(compositeActionInputFlow(f), K)
<1> DEFINE u == UseOf([kind |-> "secret", name |-> f.secret])
           out(i) == addTypedEdge(BindingId(f), UsageId(f, i), "explicitly_forwarded_to", "confirmed")
           own == {addNode(BindingId(f), {}),
                   addTypedEdge(CredentialId(u.key), BindingId(f), "explicitly_forwarded_to", "confirmed")}
           N == {addNode(UsageId(f, i), {}) : i \in f.usages}
           E == {out(i) : i \in f.usages}
           B == own \cup N \cup E
           P == {credential(u, {}), When(Credited(u), Join(B))}
<1>1. compositeActionInputFlow(f) = Join(P)
  BY DEF compositeActionInputFlow
<1> HIDE DEF u
<1>2. \A p \in B : Backed(p)
  BY Nodes, TypedEdges
<1>3. \A p \in P : Backed(p)
  BY <1>2, JoinBacked, Credentials, Whens
<1>4. ASSUME NEW K, Ids(Join(P)) \subseteq K PROVE Within(Join(P), K)
  <2>1. ASSUME Credited(u) PROVE Within(Join(B), K)
    <3>1. Ids(credential(u, {})) \subseteq K /\ Ids(When(Credited(u), Join(B))) \subseteq K
      BY <1>4, JoinIds
    <3>2. CredentialId(u.key) \in K
      BY <2>1, <3>1, Credentials
    <3>3. Ids(Join(B)) \subseteq K
      BY <2>1, <3>1, Whens
    <3>4. addNode(BindingId(f), {}) \in B /\ \A p \in N : p \in B
      OBVIOUS
    <3>5. BindingId(f) \in K /\ \A i \in f.usages : UsageId(f, i) \in K
      BY <3>3, <3>4, NodeOf
    <3>6. \A p \in own \cup N : Within(p, K)
      BY <3>2, <3>5, Nodes, TypedWithin
    <3>7. \A i \in f.usages : Within(out(i), K)
      BY <3>5, TypedWithin
    <3>8. \A p \in B : Within(p, K)
      BY <3>6, <3>7
    <3> QED BY <3>8, JoinWithin
  <2>2. \A p \in P : Within(p, K)
    BY <2>1, CredentialWithin, Whens
  <2> QED BY <2>2, JoinWithin
<1> QED BY <1>1, <1>3, <1>4, JoinBacked

\* What the second pass relies on: the nodes that the first pass has made for a flow.
Bound(f, K) == BindingId(f) \in K /\ \A i \in f.usages : UsageId(f, i) \in K

LEMMA NestedNodeParts ==
  ASSUME NEW f
  PROVE  /\ Backed(nestedFlowNodes(f))
         /\ \A K : Within(nestedFlowNodes(f), K)
         /\ Bound(f, Ids(nestedFlowNodes(f)))
<1> DEFINE N == {addNode(UsageId(f, i), {}) : i \in f.usages}
           P == {addNode(BindingId(f), {})} \cup N
<1>1. nestedFlowNodes(f) = Join(P)
  BY DEF nestedFlowNodes
<1>2. \A p \in P : Backed(p) /\ \A K : Within(p, K)
  BY Nodes
<1>3. addNode(BindingId(f), {}) \in P /\ \A p \in N : p \in P
  OBVIOUS
<1>4. Bound(f, Ids(Join(P)))
  BY <1>3, NodeOf DEF Bound
<1> QED BY <1>1, <1>2, <1>4, JoinBacked, JoinWithin

LEMMA NestedEdgeParts ==
  ASSUME NEW f
  PROVE  /\ Backed(nestedFlowEdges(f))
         /\ \A K : Bound(f, K) /\ ParentUsageId(f) \in K => Within(nestedFlowEdges(f), K)
<1> DEFINE crossing == EdgeOf(ParentUsageId(f), BindingId(f), "explicitly_forwarded_to", "confirmed", "", "crossing")
           within(i) == EdgeOf(BindingId(f), UsageId(f, i), "explicitly_forwarded_to", "confirmed", "", "within")
<1>1. /\ nestedFlowEdges(f).edges = {crossing} \cup {within(i) : i \in f.usages}
      /\ nestedFlowEdges(f).uses = {}
  BY DEF nestedFlowEdges, Drawn
<1>2. /\ crossing.from = ParentUsageId(f) /\ crossing.to = BindingId(f)
      /\ \A i : within(i).from = BindingId(f) /\ within(i).to = UsageId(f, i)
  BY DEF EdgeOf
<1> HIDE DEF crossing, within
<1> QED BY <1>1, <1>2 DEF Backed, Within, Bound
-----------------------------------------------------------------------------
(***************************************************************************)
(* Compose files.                                                          *)
(***************************************************************************)
LEMMA VolumeParts ==
  ASSUME NEW c, NEW s, NEW v
  PROVE  /\ Backed(volume(c, s, v))
         /\ \A K : Ids(volume(c, s, v)) \subseteq K /\ ServiceId(c, s) \in K => Within(volume(c, s, v), K)
<1> DEFINE traits == Tags(v.dockerSocket, "docker_socket") \cup Tags(WritableHostBind(v), "writable_host_bind")
           node == addNode(VolumeId(c, s, v), traits)
           P == {node, addEdge(ServiceId(c, s), VolumeId(c, s, v), "mounts_volume")}
<1>1. volume(c, s, v) = Join(P)
  BY DEF volume
<1>2. \A p \in P : Backed(p)
  BY Nodes, PlainEdges
<1>3. ASSUME NEW K, Ids(Join(P)) \subseteq K, ServiceId(c, s) \in K PROVE Within(Join(P), K)
  <2>1. node \in P
    OBVIOUS
  <2>2. VolumeId(c, s, v) \in K
    BY <1>3, <2>1, NodeOf
  <2>3. \A p \in P : Within(p, K)
    BY <1>3, <2>2, Nodes, PlainWithin
  <2> QED BY <2>3, JoinWithin
<1> QED BY <1>1, <1>2, <1>3, JoinBacked

LEMMA ServiceParts ==
  ASSUME NEW c, NEW s
  PROVE  /\ Backed(service(c, s))
         /\ ServiceId(c, s) \in Ids(service(c, s))
         /\ \A K : /\ Ids(service(c, s)) \subseteq K
                   /\ FileId(c.file) \in K
                   /\ \A t \in c.services : ServiceId(c, t) \in K
                   => Within(service(c, s), K)
<1> DEFINE At == ServiceId(c, s)
           root == addNode(At, s.traits)
           plain == reference({r \in s.references : r.kind # "compose_secret"}, At,
                              "available_to_service", "confirmed", "compose")
           secret == reference({r \in s.references : r.kind = "compose_secret"}, At,
                               "mounted_as_secret", "confirmed", "compose")
           O == {root, addEdge(At, FileId(c.file), "detected_in"), plain, secret}
           N1 == {addNode(PortId(c, s, p), {}) : p \in s.ports}
           E1 == {addEdge(At, PortId(c, s, p), "exposes_port") : p \in s.ports}
           V  == {volume(c, s, s.volumes[i]) : i \in MountsOf(s)}
           N2 == {addNode(ComposeSecretId(c, n), {}) : n \in s.secrets}
           E2 == {addTypedEdge(ComposeSecretId(c, n), At, "mounted_as_secret", "confirmed") : n \in s.secrets}
           N3 == {addNode(EnvFileId(c, p), {}) : p \in s.envFiles}
           E3 == {addEdge(At, EnvFileId(c, p), "reads_env_file") : p \in s.envFiles}
           D1 == {addEdge(At, ServiceId(c, t), "depends_on") : t \in {x \in c.services : x.name \in s.dependsOn}}
           D2 == {addEdge(At, ServiceId(c, t), "network_reachable") :
                    t \in {x \in c.services : x # s /\ shareComposeNetwork(s, x)}}
           P == O \cup N1 \cup E1 \cup V \cup N2 \cup E2 \cup N3 \cup E3 \cup D1 \cup D2
<1>1. service(c, s) = Join(P)
  BY DEF service
<1>2. \A p \in P : Backed(p)
  <2>1. \A p \in N1 \cup N2 \cup N3 : Backed(p)
    BY Nodes
  <2>2. \A p \in E1 \cup E3 \cup D1 \cup D2 : Backed(p)
    BY PlainEdges
  <2>3. \A p \in E2 : Backed(p)
    BY TypedEdges
  <2>4. \A p \in V : Backed(p)
    BY VolumeParts
  <2>5. \A p \in O : Backed(p)
    BY Nodes, PlainEdges, ReferenceBacked
  <2> HIDE DEF O, N1, E1, V, N2, E2, N3, E3, D1, D2
  <2> QED BY <2>1, <2>2, <2>3, <2>4, <2>5
<1>3. At \in Ids(Join(P))
  <2>1. root \in P
    OBVIOUS
  <2> QED BY <2>1, NodeOf
<1>4. ASSUME NEW K, Ids(Join(P)) \subseteq K, FileId(c.file) \in K, \A t \in c.services : ServiceId(c, t) \in K
      PROVE  Within(Join(P), K)
  <2>1. (\A p \in P : Ids(p) \subseteq K) /\ At \in K
    BY <1>3, <1>4, JoinIds
  <2>2. Within(plain, K) /\ Within(secret, K)
    <3>1. plain \in P /\ secret \in P
      OBVIOUS
    <3>2. Ids(plain) \subseteq K /\ Ids(secret) \subseteq K /\ At \in K
      <4> HIDE DEF P, plain, secret
      <4> QED BY <2>1, <3>1
    <3> HIDE DEF At, P
    <3> QED BY <3>2, ReferenceWithin
  <2>3. \A p \in O : Within(p, K)
    <3>1. Within(root, K) /\ Within(addEdge(At, FileId(c.file), "detected_in"), K)
      BY <1>4, <2>1, Nodes, PlainWithin
    <3> HIDE DEF root, plain, secret
    <3> QED BY <2>2, <3>1
  <2>4. \A p \in N1 \cup N2 \cup N3 : p \in P /\ Within(p, K)
    BY Nodes
  <2>5. \A p \in s.ports : Within(addEdge(At, PortId(c, s, p), "exposes_port"), K)
    <3>1. \A p \in s.ports : addNode(PortId(c, s, p), {}) \in P
      BY <2>4
    <3>2. \A p \in s.ports : PortId(c, s, p) \in K
      BY <1>4, <3>1, NodeOf
    <3> QED BY <2>1, <3>2, PlainWithin
  <2>6. \A n \in s.secrets : Within(addTypedEdge(ComposeSecretId(c, n), At, "mounted_as_secret", "confirmed"), K)
    <3>1. \A n \in s.secrets : addNode(ComposeSecretId(c, n), {}) \in P
      BY <2>4
    <3>2. \A n \in s.secrets : ComposeSecretId(c, n) \in K
      BY <1>4, <3>1, NodeOf
    <3> QED BY <2>1, <3>2, TypedWithin
  <2>7. \A p \in s.envFiles : Within(addEdge(At, EnvFileId(c, p), "reads_env_file"), K)
    <3>1. \A p \in s.envFiles : addNode(EnvFileId(c, p), {}) \in P
      BY <2>4
    <3>2. \A p \in s.envFiles : EnvFileId(c, p) \in K
      BY <1>4, <3>1, NodeOf
    <3> QED BY <2>1, <3>2, PlainWithin
  <2>8. \A p \in V : Within(p, K)
    <3>1. \A p \in V : Ids(p) \subseteq K
      BY <2>1
    <3>2. At \in K
      BY <2>1
    <3> HIDE DEF P
    <3> QED BY <3>1, <3>2, VolumeParts
  <2>9. \A t \in c.services : /\ Within(addEdge(At, ServiceId(c, t), "depends_on"), K)
                              /\ Within(addEdge(At, ServiceId(c, t), "network_reachable"), K)
    BY <1>4, <2>1, PlainWithin
  <2>10. \A p \in E1 \cup E2 \cup E3 \cup D1 \cup D2 : Within(p, K)
    BY <2>5, <2>6, <2>7, <2>9
  <2>11. \A p \in P : Within(p, K)
    <3> HIDE DEF O, N1, E1, V, N2, E2, N3, E3, D1, D2
    <3> QED BY <2>3, <2>4, <2>8, <2>10
  <2> QED BY <2>11, JoinWithin
<1> QED BY <1>1, <1>2, <1>3, <1>4, JoinBacked

LEMMA ComposeParts ==
  ASSUME NEW c
  PROVE  /\ Backed(compose(c))
         /\ \A K : Ids(compose(c)) \subseteq K /\ RepositoryId \in K => Within(compose(c), K)
<1> DEFINE O == {file(c.file), addEdge(FileId(c.file), RepositoryId, "detected_in")}
           S == {service(c, s) : s \in c.services}
           P == O \cup S
<1>1. compose(c) = Join(P)
  BY DEF compose
<1>2. \A p \in P : Backed(p)
  BY Files, PlainEdges, ServiceParts
<1>3. ASSUME NEW K, Ids(Join(P)) \subseteq K, RepositoryId \in K PROVE Within(Join(P), K)
  <2>1. \A p \in P : Ids(p) \subseteq K
    BY <1>3, JoinIds
  <2>2. FileId(c.file) \in K
    BY <2>1, Files
  <2>3. \A p \in O : Within(p, K)
    BY <1>3, <2>2, Files, PlainWithin
  <2>4. \A s \in c.services : Ids(service(c, s)) \subseteq K
    BY <2>1
  <2>5. \A s \in c.services : ServiceId(c, s) \in K
    BY <2>4, ServiceParts
  <2>6. ASSUME NEW s \in c.services PROVE Within(service(c, s), K)
    BY <2>2, <2>4, <2>5, ServiceParts
  <2>7. \A p \in P : Within(p, K)
    BY <2>3, <2>6
  <2> QED BY <2>7, JoinWithin
<1> QED BY <1>1, <1>2, <1>3, JoinBacked
-----------------------------------------------------------------------------
(***************************************************************************)
(* What looks up the graph as it is: the forwarding of a job's secrets and *)
(* the calls between actions.                                              *)
(***************************************************************************)
CredentialsHaveNodes == \A u \in credentials : CredentialId(u.key) \in DOMAIN nodes

LEMMA ForwardParts ==
  ASSUME NEW b
  PROVE  /\ Backed(forwardReusableWorkflowSecret(b))
         /\ \A K : /\ Ids(forwardReusableWorkflowSecret(b)) \subseteq K
                   /\ \A u \in credentials : CredentialId(u.key) \in K
                   => Within(forwardReusableWorkflowSecret(b), K)
<1> DEFINE u == SourceOf(b)
           alias == Upper[b.name]
           e == EdgeOf(CredentialId(u.key), CredentialId(alias), "explicitly_forwarded_to",
                       "confirmed", "", "reusable")
           p == credential(u, IF u.key = alias THEN {} ELSE {e})
           c == Single(b) /\ alias \in Known
<1>1. forwardReusableWorkflowSecret(b) = When(c, p)
  BY DEF forwardReusableWorkflowSecret
<1>2. ASSUME c, NEW K, Ids(p) \subseteq K, \A x \in credentials : CredentialId(x.key) \in K
      PROVE  Within(p, K)
  <2>1. PICK x \in credentials : x.key = alias
    BY <1>2 DEF Known
  <2>2. CredentialId(alias) \in K
    BY <1>2, <2>1
  <2>3. ASSUME NEW d \in p.edges PROVE d.from \in K /\ d.to \in K
    <3>1. Credited(u) /\ d = e
      BY DEF credential
    <3>2. CredentialId(u.key) \in K
      BY <1>2, <3>1, Credentials
    <3> QED BY <2>2, <3>1, <3>2 DEF EdgeOf
  <2> QED BY <2>3 DEF Within
<1> HIDE DEF p, c
<1>3. Backed(p)
  BY Credentials DEF p
<1> QED BY <1>1, <1>2, <1>3, Whens

LEMMA NestedCallParts ==
  ASSUME NEW c
  PROVE  /\ Backed(nestedCompositeActionCall(c))
         /\ \A K : Actions \subseteq K => Within(nestedCompositeActionCall(c), K)
<1> DEFINE p == addTypedEdge(CompositeId(c.parent), CompositeId(c.dir), "runs_action", "structural")
<1>1. Backed(p)
  BY TypedEdges
<1>2. ASSUME NEW K, Actions \subseteq K, {c.parent, c.dir} \subseteq repo.composites PROVE Within(p, K)
  BY <1>2, TypedWithin DEF Actions
<1> HIDE DEF p
<1> QED BY <1>1, <1>2, Whens DEF nestedCompositeActionCall, p

LEMMA CanonicalParts ==
  LET p == Join({addNode(CompositeId(d), {}) : d \in repo.composites} \cup {addNode(RepositoryId, {})})
  IN  /\ Backed(p)
      /\ \A K : Within(p, K)
      /\ RepositoryId \in Ids(p) /\ Actions \subseteq Ids(p)
<1> DEFINE N == {addNode(CompositeId(d), {}) : d \in repo.composites}
           P == N \cup {addNode(RepositoryId, {})}
<1>1. \A p \in P : Backed(p) /\ \A K : Within(p, K)
  BY Nodes
<1>2. addNode(RepositoryId, {}) \in P /\ \A d \in repo.composites : addNode(CompositeId(d), {}) \in P
  OBVIOUS
<1>3. RepositoryId \in Ids(Join(P)) /\ \A d \in repo.composites : CompositeId(d) \in Ids(Join(P))
  BY <1>2, NodeOf
<1> QED BY <1>1, <1>3, JoinBacked, JoinWithin DEF Actions
-----------------------------------------------------------------------------
(***************************************************************************)
(* The inductive invariant: what the phases behind have put in the graph   *)
(* for those ahead.                                                        *)
(***************************************************************************)
EarlierPhase == {"ingest", "ingested"}

\* The repository and the actions have nodes after the first phase.
Rooted == {RepositoryId} \cup Actions \subseteq DOMAIN nodes

\* A nested flow has its nodes from the first pass on.
NestedBound ==
  /\ phase = "nested_nodes" => \A f \in repo.nestedFlows \ todo : Bound(f, DOMAIN nodes)
  /\ phase = "nested_edges" => \A f \in repo.nestedFlows : Bound(f, DOMAIN nodes)

\* A workflow that is not still to come has its node.
WorkflowsDrawn == phase = "workflows" => \A w \in repo.workflows \ todo : WorkflowId(w) \in DOMAIN nodes

Sound ==
  /\ phase \in DOMAIN NextPhase /\ (phase # "canonical" \/ todo = {}) => Rooted
  /\ CredentialsHaveNodes
  /\ NestedBound
  /\ WorkflowsDrawn
  /\ EdgesJoinNodes

BuildInv ==
  /\ phase \in DOMAIN NextPhase => todo \subseteq ItemsOf(phase)
  /\ phase \in EarlierPhase => edges = {} /\ credentials = {}
  /\ ~limitExceeded => Sound

\* Nodes are only added, those of p among them, and so are edges.
LEMMA PutEffect ==
  ASSUME NEW p, NEW more, Put(p, more), ~limitExceeded'
  PROVE  /\ ~limitExceeded
         /\ DOMAIN nodes' = DOMAIN nodes \cup Ids(p)
         /\ edges' = edges \cup p.edges
         /\ credentials' = credentials \cup {u \in p.uses : Credited(u)}
<1>1. ~limitExceeded /\ nodes' = Extended(p.nodes) /\ edges' = edges \cup p.edges
  BY DEF Put, AddToGraph, WithinLimits
<1>2. DOMAIN Extended(p.nodes) = DOMAIN nodes \cup Ids(p)
  BY DEF Extended, Ids
<1> QED BY <1>1, <1>2 DEF Put

LEMMA SamePhaseItems == ASSUME UNCHANGED <<repo, phase>> PROVE ItemsOf(phase)' = ItemsOf(phase)
  BY DEF ItemsOf, JobsOf

(***************************************************************************)
(* An operation keeps the invariant if it is Backed, its edges are Within  *)
(* what there is and what it brings, and it leaves for later phases what   *)
(* its phase is there for.                                                 *)
(***************************************************************************)
LEMMA DoKeeps ==
  ASSUME NEW item, NEW p, NEW more,
         BuildInv, item \in todo, phase \in DOMAIN NextPhase,
         Do(item, p, more),
         Backed(p),
         ~limitExceeded => Within(p, DOMAIN nodes \cup Ids(p) \cup Pending),
         phase = "canonical" => {RepositoryId} \cup Actions \subseteq Ids(p),
         phase = "nested_nodes" => Bound(item, Ids(p)),
         phase = "workflows" => WorkflowId(item) \in Ids(p)
  PROVE  BuildInv'
<1>1. /\ todo' = todo \ {item} /\ repo' = repo /\ phase' = phase
      /\ Put(p, more)
  BY DEF Do
<1>2. (phase \in DOMAIN NextPhase => todo \subseteq ItemsOf(phase))'
  BY <1>1, SamePhaseItems DEF BuildInv
<1>3. (phase \in EarlierPhase => edges = {} /\ credentials = {})'
  BY <1>1 DEF EarlierPhase, NextPhase
<1>4. ASSUME ~limitExceeded' PROVE Sound'
  <2>1. /\ ~limitExceeded /\ Sound
        /\ DOMAIN nodes' = DOMAIN nodes \cup Ids(p)
        /\ edges' = edges \cup p.edges
        /\ credentials' = credentials \cup {u \in p.uses : Credited(u)}
    BY <1>1, <1>4, PutEffect DEF BuildInv
  <2>2. (phase \in DOMAIN NextPhase /\ (phase # "canonical" \/ todo = {}) => Rooted)'
    <3>1. phase = "canonical" => Rooted'
      BY <1>1, <2>1 DEF Rooted, Actions
    <3>2. phase # "canonical" => Rooted'
      BY <1>1, <2>1 DEF Rooted, Actions, Sound
    <3> QED BY <3>1, <3>2
  <2>3. CredentialsHaveNodes'
    BY <2>1 DEF CredentialsHaveNodes, Sound, Backed
  <2>4. NestedBound'
    <3>1. ASSUME NEW f, Bound(f, DOMAIN nodes) \/ Bound(f, Ids(p)) PROVE Bound(f, DOMAIN nodes')
      BY <2>1, <3>1 DEF Bound
    <3>2. ASSUME phase = "nested_nodes", NEW f \in repo.nestedFlows \ todo' PROVE Bound(f, DOMAIN nodes')
      BY <1>1, <2>1, <3>1, <3>2 DEF Sound, NestedBound
    <3>3. ASSUME phase = "nested_edges", NEW f \in repo.nestedFlows PROVE Bound(f, DOMAIN nodes')
      BY <2>1, <3>1, <3>3 DEF Sound, NestedBound
    <3> QED BY <1>1, <3>2, <3>3 DEF NestedBound
  <2>5. WorkflowsDrawn'
    BY <1>1, <2>1 DEF WorkflowsDrawn, Sound
  <2>6. DOMAIN nodes \cup Ids(p) \cup Pending \subseteq DOMAIN nodes' \cup Pending'
    BY <1>1, <2>1 DEF Pending
  <2>7. EdgesJoinNodes'
    <3>1. \A e \in edges : {e.from, e.to} \subseteq DOMAIN nodes \cup Pending
      BY <2>1 DEF Sound, EdgesJoinNodes
    <3>2. \A e \in p.edges : {e.from, e.to} \subseteq DOMAIN nodes \cup Ids(p) \cup Pending
      BY <2>1 DEF Within
    <3>3. \A e \in edges' : {e.from, e.to} \subseteq DOMAIN nodes' \cup Pending'
      BY <2>1, <2>6, <3>1, <3>2
    <3> QED BY <3>3 DEF EdgesJoinNodes
  <2> QED BY <2>2, <2>3, <2>4, <2>5, <2>7 DEF Sound
<1> QED BY <1>2, <1>3, <1>4 DEF BuildInv

LEMMA PhaseNames ==
  DOMAIN NextPhase = {"canonical", "findings", "workflows", "forwarding", "inherit", "flows",
                      "nested_nodes", "nested_edges", "calls", "compose"}
  BY DEF NextPhase

\* The actions and the repository have nodes once the first phase is over.
LEMMA RootedLater ==
  ASSUME BuildInv, ~limitExceeded, phase \in DOMAIN NextPhase, phase # "canonical"
  PROVE  RepositoryId \in DOMAIN nodes /\ Actions \subseteq DOMAIN nodes
  BY DEF BuildInv, Sound, Rooted

LEMMA CanonicalKeeps == BuildInv /\ AddCanonicalNodes => BuildInv'
<1> SUFFICES ASSUME BuildInv, AddCanonicalNodes PROVE BuildInv'
  OBVIOUS
<1> DEFINE p == Join({addNode(CompositeId(d), {}) : d \in repo.composites} \cup {addNode(RepositoryId, {})})
<1>1. phase = "canonical" /\ todo # {} /\ Do("canonical", p, {})
  BY DEF AddCanonicalNodes
<1>2. Backed(p) /\ (\A K : Within(p, K)) /\ RepositoryId \in Ids(p) /\ Actions \subseteq Ids(p)
  BY CanonicalParts
<1>3. "canonical" \in todo
  BY <1>1, PhaseNames DEF BuildInv, ItemsOf
<1> HIDE DEF p
<1> QED BY <1>1, <1>2, <1>3, PhaseNames, DoKeeps

LEMMA FindingKeeps == \A f : BuildInv /\ AddFinding(f) => BuildInv'
<1> SUFFICES ASSUME NEW f, BuildInv, AddFinding(f) PROVE BuildInv'
  OBVIOUS
<1>1. phase = "findings" /\ f \in todo /\ Do(f, finding(f), {})
  BY DEF AddFinding
<1>2. ~limitExceeded => Within(finding(f), DOMAIN nodes \cup Ids(finding(f)) \cup Pending)
  BY <1>1, PhaseNames, RootedLater, FindingParts
<1> QED BY <1>1, <1>2, PhaseNames, FindingParts, DoKeeps

LEMMA WorkflowKeeps == \A w : BuildInv /\ AddWorkflow(w) => BuildInv'
<1> SUFFICES ASSUME NEW w, BuildInv, AddWorkflow(w) PROVE BuildInv'
  OBVIOUS
<1> DEFINE p == workflow(w)
           more == CallWarnings(StepCallsIn(w))
<1>1. phase = "workflows" /\ w \in todo /\ Do(w, p, more)
  BY DEF AddWorkflow
<1>2. ASSUME ~limitExceeded PROVE Within(p, DOMAIN nodes \cup Ids(p) \cup Pending)
  <2>1. Targets \subseteq DOMAIN nodes \cup Pending
    BY <1>1, <1>2 DEF BuildInv, Sound, WorkflowsDrawn, Targets, Pending
  <2>2. RepositoryId \in DOMAIN nodes /\ Actions \subseteq DOMAIN nodes
    BY <1>1, <1>2, PhaseNames, RootedLater
  <2> DEFINE K == DOMAIN nodes \cup Ids(p) \cup Pending
  <2>3. Ids(p) \subseteq K /\ RepositoryId \in K /\ Actions \subseteq K /\ Targets \subseteq K
    BY <2>1, <2>2
  <2> HIDE DEF K
  <2>4. Within(p, K)
    BY <2>3, WorkflowParts
  <2> QED BY <2>4 DEF K
<1>3. Backed(p) /\ WorkflowId(w) \in Ids(p)
  BY WorkflowParts
<1> HIDE DEF p, more
<1> QED BY <1>1, <1>2, <1>3, PhaseNames, DoKeeps

LEMMA ForwardKeeps == \A w, j : BuildInv /\ ForwardSecrets(w, j) => BuildInv'
<1> SUFFICES ASSUME NEW w, NEW j, BuildInv, ForwardSecrets(w, j) PROVE BuildInv'
  OBVIOUS
<1> DEFINE P == {forwardReusableWorkflowSecret(b) : b \in {x \in j.secrets : Declared(w, j, x)}}
           more == {<<"undeclared_alias", w.file, j.id, b.name>> :
                      b \in {x \in j.secrets : HasContract(w, j) /\ ~Declared(w, j, x)}}
<1>1. phase = "forwarding" /\ <<w, j>> \in todo /\ Do(<<w, j>>, Join(P), more)
  BY DEF ForwardSecrets
<1>2. Backed(Join(P))
  BY ForwardParts, JoinBacked
<1>3. ASSUME ~limitExceeded PROVE Within(Join(P), DOMAIN nodes \cup Ids(Join(P)) \cup Pending)
  <2> DEFINE K == DOMAIN nodes \cup Ids(Join(P)) \cup Pending
  <2>1. \A p \in P : Ids(p) \subseteq K
    BY JoinIds
  <2>2. \A u \in credentials : CredentialId(u.key) \in K
    BY <1>3 DEF BuildInv, Sound, CredentialsHaveNodes
  <2> HIDE DEF K
  <2>3. \A p \in P : Within(p, K)
    BY <2>1, <2>2, ForwardParts
  <2> QED BY <2>3, JoinWithin DEF K
<1> HIDE DEF P, more
<1> QED BY <1>1, <1>2, <1>3, PhaseNames, DoKeeps

LEMMA NothingParts == Backed(Nothing) /\ \A K : Within(Nothing, K)
  BY DEF Nothing, Backed, Within

LEMMA InheritKeeps == \A w, j : BuildInv /\ ReportInherit(w, j) => BuildInv'
<1> SUFFICES ASSUME NEW w, NEW j, BuildInv, ReportInherit(w, j) PROVE BuildInv'
  OBVIOUS
<1> DEFINE more == Tags(j.inherit, <<"inherit", w.file, j.id, CallOf(w, j).status>>)
<1>1. phase = "inherit" /\ <<w, j>> \in todo /\ Do(<<w, j>>, Nothing, more)
  BY DEF ReportInherit
<1> HIDE DEF more
<1> QED BY <1>1, PhaseNames, NothingParts, DoKeeps

LEMMA FlowKeeps == \A f : BuildInv /\ AddInputFlow(f) => BuildInv'
<1> SUFFICES ASSUME NEW f, BuildInv, AddInputFlow(f) PROVE BuildInv'
  OBVIOUS
<1>1. phase = "flows" /\ f \in todo /\ Do(f, compositeActionInputFlow(f), {})
  BY DEF AddInputFlow
<1>2. Within(compositeActionInputFlow(f), DOMAIN nodes \cup Ids(compositeActionInputFlow(f)) \cup Pending)
  BY FlowParts
<1> QED BY <1>1, <1>2, PhaseNames, FlowParts, DoKeeps

LEMMA NestedNodesKeep == \A f : BuildInv /\ AddNestedNodes(f) => BuildInv'
<1> SUFFICES ASSUME NEW f, BuildInv, AddNestedNodes(f) PROVE BuildInv'
  OBVIOUS
<1>1. phase = "nested_nodes" /\ f \in todo /\ Do(f, nestedFlowNodes(f), {})
  BY DEF AddNestedNodes
<1> QED BY <1>1, PhaseNames, NestedNodeParts, DoKeeps

LEMMA NestedEdgesKeep == \A f : BuildInv /\ AddNestedEdges(f) => BuildInv'
<1> SUFFICES ASSUME NEW f, BuildInv, AddNestedEdges(f) PROVE BuildInv'
  OBVIOUS
<1> DEFINE p == When(HasParent(f), nestedFlowEdges(f))
<1>1. phase = "nested_edges" /\ f \in todo /\ Do(f, p, {})
  BY DEF AddNestedEdges
<1>2. f \in repo.nestedFlows
  BY <1>1, PhaseNames DEF BuildInv, ItemsOf
<1>3. ASSUME ~limitExceeded PROVE Within(p, DOMAIN nodes \cup Ids(p) \cup Pending)
  <2> DEFINE K == DOMAIN nodes \cup Ids(p) \cup Pending
  <2>1. Bound(f, DOMAIN nodes)
    BY <1>1, <1>2, <1>3 DEF BuildInv, Sound, NestedBound
  <2>2. Bound(f, K)
    BY <2>1 DEF Bound
  <2>3. HasParent(f) => ParentUsageId(f) \in K
    BY DEF HasParent
  <2> HIDE DEF K
  <2>4. Within(p, K)
    BY <2>2, <2>3, NestedEdgeParts, Whens
  <2> QED BY <2>4 DEF K
<1>4. Backed(p)
  BY NestedEdgeParts, Whens
<1> HIDE DEF p
<1> QED BY <1>1, <1>3, <1>4, PhaseNames, DoKeeps

LEMMA NestedCallKeeps == \A c : BuildInv /\ AddNestedCall(c) => BuildInv'
<1> SUFFICES ASSUME NEW c, BuildInv, AddNestedCall(c) PROVE BuildInv'
  OBVIOUS
<1> DEFINE p == nestedCompositeActionCall(c)
           more == Tags(c.status \in ActionableStatus, <<"nested", c.parent, c.step, c.status>>)
<1>1. phase = "calls" /\ c \in todo /\ Do(c, p, more)
  BY DEF AddNestedCall
<1>2. ASSUME ~limitExceeded PROVE Within(p, DOMAIN nodes \cup Ids(p) \cup Pending)
  <2>1. Actions \subseteq DOMAIN nodes \cup Ids(p) \cup Pending
    BY <1>1, <1>2, PhaseNames, RootedLater
  <2> QED BY <2>1, NestedCallParts
<1>3. Backed(p)
  BY NestedCallParts
<1> HIDE DEF p, more
<1> QED BY <1>1, <1>2, <1>3, PhaseNames, DoKeeps

LEMMA ComposeKeeps == \A c : BuildInv /\ AddCompose(c) => BuildInv'
<1> SUFFICES ASSUME NEW c, BuildInv, AddCompose(c) PROVE BuildInv'
  OBVIOUS
<1>1. phase = "compose" /\ c \in todo /\ Do(c, compose(c), {})
  BY DEF AddCompose
<1>2. ~limitExceeded => Within(compose(c), DOMAIN nodes \cup Ids(compose(c)) \cup Pending)
  BY <1>1, PhaseNames, RootedLater, ComposeParts
<1> QED BY <1>1, <1>2, PhaseNames, ComposeParts, DoKeeps

\* A phase ends with nothing left of its list, and the next begins with all of it to come.
LEMMA NextListKeeps == BuildInv /\ NextList => BuildInv'
<1> SUFFICES ASSUME BuildInv, NextList PROVE BuildInv'
  OBVIOUS
<1>1. /\ phase \in DOMAIN NextPhase /\ todo = {}
      /\ phase' = NextPhase[phase] /\ todo' = ItemsOf(phase')
      /\ UNCHANGED <<repo, nodes, edges, limitExceeded, credentials>>
  BY DEF NextList, graph
<1>2. /\ phase' \notin EarlierPhase /\ phase' # "canonical"
      /\ phase' = "nested_edges" => phase = "nested_nodes"
      /\ phase = "workflows" => phase' # "workflows"
      /\ phase' = "nested_nodes" \/ phase' = "workflows" => phase' \in DOMAIN NextPhase
  BY <1>1 DEF NextPhase, EarlierPhase
<1>3. (phase \in DOMAIN NextPhase => todo \subseteq ItemsOf(phase))'
  BY <1>1 DEF ItemsOf, JobsOf
<1>4. ASSUME ~limitExceeded' PROVE Sound'
  <2>1. ~limitExceeded /\ Sound
    BY <1>1, <1>4 DEF BuildInv
  <2>2. (phase \in DOMAIN NextPhase /\ (phase # "canonical" \/ todo = {}) => Rooted)'
    BY <1>1, <2>1 DEF Sound, Rooted, Actions
  <2>3. CredentialsHaveNodes'
    BY <1>1, <2>1 DEF Sound, CredentialsHaveNodes
  <2>4. NestedBound'
    <3>1. phase' = "nested_nodes" => todo' = repo'.nestedFlows
      BY <1>1 DEF ItemsOf
    <3>2. phase' = "nested_edges" => \A f \in repo.nestedFlows : Bound(f, DOMAIN nodes)
      BY <1>1, <1>2, <2>1 DEF Sound, NestedBound
    <3> QED BY <1>1, <3>1, <3>2 DEF NestedBound, Bound
  <2>5. WorkflowsDrawn'
    BY <1>1 DEF WorkflowsDrawn, ItemsOf
  <2>6. EdgesJoinNodes'
    <3>1. Pending = {}
      BY <1>1 DEF Pending
    <3> QED BY <1>1, <2>1, <3>1 DEF Sound, EdgesJoinNodes
  <2> QED BY <2>2, <2>3, <2>4, <2>5, <2>6 DEF Sound
<1> QED BY <1>2, <1>3, <1>4 DEF BuildInv

LEMMA BuildKeeps == BuildInv /\ BuildNext => BuildInv'
  BY CanonicalKeeps, FindingKeeps, WorkflowKeeps, ForwardKeeps, InheritKeeps, FlowKeeps, NestedNodesKeep,
     NestedEdgesKeep, NestedCallKeeps, ComposeKeeps, NextListKeeps
  DEF BuildNext
-----------------------------------------------------------------------------
(***************************************************************************)
(* What the scanner has found.  Only AddFinding records a use that is a    *)
(* finding: every other operation is Quiet, piece by piece.  Once a        *)
(* finding is dealt with, its credential has that use and the edge to it,  *)
(* unless its variable is ignored.                                         *)
(***************************************************************************)
Quiet(p) == \A u \in p.uses : ~u.finding

LEMMA QuietJoin == \A P : (\A p \in P : Quiet(p)) => Quiet(Join(P))
  BY DEF Quiet, Join

LEMMA QuietWhen == \A c, p : Quiet(p) => Quiet(When(c, p))
  BY DEF Quiet, When, Nothing

LEMMA QuietNode == \A i, t : Quiet(addNode(i, t))
  BY DEF Quiet, addNode

LEMMA QuietTyped == \A a, b, y, k : Quiet(addTypedEdge(a, b, y, k))
  BY DEF Quiet, addTypedEdge, Drawn

LEMMA QuietEdge == \A a, b, y : Quiet(addEdge(a, b, y))
  BY QuietTyped DEF addEdge

LEMMA QuietCredential == \A r, out : Quiet(credential(UseOf(r), out))
  BY DEF Quiet, credential, UseOf

LEMMA QuietReference == \A refs, to, y, k, why : Quiet(reference(refs, to, y, k, why))
<1> SUFFICES ASSUME NEW refs, NEW to, NEW y, NEW k, NEW why PROVE Quiet(reference(refs, to, y, k, why))
  OBVIOUS
<1> DEFINE One(r) == credential(UseOf(r), {EdgeOf(CredentialId(Upper[r.name]), to, y, k, why, "plain")})
<1>1. \A r : Quiet(One(r))
  BY QuietCredential
<1>2. reference(refs, to, y, k, why) = Join({One(r) : r \in {x \in refs : x.kind \in CredentialKind}})
  BY DEF reference
<1> HIDE DEF One
<1> QED BY <1>1, <1>2, QuietJoin

LEMMA QuietFile == \A f : Quiet(file(f))
  BY QuietNode DEF file

LEMMA QuietPermission == \A parent, w, owner, p : Quiet(permission(parent, w, owner, p))
  BY QuietNode, QuietEdge, QuietJoin DEF permission

LEMMA QuietReusableCall == \A w, j : Quiet(reusableWorkflowCall(w, j))
<1> SUFFICES ASSUME NEW w, NEW j PROVE Quiet(reusableWorkflowCall(w, j))
  OBVIOUS
<1> DEFINE O == {addNode(ReusableId(w, j), Tags(~Resolved(w, j), "unresolved")),
                 addEdge(JobId(w, j), ReusableId(w, j), "calls_workflow")}
           T == {addTypedEdge(ReusableId(w, j), WorkflowId(t), "calls_workflow", "structural") : t \in TargetsOf(w, j)}
<1>1. \A p \in O \cup T : Quiet(p)
  BY QuietNode, QuietEdge, QuietTyped
<1>2. reusableWorkflowCall(w, j) = Join(O \cup T)
  BY DEF reusableWorkflowCall
<1> QED BY <1>1, <1>2, QuietJoin

LEMMA QuietStep == \A w, j, i : Quiet(step(w, j, i))
<1> SUFFICES ASSUME NEW w, NEW j, NEW i PROVE Quiet(step(w, j, i))
  OBVIOUS
<1> DEFINE s == j.steps[i]
           t == Tags(s.action.thirdParty, "third_party") \cup Tags(s.action.mutable, "mutable")
           A == {addNode(ActionId(w, j, i), t), addEdge(StepId(w, j, i), ActionId(w, j, i), "runs_action"),
                 compositeActionCall(w, j, i)}
           R == {reference(InShell(s), StepId(w, j, i), "referenced_by_process", "confirmed", "shell"),
                 reference(s.references \ InShell(s), StepId(w, j, i), "explicitly_forwarded_to", "confirmed", "step")}
           O == {addNode(StepId(w, j, i), {}), addEdge(StepId(w, j, i), JobId(w, j), "belongs_to"),
                 When(s.action # Absent, Join(A))}
<1>1. step(w, j, i) = Join(O \cup R)
  <2>1. step(w, j, i) =
          Join({addNode(StepId(w, j, i), {}), addEdge(StepId(w, j, i), JobId(w, j), "belongs_to"),
                reference(InShell(s), StepId(w, j, i), "referenced_by_process", "confirmed", "shell"),
                reference(s.references \ InShell(s), StepId(w, j, i), "explicitly_forwarded_to", "confirmed", "step"),
                When(s.action # Absent, Join(A))})
    BY DEF step
  <2> HIDE DEF A, s
  <2>2. {addNode(StepId(w, j, i), {}), addEdge(StepId(w, j, i), JobId(w, j), "belongs_to"),
         reference(InShell(s), StepId(w, j, i), "referenced_by_process", "confirmed", "shell"),
         reference(s.references \ InShell(s), StepId(w, j, i), "explicitly_forwarded_to", "confirmed", "step"),
         When(s.action # Absent, Join(A))} = O \cup R
    OBVIOUS
  <2> QED BY <2>1, <2>2
<1>2. Quiet(compositeActionCall(w, j, i))
  BY QuietTyped, QuietJoin DEF compositeActionCall
<1>3. \A p \in A : Quiet(p)
  BY <1>2, QuietNode, QuietEdge
<1>4. Quiet(When(s.action # Absent, Join(A)))
  <2> HIDE DEF A
  <2> QED BY <1>3, QuietJoin, QuietWhen
<1>5. \A p \in O : Quiet(p)
  <2> HIDE DEF A, s
  <2> QED BY <1>4, QuietNode, QuietEdge
<1>6. \A p \in R : Quiet(p)
  <2> HIDE DEF s
  <2> QED BY QuietReference
<1> HIDE DEF O, R
<1> QED BY <1>1, <1>5, <1>6, QuietJoin

LEMMA QuietJob == \A w, j : Quiet(job(w, j))
<1> SUFFICES ASSUME NEW w, NEW j PROVE Quiet(job(w, j))
  OBVIOUS
<1> DEFINE At == JobId(w, j)
           both(i) == {step(w, j, i),
                       reference(Propagated(w, j), StepId(w, j, i), "available_to_process", "confirmed", "environment")}
           R == {reference(j.references, At, "configured_in", "exposure", "job"),
                 reference(j.env, At, "explicitly_forwarded_to", "confirmed", "environment"),
                 reference(Inherited(w, j), At, "available_to_process", "confirmed", "environment"),
                 reference(j.outputs, At, "explicitly_forwarded_to", "confirmed", "job_output")}
           call == reusableWorkflowCall(w, j)
           E == {addNode(EnvironmentId(w, j), Tags(j.environment \in ProductionEnvironment, "production_like")),
                 addEdge(At, EnvironmentId(w, j), "uses_environment")}
           O == {addEdge(At, WorkflowId(w), "belongs_to"),
                 When(j.uses # Absent, call), When(j.environment # "", Join(E))}
           D == {addEdge(At, JobId(w, n), "depends_on") : n \in {x \in w.jobs : x.id \in j.needs}}
           M == {permission(At, w, <<j.id>>, p) : p \in j.permissions}
           S == {Join(both(i)) : i \in DOMAIN j.steps}
<1>1. job(w, j) = Join(R \cup O \cup D \cup M \cup S)
  <2>1. job(w, j) =
          Join({addEdge(At, WorkflowId(w), "belongs_to"),
                reference(j.references, At, "configured_in", "exposure", "job"),
                reference(j.env, At, "explicitly_forwarded_to", "confirmed", "environment"),
                reference(Inherited(w, j), At, "available_to_process", "confirmed", "environment"),
                reference(j.outputs, At, "explicitly_forwarded_to", "confirmed", "job_output"),
                When(j.uses # Absent, call),
                When(j.environment # "", Join(E))} \cup D \cup M \cup S)
    BY DEF job
  <2> HIDE DEF At, E, call, D, M, S
  <2>2. {addEdge(At, WorkflowId(w), "belongs_to"),
         reference(j.references, At, "configured_in", "exposure", "job"),
         reference(j.env, At, "explicitly_forwarded_to", "confirmed", "environment"),
         reference(Inherited(w, j), At, "available_to_process", "confirmed", "environment"),
         reference(j.outputs, At, "explicitly_forwarded_to", "confirmed", "job_output"),
         When(j.uses # Absent, call),
         When(j.environment # "", Join(E))} \cup D \cup M \cup S = R \cup O \cup D \cup M \cup S
    OBVIOUS
  <2> QED BY <2>1, <2>2
<1>2. \A p \in R : Quiet(p)
  <2> HIDE DEF At
  <2> QED BY QuietReference
<1>3. \A p \in O : Quiet(p)
  <2>1. Quiet(Join(E))
    BY QuietNode, QuietEdge, QuietJoin
  <2>2. Quiet(When(j.uses # Absent, call))
    BY QuietReusableCall, QuietWhen
  <2>3. Quiet(When(j.environment # "", Join(E)))
    <3> HIDE DEF E
    <3> QED BY <2>1, QuietWhen
  <2> HIDE DEF At, E, call
  <2> QED BY <2>2, <2>3, QuietEdge
<1>4. \A p \in D \cup M : Quiet(p)
  BY QuietEdge, QuietPermission
<1>5. \A p \in S : Quiet(p)
  <2>1. \A i : \A p \in both(i) : Quiet(p)
    BY QuietStep, QuietReference
  <2> HIDE DEF both
  <2> QED BY <2>1, QuietJoin
<1> HIDE DEF R, O, D, M, S
<1> QED BY <1>1, <1>2, <1>3, <1>4, <1>5, QuietJoin

LEMMA QuietWorkflow == \A w : Quiet(workflow(w))
<1> SUFFICES ASSUME NEW w PROVE Quiet(workflow(w))
  OBVIOUS
<1> DEFINE At == WorkflowId(w)
           root == addNode(At, Tags(w.missingPermissions, "missing_permissions"))
           R == {reference(w.references, At, "configured_in", "exposure", "workflow"),
                 reference(w.env, At, "configured_in", "confirmed", "environment")}
           O == {file(w.file), addEdge(FileId(w.file), RepositoryId, "detected_in"), root,
                 addEdge(At, FileId(w.file), "detected_in")}
           T == {addNode(TriggerId(w, t), {}) : t \in w.triggers}
           U == {addEdge(At, TriggerId(w, t), "triggered_by") : t \in w.triggers}
           M == {permission(At, w, <<>>, p) : p \in w.permissions}
           N == {addNode(JobId(w, j), {}) : j \in w.jobs}
           J == {job(w, j) : j \in w.jobs}
<1>1. workflow(w) = Join(R \cup O \cup T \cup U \cup M \cup N \cup J)
  <2>1. workflow(w) =
          Join({file(w.file), addEdge(FileId(w.file), RepositoryId, "detected_in"), root,
                addEdge(At, FileId(w.file), "detected_in"),
                reference(w.references, At, "configured_in", "exposure", "workflow"),
                reference(w.env, At, "configured_in", "confirmed", "environment")}
               \cup T \cup U \cup M \cup N \cup J)
    BY DEF workflow
  <2> HIDE DEF At, root, T, U, M, N, J
  <2>2. {file(w.file), addEdge(FileId(w.file), RepositoryId, "detected_in"), root,
         addEdge(At, FileId(w.file), "detected_in"),
         reference(w.references, At, "configured_in", "exposure", "workflow"),
         reference(w.env, At, "configured_in", "confirmed", "environment")}
        \cup T \cup U \cup M \cup N \cup J = R \cup O \cup T \cup U \cup M \cup N \cup J
    OBVIOUS
  <2> QED BY <2>1, <2>2
<1>2. \A p \in R : Quiet(p)
  <2> HIDE DEF At
  <2> QED BY QuietReference
<1>3. \A p \in O : Quiet(p)
  <2> HIDE DEF At
  <2> QED BY QuietFile, QuietNode, QuietEdge
<1>4. \A p \in T \cup U \cup N : Quiet(p)
  BY QuietNode, QuietEdge
<1>5. \A p \in M \cup J : Quiet(p)
  BY QuietPermission, QuietJob
<1> HIDE DEF R, O, T, U, M, N, J
<1> QED BY <1>1, <1>2, <1>3, <1>4, <1>5, QuietJoin

LEMMA QuietFlow == \A f : Quiet(compositeActionInputFlow(f))
<1> SUFFICES ASSUME NEW f PROVE Quiet(compositeActionInputFlow(f))
  OBVIOUS
<1> DEFINE u == UseOf([kind |-> "secret", name |-> f.secret])
           B == {addNode(BindingId(f), {}),
                 addTypedEdge(CredentialId(u.key), BindingId(f), "explicitly_forwarded_to", "confirmed")}
                \cup {addNode(UsageId(f, i), {}) : i \in f.usages}
                \cup {addTypedEdge(BindingId(f), UsageId(f, i), "explicitly_forwarded_to", "confirmed") : i \in f.usages}
<1>1. compositeActionInputFlow(f) = Join({credential(u, {}), When(Credited(u), Join(B))})
  BY DEF compositeActionInputFlow
<1>2. Quiet(credential(u, {}))
  BY QuietCredential
<1> HIDE DEF u
<1>3. \A p \in B : Quiet(p)
  BY QuietNode, QuietTyped
<1>4. Quiet(When(Credited(u), Join(B)))
  <2> HIDE DEF B
  <2> QED BY <1>3, QuietJoin, QuietWhen
<1> HIDE DEF B
<1> QED BY <1>1, <1>2, <1>4, QuietJoin

LEMMA QuietNestedNodes == \A f : Quiet(nestedFlowNodes(f))
  BY QuietNode, QuietJoin DEF nestedFlowNodes

LEMMA QuietNestedEdges == \A f : Quiet(nestedFlowEdges(f))
  BY DEF Quiet, nestedFlowEdges, Drawn

LEMMA QuietNestedCall == \A c : Quiet(nestedCompositeActionCall(c))
  BY QuietTyped, QuietWhen DEF nestedCompositeActionCall

LEMMA QuietForward == \A b : Quiet(forwardReusableWorkflowSecret(b))
<1> SUFFICES ASSUME NEW b PROVE Quiet(forwardReusableWorkflowSecret(b))
  OBVIOUS
<1>1. \A out : Quiet(credential(SourceOf(b), out))
  BY QuietCredential DEF SourceOf
<1> QED BY <1>1, QuietWhen DEF forwardReusableWorkflowSecret

LEMMA QuietVolume == \A c, s, v : Quiet(volume(c, s, v))
  BY QuietNode, QuietEdge, QuietJoin DEF volume

LEMMA QuietService == \A c, s : Quiet(service(c, s))
<1> SUFFICES ASSUME NEW c, NEW s PROVE Quiet(service(c, s))
  OBVIOUS
<1> DEFINE At == ServiceId(c, s)
           root == addNode(At, s.traits)
           plain == reference({r \in s.references : r.kind # "compose_secret"}, At,
                              "available_to_service", "confirmed", "compose")
           secret == reference({r \in s.references : r.kind = "compose_secret"}, At,
                               "mounted_as_secret", "confirmed", "compose")
           O == {root, addEdge(At, FileId(c.file), "detected_in"), plain, secret}
           N1 == {addNode(PortId(c, s, p), {}) : p \in s.ports}
           E1 == {addEdge(At, PortId(c, s, p), "exposes_port") : p \in s.ports}
           V  == {volume(c, s, s.volumes[i]) : i \in MountsOf(s)}
           N2 == {addNode(ComposeSecretId(c, n), {}) : n \in s.secrets}
           E2 == {addTypedEdge(ComposeSecretId(c, n), At, "mounted_as_secret", "confirmed") : n \in s.secrets}
           N3 == {addNode(EnvFileId(c, p), {}) : p \in s.envFiles}
           E3 == {addEdge(At, EnvFileId(c, p), "reads_env_file") : p \in s.envFiles}
           D1 == {addEdge(At, ServiceId(c, t), "depends_on") : t \in {x \in c.services : x.name \in s.dependsOn}}
           D2 == {addEdge(At, ServiceId(c, t), "network_reachable") :
                    t \in {x \in c.services : x # s /\ shareComposeNetwork(s, x)}}
<1>1. service(c, s) = Join(O \cup N1 \cup E1 \cup V \cup N2 \cup E2 \cup N3 \cup E3 \cup D1 \cup D2)
  BY DEF service
<1>2. \A p \in O : Quiet(p)
  <2>1. Quiet(plain) /\ Quiet(secret)
    <3> HIDE DEF At
    <3> DEFINE S1 == {r \in s.references : r.kind # "compose_secret"}
               S2 == {r \in s.references : r.kind = "compose_secret"}
    <3>1. /\ plain = reference(S1, At, "available_to_service", "confirmed", "compose")
          /\ secret = reference(S2, At, "mounted_as_secret", "confirmed", "compose")
      OBVIOUS
    <3> HIDE DEF S1, S2, plain, secret
    <3> QED BY <3>1, QuietReference
  <2>2. Quiet(root)
    BY DEF Quiet, addNode
  <2>3. Quiet(addEdge(At, FileId(c.file), "detected_in"))
    BY QuietEdge
  <2> HIDE DEF root, plain, secret
  <2> QED BY <2>1, <2>2, <2>3
<1>3. \A p \in N1 \cup N2 \cup N3 : Quiet(p)
  BY QuietNode
<1>4. \A p \in E1 \cup E3 \cup D1 \cup D2 : Quiet(p)
  BY QuietEdge
<1>5. \A p \in E2 \cup V : Quiet(p)
  BY QuietTyped, QuietVolume
<1> HIDE DEF O, N1, E1, V, N2, E2, N3, E3, D1, D2
<1> QED BY <1>1, <1>2, <1>3, <1>4, <1>5, QuietJoin

LEMMA QuietCompose == \A c : Quiet(compose(c))
<1> SUFFICES ASSUME NEW c PROVE Quiet(compose(c))
  OBVIOUS
<1> DEFINE O == {file(c.file), addEdge(FileId(c.file), RepositoryId, "detected_in")}
           S == {service(c, s) : s \in c.services}
<1>1. compose(c) = Join(O \cup S)
  BY DEF compose
<1>2. \A p \in O \cup S : Quiet(p)
  BY QuietFile, QuietEdge, QuietService
<1> HIDE DEF O, S
<1> QED BY <1>1, <1>2, QuietJoin

LEMMA QuietCanonical ==
  Quiet(Join({addNode(CompositeId(d), {}) : d \in repo.composites} \cup {addNode(RepositoryId, {})}))
<1> DEFINE P == {addNode(CompositeId(d), {}) : d \in repo.composites} \cup {addNode(RepositoryId, {})}
<1>1. \A p \in P : Quiet(p)
  BY QuietNode
<1> HIDE DEF P
<1>2. Quiet(Join(P))
  BY <1>1, QuietJoin
<1> QED BY <1>2 DEF P
-----------------------------------------------------------------------------
\* The use of a credential that finding f records, and the edge it draws.
FindingUse(f)  == [key |-> Upper[f.label], kind |-> "", finding |-> TRUE, fixture |-> f.fixture]
FindingEdge(f) == EdgeOf(CredentialId(Upper[f.label]), FindingId(f), "detected_in", "exposure", "", "plain")

LEMMA FindingBrings ==
  ASSUME NEW f
  PROVE  /\ finding(f).uses = {FindingUse(f)}
         /\ Credited(FindingUse(f)) => FindingEdge(f) \in finding(f).edges
<1> DEFINE u == FindingUse(f)
           A == {file(f.path), addEdge(FindingId(f), FileId(f.path), "detected_in"),
                 addEdge(FileId(f.path), RepositoryId, "detected_in")}
           last == When(f.path # "", Join(A))
           own == addEdge(CredentialId(u.key), FindingId(f), "detected_in")
           B == {addNode(FindingId(f), {}), own, last}
           P == {credential(u, {}), When(Credited(u), Join(B))}
<1>1. finding(f) = Join(P)
  BY DEF finding, FindingUse
<1>2. own.edges = {FindingEdge(f)} /\ own.uses = {}
  BY DEF addEdge, addTypedEdge, Drawn, defaultEvidenceKind, FindingEdge, FindingUse
<1>3. last.uses = {}
  <2>1. /\ file(f.path).uses = {}
        /\ \A a, b, y : addEdge(a, b, y).uses = {}
    BY DEF file, addNode, addEdge, addTypedEdge, Drawn
  <2>2. \A p \in A : p.uses = {}
    BY <2>1
  <2> HIDE DEF A
  <2>3. Join(A).uses = {}
    BY <2>2 DEF Join
  <2> QED BY <2>3 DEF When, Nothing
<1>4. addNode(FindingId(f), {}).uses = {}
  BY DEF addNode
<1> HIDE DEF u, own, last
<1>5. Join(B).uses = {} /\ FindingEdge(f) \in Join(B).edges
  BY <1>2, <1>3, <1>4 DEF Join
<1> HIDE DEF B
<1>6. When(Credited(u), Join(B)).uses = {} /\ credential(u, {}).uses = {u}
  BY <1>5 DEF When, Nothing, credential
<1>7. Join(P).uses = {u}
  BY <1>6 DEF Join
<1>8. Credited(u) => FindingEdge(f) \in Join(P).edges
  BY <1>5 DEF Join, When
<1> QED BY <1>1, <1>7, <1>8 DEF u

\* Findings the builder has not come to.
FindingsToCome ==
  CASE phase = "canonical" -> repo.findings
    [] phase = "findings"  -> todo
    [] OTHER               -> {}

FindingsFound ==
  /\ \A u \in credentials : Credited(u) /\ (u.finding => \E f \in repo.findings : u.key = Upper[f.label])
  /\ ~limitExceeded /\ phase \in DOMAIN NextPhase \cup {"built"} =>
       \A f \in repo.findings \ FindingsToCome :
         Credited(FindingUse(f)) => FindingUse(f) \in credentials /\ FindingEdge(f) \in edges

LEMMA PutFinds ==
  ASSUME NEW p, NEW more, Put(p, more), repo' = repo
  PROVE  /\ credentials' = credentials \cup {u \in p.uses : Credited(u)}
         /\ \A u : Credited(u)' <=> Credited(u)
  BY DEF Put, Credited

\* An operation that leaves the scanner's findings alone.
LEMMA QuietFinds ==
  ASSUME NEW item, NEW p, NEW more, FindingsFound, Do(item, p, more), Quiet(p), phase # "findings"
  PROVE  FindingsFound'
<1>1. todo' = todo \ {item} /\ repo' = repo /\ phase' = phase /\ Put(p, more)
  BY DEF Do
<1>2. /\ credentials' = credentials \cup {u \in p.uses : Credited(u)}
      /\ \A u : Credited(u)' <=> Credited(u)
  BY <1>1, PutFinds
<1>3. \A u \in credentials' : Credited(u)' /\ (u.finding => \E f \in repo'.findings : u.key = Upper[f.label])
  BY <1>1, <1>2 DEF FindingsFound, Quiet
<1>4. FindingsToCome' = FindingsToCome
  BY <1>1 DEF FindingsToCome
<1>5. ASSUME ~limitExceeded', phase \in DOMAIN NextPhase \cup {"built"}, NEW f \in repo.findings \ FindingsToCome,
             Credited(FindingUse(f))
      PROVE  FindingUse(f) \in credentials' /\ FindingEdge(f) \in edges'
  <2>1. ~limitExceeded /\ edges' = edges \cup p.edges
    BY <1>1, <1>5, PutEffect
  <2> QED BY <1>2, <1>5, <2>1 DEF FindingsFound
<1> QED BY <1>1, <1>2, <1>3, <1>4, <1>5 DEF FindingsFound

LEMMA FindingFinds == \A f : FindingsFound /\ AddFinding(f) /\ todo \subseteq repo.findings => FindingsFound'
<1> SUFFICES ASSUME NEW f, FindingsFound, AddFinding(f), todo \subseteq repo.findings PROVE FindingsFound'
  OBVIOUS
<1> DEFINE p == finding(f)
<1>1. /\ phase = "findings" /\ f \in todo /\ todo' = todo \ {f}
      /\ repo' = repo /\ phase' = phase /\ Put(p, {})
  BY DEF AddFinding, Do
<1>2. /\ credentials' = credentials \cup {u \in p.uses : Credited(u)}
      /\ \A u : Credited(u)' <=> Credited(u)
  BY <1>1, PutFinds
<1>3. p.uses = {FindingUse(f)} /\ (Credited(FindingUse(f)) => FindingEdge(f) \in p.edges)
  BY FindingBrings
<1> HIDE DEF p
<1>4. \A u \in credentials' : Credited(u)' /\ (u.finding => \E g \in repo'.findings : u.key = Upper[g.label])
  <2>1. FindingUse(f).key = Upper[f.label] /\ f \in repo.findings
    BY <1>1 DEF FindingUse
  <2> QED BY <1>1, <1>2, <1>3, <2>1 DEF FindingsFound
<1>5. ASSUME ~limitExceeded', NEW g \in repo.findings \ todo', Credited(FindingUse(g))
      PROVE  FindingUse(g) \in credentials' /\ FindingEdge(g) \in edges'
  <2>1. ~limitExceeded /\ edges' = edges \cup p.edges
    BY <1>1, <1>5, PutEffect
  <2>2. CASE g = f
    BY <1>2, <1>3, <1>5, <2>1, <2>2
  <2>3. CASE g # f
    <3>1. g \in repo.findings \ FindingsToCome
      BY <1>1, <1>5, <2>3 DEF FindingsToCome
    <3>2. FindingUse(g) \in credentials /\ FindingEdge(g) \in edges
      BY <1>1, <1>5, <2>1, <3>1, PhaseNames DEF FindingsFound
    <3> QED BY <1>2, <2>1, <3>2
  <2> QED BY <2>2, <2>3
<1>6. FindingsToCome' = todo'
  BY <1>1 DEF FindingsToCome
<1> QED BY <1>1, <1>2, <1>4, <1>5, <1>6 DEF FindingsFound

LEMMA NextListFinds == FindingsFound /\ NextList => FindingsFound'
<1> SUFFICES ASSUME FindingsFound, NextList PROVE FindingsFound'
  OBVIOUS
<1>1. /\ phase \in DOMAIN NextPhase /\ todo = {} /\ phase' = NextPhase[phase] /\ todo' = ItemsOf(phase')
      /\ UNCHANGED <<repo, edges, credentials, limitExceeded>>
  BY DEF NextList, graph
<1>2. \A u : Credited(u)' <=> Credited(u)
  BY <1>1 DEF Credited
<1>3. FindingsToCome \subseteq FindingsToCome'
  <2>1. CASE phase = "canonical"
    <3>1. phase' = "findings"
      BY <1>1, <2>1 DEF NextPhase
    <3>2. todo' = repo.findings
      BY <1>1, <3>1 DEF ItemsOf
    <3> QED BY <2>1, <3>1, <3>2 DEF FindingsToCome
  <2>2. CASE phase # "canonical"
    BY <1>1, <2>2 DEF FindingsToCome
  <2> QED BY <2>1, <2>2
<1> QED BY <1>1, <1>2, <1>3 DEF FindingsFound

LEMMA BuildFinds == BuildInv /\ FindingsFound /\ BuildNext => FindingsFound'
<1> SUFFICES ASSUME BuildInv, FindingsFound, BuildNext PROVE FindingsFound'
  OBVIOUS
<1>1. CASE AddCanonicalNodes
  <2> DEFINE p == Join({addNode(CompositeId(d), {}) : d \in repo.composites} \cup {addNode(RepositoryId, {})})
  <2>1. phase = "canonical" /\ Do("canonical", p, {})
    BY <1>1 DEF AddCanonicalNodes
  <2>2. Quiet(p)
    BY QuietCanonical
  <2> HIDE DEF p
  <2> QED BY <2>1, <2>2, QuietFinds
<1>2. ASSUME NEW i \in todo, AddFinding(i) PROVE FindingsFound'
  <2>1. phase = "findings"
    BY <1>2 DEF AddFinding
  <2>2. todo \subseteq repo.findings
    BY <2>1, PhaseNames DEF BuildInv, ItemsOf
  <2> QED BY <1>2, <2>2, FindingFinds
<1>3. ASSUME NEW i \in todo, AddWorkflow(i) PROVE FindingsFound'
  <2> DEFINE more == CallWarnings(StepCallsIn(i))
  <2>1. phase = "workflows" /\ Do(i, workflow(i), more)
    BY <1>3 DEF AddWorkflow
  <2> HIDE DEF more
  <2> QED BY <2>1, QuietWorkflow, QuietFinds
<1>4. ASSUME NEW i \in todo, AddInputFlow(i) PROVE FindingsFound'
  <2>1. phase = "flows" /\ Do(i, compositeActionInputFlow(i), {})
    BY <1>4 DEF AddInputFlow
  <2> QED BY <2>1, QuietFlow, QuietFinds
<1>5. ASSUME NEW i \in todo, AddNestedNodes(i) PROVE FindingsFound'
  <2>1. phase = "nested_nodes" /\ Do(i, nestedFlowNodes(i), {})
    BY <1>5 DEF AddNestedNodes
  <2> QED BY <2>1, QuietNestedNodes, QuietFinds
<1>6. ASSUME NEW i \in todo, AddNestedEdges(i) PROVE FindingsFound'
  <2> DEFINE p == When(HasParent(i), nestedFlowEdges(i))
  <2>1. phase = "nested_edges" /\ Do(i, p, {})
    BY <1>6 DEF AddNestedEdges
  <2>2. Quiet(p)
    BY QuietNestedEdges, QuietWhen
  <2> HIDE DEF p
  <2> QED BY <2>1, <2>2, QuietFinds
<1>7. ASSUME NEW i \in todo, AddNestedCall(i) PROVE FindingsFound'
  <2> DEFINE more == Tags(i.status \in ActionableStatus, <<"nested", i.parent, i.step, i.status>>)
  <2>1. phase = "calls" /\ Do(i, nestedCompositeActionCall(i), more)
    BY <1>7 DEF AddNestedCall
  <2> HIDE DEF more
  <2> QED BY <2>1, QuietNestedCall, QuietFinds
<1>8. ASSUME NEW i \in todo, AddCompose(i) PROVE FindingsFound'
  <2>1. phase = "compose" /\ Do(i, compose(i), {})
    BY <1>8 DEF AddCompose
  <2> QED BY <2>1, QuietCompose, QuietFinds
<1>9. ASSUME NEW w, NEW j, ForwardSecrets(w, j) PROVE FindingsFound'
  <2> DEFINE P == {forwardReusableWorkflowSecret(b) : b \in {x \in j.secrets : Declared(w, j, x)}}
             more == {<<"undeclared_alias", w.file, j.id, b.name>> :
                        b \in {x \in j.secrets : HasContract(w, j) /\ ~Declared(w, j, x)}}
  <2>1. phase = "forwarding" /\ Do(<<w, j>>, Join(P), more)
    BY <1>9 DEF ForwardSecrets
  <2>2. \A p \in P : Quiet(p)
    BY QuietForward
  <2> HIDE DEF P, more
  <2>3. Quiet(Join(P))
    BY <2>2, QuietJoin
  <2> QED BY <2>1, <2>3, QuietFinds
<1>10. ASSUME NEW w, NEW j, ReportInherit(w, j) PROVE FindingsFound'
  <2> DEFINE more == Tags(j.inherit, <<"inherit", w.file, j.id, CallOf(w, j).status>>)
  <2>1. phase = "inherit" /\ Do(<<w, j>>, Nothing, more)
    BY <1>10 DEF ReportInherit
  <2>2. Quiet(Nothing)
    BY DEF Quiet, Nothing
  <2> HIDE DEF more
  <2> QED BY <2>1, <2>2, QuietFinds
<1>11. CASE NextList
  BY <1>11, NextListFinds
<1> QED BY <1>1, <1>2, <1>3, <1>4, <1>5, <1>6, <1>7, <1>8, <1>9, <1>10, <1>11 DEF BuildNext
-----------------------------------------------------------------------------
(***************************************************************************)
(* What an operation names and where it is.  It is Tame for a set of keys  *)
(* and a set of files if it uses credentials of these keys only and the    *)
(* workflows, jobs, steps and services it adds are of these files: what a  *)
(* workflow or a service mentions, and the file it is in.                  *)
(***************************************************************************)
Parts == {"workflow", "job", "step", "service"}

Tame(p, K, F) ==
  /\ \A u \in p.uses : u.key \in K
  /\ \A n \in p.nodes : n.id[1] \in Parts => n.id[2] \in F

\* The keys of the credentials among references.
Named(refs) == {Upper[r.name] : r \in {x \in refs : x.kind \in CredentialKind}}

LEMMA NamedUpward == \A R, S : R \subseteq S => Named(R) \subseteq Named(S)
  BY DEF Named

LEMMA TameJoin == \A P, K, F : (\A p \in P : Tame(p, K, F)) => Tame(Join(P), K, F)
  BY DEF Tame, Join

LEMMA TameNothing == \A K, F : Tame(Nothing, K, F)
  BY DEF Tame, Nothing

LEMMA TameWhen == \A c, p, K, F : (c => Tame(p, K, F)) => Tame(When(c, p), K, F)
  BY TameNothing DEF When

LEMMA TameNode == \A i, t, K, F : (i[1] \in Parts => i[2] \in F) => Tame(addNode(i, t), K, F)
  BY DEF Tame, addNode

LEMMA TameTyped == \A a, b, y, k, K, F : Tame(addTypedEdge(a, b, y, k), K, F)
  BY DEF Tame, addTypedEdge, Drawn

LEMMA TameEdge == \A a, b, y, K, F : Tame(addEdge(a, b, y), K, F)
  BY TameTyped DEF addEdge

LEMMA TameCredential == \A u, out, K, F : u.key \in K => Tame(credential(u, out), K, F)
  BY DEF Tame, credential, CredentialId, Parts

LEMMA TameReference ==
  \A refs, to, y, k, why, K, F : Named(refs) \subseteq K => Tame(reference(refs, to, y, k, why), K, F)
<1> SUFFICES ASSUME NEW refs, NEW to, NEW y, NEW k, NEW why, NEW K, NEW F, Named(refs) \subseteq K
             PROVE  Tame(reference(refs, to, y, k, why), K, F)
  OBVIOUS
<1> DEFINE One(r) == credential(UseOf(r), {EdgeOf(CredentialId(Upper[r.name]), to, y, k, why, "plain")})
           R == {x \in refs : x.kind \in CredentialKind}
<1>1. \A r \in R : UseOf(r).key \in K
  BY DEF Named, UseOf
<1>2. \A r \in R : Tame(One(r), K, F)
  BY <1>1, TameCredential
<1>3. reference(refs, to, y, k, why) = Join({One(r) : r \in R})
  BY DEF reference
<1> HIDE DEF One, R
<1> QED BY <1>2, <1>3, TameJoin

\* Every credential that a reference names is one that is used.
LEMMA ReferenceNames ==
  \A refs, to, y, k, why : Named(refs) \subseteq {u.key : u \in reference(refs, to, y, k, why).uses}
<1> SUFFICES ASSUME NEW refs, NEW to, NEW y, NEW k, NEW why, NEW r \in refs, r.kind \in CredentialKind
             PROVE  \E u \in reference(refs, to, y, k, why).uses : u.key = Upper[r.name]
  BY DEF Named
<1> DEFINE One(x) == credential(UseOf(x), {EdgeOf(CredentialId(Upper[x.name]), to, y, k, why, "plain")})
<1>1. reference(refs, to, y, k, why) = Join({One(x) : x \in {q \in refs : q.kind \in CredentialKind}})
  BY DEF reference
<1>2. One(r).uses = {UseOf(r)} /\ UseOf(r).key = Upper[r.name]
  BY DEF credential, UseOf
<1> HIDE DEF One
<1>3. UseOf(r) \in Join({One(x) : x \in {q \in refs : q.kind \in CredentialKind}}).uses
  BY <1>2 DEF Join
<1> QED BY <1>1, <1>2, <1>3

LEMMA TameFile == \A f, K, F : Tame(file(f), K, F)
  BY TameNode DEF file, FileId, Parts

LEMMA TamePermission == \A parent, w, owner, p, K, F : Tame(permission(parent, w, owner, p), K, F)
<1> SUFFICES ASSUME NEW parent, NEW w, NEW owner, NEW p, NEW K, NEW F
             PROVE  Tame(permission(parent, w, owner, p), K, F)
  OBVIOUS
<1>1. PermissionId(w, owner, p)[1] \notin Parts
  BY DEF PermissionId, Parts
<1>2. Tame(addNode(PermissionId(w, owner, p), {}), K, F)
  BY <1>1, TameNode
<1> QED BY <1>2, TameEdge, TameJoin DEF permission

LEMMA TameReusableCall == \A w, j, K, F : Tame(reusableWorkflowCall(w, j), K, F)
<1> SUFFICES ASSUME NEW w, NEW j, NEW K, NEW F PROVE Tame(reusableWorkflowCall(w, j), K, F)
  OBVIOUS
<1> DEFINE t == Tags(~Resolved(w, j), "unresolved")
           O == {addNode(ReusableId(w, j), t), addEdge(JobId(w, j), ReusableId(w, j), "calls_workflow")}
           T == {addTypedEdge(ReusableId(w, j), WorkflowId(x), "calls_workflow", "structural") : x \in TargetsOf(w, j)}
<1>1. reusableWorkflowCall(w, j) = Join(O \cup T)
  BY DEF reusableWorkflowCall
<1>2. ReusableId(w, j)[1] \notin Parts
  BY DEF ReusableId, Parts
<1> HIDE DEF t
<1>3. \A p \in O \cup T : Tame(p, K, F)
  BY <1>2, TameNode, TameEdge, TameTyped
<1> HIDE DEF O, T
<1> QED BY <1>1, <1>3, TameJoin

LEMMA TameStep ==
  ASSUME NEW w, NEW j, NEW i, NEW K, NEW F, Named(j.steps[i].references) \subseteq K, w.file \in F
  PROVE  Tame(step(w, j, i), K, F)
<1> DEFINE s == j.steps[i]
           t == Tags(s.action.thirdParty, "third_party") \cup Tags(s.action.mutable, "mutable")
           A == {addNode(ActionId(w, j, i), t), addEdge(StepId(w, j, i), ActionId(w, j, i), "runs_action"),
                 compositeActionCall(w, j, i)}
           R == {reference(InShell(s), StepId(w, j, i), "referenced_by_process", "confirmed", "shell"),
                 reference(s.references \ InShell(s), StepId(w, j, i), "explicitly_forwarded_to", "confirmed", "step")}
           O == {addNode(StepId(w, j, i), {}), addEdge(StepId(w, j, i), JobId(w, j), "belongs_to"),
                 When(s.action # Absent, Join(A))}
<1>1. step(w, j, i) = Join(O \cup R)
  <2>1. step(w, j, i) =
          Join({addNode(StepId(w, j, i), {}), addEdge(StepId(w, j, i), JobId(w, j), "belongs_to"),
                reference(InShell(s), StepId(w, j, i), "referenced_by_process", "confirmed", "shell"),
                reference(s.references \ InShell(s), StepId(w, j, i), "explicitly_forwarded_to", "confirmed", "step"),
                When(s.action # Absent, Join(A))})
    BY DEF step
  <2> HIDE DEF A, s
  <2>2. {addNode(StepId(w, j, i), {}), addEdge(StepId(w, j, i), JobId(w, j), "belongs_to"),
         reference(InShell(s), StepId(w, j, i), "referenced_by_process", "confirmed", "shell"),
         reference(s.references \ InShell(s), StepId(w, j, i), "explicitly_forwarded_to", "confirmed", "step"),
         When(s.action # Absent, Join(A))} = O \cup R
    OBVIOUS
  <2> QED BY <2>1, <2>2
<1>2. Tame(compositeActionCall(w, j, i), K, F)
  BY TameTyped, TameJoin DEF compositeActionCall
<1>3. ActionId(w, j, i)[1] \notin Parts /\ StepId(w, j, i)[2] = w.file
  BY DEF ActionId, StepId, Parts
<1>4. \A p \in A : Tame(p, K, F)
  <2> HIDE DEF t
  <2> QED BY <1>2, <1>3, TameNode, TameEdge
<1>5. Tame(When(s.action # Absent, Join(A)), K, F)
  <2> HIDE DEF A
  <2> QED BY <1>4, TameJoin, TameWhen
<1>6. \A p \in O : Tame(p, K, F)
  <2> HIDE DEF A, s
  <2> QED BY <1>3, <1>5, TameNode, TameEdge
<1>7. \A p \in R : Tame(p, K, F)
  <2>1. Named(InShell(s)) \subseteq K /\ Named(s.references \ InShell(s)) \subseteq K
    BY DEF InShell, Named
  <2> HIDE DEF s
  <2> QED BY <2>1, TameReference
<1> HIDE DEF O, R
<1> QED BY <1>1, <1>6, <1>7, TameJoin

\* The parts of a workflow mention what the workflow as a whole mentions.
WellRead(w) ==
  /\ w.env \subseteq w.references
  /\ \A j \in w.jobs :
       /\ j.references \subseteq w.references
       /\ j.env \cup j.outputs \subseteq j.references
       /\ \A i \in DOMAIN j.steps : j.steps[i].references \subseteq j.references
       /\ \A b \in j.secrets : b.references \subseteq j.references

LEMMA TameJob ==
  ASSUME NEW w, NEW j \in w.jobs, NEW K, NEW F, WellRead(w), Named(w.references) \subseteq K, w.file \in F
  PROVE  Tame(job(w, j), K, F)
<1> DEFINE At == JobId(w, j)
           both(i) == {step(w, j, i),
                       reference(Propagated(w, j), StepId(w, j, i), "available_to_process", "confirmed", "environment")}
           R == {reference(j.references, At, "configured_in", "exposure", "job"),
                 reference(j.env, At, "explicitly_forwarded_to", "confirmed", "environment"),
                 reference(Inherited(w, j), At, "available_to_process", "confirmed", "environment"),
                 reference(j.outputs, At, "explicitly_forwarded_to", "confirmed", "job_output")}
           call == reusableWorkflowCall(w, j)
           t == Tags(j.environment \in ProductionEnvironment, "production_like")
           E == {addNode(EnvironmentId(w, j), t), addEdge(At, EnvironmentId(w, j), "uses_environment")}
           O == {addEdge(At, WorkflowId(w), "belongs_to"),
                 When(j.uses # Absent, call), When(j.environment # "", Join(E))}
           D == {addEdge(At, JobId(w, n), "depends_on") : n \in {x \in w.jobs : x.id \in j.needs}}
           M == {permission(At, w, <<j.id>>, p) : p \in j.permissions}
           S == {Join(both(i)) : i \in DOMAIN j.steps}
<1>1. job(w, j) = Join(R \cup O \cup D \cup M \cup S)
  <2>1. job(w, j) =
          Join({addEdge(At, WorkflowId(w), "belongs_to"),
                reference(j.references, At, "configured_in", "exposure", "job"),
                reference(j.env, At, "explicitly_forwarded_to", "confirmed", "environment"),
                reference(Inherited(w, j), At, "available_to_process", "confirmed", "environment"),
                reference(j.outputs, At, "explicitly_forwarded_to", "confirmed", "job_output"),
                When(j.uses # Absent, call),
                When(j.environment # "", Join(E))} \cup D \cup M \cup S)
    BY DEF job
  <2> HIDE DEF At, E, call, D, M, S
  <2>2. {addEdge(At, WorkflowId(w), "belongs_to"),
         reference(j.references, At, "configured_in", "exposure", "job"),
         reference(j.env, At, "explicitly_forwarded_to", "confirmed", "environment"),
         reference(Inherited(w, j), At, "available_to_process", "confirmed", "environment"),
         reference(j.outputs, At, "explicitly_forwarded_to", "confirmed", "job_output"),
         When(j.uses # Absent, call),
         When(j.environment # "", Join(E))} \cup D \cup M \cup S = R \cup O \cup D \cup M \cup S
    OBVIOUS
  <2> QED BY <2>1, <2>2
<1>2. /\ \A refs \in {j.references, j.env, Inherited(w, j), j.outputs, Propagated(w, j)} : Named(refs) \subseteq K
      /\ \A i \in DOMAIN j.steps : Named(j.steps[i].references) \subseteq K
  <2>1. \A refs \in {j.references, j.env, Inherited(w, j), j.outputs, Propagated(w, j)} : refs \subseteq w.references
    BY DEF WellRead, Inherited, Propagated
  <2>2. \A i \in DOMAIN j.steps : j.steps[i].references \subseteq w.references
    BY DEF WellRead
  <2>3. \A refs : refs \subseteq w.references => Named(refs) \subseteq K
    BY NamedUpward
  <2> QED BY <2>1, <2>2, <2>3
<1>3. \A p \in R : Tame(p, K, F)
  <2> HIDE DEF At
  <2> QED BY <1>2, TameReference
<1>4. \A p \in O : Tame(p, K, F)
  <2>1. Tame(Join(E), K, F)
    <3>1. EnvironmentId(w, j)[1] \notin Parts
      BY DEF EnvironmentId, Parts
    <3> HIDE DEF At, t
    <3> QED BY <3>1, TameNode, TameEdge, TameJoin
  <2>2. Tame(When(j.uses # Absent, call), K, F)
    BY TameReusableCall, TameWhen
  <2>3. Tame(When(j.environment # "", Join(E)), K, F)
    <3> HIDE DEF E
    <3> QED BY <2>1, TameWhen
  <2> HIDE DEF At, E, call
  <2> QED BY <2>2, <2>3, TameEdge
<1>5. \A p \in D \cup M : Tame(p, K, F)
  BY TameEdge, TamePermission
<1>6. \A p \in S : Tame(p, K, F)
  <2>1. \A i \in DOMAIN j.steps : \A p \in both(i) : Tame(p, K, F)
    <3> SUFFICES ASSUME NEW i \in DOMAIN j.steps PROVE \A p \in both(i) : Tame(p, K, F)
      OBVIOUS
    <3>1. Tame(step(w, j, i), K, F)
      BY <1>2, TameStep
    <3>2. Tame(reference(Propagated(w, j), StepId(w, j, i), "available_to_process", "confirmed", "environment"), K, F)
      BY <1>2, TameReference
    <3> QED BY <3>1, <3>2
  <2> HIDE DEF both
  <2> QED BY <2>1, TameJoin
<1> HIDE DEF R, O, D, M, S
<1> QED BY <1>1, <1>3, <1>4, <1>5, <1>6, TameJoin

\* A workflow uses what it mentions, and nothing else.
LEMMA TameWorkflow ==
  ASSUME NEW w, NEW K, NEW F, WellRead(w), Named(w.references) \subseteq K, w.file \in F
  PROVE  /\ Tame(workflow(w), K, F)
         /\ Named(w.references) \subseteq {u.key : u \in workflow(w).uses}
<1> DEFINE At == WorkflowId(w)
           root == addNode(At, Tags(w.missingPermissions, "missing_permissions"))
           own == reference(w.references, At, "configured_in", "exposure", "workflow")
           R == {own, reference(w.env, At, "configured_in", "confirmed", "environment")}
           O == {file(w.file), addEdge(FileId(w.file), RepositoryId, "detected_in"), root,
                 addEdge(At, FileId(w.file), "detected_in")}
           T == {addNode(TriggerId(w, t), {}) : t \in w.triggers}
           U == {addEdge(At, TriggerId(w, t), "triggered_by") : t \in w.triggers}
           M == {permission(At, w, <<>>, p) : p \in w.permissions}
           N == {addNode(JobId(w, j), {}) : j \in w.jobs}
           J == {job(w, j) : j \in w.jobs}
           all == R \cup O \cup T \cup U \cup M \cup N \cup J
<1>1. workflow(w) = Join(all)
  <2>1. workflow(w) =
          Join({file(w.file), addEdge(FileId(w.file), RepositoryId, "detected_in"), root,
                addEdge(At, FileId(w.file), "detected_in"), own,
                reference(w.env, At, "configured_in", "confirmed", "environment")}
               \cup T \cup U \cup M \cup N \cup J)
    BY DEF workflow
  <2> HIDE DEF At, root, own, T, U, M, N, J
  <2>2. {file(w.file), addEdge(FileId(w.file), RepositoryId, "detected_in"), root,
         addEdge(At, FileId(w.file), "detected_in"), own,
         reference(w.env, At, "configured_in", "confirmed", "environment")}
        \cup T \cup U \cup M \cup N \cup J = all
    OBVIOUS
  <2> QED BY <2>1, <2>2
<1>2. \A p \in R : Tame(p, K, F)
  <2>1. Named(w.env) \subseteq K
    BY NamedUpward DEF WellRead
  <2> HIDE DEF At
  <2> QED BY <2>1, TameReference
<1>3. \A p \in O : Tame(p, K, F)
  <2>1. Tame(root, K, F)
    <3>1. At[2] = w.file
      BY DEF WorkflowId
    <3> HIDE DEF At
    <3> QED BY <3>1, TameNode
  <2> HIDE DEF At, root
  <2> QED BY <2>1, TameFile, TameEdge
<1>4. \A p \in T \cup U \cup N : Tame(p, K, F)
  <2>1. \A t : TriggerId(w, t)[1] \notin Parts
    BY DEF TriggerId, Parts
  <2>2. \A j : JobId(w, j)[2] = w.file
    BY DEF JobId
  <2> QED BY <2>1, <2>2, TameNode, TameEdge
<1>5. \A p \in M \cup J : Tame(p, K, F)
  BY TamePermission, TameJob
<1>6. Named(w.references) \subseteq {u.key : u \in own.uses}
  BY ReferenceNames
<1>7. own \in all
  OBVIOUS
<1> HIDE DEF R, O, T, U, M, N, J, own
<1>8. \A p \in all : Tame(p, K, F)
  BY <1>2, <1>3, <1>4, <1>5
<1> HIDE DEF all
<1>9. own.uses \subseteq Join(all).uses
  BY <1>7 DEF Join
<1> QED BY <1>1, <1>6, <1>8, <1>9, TameJoin

LEMMA TameFinding ==
  ASSUME NEW f, NEW K, NEW F, Upper[f.label] \in K
  PROVE  Tame(finding(f), K, F) /\ Upper[f.label] \in {u.key : u \in finding(f).uses}
<1> DEFINE u == FindingUse(f)
           A == {file(f.path), addEdge(FindingId(f), FileId(f.path), "detected_in"),
                 addEdge(FileId(f.path), RepositoryId, "detected_in")}
           B == {addNode(FindingId(f), {}), addEdge(CredentialId(u.key), FindingId(f), "detected_in"),
                 When(f.path # "", Join(A))}
           P == {credential(u, {}), When(Credited(u), Join(B))}
<1>1. finding(f) = Join(P)
  BY DEF finding, FindingUse
<1>2. u.key = Upper[f.label] /\ finding(f).uses = {u}
  BY FindingBrings DEF FindingUse
<1>3. FindingId(f)[1] \notin Parts
  BY DEF FindingId, Parts
<1> HIDE DEF u
<1>4. Tame(credential(u, {}), K, F)
  BY <1>2, TameCredential
<1>5. \A p \in A : Tame(p, K, F)
  BY TameFile, TameEdge
<1>6. Tame(When(f.path # "", Join(A)), K, F)
  <2> HIDE DEF A
  <2> QED BY <1>5, TameJoin, TameWhen
<1>7. \A p \in B : Tame(p, K, F)
  <2> HIDE DEF A
  <2> QED BY <1>3, <1>6, TameNode, TameEdge
<1>8. Tame(When(Credited(u), Join(B)), K, F)
  <2> HIDE DEF B
  <2> QED BY <1>7, TameJoin, TameWhen
<1>9. Tame(Join(P), K, F)
  <2> HIDE DEF B
  <2> QED BY <1>4, <1>8, TameJoin
<1> HIDE DEF P
<1> QED BY <1>1, <1>2, <1>9

LEMMA TameFlow ==
  ASSUME NEW f, NEW K, NEW F, Upper[f.secret] \in K
  PROVE  Tame(compositeActionInputFlow(f), K, F)
<1> DEFINE u == UseOf([kind |-> "secret", name |-> f.secret])
           B == {addNode(BindingId(f), {}),
                 addTypedEdge(CredentialId(u.key), BindingId(f), "explicitly_forwarded_to", "confirmed")}
                \cup {addNode(UsageId(f, i), {}) : i \in f.usages}
                \cup {addTypedEdge(BindingId(f), UsageId(f, i), "explicitly_forwarded_to", "confirmed") : i \in f.usages}
<1>1. compositeActionInputFlow(f) = Join({credential(u, {}), When(Credited(u), Join(B))})
  BY DEF compositeActionInputFlow
<1>2. u.key = Upper[f.secret]
  BY DEF UseOf
<1>3. BindingId(f)[1] \notin Parts /\ \A i : UsageId(f, i)[1] \notin Parts
  BY DEF BindingId, UsageId, Parts
<1> HIDE DEF u
<1>4. Tame(credential(u, {}), K, F)
  BY <1>2, TameCredential
<1>5. \A p \in B : Tame(p, K, F)
  BY <1>3, TameNode, TameTyped
<1>6. Tame(When(Credited(u), Join(B)), K, F)
  <2> HIDE DEF B
  <2> QED BY <1>5, TameJoin, TameWhen
<1> HIDE DEF B
<1> QED BY <1>1, <1>4, <1>6, TameJoin

LEMMA TameNestedNodes == \A f, K, F : Tame(nestedFlowNodes(f), K, F)
<1> SUFFICES ASSUME NEW f, NEW K, NEW F PROVE Tame(nestedFlowNodes(f), K, F)
  OBVIOUS
<1>1. BindingId(f)[1] \notin Parts /\ \A i : UsageId(f, i)[1] \notin Parts
  BY DEF BindingId, UsageId, Parts
<1> QED BY <1>1, TameNode, TameJoin DEF nestedFlowNodes

LEMMA TameNestedEdges == \A f, K, F : Tame(nestedFlowEdges(f), K, F)
  BY DEF Tame, nestedFlowEdges, Drawn

LEMMA TameNestedCall == \A c, K, F : Tame(nestedCompositeActionCall(c), K, F)
  BY TameTyped, TameWhen DEF nestedCompositeActionCall

\* The source of an alias is one of the secrets that its value mentions.
LEMMA TameForward ==
  ASSUME NEW b, NEW K, NEW F, Named(b.references) \subseteq K
  PROVE  Tame(forwardReusableWorkflowSecret(b), K, F)
<1> DEFINE out == IF SourceOf(b).key = Upper[b.name] THEN {}
                  ELSE {EdgeOf(CredentialId(SourceOf(b).key), CredentialId(Upper[b.name]),
                               "explicitly_forwarded_to", "confirmed", "", "reusable")}
           c == Single(b) /\ Upper[b.name] \in Known
<1>1. forwardReusableWorkflowSecret(b) = When(c, credential(SourceOf(b), out))
  BY DEF forwardReusableWorkflowSecret
<1>2. ASSUME c PROVE SourceOf(b).key \in K
  <2>1. SecretsOf(b) # {}
    <3>1. Cardinality({}) = 0
      BY FS_EmptySet
    <3>2. Cardinality(SecretsOf(b)) = 1
      BY <1>2 DEF Single
    <3> QED BY <3>1, <3>2
  <2> DEFINE r == CHOOSE x \in SecretsOf(b) : TRUE
  <2>2. r \in b.references /\ r.kind = "secret"
    BY <2>1 DEF SecretsOf
  <2> HIDE DEF r
  <2>3. SourceOf(b).key = Upper[r.name]
    BY DEF SourceOf, UseOf, r
  <2> QED BY <2>2, <2>3 DEF Named, CredentialKind
<1> HIDE DEF c, out
<1> QED BY <1>1, <1>2, TameCredential, TameWhen

LEMMA TameVolume == \A c, s, v, K, F : Tame(volume(c, s, v), K, F)
<1> SUFFICES ASSUME NEW c, NEW s, NEW v, NEW K, NEW F PROVE Tame(volume(c, s, v), K, F)
  OBVIOUS
<1>1. VolumeId(c, s, v)[1] \notin Parts
  BY DEF VolumeId, Parts
<1> QED BY <1>1, TameNode, TameEdge, TameJoin DEF volume

LEMMA TameService ==
  ASSUME NEW c, NEW s, NEW K, NEW F, Named(s.references) \subseteq K, c.file \in F
  PROVE  /\ Tame(service(c, s), K, F)
         /\ Named(s.references) \subseteq {u.key : u \in service(c, s).uses}
<1> DEFINE At == ServiceId(c, s)
           root == addNode(At, s.traits)
           S1 == {r \in s.references : r.kind # "compose_secret"}
           S2 == {r \in s.references : r.kind = "compose_secret"}
           plain == reference(S1, At, "available_to_service", "confirmed", "compose")
           secret == reference(S2, At, "mounted_as_secret", "confirmed", "compose")
           O == {root, addEdge(At, FileId(c.file), "detected_in"), plain, secret}
           N1 == {addNode(PortId(c, s, p), {}) : p \in s.ports}
           E1 == {addEdge(At, PortId(c, s, p), "exposes_port") : p \in s.ports}
           V  == {volume(c, s, s.volumes[i]) : i \in MountsOf(s)}
           N2 == {addNode(ComposeSecretId(c, n), {}) : n \in s.secrets}
           E2 == {addTypedEdge(ComposeSecretId(c, n), At, "mounted_as_secret", "confirmed") : n \in s.secrets}
           N3 == {addNode(EnvFileId(c, p), {}) : p \in s.envFiles}
           E3 == {addEdge(At, EnvFileId(c, p), "reads_env_file") : p \in s.envFiles}
           D1 == {addEdge(At, ServiceId(c, t), "depends_on") : t \in {x \in c.services : x.name \in s.dependsOn}}
           D2 == {addEdge(At, ServiceId(c, t), "network_reachable") :
                    t \in {x \in c.services : x # s /\ shareComposeNetwork(s, x)}}
           all == O \cup N1 \cup E1 \cup V \cup N2 \cup E2 \cup N3 \cup E3 \cup D1 \cup D2
<1>1. service(c, s) = Join(all)
  BY DEF service
<1>2. Named(S1) \subseteq K /\ Named(S2) \subseteq K /\ Named(s.references) \subseteq Named(S1) \cup Named(S2)
  BY DEF Named
<1>3. \A p \in O : Tame(p, K, F)
  <2>1. Tame(plain, K, F) /\ Tame(secret, K, F)
    <3> HIDE DEF At, S1, S2
    <3> QED BY <1>2, TameReference
  <2>2. Tame(root, K, F)
    <3>1. At[2] = c.file
      BY DEF ServiceId
    <3> HIDE DEF At
    <3> QED BY <3>1, TameNode
  <2>3. Tame(addEdge(At, FileId(c.file), "detected_in"), K, F)
    BY TameEdge
  <2> HIDE DEF root, plain, secret
  <2> QED BY <2>1, <2>2, <2>3
<1>4. \A p \in N1 \cup N2 \cup N3 : Tame(p, K, F)
  <2>1. /\ \A p : PortId(c, s, p)[1] \notin Parts
        /\ \A p : ComposeSecretId(c, p)[1] \notin Parts
        /\ \A p : EnvFileId(c, p)[1] \notin Parts
    BY DEF PortId, ComposeSecretId, EnvFileId, Parts
  <2> QED BY <2>1, TameNode
<1>5. \A p \in E1 \cup E3 \cup D1 \cup D2 : Tame(p, K, F)
  BY TameEdge
<1>6. \A p \in E2 \cup V : Tame(p, K, F)
  BY TameTyped, TameVolume
<1>7. Named(S1) \subseteq {u.key : u \in plain.uses} /\ Named(S2) \subseteq {u.key : u \in secret.uses}
  BY ReferenceNames
<1>8. plain \in all /\ secret \in all
  OBVIOUS
<1> HIDE DEF O, N1, E1, V, N2, E2, N3, E3, D1, D2, plain, secret, S1, S2
<1>9. \A p \in all : Tame(p, K, F)
  BY <1>3, <1>4, <1>5, <1>6
<1> HIDE DEF all
<1>10. plain.uses \subseteq Join(all).uses /\ secret.uses \subseteq Join(all).uses
  BY <1>8 DEF Join
<1> QED BY <1>1, <1>2, <1>7, <1>9, <1>10, TameJoin

LEMMA TameCompose ==
  ASSUME NEW c, NEW K, NEW F, \A s \in c.services : Named(s.references) \subseteq K, c.file \in F
  PROVE  /\ Tame(compose(c), K, F)
         /\ \A s \in c.services : Named(s.references) \subseteq {u.key : u \in compose(c).uses}
<1> DEFINE O == {file(c.file), addEdge(FileId(c.file), RepositoryId, "detected_in")}
           S == {service(c, s) : s \in c.services}
<1>1. compose(c) = Join(O \cup S)
  BY DEF compose
<1>2. \A p \in O \cup S : Tame(p, K, F)
  BY TameFile, TameEdge, TameService
<1>3. ASSUME NEW s \in c.services PROVE Named(s.references) \subseteq {u.key : u \in Join(O \cup S).uses}
  <2>1. Named(s.references) \subseteq {u.key : u \in service(c, s).uses}
    BY TameService
  <2>2. service(c, s) \in O \cup S
    OBVIOUS
  <2> HIDE DEF O, S
  <2>3. service(c, s).uses \subseteq Join(O \cup S).uses
    BY <2>2 DEF Join
  <2> QED BY <2>1, <2>3
<1> HIDE DEF O, S
<1> QED BY <1>1, <1>2, <1>3, TameJoin

LEMMA TameCanonical ==
  \A K, F : Tame(Join({addNode(CompositeId(d), {}) : d \in repo.composites} \cup {addNode(RepositoryId, {})}), K, F)
<1> SUFFICES ASSUME NEW K, NEW F
             PROVE  Tame(Join({addNode(CompositeId(d), {}) : d \in repo.composites} \cup {addNode(RepositoryId, {})}), K, F)
  OBVIOUS
<1> DEFINE P == {addNode(CompositeId(d), {}) : d \in repo.composites} \cup {addNode(RepositoryId, {})}
<1>1. RepositoryId[1] \notin Parts /\ \A d : CompositeId(d)[1] \notin Parts
  BY DEF RepositoryId, CompositeId, Parts
<1>2. \A p \in P : Tame(p, K, F)
  BY <1>1, TameNode
<1> HIDE DEF P
<1>3. Tame(Join(P), K, F)
  BY <1>2, TameJoin
<1> QED BY <1>3 DEF P
-----------------------------------------------------------------------------
(***************************************************************************)
(* Ignored variables.  Everything the builder is given mentions what the   *)
(* findings, the workflows and the services of the repository name; a      *)
(* variable is met as soon as the one of them that names it is dealt with. *)
(***************************************************************************)
\* A flow may be of a secret whose name shows nothing: that is the key "".
Spoken ==
  {""} \cup {Upper[f.label] : f \in repo.findings} \cup (UNION {Named(w.references) : w \in repo.workflows})
  \cup UNION {UNION {Named(s.references) : s \in c.services} : c \in repo.compose}

FilesOf == {w.file : w \in repo.workflows} \cup {c.file : c \in repo.compose}

WellGiven == (\A w \in repo.workflows : WellRead(w)) /\ \A f \in repo.flows : Upper[f.secret] \in Spoken

\* The lists that name variables, what an item of them names, and the items that are dealt with.
Naming == {"findings", "workflows", "compose"}

Names(p, i) ==
  CASE p = "findings"  -> {Upper[i.label]}
    [] p = "workflows" -> Named(i.references)
    [] p = "compose"   -> UNION {Named(s.references) : s \in i.services}

Ahead(p) ==
  CASE p = "findings"     -> {"canonical"}
    [] p = "workflows"    -> {"canonical", "findings"}
    [] p = "forwarding"   -> {"canonical", "findings", "workflows"}
    [] p = "flows"        -> {"canonical", "findings", "workflows", "forwarding", "inherit"}
    [] p = "nested_edges" -> {"canonical", "findings", "workflows", "forwarding", "inherit", "flows", "nested_nodes"}
    [] p = "compose"      -> DOMAIN NextPhase \ {"compose"}

Dealt(p) == IF phase \in Ahead(p) THEN {} ELSE IF phase = p THEN ItemsOf(p) \ todo ELSE ItemsOf(p)

VariablesMet ==
  /\ ignored \subseteq Spoken \cap repo.ignoredVariables
  /\ \A n \in DOMAIN nodes : n[1] \in Parts => n[2] \in FilesOf
  /\ phase \in DOMAIN NextPhase \cup {"built", "done"} =>
       /\ WellGiven
       /\ \A p \in Naming : \A i \in Dealt(p) : Names(p, i) \cap repo.ignoredVariables \subseteq ignored

LEMMA GivenStays ==
  ASSUME repo' = repo
  PROVE  /\ Spoken' = Spoken /\ FilesOf' = FilesOf /\ (WellGiven' <=> WellGiven)
         /\ \A p : ItemsOf(p)' = ItemsOf(p)
  BY DEF Spoken, FilesOf, WellGiven, ItemsOf, JobsOf

LEMMA DoMeets ==
  ASSUME NEW item, NEW p, NEW more, VariablesMet, phase \in DOMAIN NextPhase, Do(item, p, more),
         Tame(p, Spoken, FilesOf),
         phase \in Naming => Names(phase, item) \subseteq {u.key : u \in p.uses}
  PROVE  VariablesMet'
<1>1. /\ todo' = todo \ {item} /\ repo' = repo /\ phase' = phase
      /\ ignored' = ignored \cup ({u.key : u \in p.uses} \cap repo.ignoredVariables)
      /\ AddToGraph(p)
  BY DEF Do, Put, Met
<1>2. /\ Spoken' = Spoken /\ FilesOf' = FilesOf /\ (WellGiven' <=> WellGiven)
      /\ \A q : ItemsOf(q)' = ItemsOf(q)
  BY <1>1, GivenStays
<1>3. ignored' \subseteq Spoken' \cap repo'.ignoredVariables
  BY <1>1, <1>2 DEF VariablesMet, Tame
<1>4. \A n \in DOMAIN nodes' : n[1] \in Parts => n[2] \in FilesOf'
  <2>1. DOMAIN nodes' \subseteq DOMAIN nodes \cup Ids(p)
    BY <1>1 DEF AddToGraph, Extended, Ids
  <2>2. \A n \in Ids(p) : n[1] \in Parts => n[2] \in FilesOf
    BY DEF Tame, Ids
  <2> QED BY <1>2, <2>1, <2>2 DEF VariablesMet
<1>5. ASSUME NEW q \in Naming, NEW i \in Dealt(q)' PROVE Names(q, i) \cap repo.ignoredVariables \subseteq ignored'
  <2>1. CASE i \in Dealt(q)
    BY <1>1, <2>1 DEF VariablesMet
  <2>2. CASE i \notin Dealt(q)
    <3>1. phase = q /\ i = item
      BY <1>1, <1>2, <1>5, <2>2 DEF Dealt
    <3> QED BY <1>1, <3>1
  <2> QED BY <2>1, <2>2
<1>6. \A q, i : Names(q, i)' = Names(q, i)
  BY DEF Names
<1> QED BY <1>1, <1>2, <1>3, <1>4, <1>5, <1>6 DEF VariablesMet

LEMMA NextListMeets == VariablesMet /\ NextList => VariablesMet'
<1> SUFFICES ASSUME VariablesMet, NextList PROVE VariablesMet'
  OBVIOUS
<1>1. /\ phase \in DOMAIN NextPhase /\ todo = {} /\ phase' = NextPhase[phase] /\ todo' = ItemsOf(phase')
      /\ UNCHANGED <<repo, nodes, ignored>>
  BY DEF NextList, graph
<1>2. /\ Spoken' = Spoken /\ FilesOf' = FilesOf /\ (WellGiven' <=> WellGiven)
      /\ \A q : ItemsOf(q)' = ItemsOf(q)
  BY <1>1, GivenStays
<1>3. ASSUME NEW q \in Naming PROVE Dealt(q)' \subseteq Dealt(q)
  <2>1. phase' \in Ahead(q) => Dealt(q)' = {}
    BY DEF Dealt, Ahead
  <2>2. phase' = q => Dealt(q)' = {}
    BY <1>1, <1>2 DEF Dealt
  <2>3. phase' \notin Ahead(q) /\ phase' # q => phase \notin Ahead(q)
    BY <1>1, <1>3, PhaseNames DEF Ahead, NextPhase, Naming
  <2>4. phase \notin Ahead(q) => Dealt(q) = ItemsOf(q)
    BY <1>1 DEF Dealt
  <2>5. Dealt(q)' \subseteq ItemsOf(q)
    BY <1>2 DEF Dealt, Ahead
  <2> QED BY <2>1, <2>2, <2>3, <2>4, <2>5
<1>4. \A q, i : Names(q, i)' = Names(q, i)
  BY DEF Names
<1> QED BY <1>1, <1>2, <1>3, <1>4 DEF VariablesMet

\* What the items of the lists that name variables have in common with the rest of what is spoken of.
LEMMA NamesSpoken ==
  /\ \A f \in repo.findings : Upper[f.label] \in Spoken
  /\ \A w \in repo.workflows : Named(w.references) \subseteq Spoken /\ w.file \in FilesOf
  /\ \A c \in repo.compose : /\ \A s \in c.services : Named(s.references) \subseteq Spoken
                             /\ c.file \in FilesOf
<1> DEFINE A == {Upper[f.label] : f \in repo.findings}
           B == UNION {Named(w.references) : w \in repo.workflows}
           C(c) == UNION {Named(s.references) : s \in c.services}
           D == UNION {C(c) : c \in repo.compose}
<1>1. Spoken = {""} \cup A \cup B \cup D
  BY DEF Spoken
<1>2. \A f \in repo.findings : Upper[f.label] \in A
  OBVIOUS
<1>3. \A w \in repo.workflows : Named(w.references) \subseteq B
  OBVIOUS
<1>4. \A c : \A s \in c.services : Named(s.references) \subseteq C(c)
  OBVIOUS
<1>5. \A c \in repo.compose : C(c) \subseteq D
  <2> HIDE DEF C
  <2> QED OBVIOUS
<1>6. /\ \A w \in repo.workflows : w.file \in FilesOf
      /\ \A c \in repo.compose : c.file \in FilesOf
  BY DEF FilesOf
<1> HIDE DEF A, B, C, D
<1> QED BY <1>1, <1>2, <1>3, <1>4, <1>5, <1>6

LEMMA BuildMeets == BuildInv /\ VariablesMet /\ BuildNext => VariablesMet'
<1> SUFFICES ASSUME BuildInv, VariablesMet, BuildNext PROVE VariablesMet'
  OBVIOUS
<1>a. ASSUME phase \in DOMAIN NextPhase
      PROVE  /\ todo \subseteq ItemsOf(phase)
             /\ \A w \in repo.workflows : WellRead(w)
             /\ \A f \in repo.flows : Upper[f.secret] \in Spoken
  BY <1>a DEF BuildInv, VariablesMet, WellGiven
<1>1. CASE AddCanonicalNodes
  <2> DEFINE p == Join({addNode(CompositeId(d), {}) : d \in repo.composites} \cup {addNode(RepositoryId, {})})
  <2>1. phase = "canonical" /\ Do("canonical", p, {})
    BY <1>1 DEF AddCanonicalNodes
  <2>2. Tame(p, Spoken, FilesOf)
    BY TameCanonical
  <2> HIDE DEF p
  <2> QED BY <2>1, <2>2, PhaseNames, DoMeets DEF Naming
<1>2. ASSUME NEW i \in todo, AddFinding(i) PROVE VariablesMet'
  <2>1. phase = "findings" /\ Do(i, finding(i), {})
    BY <1>2 DEF AddFinding
  <2>2. i \in repo.findings
    BY <1>a, <2>1, PhaseNames DEF ItemsOf
  <2>3. Tame(finding(i), Spoken, FilesOf) /\ Upper[i.label] \in {u.key : u \in finding(i).uses}
    BY <2>2, NamesSpoken, TameFinding
  <2> QED BY <2>1, <2>3, PhaseNames, DoMeets DEF Names
<1>3. ASSUME NEW i \in todo, AddWorkflow(i) PROVE VariablesMet'
  <2> DEFINE more == CallWarnings(StepCallsIn(i))
  <2>1. phase = "workflows" /\ Do(i, workflow(i), more)
    BY <1>3 DEF AddWorkflow
  <2>2. i \in repo.workflows /\ WellRead(i)
    BY <1>a, <2>1, PhaseNames DEF ItemsOf
  <2>3. Tame(workflow(i), Spoken, FilesOf) /\ Named(i.references) \subseteq {u.key : u \in workflow(i).uses}
    BY <2>2, NamesSpoken, TameWorkflow
  <2> HIDE DEF more
  <2> QED BY <2>1, <2>3, PhaseNames, DoMeets DEF Names
<1>4. ASSUME NEW i \in todo, AddInputFlow(i) PROVE VariablesMet'
  <2>1. phase = "flows" /\ Do(i, compositeActionInputFlow(i), {})
    BY <1>4 DEF AddInputFlow
  <2>2. Upper[i.secret] \in Spoken
    BY <1>a, <2>1, PhaseNames DEF ItemsOf
  <2>3. Tame(compositeActionInputFlow(i), Spoken, FilesOf)
    BY <2>2, TameFlow
  <2> QED BY <2>1, <2>3, PhaseNames, DoMeets DEF Naming
<1>5. ASSUME NEW i \in todo, AddNestedNodes(i) PROVE VariablesMet'
  <2>1. phase = "nested_nodes" /\ Do(i, nestedFlowNodes(i), {})
    BY <1>5 DEF AddNestedNodes
  <2> QED BY <2>1, PhaseNames, TameNestedNodes, DoMeets DEF Naming
<1>6. ASSUME NEW i \in todo, AddNestedEdges(i) PROVE VariablesMet'
  <2> DEFINE p == When(HasParent(i), nestedFlowEdges(i))
  <2>1. phase = "nested_edges" /\ Do(i, p, {})
    BY <1>6 DEF AddNestedEdges
  <2>2. Tame(p, Spoken, FilesOf)
    BY TameNestedEdges, TameWhen
  <2> HIDE DEF p
  <2> QED BY <2>1, <2>2, PhaseNames, DoMeets DEF Naming
<1>7. ASSUME NEW i \in todo, AddNestedCall(i) PROVE VariablesMet'
  <2> DEFINE more == Tags(i.status \in ActionableStatus, <<"nested", i.parent, i.step, i.status>>)
  <2>1. phase = "calls" /\ Do(i, nestedCompositeActionCall(i), more)
    BY <1>7 DEF AddNestedCall
  <2> HIDE DEF more
  <2> QED BY <2>1, PhaseNames, TameNestedCall, DoMeets DEF Naming
<1>8. ASSUME NEW i \in todo, AddCompose(i) PROVE VariablesMet'
  <2>1. phase = "compose" /\ Do(i, compose(i), {})
    BY <1>8 DEF AddCompose
  <2>2. i \in repo.compose
    BY <1>a, <2>1, PhaseNames DEF ItemsOf
  <2>3. /\ Tame(compose(i), Spoken, FilesOf)
        /\ \A s \in i.services : Named(s.references) \subseteq {u.key : u \in compose(i).uses}
    BY <2>2, NamesSpoken, TameCompose
  <2>4. Names("compose", i) = UNION {Named(s.references) : s \in i.services}
    BY DEF Names
  <2>5. Names("compose", i) \subseteq {u.key : u \in compose(i).uses}
    BY <2>3, <2>4
  <2> QED BY <2>1, <2>3, <2>5, PhaseNames, DoMeets
<1>9. ASSUME NEW w, NEW j, ForwardSecrets(w, j) PROVE VariablesMet'
  <2> DEFINE P == {forwardReusableWorkflowSecret(b) : b \in {x \in j.secrets : Declared(w, j, x)}}
             more == {<<"undeclared_alias", w.file, j.id, b.name>> :
                        b \in {x \in j.secrets : HasContract(w, j) /\ ~Declared(w, j, x)}}
  <2>1. phase = "forwarding" /\ <<w, j>> \in todo /\ Do(<<w, j>>, Join(P), more)
    BY <1>9 DEF ForwardSecrets
  <2>2. w \in repo.workflows /\ j \in w.jobs
    <3>1. <<w, j>> \in JobsOf(repo.workflows)
      BY <1>a, <2>1, PhaseNames DEF ItemsOf
    <3> QED BY <3>1 DEF JobsOf
  <2>3. \A b \in j.secrets : Named(b.references) \subseteq Spoken
    <3>1. WellRead(w) /\ Named(w.references) \subseteq Spoken
      BY <1>a, <2>1, <2>2, PhaseNames, NamesSpoken
    <3>2. \A b \in j.secrets : b.references \subseteq w.references
      BY <2>2, <3>1 DEF WellRead
    <3>3. \A b \in j.secrets : Named(b.references) \subseteq Named(w.references)
      BY <3>2, NamedUpward
    <3> QED BY <3>1, <3>3
  <2>4. \A p \in P : Tame(p, Spoken, FilesOf)
    BY <2>3, TameForward
  <2> HIDE DEF P, more
  <2>5. Tame(Join(P), Spoken, FilesOf)
    BY <2>4, TameJoin
  <2> QED BY <2>1, <2>5, PhaseNames, DoMeets DEF Naming
<1>10. ASSUME NEW w, NEW j, ReportInherit(w, j) PROVE VariablesMet'
  <2> DEFINE more == Tags(j.inherit, <<"inherit", w.file, j.id, CallOf(w, j).status>>)
  <2>1. phase = "inherit" /\ Do(<<w, j>>, Nothing, more)
    BY <1>10 DEF ReportInherit
  <2> HIDE DEF more
  <2> QED BY <2>1, PhaseNames, TameNothing, DoMeets DEF Naming
<1>11. CASE NextList
  BY <1>11, NextListMeets
<1> QED BY <1>1, <1>2, <1>3, <1>4, <1>5, <1>6, <1>7, <1>8, <1>9, <1>10, <1>11 DEF BuildNext
-----------------------------------------------------------------------------
(***************************************************************************)
(* Where credentials lead.  An edge Leads if traversal follows it to a     *)
(* credential, a step, a service, or the binding or a usage of an input;   *)
(* secrets that a Compose file mounts have nodes of their own that nothing *)
(* leads to.  Piece by piece an operation draws the arrows that are its    *)
(* own (its Arrows), no more and no fewer.                                 *)
(***************************************************************************)
Followed == {"credential", "step", "service", "composesecret", "binding", "usage"}

Leads(e)  == e.kind \notin {"topology", "structural"} /\ e.from[1] # "composesecret" /\ e.to[1] \in Followed
Arrow(e)  == <<e.from, e.to, e.class>>
Led(E)    == {Arrow(e) : e \in {x \in E : Leads(x)}}
Arrows(p) == Led(p.edges)

\* A key that the graph shows.
Shown(k)    == k # "" /\ k \notin repo.ignoredVariables
LedTo(to, K) == {<<CredentialId(k), to, "plain">> : k \in {x \in K : Shown(x)}}

LEMMA JoinArrows == \A P, A : (\A p \in P : Arrows(p) \subseteq A) => Arrows(Join(P)) \subseteq A
  BY DEF Arrows, Led, Join

LEMMA PartArrows == \A P : \A p \in P : Arrows(p) \subseteq Arrows(Join(P))
  BY DEF Arrows, Led, Join

LEMMA JoinNoArrows == \A P : (\A p \in P : Arrows(p) = {}) => Arrows(Join(P)) = {}
  BY JoinArrows

LEMMA NothingArrows == Arrows(Nothing) = {}
  BY DEF Arrows, Led, Nothing

LEMMA WhenArrows == \A c, p : /\ c => Arrows(When(c, p)) = Arrows(p)
                              /\ ~c => Arrows(When(c, p)) = {}
  BY NothingArrows DEF When

LEMMA WhenNoArrows == \A c, p : (c => Arrows(p) = {}) => Arrows(When(c, p)) = {}
  BY WhenArrows

LEMMA NodeArrows == \A i, t : Arrows(addNode(i, t)) = {}
  BY DEF Arrows, Led, addNode

LEMMA TypedArrows ==
  \A a, b, y, k : /\ k \in {"topology", "structural"} \/ a[1] = "composesecret" \/ b[1] \notin Followed
                       => Arrows(addTypedEdge(a, b, y, k)) = {}
                  /\ k \notin {"topology", "structural"} /\ a[1] # "composesecret" /\ b[1] \in Followed
                       => Arrows(addTypedEdge(a, b, y, k)) = {<<a, b, "plain">>}
<1> SUFFICES ASSUME NEW a, NEW b, NEW y, NEW k
             PROVE  /\ k \in {"topology", "structural"} \/ a[1] = "composesecret" \/ b[1] \notin Followed
                         => Arrows(addTypedEdge(a, b, y, k)) = {}
                    /\ k \notin {"topology", "structural"} /\ a[1] # "composesecret" /\ b[1] \in Followed
                         => Arrows(addTypedEdge(a, b, y, k)) = {<<a, b, "plain">>}
  OBVIOUS
<1> DEFINE e == EdgeOf(a, b, y, k, "", "plain")
<1>1. addTypedEdge(a, b, y, k).edges = {e}
  BY DEF addTypedEdge, Drawn
<1>2. Arrow(e) = <<a, b, "plain">>
  BY DEF EdgeOf, Arrow
<1>3. Leads(e) <=> k \notin {"topology", "structural"} /\ a[1] # "composesecret" /\ b[1] \in Followed
  BY DEF EdgeOf, Leads
<1> HIDE DEF e
<1> QED BY <1>1, <1>2, <1>3 DEF Arrows, Led

LEMMA EdgeArrows ==
  \A a, b, y : y \in {"depends_on", "network_reachable"} \/ b[1] \notin Followed => Arrows(addEdge(a, b, y)) = {}
  BY TypedArrows DEF addEdge, defaultEvidenceKind

LEMMA CreditedShown == \A u : Credited(u) <=> Shown(u.key)
  BY DEF Credited, Shown

\* What a node is given by a reference.
LEMMA ReferenceArrows ==
  \A refs, to, y, k, why :
    /\ to[1] \notin Followed => Arrows(reference(refs, to, y, k, why)) = {}
    /\ to[1] \in Followed /\ k = "confirmed" => Arrows(reference(refs, to, y, k, why)) = LedTo(to, Named(refs))
<1> SUFFICES ASSUME NEW refs, NEW to, NEW y, NEW k, NEW why
             PROVE  /\ to[1] \notin Followed => Arrows(reference(refs, to, y, k, why)) = {}
                    /\ to[1] \in Followed /\ k = "confirmed"
                         => Arrows(reference(refs, to, y, k, why)) = LedTo(to, Named(refs))
  OBVIOUS
<1> DEFINE E(r) == EdgeOf(CredentialId(Upper[r.name]), to, y, k, why, "plain")
           One(r) == credential(UseOf(r), {E(r)})
           R == {x \in refs : x.kind \in CredentialKind}
           p == reference(refs, to, y, k, why)
<1>1. p = Join({One(r) : r \in R})
  BY DEF reference
<1>2. \A r : /\ One(r).edges = IF Shown(Upper[r.name]) THEN {E(r)} ELSE {}
             /\ Arrow(E(r)) = <<CredentialId(Upper[r.name]), to, "plain">>
             /\ to[1] \notin Followed => ~Leads(E(r))
             /\ to[1] \in Followed /\ k = "confirmed" => Leads(E(r))
  <2> SUFFICES ASSUME NEW r
               PROVE  /\ One(r).edges = IF Shown(Upper[r.name]) THEN {E(r)} ELSE {}
                      /\ Arrow(E(r)) = <<CredentialId(Upper[r.name]), to, "plain">>
                      /\ to[1] \notin Followed => ~Leads(E(r))
                      /\ to[1] \in Followed /\ k = "confirmed" => Leads(E(r))
    OBVIOUS
  <2>1. UseOf(r).key = Upper[r.name]
    BY DEF UseOf
  <2>2. One(r).edges = IF Credited(UseOf(r)) THEN {E(r)} ELSE {}
    BY DEF credential
  <2>3. E(r).from = CredentialId(Upper[r.name]) /\ E(r).to = to /\ E(r).kind = k /\ E(r).class = "plain"
    BY DEF EdgeOf
  <2>4. CredentialId(Upper[r.name])[1] = "credential"
    BY DEF CredentialId
  <2> HIDE DEF E, One
  <2> QED BY <2>1, <2>2, <2>3, <2>4, CreditedShown DEF Arrow, Leads
<1>3. p.edges = UNION {One(r).edges : r \in R}
  <2> HIDE DEF One
  <2> QED BY <1>1 DEF Join
<1> HIDE DEF p, One, E
<1>4. \A e : e \in p.edges <=> \E r \in R : Shown(Upper[r.name]) /\ e = E(r)
  <2>1. \A r, e : e \in One(r).edges <=> Shown(Upper[r.name]) /\ e = E(r)
    <3> SUFFICES ASSUME NEW r, NEW e PROVE e \in One(r).edges <=> Shown(Upper[r.name]) /\ e = E(r)
      OBVIOUS
    <3>1. One(r).edges = IF Shown(Upper[r.name]) THEN {E(r)} ELSE {}
      BY <1>2
    <3> QED BY <3>1
  <2> HIDE DEF R
  <2>2. \A e : e \in p.edges <=> \E r \in R : e \in One(r).edges
    BY <1>3
  <2> QED BY <2>1, <2>2
<1>5. to[1] \notin Followed => Arrows(p) = {}
  BY <1>2, <1>4 DEF Arrows, Led
<1>6. ASSUME to[1] \in Followed, k = "confirmed" PROVE Arrows(p) = LedTo(to, Named(refs))
  <2>1. Arrows(p) = {Arrow(e) : e \in p.edges}
    BY <1>2, <1>4, <1>6 DEF Arrows, Led
  <2>2. \A a : a \in Arrows(p) <=> \E r \in R : Shown(Upper[r.name]) /\ a = <<CredentialId(Upper[r.name]), to, "plain">>
    BY <1>2, <1>4, <2>1
  <2>3. \A x : x \in Named(refs) <=> \E r \in R : x = Upper[r.name]
    BY DEF Named
  <2>4. \A a : a \in LedTo(to, Named(refs)) <=> \E x \in Named(refs) : Shown(x) /\ a = <<CredentialId(x), to, "plain">>
    BY DEF LedTo
  <2> HIDE DEF R
  <2> QED BY <2>2, <2>3, <2>4
<1> QED BY <1>5, <1>6 DEF p

LEMMA LedToBoth == \A to, K, L : LedTo(to, K \cup L) = LedTo(to, K) \cup LedTo(to, L)
  BY DEF LedTo

LEMMA NamedBoth == \A R, S : Named(R \cup S) = Named(R) \cup Named(S)
  BY DEF Named

StepArrows(w, j, i) == LedTo(StepId(w, j, i), Named(j.steps[i].references \cup Propagated(w, j)))
JobArrows(w, j)     == UNION {StepArrows(w, j, i) : i \in DOMAIN j.steps}
WorkflowArrows(w)   == UNION {JobArrows(w, j) : j \in w.jobs}

LEMMA StepDraws == \A w, j, i : Arrows(step(w, j, i)) = LedTo(StepId(w, j, i), Named(j.steps[i].references))
<1> SUFFICES ASSUME NEW w, NEW j, NEW i
             PROVE  Arrows(step(w, j, i)) = LedTo(StepId(w, j, i), Named(j.steps[i].references))
  OBVIOUS
<1> DEFINE s == j.steps[i]
           At == StepId(w, j, i)
           t == Tags(s.action.thirdParty, "third_party") \cup Tags(s.action.mutable, "mutable")
           A == {addNode(ActionId(w, j, i), t), addEdge(At, ActionId(w, j, i), "runs_action"),
                 compositeActionCall(w, j, i)}
           r1 == reference(InShell(s), At, "referenced_by_process", "confirmed", "shell")
           r2 == reference(s.references \ InShell(s), At, "explicitly_forwarded_to", "confirmed", "step")
           O == {addNode(At, {}), addEdge(At, JobId(w, j), "belongs_to"), When(s.action # Absent, Join(A))}
           P == O \cup {r1, r2}
<1>1. step(w, j, i) = Join(P)
  <2>1. step(w, j, i) = Join({addNode(At, {}), addEdge(At, JobId(w, j), "belongs_to"), r1, r2,
                              When(s.action # Absent, Join(A))})
    BY DEF step
  <2> HIDE DEF A, s, r1, r2, At
  <2>2. {addNode(At, {}), addEdge(At, JobId(w, j), "belongs_to"), r1, r2, When(s.action # Absent, Join(A))} = P
    OBVIOUS
  <2> QED BY <2>1, <2>2
<1>2. Arrows(compositeActionCall(w, j, i)) = {}
  <2>1. \A d : Arrows(addTypedEdge(ActionId(w, j, i), CompositeId(d), "runs_action", "structural")) = {}
    BY TypedArrows
  <2> QED BY <2>1, JoinNoArrows DEF compositeActionCall
<1>3. ActionId(w, j, i)[1] \notin Followed /\ JobId(w, j)[1] \notin Followed /\ At[1] = "step" /\ "step" \in Followed
  BY DEF ActionId, JobId, StepId, Followed
<1> HIDE DEF At
<1>4. \A p \in A : Arrows(p) = {}
  <2> HIDE DEF t
  <2> QED BY <1>2, <1>3, NodeArrows, EdgeArrows
<1>5. Arrows(When(s.action # Absent, Join(A))) = {}
  <2> HIDE DEF A
  <2> QED BY <1>4, JoinNoArrows, WhenNoArrows
<1>6. \A p \in O : Arrows(p) = {}
  <2> HIDE DEF A, s
  <2> QED BY <1>3, <1>5, NodeArrows, EdgeArrows
<1>7. Arrows(r1) = LedTo(At, Named(InShell(s))) /\ Arrows(r2) = LedTo(At, Named(s.references \ InShell(s)))
  <2> HIDE DEF s
  <2> QED BY <1>3, ReferenceArrows
<1>8. Arrows(r1) \cup Arrows(r2) = LedTo(At, Named(s.references))
  <2>1. InShell(s) \cup (s.references \ InShell(s)) = s.references
    BY DEF InShell
  <2> HIDE DEF s
  <2> QED BY <1>7, <2>1, LedToBoth, NamedBoth
<1>9. r1 \in P /\ r2 \in P
  OBVIOUS
<1> HIDE DEF r1, r2, O
<1>10. \A p \in P : Arrows(p) \subseteq LedTo(At, Named(s.references))
  BY <1>6, <1>8
<1> HIDE DEF P
<1>11. Arrows(Join(P)) \subseteq LedTo(At, Named(s.references))
  BY <1>10, JoinArrows
<1>12. Arrows(r1) \subseteq Arrows(Join(P)) /\ Arrows(r2) \subseteq Arrows(Join(P))
  BY <1>9, PartArrows
<1> HIDE DEF s
<1>13. Arrows(step(w, j, i)) = LedTo(At, Named(s.references))
  BY <1>1, <1>8, <1>11, <1>12
<1> QED BY <1>13 DEF At, s

LEMMA PermissionArrows == \A parent, w, owner, p : Arrows(permission(parent, w, owner, p)) = {}
<1> SUFFICES ASSUME NEW parent, NEW w, NEW owner, NEW p PROVE Arrows(permission(parent, w, owner, p)) = {}
  OBVIOUS
<1>1. PermissionId(w, owner, p)[1] \notin Followed
  BY DEF PermissionId, Followed
<1> QED BY <1>1, NodeArrows, EdgeArrows, JoinNoArrows DEF permission

LEMMA ReusableCallArrows == \A w, j : Arrows(reusableWorkflowCall(w, j)) = {}
<1> SUFFICES ASSUME NEW w, NEW j PROVE Arrows(reusableWorkflowCall(w, j)) = {}
  OBVIOUS
<1> DEFINE t == Tags(~Resolved(w, j), "unresolved")
           O == {addNode(ReusableId(w, j), t), addEdge(JobId(w, j), ReusableId(w, j), "calls_workflow")}
           T == {addTypedEdge(ReusableId(w, j), WorkflowId(x), "calls_workflow", "structural") : x \in TargetsOf(w, j)}
<1>1. reusableWorkflowCall(w, j) = Join(O \cup T)
  BY DEF reusableWorkflowCall
<1>2. ReusableId(w, j)[1] \notin Followed
  BY DEF ReusableId, Followed
<1> HIDE DEF t
<1>3. \A p \in O \cup T : Arrows(p) = {}
  BY <1>2, NodeArrows, EdgeArrows, TypedArrows
<1> HIDE DEF O, T
<1> QED BY <1>1, <1>3, JoinNoArrows

LEMMA JobDraws == \A w, j : Arrows(job(w, j)) = JobArrows(w, j)
<1> SUFFICES ASSUME NEW w, NEW j PROVE Arrows(job(w, j)) = JobArrows(w, j)
  OBVIOUS
<1> DEFINE At == JobId(w, j)
           env(i) == reference(Propagated(w, j), StepId(w, j, i), "available_to_process", "confirmed", "environment")
           both(i) == {step(w, j, i), env(i)}
           call == reusableWorkflowCall(w, j)
           t == Tags(j.environment \in ProductionEnvironment, "production_like")
           E == {addNode(EnvironmentId(w, j), t), addEdge(At, EnvironmentId(w, j), "uses_environment")}
           R == {reference(j.references, At, "configured_in", "exposure", "job"),
                 reference(j.env, At, "explicitly_forwarded_to", "confirmed", "environment"),
                 reference(Inherited(w, j), At, "available_to_process", "confirmed", "environment"),
                 reference(j.outputs, At, "explicitly_forwarded_to", "confirmed", "job_output")}
           O == {addEdge(At, WorkflowId(w), "belongs_to"),
                 When(j.uses # Absent, call), When(j.environment # "", Join(E))}
           D == {addEdge(At, JobId(w, n), "depends_on") : n \in {x \in w.jobs : x.id \in j.needs}}
           M == {permission(At, w, <<j.id>>, p) : p \in j.permissions}
           S == {Join(both(i)) : i \in DOMAIN j.steps}
<1>1. job(w, j) = Join(R \cup O \cup D \cup M \cup S)
  <2>1. job(w, j) =
          Join({addEdge(At, WorkflowId(w), "belongs_to"),
                reference(j.references, At, "configured_in", "exposure", "job"),
                reference(j.env, At, "explicitly_forwarded_to", "confirmed", "environment"),
                reference(Inherited(w, j), At, "available_to_process", "confirmed", "environment"),
                reference(j.outputs, At, "explicitly_forwarded_to", "confirmed", "job_output"),
                When(j.uses # Absent, call),
                When(j.environment # "", Join(E))} \cup D \cup M \cup S)
    BY DEF job
  <2> HIDE DEF At, E, call, D, M, S
  <2>2. {addEdge(At, WorkflowId(w), "belongs_to"),
         reference(j.references, At, "configured_in", "exposure", "job"),
         reference(j.env, At, "explicitly_forwarded_to", "confirmed", "environment"),
         reference(Inherited(w, j), At, "available_to_process", "confirmed", "environment"),
         reference(j.outputs, At, "explicitly_forwarded_to", "confirmed", "job_output"),
         When(j.uses # Absent, call),
         When(j.environment # "", Join(E))} \cup D \cup M \cup S = R \cup O \cup D \cup M \cup S
    OBVIOUS
  <2> QED BY <2>1, <2>2
<1>2. At[1] \notin Followed /\ WorkflowId(w)[1] \notin Followed /\ EnvironmentId(w, j)[1] \notin Followed
  BY DEF JobId, WorkflowId, EnvironmentId, Followed
<1>3. \A p \in R : Arrows(p) = {}
  <2> HIDE DEF At
  <2> QED BY <1>2, ReferenceArrows
<1>4. \A p \in O : Arrows(p) = {}
  <2>1. Arrows(Join(E)) = {}
    <3> HIDE DEF At, t
    <3>1. \A p \in E : Arrows(p) = {}
      BY <1>2, NodeArrows, EdgeArrows
    <3> HIDE DEF E
    <3> QED BY <3>1, JoinNoArrows
  <2>2. Arrows(When(j.uses # Absent, call)) = {}
    BY ReusableCallArrows, WhenNoArrows
  <2>3. Arrows(When(j.environment # "", Join(E))) = {}
    <3> HIDE DEF E
    <3> QED BY <2>1, WhenNoArrows
  <2> HIDE DEF At, E, call
  <2> QED BY <1>2, <2>2, <2>3, EdgeArrows
<1>5. \A p \in D \cup M : Arrows(p) = {}
  <2> HIDE DEF At
  <2> QED BY EdgeArrows, PermissionArrows
<1>6. \A i \in DOMAIN j.steps : Arrows(Join(both(i))) = StepArrows(w, j, i)
  <2> SUFFICES ASSUME NEW i \in DOMAIN j.steps PROVE Arrows(Join(both(i))) = StepArrows(w, j, i)
    OBVIOUS
  <2>1. StepId(w, j, i)[1] \in Followed
    BY DEF StepId, Followed
  <2>2. Arrows(step(w, j, i)) = LedTo(StepId(w, j, i), Named(j.steps[i].references))
    BY StepDraws
  <2>3. Arrows(env(i)) = LedTo(StepId(w, j, i), Named(Propagated(w, j)))
    BY <2>1, ReferenceArrows
  <2>4. StepArrows(w, j, i) = Arrows(step(w, j, i)) \cup Arrows(env(i))
    BY <2>2, <2>3, LedToBoth, NamedBoth DEF StepArrows
  <2> HIDE DEF env
  <2>5. \A p \in both(i) : Arrows(p) \subseteq StepArrows(w, j, i)
    BY <2>4
  <2>6. step(w, j, i) \in both(i) /\ env(i) \in both(i)
    OBVIOUS
  <2> HIDE DEF both
  <2>7. Arrows(Join(both(i))) \subseteq StepArrows(w, j, i)
    BY <2>5, JoinArrows
  <2>8. Arrows(step(w, j, i)) \subseteq Arrows(Join(both(i))) /\ Arrows(env(i)) \subseteq Arrows(Join(both(i)))
    BY <2>6, PartArrows
  <2> QED BY <2>4, <2>7, <2>8
<1> DEFINE all == R \cup O \cup D \cup M \cup S
<1>7. \A i \in DOMAIN j.steps : Join(both(i)) \in all
  OBVIOUS
<1>8. \A p \in S : Arrows(p) \subseteq JobArrows(w, j)
  <2> HIDE DEF both
  <2> QED BY <1>6 DEF JobArrows
<1> HIDE DEF R, O, D, M, S
<1>9. \A p \in all : Arrows(p) \subseteq JobArrows(w, j)
  BY <1>3, <1>4, <1>5, <1>8
<1> HIDE DEF all, both
<1>10. Arrows(Join(all)) \subseteq JobArrows(w, j)
  BY <1>9, JoinArrows
<1>11. \A i \in DOMAIN j.steps : StepArrows(w, j, i) \subseteq Arrows(Join(all))
  BY <1>6, <1>7, PartArrows
<1>12. JobArrows(w, j) \subseteq Arrows(Join(all))
  BY <1>11 DEF JobArrows
<1> QED BY <1>1, <1>10, <1>12 DEF all

LEMMA WorkflowDraws == \A w : Arrows(workflow(w)) = WorkflowArrows(w)
<1> SUFFICES ASSUME NEW w PROVE Arrows(workflow(w)) = WorkflowArrows(w)
  OBVIOUS
<1> DEFINE At == WorkflowId(w)
           root == addNode(At, Tags(w.missingPermissions, "missing_permissions"))
           R == {reference(w.references, At, "configured_in", "exposure", "workflow"),
                 reference(w.env, At, "configured_in", "confirmed", "environment")}
           O == {file(w.file), addEdge(FileId(w.file), RepositoryId, "detected_in"), root,
                 addEdge(At, FileId(w.file), "detected_in")}
           T == {addNode(TriggerId(w, t), {}) : t \in w.triggers}
           U == {addEdge(At, TriggerId(w, t), "triggered_by") : t \in w.triggers}
           M == {permission(At, w, <<>>, p) : p \in w.permissions}
           N == {addNode(JobId(w, j), {}) : j \in w.jobs}
           J == {job(w, j) : j \in w.jobs}
           all == R \cup O \cup T \cup U \cup M \cup N \cup J
<1>1. workflow(w) = Join(all)
  <2>1. workflow(w) =
          Join({file(w.file), addEdge(FileId(w.file), RepositoryId, "detected_in"), root,
                addEdge(At, FileId(w.file), "detected_in"),
                reference(w.references, At, "configured_in", "exposure", "workflow"),
                reference(w.env, At, "configured_in", "confirmed", "environment")}
               \cup T \cup U \cup M \cup N \cup J)
    BY DEF workflow
  <2> HIDE DEF At, root, T, U, M, N, J
  <2>2. {file(w.file), addEdge(FileId(w.file), RepositoryId, "detected_in"), root,
         addEdge(At, FileId(w.file), "detected_in"),
         reference(w.references, At, "configured_in", "exposure", "workflow"),
         reference(w.env, At, "configured_in", "confirmed", "environment")}
        \cup T \cup U \cup M \cup N \cup J = all
    OBVIOUS
  <2> QED BY <2>1, <2>2
<1>2. /\ At[1] \notin Followed /\ RepositoryId[1] \notin Followed /\ FileId(w.file)[1] \notin Followed
      /\ \A t : TriggerId(w, t)[1] \notin Followed
  BY DEF WorkflowId, RepositoryId, FileId, TriggerId, Followed
<1>3. \A p \in R \cup O : Arrows(p) = {}
  <2> HIDE DEF At
  <2> QED BY <1>2, ReferenceArrows, EdgeArrows, NodeArrows DEF file
<1>4. \A p \in T \cup U \cup M \cup N : Arrows(p) = {}
  <2> HIDE DEF At
  <2> QED BY <1>2, EdgeArrows, NodeArrows, PermissionArrows
<1>5. \A p \in J : Arrows(p) \subseteq WorkflowArrows(w)
  BY JobDraws DEF WorkflowArrows
<1>6. \A j \in w.jobs : job(w, j) \in all
  OBVIOUS
<1> HIDE DEF R, O, T, U, M, N, J
<1>7. \A p \in all : Arrows(p) \subseteq WorkflowArrows(w)
  BY <1>3, <1>4, <1>5
<1> HIDE DEF all
<1>8. Arrows(Join(all)) \subseteq WorkflowArrows(w)
  BY <1>7, JoinArrows
<1>9. \A j \in w.jobs : JobArrows(w, j) \subseteq Arrows(Join(all))
  BY <1>6, PartArrows, JobDraws
<1>10. WorkflowArrows(w) \subseteq Arrows(Join(all))
  BY <1>9 DEF WorkflowArrows
<1> QED BY <1>1, <1>8, <1>10

LEMMA CredentialArrows == \A u : Arrows(credential(u, {})) = {}
  BY DEF Arrows, Led, credential

LEMMA FileArrows == \A f : Arrows(file(f)) = {}
  BY NodeArrows DEF file

LEMMA FindingArrows == \A f : Arrows(finding(f)) = {}
<1> SUFFICES ASSUME NEW f PROVE Arrows(finding(f)) = {}
  OBVIOUS
<1> DEFINE u == FindingUse(f)
           A == {file(f.path), addEdge(FindingId(f), FileId(f.path), "detected_in"),
                 addEdge(FileId(f.path), RepositoryId, "detected_in")}
           B == {addNode(FindingId(f), {}), addEdge(CredentialId(u.key), FindingId(f), "detected_in"),
                 When(f.path # "", Join(A))}
           P == {credential(u, {}), When(Credited(u), Join(B))}
<1>1. finding(f) = Join(P)
  BY DEF finding, FindingUse
<1>2. FindingId(f)[1] \notin Followed /\ FileId(f.path)[1] \notin Followed /\ RepositoryId[1] \notin Followed
  BY DEF FindingId, FileId, RepositoryId, Followed
<1> HIDE DEF u
<1>3. \A p \in A : Arrows(p) = {}
  BY <1>2, FileArrows, EdgeArrows
<1>4. Arrows(When(f.path # "", Join(A))) = {}
  <2> HIDE DEF A
  <2> QED BY <1>3, JoinNoArrows, WhenNoArrows
<1>5. \A p \in B : Arrows(p) = {}
  <2> HIDE DEF A
  <2> QED BY <1>2, <1>4, NodeArrows, EdgeArrows
<1>6. Arrows(When(Credited(u), Join(B))) = {}
  <2> HIDE DEF B
  <2> QED BY <1>5, JoinNoArrows, WhenNoArrows
<1>7. \A p \in P : Arrows(p) = {}
  <2> HIDE DEF B
  <2> QED BY <1>6, CredentialArrows
<1> HIDE DEF P
<1> QED BY <1>1, <1>7, JoinNoArrows

\* An input flow, from the credential to its binding and from there to the steps that read it.
FlowArrows(f) ==
  IF Shown(Upper[f.secret])
  THEN {<<CredentialId(Upper[f.secret]), BindingId(f), "plain">>}
       \cup {<<BindingId(f), UsageId(f, i), "plain">> : i \in f.usages}
  ELSE {}

LEMMA FlowDraws == \A f : /\ Arrows(compositeActionInputFlow(f)) = FlowArrows(f)
                          /\ Shown(Upper[f.secret]) => \A i \in f.usages : UsageId(f, i) \in Ids(compositeActionInputFlow(f))
<1> SUFFICES ASSUME NEW f
             PROVE  /\ Arrows(compositeActionInputFlow(f)) = FlowArrows(f)
                    /\ Shown(Upper[f.secret]) => \A i \in f.usages : UsageId(f, i) \in Ids(compositeActionInputFlow(f))
  OBVIOUS
<1> DEFINE u == UseOf([kind |-> "secret", name |-> f.secret])
           first == addTypedEdge(CredentialId(u.key), BindingId(f), "explicitly_forwarded_to", "confirmed")
           next(i) == addTypedEdge(BindingId(f), UsageId(f, i), "explicitly_forwarded_to", "confirmed")
           U == {addNode(UsageId(f, i), {}) : i \in f.usages}
           E == {next(i) : i \in f.usages}
           B == {addNode(BindingId(f), {}), first} \cup U \cup E
           P == {credential(u, {}), When(Credited(u), Join(B))}
           X == {<<CredentialId(u.key), BindingId(f), "plain">>}
                \cup {<<BindingId(f), UsageId(f, i), "plain">> : i \in f.usages}
<1>1. compositeActionInputFlow(f) = Join(P)
  BY DEF compositeActionInputFlow
<1>2. u.key = Upper[f.secret] /\ (Credited(u) <=> Shown(u.key))
  BY CreditedShown DEF UseOf
<1>3. /\ CredentialId(u.key)[1] # "composesecret" /\ BindingId(f)[1] # "composesecret" /\ BindingId(f)[1] \in Followed
      /\ \A i : UsageId(f, i)[1] \in Followed
  BY DEF CredentialId, BindingId, UsageId, Followed
<1>4. FlowArrows(f) = IF Shown(u.key) THEN X ELSE {}
  BY <1>2 DEF FlowArrows
<1> HIDE DEF u
<1>5. /\ Arrows(first) = {<<CredentialId(u.key), BindingId(f), "plain">>}
      /\ \A i : Arrows(next(i)) = {<<BindingId(f), UsageId(f, i), "plain">>}
  BY <1>3, TypedArrows
<1>6. \A i \in f.usages : next(i) \in B /\ addNode(UsageId(f, i), {}) \in B
  OBVIOUS
<1>7. first \in B
  OBVIOUS
<1>8. Arrows(Join(B)) = X
  <2>1. \A p \in U \cup {addNode(BindingId(f), {})} : Arrows(p) = {}
    BY NodeArrows
  <2> HIDE DEF first, next, U
  <2>2. Arrows(first) \subseteq X /\ \A i \in f.usages : Arrows(next(i)) \subseteq X
    BY <1>5
  <2>3. \A p \in B : Arrows(p) \subseteq X
    BY <2>1, <2>2
  <2> HIDE DEF B
  <2>4. Arrows(Join(B)) \subseteq X
    <3> HIDE DEF X
    <3> QED BY <2>3, JoinArrows
  <2>5. <<CredentialId(u.key), BindingId(f), "plain">> \in Arrows(Join(B))
    BY <1>5, <1>7, PartArrows
  <2>6. \A i \in f.usages : <<BindingId(f), UsageId(f, i), "plain">> \in Arrows(Join(B))
    BY <1>5, <1>6, PartArrows
  <2>7. X \subseteq Arrows(Join(B))
    BY <2>5, <2>6
  <2> QED BY <2>4, <2>7
<1>9. \A i \in f.usages : UsageId(f, i) \in Ids(Join(B))
  <2> HIDE DEF B
  <2> QED BY <1>6, NodeOf
<1> HIDE DEF B, X
<1>10. Arrows(When(Credited(u), Join(B))) = IF Shown(u.key) THEN X ELSE {}
  BY <1>2, <1>8, WhenArrows
<1>11. Arrows(credential(u, {})) = {}
  BY CredentialArrows
<1> DEFINE c == credential(u, {})
           v == When(Credited(u), Join(B))
<1>12. P = {c, v}
  OBVIOUS
<1>13. Shown(u.key) => v = Join(B)
  BY <1>2 DEF When
<1> HIDE DEF c, v, P
<1>14. Arrows(Join(P)) = Arrows(v)
  <2>1. \A p \in P : Arrows(p) \subseteq Arrows(v)
    BY <1>11, <1>12 DEF c
  <2>2. Arrows(Join(P)) \subseteq Arrows(v)
    BY <2>1, JoinArrows
  <2>3. Arrows(v) \subseteq Arrows(Join(P))
    BY <1>12, PartArrows
  <2> QED BY <2>2, <2>3
<1>15. Ids(v) \subseteq Ids(Join(P))
  BY <1>12, JoinIds
<1>16. Arrows(v) = IF Shown(u.key) THEN X ELSE {}
  BY <1>10 DEF v
<1> QED BY <1>1, <1>2, <1>4, <1>9, <1>13, <1>14, <1>15, <1>16

LEMMA NestedNodeArrows == \A f : Arrows(nestedFlowNodes(f)) = {}
<1> SUFFICES ASSUME NEW f PROVE Arrows(nestedFlowNodes(f)) = {}
  OBVIOUS
<1> DEFINE P == {addNode(BindingId(f), {})} \cup {addNode(UsageId(f, i), {}) : i \in f.usages}
<1>1. \A p \in P : Arrows(p) = {}
  BY NodeArrows
<1>2. nestedFlowNodes(f) = Join(P)
  BY DEF nestedFlowNodes
<1> HIDE DEF P
<1> QED BY <1>1, <1>2, JoinNoArrows

\* A flow between actions, where the step that makes the call is in the graph.
NestedArrows(f) ==
  {<<ParentUsageId(f), BindingId(f), "crossing">>} \cup {<<BindingId(f), UsageId(f, i), "within">> : i \in f.usages}

LEMMA NestedDraws == \A f : Arrows(nestedFlowEdges(f)) = NestedArrows(f)
<1> SUFFICES ASSUME NEW f PROVE Arrows(nestedFlowEdges(f)) = NestedArrows(f)
  OBVIOUS
<1> DEFINE first == EdgeOf(ParentUsageId(f), BindingId(f), "explicitly_forwarded_to", "confirmed", "", "crossing")
           next(i) == EdgeOf(BindingId(f), UsageId(f, i), "explicitly_forwarded_to", "confirmed", "", "within")
           E == {first} \cup {next(i) : i \in f.usages}
<1>1. nestedFlowEdges(f).edges = E
  BY DEF nestedFlowEdges, Drawn
<1>2. /\ ParentUsageId(f)[1] # "composesecret" /\ BindingId(f)[1] # "composesecret" /\ BindingId(f)[1] \in Followed
      /\ \A i : UsageId(f, i)[1] \in Followed
  BY DEF ParentUsageId, BindingId, UsageId, Followed
<1>3. Leads(first) /\ Arrow(first) = <<ParentUsageId(f), BindingId(f), "crossing">>
  BY <1>2 DEF EdgeOf, Leads, Arrow
<1>4. \A i : Leads(next(i)) /\ Arrow(next(i)) = <<BindingId(f), UsageId(f, i), "within">>
  BY <1>2 DEF EdgeOf, Leads, Arrow
<1> HIDE DEF first, next
<1>5. \A x \in E : Leads(x)
  BY <1>3, <1>4
<1>6. Led(E) = {Arrow(e) : e \in E}
  <2> HIDE DEF E
  <2> QED BY <1>5 DEF Led
<1>7. {Arrow(e) : e \in E} = NestedArrows(f)
  BY <1>3, <1>4 DEF NestedArrows
<1> QED BY <1>1, <1>6, <1>7 DEF Arrows

LEMMA NestedCallArrows == \A c : Arrows(nestedCompositeActionCall(c)) = {}
  BY TypedArrows, WhenNoArrows DEF nestedCompositeActionCall

LEMMA CanonicalArrows ==
  Arrows(Join({addNode(CompositeId(d), {}) : d \in repo.composites} \cup {addNode(RepositoryId, {})})) = {}
<1> DEFINE P == {addNode(CompositeId(d), {}) : d \in repo.composites} \cup {addNode(RepositoryId, {})}
<1>1. \A p \in P : Arrows(p) = {}
  BY NodeArrows
<1> HIDE DEF P
<1>2. Arrows(Join(P)) = {}
  BY <1>1, JoinNoArrows
<1> QED BY <1>2 DEF P

LEMMA VolumeArrows == \A c, s, v : Arrows(volume(c, s, v)) = {}
<1> SUFFICES ASSUME NEW c, NEW s, NEW v PROVE Arrows(volume(c, s, v)) = {}
  OBVIOUS
<1>1. VolumeId(c, s, v)[1] \notin Followed
  BY DEF VolumeId, Followed
<1> QED BY <1>1, NodeArrows, EdgeArrows, JoinNoArrows DEF volume

ServiceArrows(c, s) == LedTo(ServiceId(c, s), Named(s.references))
ComposeArrows(c)    == UNION {ServiceArrows(c, s) : s \in c.services}

LEMMA ServiceDraws == \A c, s : Arrows(service(c, s)) = ServiceArrows(c, s)
<1> SUFFICES ASSUME NEW c, NEW s PROVE Arrows(service(c, s)) = ServiceArrows(c, s)
  OBVIOUS
<1> DEFINE At == ServiceId(c, s)
           root == addNode(At, s.traits)
           S1 == {r \in s.references : r.kind # "compose_secret"}
           S2 == {r \in s.references : r.kind = "compose_secret"}
           plain == reference(S1, At, "available_to_service", "confirmed", "compose")
           secret == reference(S2, At, "mounted_as_secret", "confirmed", "compose")
           O == {root, addEdge(At, FileId(c.file), "detected_in"), plain, secret}
           N1 == {addNode(PortId(c, s, p), {}) : p \in s.ports}
           E1 == {addEdge(At, PortId(c, s, p), "exposes_port") : p \in s.ports}
           V  == {volume(c, s, s.volumes[i]) : i \in MountsOf(s)}
           N2 == {addNode(ComposeSecretId(c, n), {}) : n \in s.secrets}
           E2 == {addTypedEdge(ComposeSecretId(c, n), At, "mounted_as_secret", "confirmed") : n \in s.secrets}
           N3 == {addNode(EnvFileId(c, p), {}) : p \in s.envFiles}
           E3 == {addEdge(At, EnvFileId(c, p), "reads_env_file") : p \in s.envFiles}
           D1 == {addEdge(At, ServiceId(c, t), "depends_on") : t \in {x \in c.services : x.name \in s.dependsOn}}
           D2 == {addEdge(At, ServiceId(c, t), "network_reachable") :
                    t \in {x \in c.services : x # s /\ shareComposeNetwork(s, x)}}
           all == O \cup N1 \cup E1 \cup V \cup N2 \cup E2 \cup N3 \cup E3 \cup D1 \cup D2
<1>1. service(c, s) = Join(all)
  BY DEF service
<1>2. At[1] \in Followed /\ FileId(c.file)[1] \notin Followed
  BY DEF ServiceId, FileId, Followed
<1>3. Arrows(plain) = LedTo(At, Named(S1)) /\ Arrows(secret) = LedTo(At, Named(S2))
  <2> HIDE DEF At, S1, S2
  <2> QED BY <1>2, ReferenceArrows
<1>4. Arrows(plain) \cup Arrows(secret) = ServiceArrows(c, s)
  <2>1. S1 \cup S2 = s.references
    OBVIOUS
  <2> HIDE DEF S1, S2, plain, secret
  <2> QED BY <1>3, <2>1, LedToBoth, NamedBoth DEF ServiceArrows
<1>5. Arrows(root) = {} /\ Arrows(addEdge(At, FileId(c.file), "detected_in")) = {}
  <2> HIDE DEF At
  <2> QED BY <1>2, NodeArrows, EdgeArrows
<1>6. \A p \in N1 \cup N2 \cup N3 : Arrows(p) = {}
  BY NodeArrows
<1>7. \A p \in E1 \cup E3 \cup D1 \cup D2 : Arrows(p) = {}
  <2>1. /\ \A p : PortId(c, s, p)[1] \notin Followed
        /\ \A p : EnvFileId(c, p)[1] \notin Followed
    BY DEF PortId, EnvFileId, Followed
  <2> HIDE DEF At
  <2> QED BY <2>1, EdgeArrows
<1>8. \A p \in E2 \cup V : Arrows(p) = {}
  <2>1. \A n : ComposeSecretId(c, n)[1] = "composesecret"
    BY DEF ComposeSecretId
  <2> HIDE DEF At
  <2> QED BY <2>1, TypedArrows, VolumeArrows
<1>9. plain \in all /\ secret \in all
  OBVIOUS
<1>10. \A p \in O : Arrows(p) \subseteq ServiceArrows(c, s)
  <2> HIDE DEF root, plain, secret
  <2> QED BY <1>4, <1>5
<1> HIDE DEF O, N1, E1, V, N2, E2, N3, E3, D1, D2, plain, secret, S1, S2
<1>11. \A p \in all : Arrows(p) \subseteq ServiceArrows(c, s)
  BY <1>6, <1>7, <1>8, <1>10
<1> HIDE DEF all
<1>12. Arrows(Join(all)) \subseteq ServiceArrows(c, s)
  BY <1>11, JoinArrows
<1>13. Arrows(plain) \subseteq Arrows(Join(all)) /\ Arrows(secret) \subseteq Arrows(Join(all))
  BY <1>9, PartArrows
<1> QED BY <1>1, <1>4, <1>12, <1>13

LEMMA ComposeDraws == \A c : Arrows(compose(c)) = ComposeArrows(c)
<1> SUFFICES ASSUME NEW c PROVE Arrows(compose(c)) = ComposeArrows(c)
  OBVIOUS
<1> DEFINE O == {file(c.file), addEdge(FileId(c.file), RepositoryId, "detected_in")}
           S == {service(c, s) : s \in c.services}
           all == O \cup S
<1>1. compose(c) = Join(all)
  BY DEF compose
<1>2. RepositoryId[1] \notin Followed
  BY DEF RepositoryId, Followed
<1>3. \A p \in O : Arrows(p) = {}
  BY <1>2, FileArrows, EdgeArrows
<1>4. \A p \in S : Arrows(p) \subseteq ComposeArrows(c)
  BY ServiceDraws DEF ComposeArrows
<1>5. \A s \in c.services : service(c, s) \in all
  OBVIOUS
<1> HIDE DEF O, S
<1>6. \A p \in all : Arrows(p) \subseteq ComposeArrows(c)
  BY <1>3, <1>4
<1> HIDE DEF all
<1>7. Arrows(Join(all)) \subseteq ComposeArrows(c)
  BY <1>6, JoinArrows
<1>8. \A s \in c.services : ServiceArrows(c, s) \subseteq Arrows(Join(all))
  BY <1>5, PartArrows, ServiceDraws
<1>9. ComposeArrows(c) \subseteq Arrows(Join(all))
  BY <1>8 DEF ComposeArrows
<1> QED BY <1>1, <1>7, <1>9

(***************************************************************************)
(* What is known when secrets are forwarded: what the findings and the     *)
(* workflows name and the configuration shows.                             *)
(***************************************************************************)
EarlyNames == {Upper[f.label] : f \in repo.findings} \cup UNION {Named(w.references) : w \in repo.workflows}
Early      == {k \in EarlyNames : Shown(k)}

\* A binding hands its one secret on under its own name, which is another.
Aliased(b) == /\ Single(b) /\ Upper[b.name] \in Early
              /\ Shown(SourceOf(b).key) /\ SourceOf(b).key # Upper[b.name]
AliasArrow(b) == <<CredentialId(SourceOf(b).key), CredentialId(Upper[b.name]), "reusable">>

ForwardArrows(w, j) == {AliasArrow(b) : b \in {x \in j.secrets : Declared(w, j, x) /\ Aliased(x)}}

LEMMA SecretDraws ==
  ASSUME Known = Early, NEW b
  PROVE  Arrows(forwardReusableWorkflowSecret(b)) = IF Aliased(b) THEN {AliasArrow(b)} ELSE {}
<1> DEFINE u == SourceOf(b)
           alias == Upper[b.name]
           e == EdgeOf(CredentialId(u.key), CredentialId(alias), "explicitly_forwarded_to", "confirmed", "", "reusable")
           out == IF u.key = alias THEN {} ELSE {e}
           c == Single(b) /\ alias \in Known
<1>1. forwardReusableWorkflowSecret(b) = When(c, credential(u, out))
  BY DEF forwardReusableWorkflowSecret
<1>2. Leads(e) /\ Arrow(e) = AliasArrow(b)
  <2>1. /\ e.from = CredentialId(u.key) /\ e.to = CredentialId(alias) /\ e.kind = "confirmed" /\ e.class = "reusable"
    BY DEF EdgeOf
  <2>2. \A k : CredentialId(k)[1] = "credential"
    BY DEF CredentialId
  <2> HIDE DEF e
  <2> QED BY <2>1, <2>2 DEF Leads, Arrow, AliasArrow, Followed
<1>3. credential(u, out).edges = IF Shown(u.key) THEN out ELSE {}
  <2> HIDE DEF u, out
  <2> QED BY CreditedShown DEF credential
<1> HIDE DEF e
<1>4. Arrows(credential(u, out)) = IF Shown(u.key) /\ u.key # alias THEN {AliasArrow(b)} ELSE {}
  <2>1. Arrows(credential(u, out)) = Led(IF Shown(u.key) THEN out ELSE {})
    BY <1>3 DEF Arrows
  <2>2. Led({e}) = {AliasArrow(b)} /\ Led({}) = {}
    BY <1>2 DEF Led
  <2> QED BY <2>1, <2>2
<1>5. Aliased(b) <=> c /\ Shown(u.key) /\ u.key # alias
  BY DEF Aliased
<1> HIDE DEF c, out, u, alias
<1>6. Arrows(When(c, credential(u, out))) = IF c THEN Arrows(credential(u, out)) ELSE {}
  BY WhenArrows
<1> QED BY <1>1, <1>4, <1>5, <1>6

LEMMA ForwardDraws ==
  ASSUME Known = Early, NEW w, NEW j
  PROVE  Arrows(Join({forwardReusableWorkflowSecret(b) : b \in {x \in j.secrets : Declared(w, j, x)}})) = ForwardArrows(w, j)
<1> DEFINE B == {x \in j.secrets : Declared(w, j, x)}
           P == {forwardReusableWorkflowSecret(b) : b \in B}
<1>1. \A b : Arrows(forwardReusableWorkflowSecret(b)) = IF Aliased(b) THEN {AliasArrow(b)} ELSE {}
  BY SecretDraws
<1>2. ForwardArrows(w, j) = {AliasArrow(b) : b \in {x \in B : Aliased(x)}}
  BY DEF ForwardArrows
<1> HIDE DEF B
<1>3. \A p \in P : Arrows(p) \subseteq ForwardArrows(w, j)
  <2> SUFFICES ASSUME NEW b \in B PROVE Arrows(forwardReusableWorkflowSecret(b)) \subseteq ForwardArrows(w, j)
    OBVIOUS
  <2> QED BY <1>1, <1>2
<1>4. \A b \in B : forwardReusableWorkflowSecret(b) \in P
  OBVIOUS
<1> HIDE DEF P
<1>5. Arrows(Join(P)) \subseteq ForwardArrows(w, j)
  BY <1>3, JoinArrows
<1>6. \A b \in B : Arrows(forwardReusableWorkflowSecret(b)) \subseteq Arrows(Join(P))
  BY <1>4, PartArrows
<1>7. \A b \in B : Aliased(b) => AliasArrow(b) \in Arrows(Join(P))
  <2> SUFFICES ASSUME NEW b \in B, Aliased(b) PROVE AliasArrow(b) \in Arrows(Join(P))
    OBVIOUS
  <2>1. Arrows(forwardReusableWorkflowSecret(b)) = {AliasArrow(b)}
    BY <1>1
  <2> QED BY <1>6, <2>1
<1>8. ForwardArrows(w, j) \subseteq Arrows(Join(P))
  BY <1>2, <1>7
<1>9. Arrows(Join(P)) = ForwardArrows(w, j)
  BY <1>5, <1>8
<1> QED BY <1>9 DEF P, B

-----------------------------------------------------------------------------
(***************************************************************************)
(* The arrows of the graph are those of the items that are dealt with, no  *)
(* others, and all of them while the graph is within its limits, but for   *)
(* nested flows whose parent is in nothing that is drawn.                  *)
(***************************************************************************)
Leading == {"workflows", "forwarding", "flows", "nested_edges", "compose"}

ArrowsOf(p, i) ==
  CASE p = "workflows"    -> WorkflowArrows(i)
    [] p = "forwarding"   -> ForwardArrows(i[1], i[2])
    [] p = "flows"        -> FlowArrows(i)
    [] p = "nested_edges" -> NestedArrows(i)
    [] p = "compose"      -> ComposeArrows(i)

\* Flows whose usages are nodes once the flows are drawn, and those that go on from one of them.
Present      == {f \in repo.flows : Shown(Upper[f.secret])} \cup repo.nestedFlows
MetParent(f) == \E g \in Present : \E i \in g.usages : UsageId(g, i) = ParentUsageId(f)

OnlyArrows == \A e \in edges : Leads(e) => \E p \in Leading : \E i \in ItemsOf(p) : Arrow(e) \in ArrowsOf(p, i)

EarlyKnown ==
  /\ phase \in Ahead("flows") => Known \subseteq Early
  /\ \A p \in {"findings", "workflows"} : \A i \in Dealt(p) : {k \in Names(p, i) : Shown(k)} \subseteq Known

AllArrows ==
  /\ \A p \in Leading : \A i \in Dealt(p) : (p = "nested_edges" => MetParent(i)) => ArrowsOf(p, i) \subseteq Led(edges)
  /\ \A f \in Dealt("flows") : Shown(Upper[f.secret]) => \A i \in f.usages : UsageId(f, i) \in DOMAIN nodes

LedInv ==
  /\ OnlyArrows
  /\ phase \in DOMAIN NextPhase \cup {"built", "done"} => EarlyKnown /\ (~limitExceeded => AllArrows)

LEMMA ArrowsStay ==
  ASSUME repo' = repo
  PROVE  /\ \A p, i : ArrowsOf(p, i)' = ArrowsOf(p, i)
         /\ \A f : MetParent(f)' <=> MetParent(f)
         /\ Early' = Early /\ EarlyNames' = EarlyNames
         /\ \A k : Shown(k)' <=> Shown(k)
<1>1. \A k : Shown(k)' <=> Shown(k)
  BY DEF Shown
<1>2. \A to, K : LedTo(to, K)' = LedTo(to, K)
  BY <1>1 DEF LedTo
<1>3. Early' = Early /\ EarlyNames' = EarlyNames
  BY <1>1 DEF Early, EarlyNames, Named
<1>4. \A f : MetParent(f)' <=> MetParent(f)
  BY <1>1 DEF MetParent, Present
<1>5. \A i : /\ FlowArrows(i)' = FlowArrows(i)
             /\ NestedArrows(i)' = NestedArrows(i)
  BY <1>1 DEF FlowArrows, NestedArrows
<1>6. \A i : ComposeArrows(i)' = ComposeArrows(i)
  <2>1. \A c, s : ServiceArrows(c, s)' = ServiceArrows(c, s)
    BY <1>2 DEF ServiceArrows
  <2> QED BY <2>1 DEF ComposeArrows
<1>7. \A w : WorkflowArrows(w)' = WorkflowArrows(w)
  <2>1. \A w, j, i : StepArrows(w, j, i)' = StepArrows(w, j, i)
    BY <1>2 DEF StepArrows
  <2>2. \A w, j : JobArrows(w, j)' = JobArrows(w, j)
    BY <2>1 DEF JobArrows
  <2> QED BY <2>2 DEF WorkflowArrows
<1>8. \A w, j : ForwardArrows(w, j)' = ForwardArrows(w, j)
  <2>1. \A w, j, b : Declared(w, j, b)' <=> Declared(w, j, b)
    BY DEF Declared, TargetsOf, Resolved, CallOf, CallsOf
  <2>2. \A b : Aliased(b)' <=> Aliased(b)
    BY <1>1, <1>3 DEF Aliased
  <2> QED BY <2>1, <2>2 DEF ForwardArrows
<1>9. \A p, i : ArrowsOf(p, i)' = ArrowsOf(p, i)
  BY <1>5, <1>6, <1>7, <1>8 DEF ArrowsOf
<1> QED BY <1>1, <1>3, <1>4, <1>9

LEMMA LedUpward == \A E, F : E \subseteq F => Led(E) \subseteq Led(F)
  BY DEF Led

LEMMA DoLeads ==
  ASSUME NEW item, NEW p, NEW more, LedInv, phase \in DOMAIN NextPhase, item \in ItemsOf(phase), Do(item, p, more),
         Arrows(p) # {} => phase \in Leading /\ Arrows(p) \subseteq ArrowsOf(phase, item),
         ~limitExceeded /\ phase \in Leading /\ (phase = "nested_edges" => MetParent(item))
           => ArrowsOf(phase, item) \subseteq Arrows(p),
         phase \in Ahead("flows") => {u.key : u \in p.uses} \subseteq EarlyNames \cup {""},
         phase \in {"findings", "workflows"} => Names(phase, item) \subseteq {u.key : u \in p.uses},
         phase = "flows" /\ Shown(Upper[item.secret]) => \A i \in item.usages : UsageId(item, i) \in Ids(p)
  PROVE  LedInv'
<1>1. /\ todo' = todo \ {item} /\ repo' = repo /\ phase' = phase
      /\ Put(p, more) /\ AddToGraph(p)
      /\ credentials' = credentials \cup {u \in p.uses : Credited(u)}
  BY DEF Do, Put
<1>2. /\ \A q : ItemsOf(q)' = ItemsOf(q)
      /\ \A q, i : ArrowsOf(q, i)' = ArrowsOf(q, i)
      /\ \A f : MetParent(f)' <=> MetParent(f)
      /\ Early' = Early /\ \A k : Shown(k)' <=> Shown(k)
  BY <1>1, GivenStays, ArrowsStay
<1>3. \A q, i : i \in Dealt(q)' => i \in Dealt(q) \/ (phase = q /\ i = item)
  BY <1>1, <1>2 DEF Dealt
<1>4. Known' = Known \cup {k \in {u.key : u \in p.uses} : Shown(k)}
  BY <1>1, CreditedShown DEF Known
<1>5. OnlyArrows'
  <2>1. edges' \subseteq edges \cup p.edges
    BY <1>1 DEF AddToGraph
  <2>2. ASSUME NEW e \in edges', Leads(e) PROVE \E q \in Leading : \E i \in ItemsOf(q) : Arrow(e) \in ArrowsOf(q, i)
    <3>1. CASE e \in edges
      BY <2>2, <3>1 DEF LedInv, OnlyArrows
    <3>2. CASE e \in p.edges
      <4>1. Arrow(e) \in Arrows(p)
        BY <2>2, <3>2 DEF Arrows, Led
      <4>2. phase \in Leading /\ Arrow(e) \in ArrowsOf(phase, item)
        BY <4>1
      <4> QED BY <4>2
    <3> QED BY <2>1, <2>2, <3>1, <3>2
  <2> QED BY <1>2, <2>2 DEF OnlyArrows
<1>6. EarlyKnown'
  <2>1. EarlyKnown
    BY DEF LedInv
  <2>2. phase \in Ahead("flows") => Known' \subseteq Early
    BY <1>4, <2>1 DEF EarlyKnown, Early, Shown
  <2>3. ASSUME NEW q \in {"findings", "workflows"}, NEW i \in Dealt(q)', NEW k \in Names(q, i), Shown(k) PROVE k \in Known'
    <3>1. CASE i \in Dealt(q)
      BY <1>4, <2>1, <2>3, <3>1 DEF EarlyKnown
    <3>2. CASE phase = q /\ i = item
      BY <1>4, <2>3, <3>2
    <3> QED BY <1>3, <3>1, <3>2
  <2>4. \A q, i : Names(q, i)' = Names(q, i)
    BY DEF Names
  <2>5. Ahead("flows")' = Ahead("flows")
    BY DEF Ahead
  <2> QED BY <1>1, <1>2, <2>2, <2>3, <2>4, <2>5 DEF EarlyKnown
<1>7. ASSUME ~limitExceeded' PROVE AllArrows'
  <2>1. /\ ~limitExceeded /\ DOMAIN nodes' = DOMAIN nodes \cup Ids(p) /\ edges' = edges \cup p.edges
    BY <1>1, <1>7, PutEffect
  <2>2. AllArrows
    BY <2>1 DEF LedInv
  <2>3. Led(edges) \subseteq Led(edges') /\ Arrows(p) \subseteq Led(edges')
    BY <2>1, LedUpward DEF Arrows
  <2>4. ASSUME NEW q \in Leading, NEW i \in Dealt(q)', q = "nested_edges" => MetParent(i)
        PROVE  ArrowsOf(q, i) \subseteq Led(edges')
    <3>1. CASE i \in Dealt(q)
      BY <2>2, <2>3, <2>4, <3>1 DEF AllArrows
    <3>2. CASE phase = q /\ i = item
      BY <2>1, <2>3, <2>4, <3>2
    <3> QED BY <1>3, <3>1, <3>2
  <2>5. ASSUME NEW f \in Dealt("flows")', Shown(Upper[f.secret]), NEW i \in f.usages PROVE UsageId(f, i) \in DOMAIN nodes'
    <3>1. CASE f \in Dealt("flows")
      BY <2>1, <2>2, <2>5, <3>1 DEF AllArrows
    <3>2. CASE phase = "flows" /\ f = item
      BY <2>1, <2>5, <3>2
    <3> QED BY <1>3, <3>1, <3>2
  <2>6. Led(edges)' = Led(edges')
    BY DEF Led
  <2> QED BY <1>2, <2>4, <2>5, <2>6 DEF AllArrows
<1> QED BY <1>1, <1>5, <1>6, <1>7 DEF LedInv

LEMMA NextListLeads == LedInv /\ NextList => LedInv'
<1> SUFFICES ASSUME LedInv, NextList PROVE LedInv'
  OBVIOUS
<1>1. /\ phase \in DOMAIN NextPhase /\ todo = {} /\ phase' = NextPhase[phase] /\ todo' = ItemsOf(phase')
      /\ UNCHANGED <<repo, nodes, edges, credentials, limitExceeded>>
  BY DEF NextList, graph
<1>2. /\ \A q : ItemsOf(q)' = ItemsOf(q)
      /\ \A q, i : ArrowsOf(q, i)' = ArrowsOf(q, i)
      /\ \A f : MetParent(f)' <=> MetParent(f)
      /\ Early' = Early /\ \A k : Shown(k)' <=> Shown(k)
  BY <1>1, GivenStays, ArrowsStay
<1>3. ASSUME NEW q \in Leading \cup {"findings"} PROVE Dealt(q)' \subseteq Dealt(q)
  <2>1. phase' \in Ahead(q) => Dealt(q)' = {}
    BY DEF Dealt, Ahead
  <2>2. phase' = q => Dealt(q)' = {}
    BY <1>1, <1>2 DEF Dealt
  <2>3. phase' \notin Ahead(q) /\ phase' # q => phase \notin Ahead(q)
    BY <1>1, <1>3, PhaseNames DEF Ahead, NextPhase, Leading
  <2>4. phase \notin Ahead(q) => Dealt(q) = ItemsOf(q)
    BY <1>1 DEF Dealt
  <2>5. Dealt(q)' \subseteq ItemsOf(q)
    BY <1>2 DEF Dealt, Ahead
  <2> QED BY <2>1, <2>2, <2>3, <2>4, <2>5
<1>4. \A q, i : Names(q, i)' = Names(q, i)
  BY DEF Names
<1>5. phase' \in Ahead("flows") => phase \in Ahead("flows")
  BY <1>1, PhaseNames DEF Ahead, NextPhase
<1>6. Known' = Known /\ Led(edges)' = Led(edges) /\ OnlyArrows'
  BY <1>1, <1>2 DEF Known, Led, LedInv, OnlyArrows
<1>7. EarlyKnown'
  <2>1. EarlyKnown /\ Ahead("flows")' = Ahead("flows")
    BY <1>1 DEF LedInv, Ahead
  <2> QED BY <1>2, <1>3, <1>4, <1>5, <1>6, <2>1 DEF EarlyKnown, Leading
<1>8. ~limitExceeded' => AllArrows'
  <2>1. ~limitExceeded => AllArrows
    BY <1>1 DEF LedInv
  <2> QED BY <1>1, <1>2, <1>3, <1>6, <2>1 DEF AllArrows, Leading
<1> QED BY <1>6, <1>7, <1>8 DEF LedInv

\* What is known when secrets are forwarded.
LEMMA ForwardKnown == LedInv /\ phase = "forwarding" => Known = Early
<1> SUFFICES ASSUME LedInv, phase = "forwarding" PROVE Known = Early
  OBVIOUS
<1>1. phase \in DOMAIN NextPhase /\ phase \in Ahead("flows")
  BY PhaseNames DEF Ahead
<1>2. EarlyKnown /\ Known \subseteq Early
  BY <1>1 DEF LedInv, EarlyKnown
<1>3. Dealt("findings") = repo.findings /\ Dealt("workflows") = repo.workflows
  BY DEF Dealt, Ahead, ItemsOf
<1>4. ASSUME NEW k \in Early PROVE k \in Known
  <2>1. Shown(k) /\ k \in EarlyNames
    BY DEF Early
  <2>2. CASE k \in {Upper[f.label] : f \in repo.findings}
    <3>1. PICK f \in repo.findings : k = Upper[f.label]
      BY <2>2
    <3>2. k \in Names("findings", f)
      BY <3>1 DEF Names
    <3> QED BY <1>2, <1>3, <2>1, <3>2 DEF EarlyKnown
  <2>3. CASE k \in UNION {Named(w.references) : w \in repo.workflows}
    <3>1. PICK w \in repo.workflows : k \in Named(w.references)
      BY <2>3
    <3>2. k \in Names("workflows", w)
      BY <3>1 DEF Names
    <3> QED BY <1>2, <1>3, <2>1, <3>2 DEF EarlyKnown
  <2> QED BY <2>1, <2>2, <2>3 DEF EarlyNames
<1> QED BY <1>2, <1>4

\* A nested flow whose parent is drawn finds it.
LEMMA ParentMet ==
  ASSUME BuildInv, LedInv, phase = "nested_edges", ~limitExceeded, NEW f, MetParent(f)
  PROVE  HasParent(f)
<1>1. PICK g \in Present : \E i \in g.usages : UsageId(g, i) = ParentUsageId(f)
  BY DEF MetParent
<1>2. PICK i \in g.usages : UsageId(g, i) = ParentUsageId(f)
  BY <1>1
<1>3. CASE g \in repo.nestedFlows
  <2>1. Bound(g, DOMAIN nodes)
    BY <1>3 DEF BuildInv, Sound, NestedBound
  <2> QED BY <1>2, <2>1 DEF Bound, HasParent
<1>4. CASE g \in repo.flows /\ Shown(Upper[g.secret])
  <2>1. Dealt("flows") = repo.flows
    BY DEF Dealt, Ahead, ItemsOf
  <2>2. AllArrows
    BY PhaseNames DEF LedInv
  <2> QED BY <1>2, <1>4, <2>1, <2>2 DEF AllArrows, HasParent
<1> QED BY <1>1, <1>3, <1>4 DEF Present

LEMMA BuildLeads == BuildInv /\ VariablesMet /\ LedInv /\ BuildNext => LedInv'
<1> SUFFICES ASSUME BuildInv, VariablesMet, LedInv, BuildNext PROVE LedInv'
  OBVIOUS
<1> DEFINE K == EarlyNames \cup {""}
<1>a. ASSUME phase \in DOMAIN NextPhase
      PROVE  /\ todo \subseteq ItemsOf(phase)
             /\ \A w \in repo.workflows : WellRead(w)
  BY <1>a DEF BuildInv, VariablesMet, WellGiven
<1>b. \A w \in repo.workflows : Named(w.references) \subseteq K /\ w.file \in FilesOf
  BY DEF EarlyNames, FilesOf
<1>c. \A f \in repo.findings : Upper[f.label] \in K
  BY DEF EarlyNames
<1>d. \A p, F : Tame(p, K, F) => {u.key : u \in p.uses} \subseteq K
  BY DEF Tame
<1>e. "workflows" \in Leading /\ "forwarding" \in Leading /\ "flows" \in Leading /\ "nested_edges" \in Leading
      /\ "compose" \in Leading
  BY DEF Leading
<1>f. \A i : /\ ArrowsOf("workflows", i) = WorkflowArrows(i)
             /\ ArrowsOf("forwarding", i) = ForwardArrows(i[1], i[2])
             /\ ArrowsOf("flows", i) = FlowArrows(i)
             /\ ArrowsOf("nested_edges", i) = NestedArrows(i)
             /\ ArrowsOf("compose", i) = ComposeArrows(i)
  BY DEF ArrowsOf
<1>1. CASE AddCanonicalNodes
  <2> DEFINE p == Join({addNode(CompositeId(d), {}) : d \in repo.composites} \cup {addNode(RepositoryId, {})})
  <2>1. phase = "canonical" /\ Do("canonical", p, {})
    BY <1>1 DEF AddCanonicalNodes
  <2>2. Tame(p, K, FilesOf) /\ Arrows(p) = {}
    BY TameCanonical, CanonicalArrows
  <2> HIDE DEF p, K
  <2>3. "canonical" \in ItemsOf(phase)
    BY <2>1 DEF ItemsOf
  <2>4. {u.key : u \in p.uses} \subseteq EarlyNames \cup {""}
    BY <1>d, <2>2 DEF K
  <2> QED BY <2>1, <2>2, <2>3, <2>4, PhaseNames, DoLeads DEF Leading
<1>2. ASSUME NEW i \in todo, AddFinding(i) PROVE LedInv'
  <2>1. phase = "findings" /\ Do(i, finding(i), {})
    BY <1>2 DEF AddFinding
  <2>2. i \in repo.findings /\ i \in ItemsOf(phase)
    BY <1>a, <2>1, PhaseNames DEF ItemsOf
  <2>3. Tame(finding(i), K, FilesOf) /\ Upper[i.label] \in {u.key : u \in finding(i).uses}
    BY <1>c, <2>2, TameFinding
  <2>4. Names("findings", i) \subseteq {u.key : u \in finding(i).uses}
    BY <2>3 DEF Names
  <2>5. {u.key : u \in finding(i).uses} \subseteq EarlyNames \cup {""}
    BY <1>d, <2>3
  <2> QED BY <2>1, <2>2, <2>4, <2>5, PhaseNames, FindingArrows, DoLeads DEF Leading
<1>3. ASSUME NEW i \in todo, AddWorkflow(i) PROVE LedInv'
  <2> DEFINE more == CallWarnings(StepCallsIn(i))
  <2>1. phase = "workflows" /\ Do(i, workflow(i), more)
    BY <1>3 DEF AddWorkflow
  <2>2. i \in repo.workflows /\ WellRead(i) /\ i \in ItemsOf(phase)
    BY <1>a, <2>1, PhaseNames DEF ItemsOf
  <2>3. Tame(workflow(i), K, FilesOf) /\ Named(i.references) \subseteq {u.key : u \in workflow(i).uses}
    BY <1>b, <2>2, TameWorkflow
  <2>4. Names("workflows", i) \subseteq {u.key : u \in workflow(i).uses}
    BY <2>3 DEF Names
  <2>5. {u.key : u \in workflow(i).uses} \subseteq EarlyNames \cup {""}
    BY <1>d, <2>3
  <2>6. Arrows(workflow(i)) = ArrowsOf(phase, i)
    BY <1>f, <2>1, WorkflowDraws
  <2> HIDE DEF more
  <2> QED BY <1>e, <2>1, <2>2, <2>4, <2>5, <2>6, PhaseNames, DoLeads
<1>4. ASSUME NEW i \in todo, AddInputFlow(i) PROVE LedInv'
  <2> DEFINE p == compositeActionInputFlow(i)
  <2>1. phase = "flows" /\ Do(i, p, {})
    BY <1>4 DEF AddInputFlow
  <2>2. i \in ItemsOf(phase)
    BY <1>a, <2>1, PhaseNames
  <2>3. /\ Arrows(p) = ArrowsOf(phase, i)
        /\ Shown(Upper[i.secret]) => \A u \in i.usages : UsageId(i, u) \in Ids(p)
    BY <1>f, <2>1, FlowDraws
  <2>4. phase \notin Ahead("flows")
    BY <2>1 DEF Ahead
  <2> HIDE DEF p
  <2> QED BY <1>e, <2>1, <2>2, <2>3, <2>4, PhaseNames, DoLeads
<1>5. ASSUME NEW i \in todo, AddNestedNodes(i) PROVE LedInv'
  <2>1. phase = "nested_nodes" /\ Do(i, nestedFlowNodes(i), {})
    BY <1>5 DEF AddNestedNodes
  <2>2. i \in ItemsOf(phase)
    BY <1>a, <2>1, PhaseNames
  <2>3. phase \notin Ahead("flows") /\ phase \notin Leading
    BY <2>1 DEF Ahead, Leading
  <2> QED BY <2>1, <2>2, <2>3, PhaseNames, NestedNodeArrows, DoLeads
<1>6. ASSUME NEW i \in todo, AddNestedEdges(i) PROVE LedInv'
  <2> DEFINE p == When(HasParent(i), nestedFlowEdges(i))
  <2>1. phase = "nested_edges" /\ Do(i, p, {})
    BY <1>6 DEF AddNestedEdges
  <2>2. i \in ItemsOf(phase)
    BY <1>a, <2>1, PhaseNames
  <2>3. phase \notin Ahead("flows")
    BY <2>1 DEF Ahead
  <2>4. /\ Arrows(p) \subseteq ArrowsOf(phase, i)
        /\ HasParent(i) => Arrows(p) = ArrowsOf(phase, i)
    BY <1>f, <2>1, WhenArrows, NestedDraws
  <2>5. ~limitExceeded /\ MetParent(i) => ArrowsOf(phase, i) \subseteq Arrows(p)
    BY <2>1, <2>4, ParentMet
  <2> HIDE DEF p
  <2> QED BY <1>e, <2>1, <2>2, <2>3, <2>4, <2>5, PhaseNames, DoLeads
<1>7. ASSUME NEW i \in todo, AddNestedCall(i) PROVE LedInv'
  <2> DEFINE more == Tags(i.status \in ActionableStatus, <<"nested", i.parent, i.step, i.status>>)
  <2>1. phase = "calls" /\ Do(i, nestedCompositeActionCall(i), more)
    BY <1>7 DEF AddNestedCall
  <2>2. i \in ItemsOf(phase)
    BY <1>a, <2>1, PhaseNames
  <2>3. phase \notin Ahead("flows") /\ phase \notin Leading
    BY <2>1 DEF Ahead, Leading
  <2> HIDE DEF more
  <2> QED BY <2>1, <2>2, <2>3, PhaseNames, NestedCallArrows, DoLeads
<1>8. ASSUME NEW i \in todo, AddCompose(i) PROVE LedInv'
  <2>1. phase = "compose" /\ Do(i, compose(i), {})
    BY <1>8 DEF AddCompose
  <2>2. i \in ItemsOf(phase)
    BY <1>a, <2>1, PhaseNames
  <2>3. phase \notin Ahead("flows")
    BY <2>1 DEF Ahead
  <2>4. Arrows(compose(i)) = ArrowsOf(phase, i)
    BY <1>f, <2>1, ComposeDraws
  <2> QED BY <1>e, <2>1, <2>2, <2>3, <2>4, PhaseNames, DoLeads
<1>9. ASSUME NEW w, NEW j, ForwardSecrets(w, j) PROVE LedInv'
  <2> DEFINE P == {forwardReusableWorkflowSecret(b) : b \in {x \in j.secrets : Declared(w, j, x)}}
             more == {<<"undeclared_alias", w.file, j.id, b.name>> :
                        b \in {x \in j.secrets : HasContract(w, j) /\ ~Declared(w, j, x)}}
             i == <<w, j>>
  <2>1. phase = "forwarding" /\ i \in todo /\ Do(i, Join(P), more)
    BY <1>9 DEF ForwardSecrets
  <2>2. i \in ItemsOf(phase) /\ w \in repo.workflows /\ j \in w.jobs
    <3>1. i \in JobsOf(repo.workflows) /\ i \in ItemsOf(phase)
      BY <1>a, <2>1, PhaseNames DEF ItemsOf
    <3> QED BY <3>1 DEF JobsOf
  <2>3. \A b \in j.secrets : Named(b.references) \subseteq K
    <3>1. WellRead(w) /\ Named(w.references) \subseteq K
      BY <1>a, <1>b, <2>1, <2>2, PhaseNames
    <3>2. \A b \in j.secrets : b.references \subseteq w.references
      BY <2>2, <3>1 DEF WellRead
    <3>3. \A b \in j.secrets : Named(b.references) \subseteq Named(w.references)
      BY <3>2, NamedUpward
    <3> QED BY <3>1, <3>3
  <2>4. \A p \in P : Tame(p, K, FilesOf)
    BY <2>3, TameForward
  <2>5. Arrows(Join(P)) = ForwardArrows(w, j)
    BY <2>1, ForwardKnown, ForwardDraws
  <2>6. ForwardArrows(w, j) = ArrowsOf(phase, i)
    BY <1>f, <2>1
  <2> HIDE DEF P, more, i, K
  <2>7. Tame(Join(P), K, FilesOf)
    BY <2>4, TameJoin
  <2>8. {u.key : u \in Join(P).uses} \subseteq EarlyNames \cup {""}
    BY <1>d, <2>7 DEF K
  <2> QED BY <1>e, <2>1, <2>2, <2>5, <2>6, <2>8, PhaseNames, DoLeads
<1>10. ASSUME NEW w, NEW j, ReportInherit(w, j) PROVE LedInv'
  <2> DEFINE more == Tags(j.inherit, <<"inherit", w.file, j.id, CallOf(w, j).status>>)
             i == <<w, j>>
  <2>1. phase = "inherit" /\ i \in todo /\ Do(i, Nothing, more)
    BY <1>10 DEF ReportInherit
  <2>2. i \in ItemsOf(phase)
    BY <1>a, <2>1, PhaseNames
  <2>3. {u.key : u \in Nothing.uses} = {}
    BY DEF Nothing
  <2>4. phase \notin Leading
    BY <2>1 DEF Leading
  <2> HIDE DEF more, i
  <2> QED BY <2>1, <2>2, <2>3, <2>4, PhaseNames, NothingArrows, DoLeads
<1>11. CASE NextList
  BY <1>11, NextListLeads
<1> QED BY <1>1, <1>2, <1>3, <1>4, <1>5, <1>6, <1>7, <1>8, <1>9, <1>10, <1>11 DEF BuildNext
=============================================================================
