---------------------------- MODULE AnalysisProofs ----------------------------
(***************************************************************************)
(* What holds of every analysis: its graph is closed (GraphIsClosed),      *)
(* rotation is advised for what was leaked and nothing else                *)
(* (RotationFounded), scores stay in their scale (ScoresInScale) and never *)
(* rise with less evidence or a milder profile (ScoresMonotone), what the  *)
(* configuration ignores has no part in the result and is listed           *)
(* (SuppressionsReported), and a credential reaches exactly the places     *)
(* that the files hand it to (ReachExact).                                 *)
(*                                                                         *)
(* The graph of every analysis is one whose edges join its nodes: the      *)
(* builder keeps it so (GraphBuildProofs), it begins with an empty graph,  *)
(* and what comes before and after the builder leaves the graph alone.     *)
(***************************************************************************)
EXTENDS Analysis, GraphBuildProofs, SequenceTheorems, FiniteSetTheorems, WellFoundedInduction

LEMMA InitSound == Init => BuildInv
  BY DEF Init, NewBuilder, BuildInv, Sound, EarlierPhase, CredentialsHaveNodes, NestedBound, WorkflowsDrawn,
         EdgesJoinNodes, NextPhase

LEMMA IngestSound == BuildInv /\ Ingest => BuildInv'
<1> SUFFICES ASSUME BuildInv, Ingest PROVE BuildInv'
  OBVIOUS
<1>1. /\ phase = "ingest" /\ phase' \in {"failed", "ingested"}
      /\ UNCHANGED <<todo, nodes, edges, limitExceeded, credentials>>
  BY DEF Ingest, graph
<1>2. edges = {} /\ credentials = {}
  BY <1>1 DEF BuildInv, EarlierPhase
<1> QED BY <1>1, <1>2, PhaseNames
        DEF BuildInv, Sound, CredentialsHaveNodes, NestedBound, WorkflowsDrawn, EdgesJoinNodes, NextPhase

LEMMA PrepareSound == BuildInv /\ Prepare => BuildInv'
<1> SUFFICES ASSUME BuildInv, Prepare PROVE BuildInv'
  OBVIOUS
<1>1. /\ phase = "ingested" /\ phase' = "canonical" /\ todo' = {"canonical"}
      /\ UNCHANGED <<nodes, edges, limitExceeded, credentials>>
  BY DEF Prepare, graph
<1>2. edges = {} /\ credentials = {}
  BY <1>1 DEF BuildInv, EarlierPhase
<1> QED BY <1>1, <1>2
        DEF BuildInv, Sound, EarlierPhase, ItemsOf, CredentialsHaveNodes, NestedBound, WorkflowsDrawn, EdgesJoinNodes

\* Once the graph is built it stays.
LEMMA BuiltSound ==
  ASSUME BuildInv, phase = "built", phase' \in {"built", "done", "failed"},
         UNCHANGED <<repo, todo, graph, credentials>>
  PROVE  BuildInv'
  BY PhaseNames
  DEF BuildInv, Sound, EarlierPhase, CredentialsHaveNodes, NestedBound, WorkflowsDrawn, EdgesJoinNodes, Pending, graph

LEMMA StepSound == BuildInv /\ [Next]_vars => BuildInv'
<1> SUFFICES ASSUME BuildInv, [Next]_vars PROVE BuildInv'
  OBVIOUS
<1>1. CASE Ingest
  BY <1>1, IngestSound
<1>2. CASE Prepare
  BY <1>2, PrepareSound
<1>3. CASE Build
  BY <1>3, BuildKeeps DEF Build
<1>4. ASSUME NEW k \in Name, AnalyzeCredential(k) PROVE BuildInv'
  BY <1>4, BuiltSound DEF AnalyzeCredential
<1>5. CASE Finish
  BY <1>5, BuiltSound DEF Finish
<1>6. CASE UNCHANGED vars
  <2>1. UNCHANGED <<repo, phase, todo, nodes, edges, credentials, limitExceeded>>
    BY <1>6 DEF vars, buildVars
  <2>2. ItemsOf(phase)' = ItemsOf(phase)
    BY <2>1, SamePhaseItems
  <2> QED BY <2>1, <2>2
          DEF BuildInv, Sound, Rooted, Actions, CredentialsHaveNodes, NestedBound, WorkflowsDrawn,
              EdgesJoinNodes, Pending
<1> QED BY <1>1, <1>2, <1>3, <1>4, <1>5, <1>6 DEF Next

(***************************************************************************)
(* Every edge of the graph leads from a node of the graph to a node of the *)
(* graph, whatever the repository, the configuration and the limits: no    *)
(* order of the builder's lists, no variable that is ignored and no call   *)
(* that resolves to nothing leaves an edge that the traversal would drop.  *)
(***************************************************************************)
THEOREM GraphIsClosed == Spec => []EdgesJoinNodes
<1>1. Init => BuildInv
  BY InitSound
<1>2. BuildInv /\ [Next]_vars => BuildInv'
  BY StepSound
<1>3. BuildInv => EdgesJoinNodes
  BY DEF BuildInv, Sound, EdgesJoinNodes
<1> QED BY <1>1, <1>2, <1>3, PTL DEF Spec
-----------------------------------------------------------------------------
(***************************************************************************)
(* Rotation.  A credential has a finding in the graph exactly if it is     *)
(* named in Leaked: the findings that are kept are those entries of the    *)
(* report, the builder gives each of them its edge (FindingsFound), and    *)
(* the first step of the search along that edge is one of the credential's *)
(* paths.                                                                  *)
(***************************************************************************)
\* What ingest and the ignores leave of the report.
Reported == {f \in Findings(docs.findings) : ~HiddenFinding(f)}

\* The last of the entries with one identity, by place.
LEMMA FindingsAreLeaks ==
  ASSUME docs \in Inputs, docs.findings # Malformed
  PROVE  Findings(docs.findings) = {Leak(i) : i \in Leaks}
<1> DEFINE F == [i \in DOMAIN docs.findings |-> convert(docs.findings[i])]
<1>1. DOMAIN docs.findings \subseteq Nat
  BY ReportsAssumption
<1>2. \A i \in DOMAIN docs.findings : F[i] = Leak(i) /\ F[i].id = FindingIdOf(docs.findings[i])
  BY DEF Leak, convert
<1>3. DOMAIN F = DOMAIN docs.findings
  OBVIOUS
<1>4. Findings(docs.findings) = deduplicate(F)
  BY DEF Findings
<1> HIDE DEF F
<1>5. \A i, k \in DOMAIN F : (F[k].id = F[i].id => k <= i)
                               <=> ~(k > i /\ FindingIdOf(docs.findings[k]) = FindingIdOf(docs.findings[i]))
  BY <1>1, <1>2, <1>3
<1>6. {j \in DOMAIN F : \A k \in DOMAIN F : F[k].id = F[j].id => k <= j} = Leaks
  BY <1>3, <1>5 DEF Leaks
<1>7. Leaks \subseteq DOMAIN F
  BY <1>3 DEF Leaks
<1> QED BY <1>2, <1>3, <1>4, <1>6, <1>7 DEF deduplicate

LEMMA LeakedAreReported ==
  ASSUME docs \in Inputs, docs.findings # Malformed
  PROVE  Leaked = {Upper[f.label] : f \in Reported}
<1>1. \A i : HiddenFinding(Leak(i)) <=> ~(Unnamed(i) /\ Leak(i).path \notin options.ignorePaths)
  BY DEF HiddenFinding, HiddenPath, Unnamed
<1>2. Reported = {f \in {Leak(i) : i \in Leaks} : ~HiddenFinding(f)}
  BY FindingsAreLeaks DEF Reported
<1>3. Reported = {Leak(i) : i \in {x \in Leaks : ~HiddenFinding(Leak(x))}}
  BY <1>2
<1>4. {x \in Leaks : ~HiddenFinding(Leak(x))}
        = {x \in Leaks : Unnamed(x) /\ Leak(x).path \notin options.ignorePaths}
  BY <1>1
<1> QED BY <1>3, <1>4 DEF Leaked

(***************************************************************************)
(* The search for paths is a recursive function; what it finds are the     *)
(* sequences that can be built up an edge at a time from those it begins   *)
(* with, so that such a function exists and has the value its definition   *)
(* says.                                                                   *)
(***************************************************************************)
More(start, F) == UNION {Longer(start, p) : p \in F}

Grown(start, F) ==
  {q \in Seq(edges) :
     \E m \in 0 .. Len(q) - 1 :
       /\ SubSeq(q, 1, m) \in F
       /\ \A j \in m .. Len(q) - 1 : SubSeq(q, 1, j + 1) \in Longer(start, SubSeq(q, 1, j))}

LEMMA LongerByOne ==
  ASSUME NEW start, NEW p \in Seq(edges), NEW q \in Longer(start, p)
  PROVE  q \in Seq(edges) /\ Len(q) = Len(p) + 1 /\ SubSeq(q, 1, Len(p)) = p
<1>1. PICK e \in edges : q = Append(p, e)
  BY DEF Longer, Onward
<1>2. q \in Seq(edges) /\ Len(q) = Len(p) + 1 /\ \A i \in 1 .. Len(p) : q[i] = p[i]
  BY <1>1
<1> DEFINE s == SubSeq(q, 1, Len(p))
<1>3. s \in Seq(edges) /\ Len(s) = Len(p) /\ \A i \in 1 .. Len(p) : s[i] = q[i]
  BY <1>2, LenProperties, SubSeqProperties
<1>4. s = p
  BY <1>2, <1>3, SeqEqual
<1> QED BY <1>2, <1>4

LEMMA PrefixAgain ==
  ASSUME NEW q \in Seq(edges), NEW m \in 0 .. Len(q)
  PROVE  SubSeq(q, 1, m) \in Seq(edges) /\ Len(SubSeq(q, 1, m)) = m /\ SubSeq(q, 1, Len(q)) = q
<1>1. Len(q) \in Nat /\ \A i \in 1 .. Len(q) : q[i] \in edges
  BY ElementOfSeq, LenProperties
<1>2. \A n \in 0 .. Len(q) : /\ SubSeq(q, 1, n) \in Seq(edges) /\ Len(SubSeq(q, 1, n)) = n
                             /\ \A i \in 1 .. n : SubSeq(q, 1, n)[i] = q[i]
  BY <1>1, SubSeqProperties
<1>3. SubSeq(q, 1, Len(q)) = q
  BY <1>1, <1>2, SeqEqual
<1> QED BY <1>2, <1>3

LEMMA GrownStep ==
  ASSUME NEW start, NEW F \in SUBSET Seq(edges)
  PROVE  /\ More(start, F) \in SUBSET Seq(edges)
         /\ Grown(start, F) = IF More(start, F) = {} THEN {} ELSE More(start, F) \cup Grown(start, More(start, F))
<1> DEFINE M == More(start, F)
<1>1. M \in SUBSET Seq(edges)
  BY LongerByOne DEF More
<1>2. ASSUME NEW q \in Grown(start, F) PROVE M # {} /\ q \in M \cup Grown(start, M)
  <2>1. PICK m \in 0 .. Len(q) - 1 :
          /\ SubSeq(q, 1, m) \in F
          /\ \A j \in m .. Len(q) - 1 : SubSeq(q, 1, j + 1) \in Longer(start, SubSeq(q, 1, j))
    BY DEF Grown
  <2>2. q \in Seq(edges) /\ Len(q) \in Nat /\ m \in Nat /\ m + 1 <= Len(q) /\ m \in m .. Len(q) - 1
    BY <2>1, LenProperties DEF Grown
  <2>3. SubSeq(q, 1, m + 1) \in Longer(start, SubSeq(q, 1, m))
    BY <2>1, <2>2
  <2>4. SubSeq(q, 1, m + 1) \in M
    BY <2>1, <2>3 DEF More
  <2>5. CASE m + 1 = Len(q)
    <3>1. SubSeq(q, 1, Len(q)) = q
      BY <2>2, PrefixAgain
    <3> HIDE DEF M
    <3> QED BY <2>4, <2>5, <3>1
  <2>6. CASE m + 1 < Len(q)
    <3>1. m + 1 \in 0 .. Len(q) - 1
      BY <2>2, <2>6
    <3>2. \A j \in m + 1 .. Len(q) - 1 : SubSeq(q, 1, j + 1) \in Longer(start, SubSeq(q, 1, j))
      BY <2>1, <2>2
    <3> HIDE DEF M
    <3>3. q \in Grown(start, M)
      BY <2>2, <2>4, <3>1, <3>2 DEF Grown
    <3> QED BY <2>4, <3>3
  <2> QED BY <2>2, <2>5, <2>6
<1>3. ASSUME NEW q \in M PROVE q \in Grown(start, F)
  <2>1. PICK p \in F : q \in Longer(start, p)
    BY DEF More
  <2>2. q \in Seq(edges) /\ Len(q) = Len(p) + 1 /\ SubSeq(q, 1, Len(p)) = p /\ Len(p) \in Nat
    BY <2>1, LongerByOne, LenProperties
  <2>3. Len(p) \in 0 .. Len(q) - 1 /\ Len(p) .. Len(q) - 1 = {Len(p)}
    BY <2>2
  <2>4. SubSeq(q, 1, Len(p) + 1) = q
    BY <2>2, PrefixAgain
  <2>5. \A j \in Len(p) .. Len(q) - 1 : SubSeq(q, 1, j + 1) \in Longer(start, SubSeq(q, 1, j))
    BY <2>1, <2>2, <2>3, <2>4
  <2> QED BY <2>2, <2>3, <2>5 DEF Grown
<1>4. ASSUME NEW q \in Grown(start, M) PROVE q \in Grown(start, F)
  <2>1. PICK m \in 0 .. Len(q) - 1 :
          /\ SubSeq(q, 1, m) \in M
          /\ \A j \in m .. Len(q) - 1 : SubSeq(q, 1, j + 1) \in Longer(start, SubSeq(q, 1, j))
    BY DEF Grown
  <2>2. q \in Seq(edges) /\ Len(q) \in Nat /\ m \in 0 .. Len(q)
    BY <2>1, LenProperties DEF Grown
  <2>3. PICK p \in F : SubSeq(q, 1, m) \in Longer(start, p)
    BY <2>1 DEF More
  <2> DEFINE s == SubSeq(q, 1, m)
  <2>4. s \in Seq(edges) /\ Len(s) = m
    BY <2>2, PrefixAgain
  <2>5. Len(s) = Len(p) + 1 /\ SubSeq(s, 1, Len(p)) = p /\ Len(p) \in Nat /\ p \in Seq(edges)
    BY <2>3, LongerByOne, LenProperties
  <2>6. m - 1 = Len(p) /\ m - 1 \in 0 .. Len(q) - 1
    BY <2>2, <2>4, <2>5
  <2>7. SubSeq(q, 1, m - 1) = p
    <3>1. \A i \in 1 .. Len(q) : q[i] \in edges
      BY <2>2, ElementOfSeq
    <3>2. /\ SubSeq(q, 1, m - 1) \in Seq(edges) /\ Len(SubSeq(q, 1, m - 1)) = m - 1
          /\ \A i \in 1 .. m - 1 : SubSeq(q, 1, m - 1)[i] = q[i]
      BY <2>2, <2>6, <3>1, SubSeqProperties
    <3>3. \A i \in 1 .. m : s[i] = q[i]
      BY <2>2, <3>1, SubSeqProperties
    <3>4. \A i \in 1 .. Len(p) : SubSeq(s, 1, Len(p))[i] = s[i]
      <4>1. \A i \in 1 .. Len(p) : s[i] \in edges
        BY <2>2, <2>6, <3>1, <3>3
      <4> QED BY <2>5, <4>1, SubSeqProperties
    <3>5. \A i \in 1 .. m - 1 : SubSeq(q, 1, m - 1)[i] = p[i]
      BY <2>2, <2>5, <2>6, <3>2, <3>3, <3>4
    <3> DEFINE t == SubSeq(q, 1, m - 1)
    <3>6. t \in Seq(edges) /\ Len(t) = Len(p) /\ \A i \in 1 .. Len(t) : t[i] = p[i]
      BY <2>6, <3>2, <3>5
    <3> HIDE DEF t
    <3>7. t = p
      BY <2>5, <3>6, SeqEqual
    <3> QED BY <3>7 DEF t
  <2>8. \A j \in m - 1 .. Len(q) - 1 : SubSeq(q, 1, j + 1) \in Longer(start, SubSeq(q, 1, j))
    <3> SUFFICES ASSUME NEW j \in m - 1 .. Len(q) - 1
                 PROVE  SubSeq(q, 1, j + 1) \in Longer(start, SubSeq(q, 1, j))
      OBVIOUS
    <3>1. CASE j \in m .. Len(q) - 1
      BY <2>1, <3>1
    <3>2. CASE j = m - 1
      <4>1. j + 1 = m /\ SubSeq(q, 1, j) = p
        BY <2>2, <2>7, <3>2
      <4> QED BY <2>3, <4>1
    <3> QED BY <2>2, <3>1, <3>2
  <2> QED BY <2>2, <2>6, <2>7, <2>8 DEF Grown
<1> HIDE DEF M
<1>5. Grown(start, F) = IF M = {} THEN {} ELSE M \cup Grown(start, M)
  BY <1>2, <1>3, <1>4
<1> QED BY <1>1, <1>5 DEF M

\* The first steps are among the paths.
LEMMA PathsBegin ==
  ASSUME NEW start
  PROVE  Longer(start, <<>>) \subseteq Paths(start)
<1> DEFINE Step(g, F) == IF More(start, F) = {} THEN {} ELSE More(start, F) \cup g[More(start, F)]
           Grows(g) == g = [F \in SUBSET Seq(edges) |-> Step(g, F)]
           g0 == [F \in SUBSET Seq(edges) |-> Grown(start, F)]
           grow == CHOOSE g : Grows(g)
<1>1. Paths(start) = grow[{<<>>}]
  BY DEF Paths, More
<1>2. Grows(g0)
  <2>1. ASSUME NEW F \in SUBSET Seq(edges) PROVE Step(g0, F) = Grown(start, F)
    <3>1. More(start, F) \in SUBSET Seq(edges)
      BY GrownStep
    <3>2. g0[More(start, F)] = Grown(start, More(start, F))
      BY <3>1
    <3>3. Grown(start, F) = IF More(start, F) = {} THEN {} ELSE More(start, F) \cup Grown(start, More(start, F))
      BY GrownStep
    <3> HIDE DEF g0
    <3> QED BY <3>2, <3>3
  <2> HIDE DEF Step
  <2> QED BY <2>1
<1> HIDE DEF g0
<1>3. Grows(grow)
  <2> HIDE DEF Grows
  <2> QED BY <1>2
<1> HIDE DEF grow
<1>4. {<<>>} \in SUBSET Seq(edges)
  OBVIOUS
<1>5. grow[{<<>>}] = Step(grow, {<<>>})
  <2> HIDE DEF Step
  <2> QED BY <1>3, <1>4
<1>6. More(start, {<<>>}) = Longer(start, <<>>)
  BY DEF More
<1>7. More(start, {<<>>}) \subseteq Step(grow, {<<>>})
  OBVIOUS
<1> QED BY <1>1, <1>5, <1>6, <1>7

LEMMA OnlyRotation ==
  \A r \in RuleId : Catalog[r].remediation = "REM001" <=> r = "CRD101"
  BY DEF RuleId, Catalog, Rule

LEMMA RotationRule == "CRD101" \in RuleId /\ \A reach, direct : Evaluate(reach, direct)["CRD101"] = nodesOfType(reach, "finding")
  BY DEF RuleId, Catalog, Evaluate

\* An edge that carries a credential on, to another node, is a path of its own.
LEMMA EdgeIsPath ==
  ASSUME NEW e \in edges, Walkable(e), e.from # e.to, e.class = "plain"
  PROVE  <<e>> \in Paths(e.from)
<1>1. e \in Onward(e.from, <<>>)
  BY DEF Onward, EndOf, NodesOn
<1>2. Append(<<>>, e) = <<e>>
  OBVIOUS
<1>3. WithinHops(<<e>>)
  <2>1. \A c \in {"reusable", "crossing"} : {i \in DOMAIN <<e>> : <<e>>[i].class \in {c}} = {}
    OBVIOUS
  <2>2. Cardinality({}) = 0
    BY FS_EmptySet
  <2>3. Spent(<<e>>, {"reusable"}) = 0 /\ Spent(<<e>>, {"crossing"}) = 0
    BY <2>1, <2>2 DEF Spent
  <2>4. MaxReusableWorkflowHops \in Nat /\ MaxCompositeActionForwardingHops \in Nat
    BY LimitsAssumption
  <2> QED BY <2>3, <2>4 DEF WithinHops
<1>4. <<e>> \in Longer(e.from, <<>>)
  BY <1>1, <1>2, <1>3 DEF Longer
<1> QED BY <1>4, PathsBegin

\* A finding that is kept and whose variable is not ignored is where its credential leads.
LEMMA FindingIsReached ==
  ASSUME phase = "built", ~limitExceeded, EdgesJoinNodes, FindingsFound,
         NEW f \in repo.findings, Credited(FindingUse(f))
  PROVE  LET k == Upper[f.label]
             reach == UNION {NodesOn(CredentialId(k), p) : p \in Paths(CredentialId(k)) \cup {<<>>}}
         IN  FindingUse(f) \in credentials /\ nodesOfType(reach, "finding") # {}
<1> DEFINE k == Upper[f.label]
           start == CredentialId(k)
           e == FindingEdge(f)
           reach == UNION {NodesOn(start, p) : p \in Paths(start) \cup {<<>>}}
<1>1. FindingUse(f) \in credentials /\ e \in edges
  BY DEF FindingsFound, FindingsToCome
<1>2. e.from = start /\ e.to = FindingId(f) /\ e.kind = "exposure" /\ e.class = "plain"
  BY DEF FindingEdge, EdgeOf
<1>3. start # FindingId(f) /\ FindingId(f)[1] = "finding"
  BY DEF CredentialId, FindingId
<1>4. {e.from, e.to} \subseteq DOMAIN nodes
  BY <1>1, PhaseNames DEF EdgesJoinNodes, Pending
<1> HIDE DEF e, start
<1>5. <<e>> \in Paths(start)
  BY <1>1, <1>2, <1>3, <1>4, EdgeIsPath DEF Walkable
<1>6. FindingId(f) \in NodesOn(start, <<e>>)
  BY <1>2 DEF NodesOn
<1>7. FindingId(f) \in nodesOfType(reach, "finding")
  BY <1>2, <1>3, <1>4, <1>5, <1>6 DEF nodesOfType
<1> QED BY <1>1, <1>7 DEF start

(***************************************************************************)
(* What one credential is told, once the graph is built.                   *)
(***************************************************************************)
LEMMA RotationOfOne ==
  ASSUME phase = "built", ~limitExceeded, EdgesJoinNodes, FindingsFound,
         docs \in Inputs, docs.findings # Malformed, repo.findings = Reported, NEW k \in Known
  PROVE  "REM001" \in Analyzed(k, Paths(CredentialId(k))).remediations
           <=> "CRD101" \notin Silenced /\ k \in Leaked
<1> DEFINE paths == Paths(CredentialId(k))
           reach == UNION {NodesOn(CredentialId(k), p) : p \in paths \cup {<<>>}}
           affected == Assess(reach, DirectOf(k))
<1>1. Leaked = {Upper[f.label] : f \in repo.findings}
  BY LeakedAreReported
<1>2. ASSUME HasFinding(k) PROVE k \in Leaked
  BY <1>1, <1>2 DEF HasFinding, UsesOf, FindingsFound
<1>3. ASSUME k \in Leaked PROVE HasFinding(k) /\ nodesOfType(reach, "finding") # {}
  <2>1. PICK f \in repo.findings : Upper[f.label] = k
    BY <1>1, <1>3
  <2>2. FindingUse(f).key = k /\ FindingUse(f).finding = TRUE
    BY <2>1 DEF FindingUse
  <2>3. Credited(FindingUse(f))
    <3>1. PICK u \in credentials : u.key = k
      BY DEF Known
    <3> QED BY <2>2, <3>1 DEF FindingsFound, Credited
  <2>4. FindingUse(f) \in credentials /\ nodesOfType(reach, "finding") # {}
    BY <2>1, <2>3, FindingIsReached
  <2> QED BY <2>2, <2>4 DEF HasFinding, UsesOf
<1>4. DOMAIN affected = Matched(Evaluate(reach, DirectOf(k))) \ Silenced
  BY DEF Assess, Restrict
<1>5. DOMAIN affected \subseteq RuleId
  BY <1>4 DEF Matched
<1>6. "CRD101" \in DOMAIN affected <=> nodesOfType(reach, "finding") # {} /\ "CRD101" \notin Silenced
  BY <1>4, RotationRule DEF Matched
<1>7. Analyzed(k, paths).remediations = removeRotation(k, Generate(k, DOMAIN affected))
  BY DEF Analyzed
<1> HIDE DEF affected, reach, paths
<1>8. "REM001" \in Generate(k, DOMAIN affected) <=> "CRD101" \in DOMAIN affected
  BY <1>5, OnlyRotation DEF Generate, Tags
<1>9. "REM001" \in Analyzed(k, paths).remediations <=> HasFinding(k) /\ "CRD101" \in DOMAIN affected
  BY <1>7, <1>8 DEF removeRotation, RotationApplicable
<1>10. "REM001" \in Analyzed(k, paths).remediations <=> "CRD101" \notin Silenced /\ k \in Leaked
  BY <1>2, <1>3, <1>6, <1>9
<1> QED BY <1>10 DEF paths

(***************************************************************************)
(* The report is read once and what is ignored is taken out once, before   *)
(* the builder begins.                                                     *)
(***************************************************************************)
ReportTaken ==
  /\ docs \in Inputs
  /\ phase \in EarlierPhase => "findings" \in DOMAIN repo
  /\ phase = "ingested" => docs.findings # Malformed /\ repo.findings = Findings(docs.findings)
  /\ phase \in DOMAIN NextPhase \cup {"built"} => docs.findings # Malformed /\ repo.findings = Reported

RotationInv == BuildInv /\ FindingsFound /\ ReportTaken /\ RotationIsFounded

LEMMA InitRotation == Init => RotationInv
<1> SUFFICES ASSUME Init PROVE RotationInv
  OBVIOUS
<1>1. /\ docs \in Inputs /\ phase = "ingest" /\ credentials = {} /\ analyses = NoKeys /\ repo = NoFiles
      /\ BuildInv
  BY InitSound DEF Init, NewBuilder
<1>2. "findings" \in DOMAIN repo /\ DOMAIN analyses = {}
  BY <1>1 DEF NoFiles, NoKeys
<1> QED BY <1>1, <1>2, PhaseNames DEF RotationInv, FindingsFound, ReportTaken, RotationIsFounded

\* Where neither the files nor the assessments change, nothing changes about rotation.
LEMMA RotationStays ==
  ASSUME UNCHANGED <<docs, analyses>>
  PROVE  /\ RotationIsFounded' <=> RotationIsFounded
         /\ Reported' = Reported
  BY DEF RotationIsFounded, Reported, HiddenFinding, HiddenPath, Silenced, Leaked, Leaks, Leak, Unnamed, options

LEMMA IngestRotation == RotationInv /\ Ingest => RotationInv'
<1> SUFFICES ASSUME RotationInv, Ingest PROVE RotationInv'
  OBVIOUS
<1>1. /\ phase = "ingest" /\ phase' = IF IngestFails THEN "failed" ELSE "ingested"
      /\ UNCHANGED <<docs, analyses, credentials>>
  BY DEF Ingest
<1>2. BuildInv' /\ credentials' = {}
  BY <1>1, IngestSound DEF RotationInv, BuildInv, EarlierPhase
<1>3. RotationIsFounded'
  BY <1>1, RotationStays DEF RotationInv
<1>4. FindingsFound'
  BY <1>1, <1>2, PhaseNames DEF FindingsFound
<1>5. ReportTaken'
  <2>1. CASE IngestFails
    BY <1>1, <2>1, PhaseNames DEF ReportTaken, RotationInv, EarlierPhase
  <2>2. CASE ~IngestFails
    <3>1. PICK W, composites, calls : repo' = Parsed(W, composites, calls)
      BY <2>2 DEF Ingest
    <3>2. "findings" \in DOMAIN repo' /\ repo'.findings = Findings(docs.findings)
      BY <3>1 DEF Parsed, NoFiles
    <3>3. docs.findings # Malformed
      BY <2>2 DEF IngestFails, ReportFails
    <3>4. phase' = "ingested" /\ docs' = docs /\ docs \in Inputs
      BY <1>1, <2>2 DEF RotationInv, ReportTaken
    <3> QED BY <3>2, <3>3, <3>4, PhaseNames DEF ReportTaken
  <2> QED BY <2>1, <2>2
<1> QED BY <1>2, <1>3, <1>4, <1>5 DEF RotationInv

LEMMA PrepareRotation == RotationInv /\ Prepare => RotationInv'
<1> SUFFICES ASSUME RotationInv, Prepare PROVE RotationInv'
  OBVIOUS
<1>1. /\ phase = "ingested" /\ phase' = "canonical"
      /\ UNCHANGED <<docs, analyses, credentials, edges, limitExceeded>>
  BY DEF Prepare, graph
<1>2. BuildInv' /\ credentials' = {}
  BY <1>1, PrepareSound DEF RotationInv, BuildInv, EarlierPhase
<1>3. RotationIsFounded'
  BY <1>1, RotationStays DEF RotationInv
<1>4. FindingsFound'
  BY <1>1, <1>2 DEF FindingsFound, FindingsToCome
<1>5. ReportTaken'
  <2>1. "findings" \in DOMAIN repo /\ docs.findings # Malformed /\ repo.findings = Findings(docs.findings)
        /\ docs \in Inputs
    BY <1>1 DEF RotationInv, ReportTaken, EarlierPhase
  <2>2. "findings" \in DOMAIN Kept(repo) /\ Kept(repo).findings = Reported
    BY <2>1 DEF Kept, Reported
  <2>3. PICK calls, flows, nested, variables, classes :
          repo' = [[Kept(repo) EXCEPT !.calls = calls, !.flows = flows]
                     EXCEPT !.nestedFlows = nested, !.ignoredVariables = variables, !.classifications = classes]
    BY DEF Prepare
  <2>4. repo'.findings = Reported
    BY <2>2, <2>3
  <2>5. Reported' = Reported
    BY <1>1, RotationStays
  <2> QED BY <1>1, <2>1, <2>4, <2>5 DEF ReportTaken, EarlierPhase
<1> QED BY <1>2, <1>3, <1>4, <1>5 DEF RotationInv

LEMMA BuildRotation == RotationInv /\ Build => RotationInv'
<1> SUFFICES ASSUME RotationInv, Build PROVE RotationInv'
  OBVIOUS
<1>1. BuildNext /\ UNCHANGED <<docs, analyses>>
  BY DEF Build
<1>2. BuildInv' /\ FindingsFound'
  BY <1>1, BuildKeeps, BuildFinds DEF RotationInv
<1>3. RotationIsFounded' /\ Reported' = Reported
  BY <1>1, RotationStays DEF RotationInv
<1>4. repo' = repo /\ phase \in DOMAIN NextPhase /\ phase' \notin EarlierPhase
  <2>1. CASE NextList
    BY <2>1 DEF NextList, NextPhase, EarlierPhase
  <2>2. CASE ~NextList
    BY <1>1, <2>2, PhaseNames
    DEF BuildNext, AddCanonicalNodes, AddFinding, AddWorkflow, AddInputFlow, AddNestedNodes, AddNestedEdges,
        AddNestedCall, AddCompose, ForwardSecrets, ReportInherit, Do, EarlierPhase
  <2> QED BY <2>1, <2>2
<1>5. ReportTaken'
  BY <1>1, <1>3, <1>4 DEF ReportTaken, RotationInv, EarlierPhase
<1> QED BY <1>2, <1>3, <1>5 DEF RotationInv

\* What holds of the built graph goes on to hold of it.
LEMMA BuiltStays ==
  ASSUME RotationInv, phase = "built", phase' \in {"built", "done", "failed"},
         UNCHANGED <<repo, todo, graph, credentials, docs>>
  PROVE  BuildInv' /\ FindingsFound' /\ ReportTaken'
<1>1. BuildInv'
  BY BuiltSound DEF RotationInv
<1>2. FindingsFound /\ ReportTaken
  BY DEF RotationInv
<1>3. edges' = edges /\ limitExceeded' = limitExceeded
  BY DEF graph
<1>4. FindingsFound'
  BY <1>2, <1>3, PhaseNames DEF FindingsFound, FindingsToCome, Credited
<1>5. ReportTaken'
  BY <1>2, PhaseNames DEF ReportTaken, EarlierPhase, Reported, HiddenFinding, HiddenPath, options
<1> QED BY <1>1, <1>4, <1>5

LEMMA AnalyzeRotation == \A k \in Name : RotationInv /\ AnalyzeCredential(k) => RotationInv'
<1> SUFFICES ASSUME NEW k \in Name, RotationInv, AnalyzeCredential(k) PROVE RotationInv'
  OBVIOUS
<1>1. /\ phase = "built" /\ ~limitExceeded /\ k \in Known /\ phase' \in {"built", "failed"}
      /\ UNCHANGED <<repo, todo, graph, credentials, docs>>
  BY DEF AnalyzeCredential
<1>2. BuildInv' /\ FindingsFound' /\ ReportTaken'
  BY <1>1, BuiltStays
<1>3. CASE UNCHANGED analyses
  BY <1>1, <1>2, <1>3, RotationStays DEF RotationInv
<1>4. CASE analyses' = [x \in DOMAIN analyses \cup {k} |->
                          IF x = k THEN Analyzed(k, Paths(CredentialId(k))) ELSE analyses[x]]
  <2>1. EdgesJoinNodes /\ FindingsFound /\ docs \in Inputs /\ docs.findings # Malformed /\ repo.findings = Reported
    BY <1>1 DEF RotationInv, BuildInv, Sound, ReportTaken
  <2>2. "REM001" \in Analyzed(k, Paths(CredentialId(k))).remediations <=> "CRD101" \notin Silenced /\ k \in Leaked
    BY <1>1, <2>1, RotationOfOne
  <2>3. \A x \in DOMAIN analyses' : "REM001" \in analyses'[x].remediations <=> "CRD101" \notin Silenced /\ x \in Leaked
    BY <1>4, <2>2 DEF RotationInv, RotationIsFounded
  <2>4. Silenced' = Silenced /\ Leaked' = Leaked
    BY <1>1 DEF Silenced, options, Leaked, Leaks, Leak, Unnamed
  <2>5. RotationIsFounded'
    BY <2>3, <2>4 DEF RotationIsFounded
  <2> QED BY <1>2, <2>5 DEF RotationInv
<1> QED BY <1>3, <1>4 DEF AnalyzeCredential

LEMMA StepRotation == RotationInv /\ [Next]_vars => RotationInv'
<1> SUFFICES ASSUME RotationInv, [Next]_vars PROVE RotationInv'
  OBVIOUS
<1>1. CASE Ingest
  BY <1>1, IngestRotation
<1>2. CASE Prepare
  BY <1>2, PrepareRotation
<1>3. CASE Build
  BY <1>3, BuildRotation
<1>4. ASSUME NEW k \in Name, AnalyzeCredential(k) PROVE RotationInv'
  BY <1>4, AnalyzeRotation
<1>5. CASE Finish
  <2>1. /\ phase = "built" /\ phase' \in {"done", "failed"}
        /\ UNCHANGED <<repo, todo, graph, credentials, docs, analyses>>
    BY <1>5 DEF Finish
  <2>2. BuildInv' /\ FindingsFound' /\ ReportTaken'
    BY <2>1, BuiltStays
  <2> QED BY <2>1, <2>2, RotationStays DEF RotationInv
<1>6. CASE UNCHANGED vars
  <2>1. BuildInv'
    BY <1>6, StepSound DEF RotationInv
  <2>2. UNCHANGED <<repo, phase, todo, edges, credentials, limitExceeded, docs, analyses>>
    BY <1>6 DEF vars, buildVars
  <2>3. FindingsFound'
    BY <2>2 DEF RotationInv, FindingsFound, FindingsToCome, Credited
  <2>4. RotationIsFounded' /\ Reported' = Reported
    BY <2>2, RotationStays DEF RotationInv
  <2>5. ReportTaken'
    BY <2>2, <2>4 DEF RotationInv, ReportTaken
  <2> QED BY <2>1, <2>3, <2>4, <2>5 DEF RotationInv
<1> QED BY <1>1, <1>2, <1>3, <1>4, <1>5, <1>6 DEF Next

(***************************************************************************)
(* Rotation is recommended exactly for the credentials that a scanner has  *)
(* found, where that finding and its rule count: for every repository and  *)
(* configuration, for any naming of secrets, in any order of the builder's *)
(* lists and of the credentials, and for all limits.                       *)
(***************************************************************************)
THEOREM RotationFounded == Spec => []RotationIsFounded
<1>1. Init => RotationInv
  BY InitRotation
<1>2. RotationInv /\ [Next]_vars => RotationInv'
  BY StepRotation
<1>3. RotationInv => RotationIsFounded
  BY DEF RotationInv
<1> QED BY <1>1, <1>2, <1>3, PTL DEF Spec
-----------------------------------------------------------------------------
(***************************************************************************)
(* Sums.  SumFunction takes the elements of a domain one after the other,  *)
(* in an order that is left open; over a finite domain what it comes to    *)
(* does not depend on that order.                                          *)
(***************************************************************************)
\* One element of a set after the other.
Pick(s) == CHOOSE x \in s : TRUE
SumStep(w, g, s) == IF s = {} THEN 0 ELSE w[Pick(s)] + g[s \ {Pick(s)}]
Sums(w) == CHOOSE g : g = [s \in SUBSET DOMAIN w |-> SumStep(w, g, s)]

LEMMA SumIs == \A w : SumFunction(w) = Sums(w)[DOMAIN w]
  BY DEF SumFunction, SumFunctionOnSet, FoldFunctionOnSet, MapThenFoldSet, Sums, SumStep, Pick

\* A set of numbers, unless it is empty, has a least one.
LEMMA LeastNumber == \A T \in SUBSET Nat : T # {} => \E n \in T : \A m \in T : n <= m
<1> SUFFICES ASSUME NEW T \in SUBSET Nat, T # {} PROVE \E n \in T : \A m \in T : n <= m
  OBVIOUS
<1> DEFINE Before == {ss \in Nat \X Nat : ss[1] < ss[2]}
<1>1. IsWellFoundedOn(Before, Nat)
  BY NatLessThanWellFounded DEF OpToRel
<1> HIDE DEF Before
<1>2. PICK n \in T : \A m \in T : ~(<<m, n>> \in Before)
  BY <1>1, WFMin
<1>3. ASSUME NEW m \in T PROVE n <= m
  <2>1. n \in Nat /\ m \in Nat /\ ~(<<m, n>> \in Before)
    BY <1>2
  <2> QED BY <2>1 DEF Before
<1> QED BY <1>3

LEMMA SumsAre ==
  ASSUME NEW w, IsFiniteSet(DOMAIN w)
  PROVE  \A s \in SUBSET DOMAIN w : Sums(w)[s] = SumStep(w, Sums(w), s)
<1> DEFINE D == DOMAIN w
           Up(n, g) == \A s \in SUBSET D : Cardinality(s) <= n => g[s] = SumStep(w, g, s)
<1>1. \A s \in SUBSET D : /\ IsFiniteSet(s) /\ Cardinality(s) \in Nat /\ Cardinality(s) <= Cardinality(D)
                          /\ s = {} => Cardinality(s) = 0
  BY FS_Subset, FS_CardinalityType, FS_EmptySet
<1>2. \A s \in SUBSET D : s # {} => /\ s \ {Pick(s)} \in SUBSET D
                                    /\ Cardinality(s \ {Pick(s)}) = Cardinality(s) - 1
  BY <1>1, FS_RemoveElement DEF Pick
<1>3. \E g : Up(0, g)
  <2>1. \A s \in SUBSET D : Cardinality(s) <= 0 => s = {}
    BY <1>1, FS_EmptySet
  <2> DEFINE g == [s \in SUBSET D |-> 0]
  <2>2. Up(0, g)
    BY <2>1 DEF SumStep
  <2> QED BY <2>2
<1>4. ASSUME NEW n \in Nat, NEW g, Up(n, g) PROVE \E h : Up(n + 1, h)
  <2> DEFINE h == [s \in SUBSET D |-> IF Cardinality(s) <= n THEN g[s] ELSE SumStep(w, g, s)]
  <2>1. ASSUME NEW s \in SUBSET D, Cardinality(s) <= n + 1 PROVE h[s] = SumStep(w, h, s)
    <3>1. CASE s = {}
      BY <1>1, <1>4, <3>1 DEF SumStep
    <3>2. CASE s # {}
      <4>1. s \ {Pick(s)} \in SUBSET D /\ Cardinality(s \ {Pick(s)}) <= n
        BY <1>1, <1>2, <2>1, <3>2
      <4>2. h[s \ {Pick(s)}] = g[s \ {Pick(s)}]
        BY <4>1
      <4>3. h[s] = SumStep(w, g, s)
        BY <1>4
      <4> QED BY <3>2, <4>2, <4>3 DEF SumStep
    <3> QED BY <3>1, <3>2
  <2>2. Up(n + 1, h)
    BY <2>1
  <2> QED BY <2>2
<1>5. \A n \in Nat : \E g : Up(n, g)
  <2> SUFFICES ASSUME NEW n \in Nat, ~\E g : Up(n, g) PROVE FALSE
    OBVIOUS
  <2> HIDE DEF Up
  <2> DEFINE T == {m \in Nat : ~\E g : Up(m, g)}
  <2>1. PICK m \in T : \A l \in T : m <= l
    BY LeastNumber
  <2>2. m # 0
    BY <1>3
  <2>3. m - 1 \in Nat /\ m - 1 \notin T
    BY <2>1, <2>2
  <2>4. PICK g : Up(m - 1, g)
    BY <2>3
  <2>5. \E h : Up((m - 1) + 1, h)
    BY <1>4, <2>3, <2>4
  <2> QED BY <2>5
<1>6. PICK g : Up(Cardinality(D), g)
  BY <1>1, <1>5
<1>7. \A s \in SUBSET D : g[s] = SumStep(w, g, s)
  BY <1>1, <1>6
<1> DEFINE f == [s \in SUBSET D |-> g[s]]
<1>8. \A s \in SUBSET D : SumStep(w, g, s) = SumStep(w, f, s)
  BY <1>2 DEF SumStep
<1>9. f = [s \in SUBSET D |-> SumStep(w, f, s)]
  BY <1>7, <1>8
<1>10. Sums(w) = [s \in SUBSET D |-> SumStep(w, Sums(w), s)]
  <2> HIDE DEF f
  <2> QED BY <1>9 DEF Sums
<1> QED BY <1>10

\* Among subsets of a finite set there is one that has no other within it.
LEMMA SmallestSubset ==
  ASSUME NEW D, IsFiniteSet(D), NEW B \in SUBSET SUBSET D, B # {}
  PROVE  \E s \in B : \A t \in B : t \subseteq s => t = s
<1>1. \A s \in SUBSET D : IsFiniteSet(s) /\ Cardinality(s) \in Nat
  BY FS_Subset, FS_CardinalityType
<1> DEFINE T == {Cardinality(s) : s \in B}
<1>2. T \in SUBSET Nat /\ T # {}
  BY <1>1
<1>3. PICK n \in T : \A m \in T : n <= m
  <2> HIDE DEF T
  <2> QED BY <1>2, LeastNumber
<1>4. PICK s \in B : n = Cardinality(s)
  BY <1>3
<1>5. ASSUME NEW t \in B, t \subseteq s, t # s PROVE FALSE
  <2>1. IsFiniteSet(s) /\ Cardinality(t) < Cardinality(s) /\ Cardinality(t) \in Nat /\ Cardinality(s) \in Nat
    BY <1>1, <1>5, FS_Subset
  <2>2. n <= Cardinality(t)
    BY <1>3
  <2> QED BY <1>4, <2>1, <2>2
<1> QED BY <1>5

\* Which element comes first makes no difference.
LEMMA SumsAnyOrder ==
  ASSUME NEW w, IsFiniteSet(DOMAIN w), \A x \in DOMAIN w : w[x] \in Nat
  PROVE  \A s \in SUBSET DOMAIN w : /\ Sums(w)[s] \in Nat
                                    /\ \A x \in s : Sums(w)[s] = w[x] + Sums(w)[s \ {x}]
<1> DEFINE D == DOMAIN w
           Ok(s) == Sums(w)[s] \in Nat /\ \A x \in s : Sums(w)[s] = w[x] + Sums(w)[s \ {x}]
           Bad == {t \in SUBSET D : ~Ok(t)}
<1>1. \A s \in SUBSET D : Sums(w)[s] = IF s = {} THEN 0 ELSE w[Pick(s)] + Sums(w)[s \ {Pick(s)}]
  BY SumsAre DEF SumStep
<1>2. \A s \in SUBSET D : \A x \in s : s \ {x} \in SUBSET D /\ s \ {x} \subseteq s /\ s \ {x} # s
  OBVIOUS
<1> SUFFICES ASSUME \E s \in SUBSET D : ~Ok(s) PROVE FALSE
  OBVIOUS
<1> HIDE DEF Ok
<1>5. PICK s \in Bad : \A t \in Bad : t \subseteq s => t = s
  <2>1. Bad \in SUBSET SUBSET D /\ Bad # {}
    OBVIOUS
  <2> HIDE DEF Bad
  <2> QED BY <2>1, SmallestSubset
<1>6. s \in SUBSET D /\ ~Ok(s) /\ \A t \in SUBSET D : t \subseteq s /\ t # s => Ok(t)
  BY <1>5
<1>7. \A x \in s : Ok(s \ {x})
  BY <1>2, <1>6
<1> DEFINE p == Pick(s)
<1>8. s # {} /\ p \in s
  <2>1. Sums(w)[{}] = 0
    BY <1>1
  <2>2. Ok({})
    BY <2>1 DEF Ok
  <2> QED BY <1>6, <2>2 DEF Pick
<1>9. Sums(w)[s] = w[p] + Sums(w)[s \ {p}] /\ w[p] \in Nat
  BY <1>1, <1>6, <1>8
<1> HIDE DEF p
<1>10. Sums(w)[s \ {p}] \in Nat
  BY <1>7, <1>8 DEF Ok
<1>11. ASSUME NEW x \in s, x # p PROVE Sums(w)[s] = w[x] + Sums(w)[s \ {x}]
  <2>1. (s \ {p}) \ {x} = (s \ {x}) \ {p} /\ x \in s \ {p} /\ p \in s \ {x}
    BY <1>8, <1>11
  <2>2. Sums(w)[s \ {p}] = w[x] + Sums(w)[(s \ {p}) \ {x}] /\ Sums(w)[s \ {x}] = w[p] + Sums(w)[(s \ {x}) \ {p}]
    BY <1>7, <1>8, <2>1 DEF Ok
  <2>3. w[x] \in Nat /\ Sums(w)[(s \ {x}) \ {p}] \in Nat
    <3>1. (s \ {x}) \ {p} \in SUBSET D /\ (s \ {x}) \ {p} \subseteq s /\ (s \ {x}) \ {p} # s
      BY <1>6
    <3> QED BY <1>6, <1>11, <3>1 DEF Ok
  <2> DEFINE r == Sums(w)[(s \ {x}) \ {p}]
  <2>4. Sums(w)[s \ {p}] = w[x] + r /\ Sums(w)[s \ {x}] = w[p] + r
    BY <2>1, <2>2
  <2> HIDE DEF r
  <2>5. r \in Nat /\ w[p] \in Nat
    BY <1>9, <2>3 DEF r
  <2> QED BY <1>9, <2>3, <2>4, <2>5
<1>12. Sums(w)[s] \in Nat
  BY <1>9, <1>10
<1>13. \A x \in s : Sums(w)[s] = w[x] + Sums(w)[s \ {x}]
  BY <1>9, <1>11
<1> QED BY <1>6, <1>12, <1>13 DEF Ok

(***************************************************************************)
(* Numbers that are no larger, and no more of them, add up to no more.     *)
(***************************************************************************)
LEMMA SumMonotone ==
  ASSUME NEW v, NEW w, IsFiniteSet(DOMAIN w), DOMAIN v \subseteq DOMAIN w,
         \A x \in DOMAIN v : v[x] \in Nat /\ v[x] <= w[x], \A x \in DOMAIN w : w[x] \in Nat
  PROVE  SumFunction(v) \in Nat /\ SumFunction(w) \in Nat /\ SumFunction(v) <= SumFunction(w)
<1> DEFINE D == DOMAIN w
           C == DOMAIN v
           Ok(s) == Sums(v)[s \cap C] <= Sums(w)[s]
           Bad == {t \in SUBSET D : ~Ok(t)}
<1>1. \A s \in SUBSET D : Sums(w)[s] \in Nat /\ \A x \in s : Sums(w)[s] = w[x] + Sums(w)[s \ {x}]
  BY SumsAnyOrder
<1>2. IsFiniteSet(C)
  BY FS_Subset
<1>3. \A s \in SUBSET C : Sums(v)[s] \in Nat /\ \A x \in s : Sums(v)[s] = v[x] + Sums(v)[s \ {x}]
  BY <1>2, SumsAnyOrder
<1>5. \A s \in SUBSET D : \A x \in s : s \ {x} \in SUBSET D /\ s \ {x} \subseteq s /\ s \ {x} # s
  OBVIOUS
<1>6. ASSUME \E s \in SUBSET D : ~Ok(s) PROVE FALSE
  <2> HIDE DEF Ok
  <2>1. PICK s \in Bad : \A t \in Bad : t \subseteq s => t = s
    <3>1. Bad \in SUBSET SUBSET D /\ Bad # {}
      BY <1>6
    <3> HIDE DEF Bad
    <3> QED BY <3>1, SmallestSubset
  <2>3. s \in SUBSET D /\ ~Ok(s)
    BY <2>1
  <2>4. \A x \in s : Ok(s \ {x})
    BY <1>5, <2>1
  <2>5. CASE s = {}
    <3>1. {} \in SUBSET C /\ Sums(v)[{}] = SumStep(v, Sums(v), {})
      BY <1>2, SumsAre
    <3>3. Sums(v)[{}] = 0
      BY <3>1 DEF SumStep
    <3>2. Sums(w)[s] \in Nat /\ s \cap C = {}
      BY <1>1, <2>5
    <3> QED BY <2>3, <2>5, <3>2, <3>3 DEF Ok
  <2>6. ASSUME NEW x \in s PROVE FALSE
    <3> DEFINE a == s \cap C
               b == (s \ {x}) \cap C
    <3>1. Sums(w)[s] = w[x] + Sums(w)[s \ {x}] /\ Sums(w)[s \ {x}] \in Nat /\ w[x] \in Nat
      BY <1>1, <1>5
    <3>2. Sums(v)[b] <= Sums(w)[s \ {x}]
      BY <2>4 DEF Ok
    <3>3. a \in SUBSET C /\ b \in SUBSET C /\ (x \in C => b = a \ {x} /\ x \in a) /\ (x \notin C => b = a)
      OBVIOUS
    <3>4. ~(Sums(v)[a] <= Sums(w)[s])
      BY <2>3 DEF Ok
    <3> HIDE DEF a, b
    <3>5. Sums(v)[a] \in Nat /\ Sums(v)[b] \in Nat /\ (x \in C => Sums(v)[a] = v[x] + Sums(v)[b])
      BY <1>3, <3>3
    <3>6. CASE x \in C
      <4>1. v[x] \in Nat /\ v[x] <= w[x]
        BY <3>6
      <4> QED BY <3>1, <3>2, <3>4, <3>5, <3>6, <4>1
    <3>7. CASE x \notin C
      BY <3>1, <3>2, <3>3, <3>4, <3>5, <3>7
    <3> QED BY <3>6, <3>7
  <2> QED BY <2>5, <2>6
<1>7. Sums(v)[D \cap C] <= Sums(w)[D] /\ D \cap C = C
  BY <1>6
<1> QED BY <1>1, <1>3, <1>7, SumIs

\* What is proved of one function by itself.
COROLLARY SumNat ==
  ASSUME NEW w, IsFiniteSet(DOMAIN w), \A x \in DOMAIN w : w[x] \in Nat
  PROVE  SumFunction(w) \in Nat
BY SumMonotone
-----------------------------------------------------------------------------
(***************************************************************************)
(* The arithmetic of a score: more nodes never count for less, nor does a  *)
(* less mild profile.                                                      *)
(***************************************************************************)
Percent == {-60, -50, -25, 0, 15, 20, 30}

Scaled(a, percent) == IF percent = 0 THEN a ELSE roundDiv(a * (100 + percent), 100)

LEMMA RoundsUpward == \A a, b \in Int : a <= b => roundDiv(a, 100) \in Nat /\ roundDiv(a, 100) <= roundDiv(b, 100)
  BY DEF roundDiv

LEMMA RoundsExactly == \A a \in Nat : roundDiv(a * 100, 100) = a
  BY DEF roundDiv

LEMMA ScaledIsRound == \A a \in Nat, p \in Percent : Scaled(a, p) = roundDiv(a * (100 + p), 100)
  BY RoundsExactly DEF Scaled, Percent

LEMMA ScaledUpward ==
  \A a, b \in Nat, p, q \in Percent : a <= b /\ p <= q => Scaled(a, p) \in Nat /\ Scaled(a, p) <= Scaled(b, q)
<1> SUFFICES ASSUME NEW a \in Nat, NEW b \in Nat, NEW p \in Percent, NEW q \in Percent, a <= b, p <= q
             PROVE  Scaled(a, p) \in Nat /\ Scaled(a, p) <= Scaled(b, q)
  OBVIOUS
<1>1. a * (100 + p) \in Int /\ b * (100 + q) \in Int
  BY DEF Percent
<1>2. a * (100 + p) <= b * (100 + p)
  BY DEF Percent
<1>3. b * (100 + p) <= b * (100 + q) /\ b * (100 + p) \in Int
  BY DEF Percent
<1>4. a * (100 + p) <= b * (100 + q)
  BY <1>1, <1>2, <1>3
<1> QED BY <1>1, <1>4, RoundsUpward, ScaledIsRound

LEMMA AdjustmentKnown == \A r, p : profileAdjustment(r, p) \in Percent
  BY DEF profileAdjustment, Percent

LEMMA MilderProfiles == \A i \in 1 .. Len(Milder) - 1 : <<Milder[i], Milder[i + 1]>> \in
    {<<"local", "ci">>, <<"ci", "auto">>, <<"auto", "staging">>, <<"staging", "production">>}
  BY DEF Milder

LEMMA AdjustmentMilder ==
  \A r : \A i \in 1 .. Len(Milder) - 1 : profileAdjustment(r, Milder[i]) <= profileAdjustment(r, Milder[i + 1])
<1> SUFFICES ASSUME NEW r, NEW p, NEW q,
                    <<p, q>> \in {<<"local", "ci">>, <<"ci", "auto">>, <<"auto", "staging">>, <<"staging", "production">>}
             PROVE  profileAdjustment(r, p) <= profileAdjustment(r, q)
  BY MilderProfiles
<1> QED BY DEF profileAdjustment

LEMMA AffectedUpward ==
  \A n, m \in Nat \ {0} : n <= m => 100 + AffectedPercent(n) \in Nat /\ AffectedPercent(n) \in {0, 10, 20, 30}
                                    /\ AffectedPercent(n) <= AffectedPercent(m)
  BY DEF AffectedPercent

LEMMA Weights == \A r \in RuleId : Catalog[r].weight \in Nat
  BY DEF RuleId, Catalog, Rule

LEMMA AdjustedUpward ==
  \A w \in Nat : \A n, m \in Nat \ {0} : n <= m =>
    /\ roundDiv(w * (100 + AffectedPercent(n)), 100) \in Nat
    /\ roundDiv(w * (100 + AffectedPercent(n)), 100) <= roundDiv(w * (100 + AffectedPercent(m)), 100)
<1> SUFFICES ASSUME NEW w \in Nat, NEW n \in Nat \ {0}, NEW m \in Nat \ {0}, n <= m
             PROVE  /\ roundDiv(w * (100 + AffectedPercent(n)), 100) \in Nat
                    /\ roundDiv(w * (100 + AffectedPercent(n)), 100) <= roundDiv(w * (100 + AffectedPercent(m)), 100)
  OBVIOUS
<1> DEFINE p == AffectedPercent(n)
           q == AffectedPercent(m)
<1>1. p \in {0, 10, 20, 30} /\ q \in {0, 10, 20, 30} /\ p <= q
  BY AffectedUpward
<1> HIDE DEF p, q
<1>2. w * (100 + p) \in Int /\ w * (100 + q) \in Int /\ w * (100 + p) <= w * (100 + q)
  BY <1>1
<1>3. roundDiv(w * (100 + p), 100) \in Nat /\ roundDiv(w * (100 + p), 100) <= roundDiv(w * (100 + q), 100)
  BY <1>2, RoundsUpward
<1> QED BY <1>3 DEF p, q

LEMMA ContributionUpward ==
  \A r \in RuleId : \A p, e : \A n, m \in Nat \ {0} : n <= m =>
    Contribution(r, n, p, e) \in Nat /\ Contribution(r, n, p, e) <= Contribution(r, m, p, e)
<1> SUFFICES ASSUME NEW r \in RuleId, NEW p, NEW e, NEW n \in Nat \ {0}, NEW m \in Nat \ {0}, n <= m
             PROVE  Contribution(r, n, p, e) \in Nat /\ Contribution(r, n, p, e) <= Contribution(r, m, p, e)
  OBVIOUS
<1> DEFINE Adjusted(x) == roundDiv(Catalog[r].weight * (100 + AffectedPercent(x)), 100)
           percent == profileAdjustment(r, p)
<1>1. Adjusted(n) \in Nat /\ Adjusted(m) \in Nat /\ Adjusted(n) <= Adjusted(m)
  BY Weights, AdjustedUpward
<1>2. percent \in Percent
  BY AdjustmentKnown
<1>3. \A x : Contribution(r, x, p, e) = IF ~e THEN 0 ELSE Scaled(Adjusted(x), percent)
  BY DEF Contribution, Scaled
<1> HIDE DEF Adjusted, percent
<1>4. Scaled(Adjusted(n), percent) \in Nat /\ Scaled(Adjusted(n), percent) <= Scaled(Adjusted(m), percent)
  <2>1. percent <= percent
    BY <1>2 DEF Percent
  <2> QED BY <1>1, <1>2, <2>1, ScaledUpward
<1> QED BY <1>3, <1>4

LEMMA ContributionMilder ==
  \A r \in RuleId : \A e : \A n \in Nat \ {0}, i \in 1 .. Len(Milder) - 1 :
    Contribution(r, n, Milder[i], e) <= Contribution(r, n, Milder[i + 1], e)
<1> SUFFICES ASSUME NEW r \in RuleId, NEW e, NEW n \in Nat \ {0}, NEW i \in 1 .. Len(Milder) - 1
             PROVE  Contribution(r, n, Milder[i], e) <= Contribution(r, n, Milder[i + 1], e)
  OBVIOUS
<1> DEFINE adjusted == roundDiv(Catalog[r].weight * (100 + AffectedPercent(n)), 100)
           Percents(x) == profileAdjustment(r, x)
<1>1. adjusted \in Nat
  BY Weights, AdjustedUpward
<1>2. \A x : Percents(x) \in Percent
  BY AdjustmentKnown
<1>3. \A x : Contribution(r, n, x, e) = IF ~e THEN 0 ELSE Scaled(adjusted, Percents(x))
  BY DEF Contribution, Scaled
<1>4. Percents(Milder[i]) <= Percents(Milder[i + 1])
  BY AdjustmentMilder
<1> HIDE DEF adjusted, Percents
<1>5. Scaled(adjusted, Percents(Milder[i])) <= Scaled(adjusted, Percents(Milder[i + 1]))
  BY <1>1, <1>2, <1>4, ScaledUpward
<1> QED BY <1>3, <1>5
-----------------------------------------------------------------------------
(***************************************************************************)
(* What a rule is about grows with what is reached.  CRD404 alone may be   *)
(* about other nodes for less evidence, a single job in the place of its   *)
(* workflow, but never about more of them.                                 *)
(***************************************************************************)
LEMMA NoMore ==
  ASSUME NEW T, IsFiniteSet(T), NEW S, S \subseteq T
  PROVE  IsFiniteSet(S) /\ Cardinality(S) \in Nat /\ Cardinality(T) \in Nat /\ Cardinality(S) <= Cardinality(T)
  BY FS_Subset, FS_CardinalityType

LEMMA SeveralUpward ==
  ASSUME NEW T, IsFiniteSet(T), NEW S, S \subseteq T
  PROVE  Several(S) \subseteq Several(T)
  BY NoMore DEF Several

\* The targets of a credential's edges are nodes.
Joined(direct) == \A e \in direct : e.to \in DOMAIN nodes

LEMMA SelectionsUpward ==
  ASSUME NEW reach, NEW R, R \subseteq reach, NEW direct, NEW D, D \subseteq direct, Joined(direct)
  PROVE  /\ \A t : nodesOfType(R, t) \subseteq nodesOfType(reach, t) /\ nodesOfType(reach, t) \subseteq DOMAIN nodes
         /\ \A t, g : Tagged(R, t, g) \subseteq Tagged(reach, t, g) /\ Tagged(reach, t, g) \subseteq DOMAIN nodes
         /\ \A t, y : directTargets(D, t, y) \subseteq directTargets(direct, t, y)
                      /\ directTargets(direct, t, y) \subseteq DOMAIN nodes
         /\ \A t, w : directByEvidence(D, t, w) \subseteq directByEvidence(direct, t, w)
                      /\ directByEvidence(direct, t, w) \subseteq DOMAIN nodes
  BY DEF nodesOfType, Tagged, directTargets, directByEvidence, Joined

LEMMA ComponentsNoMore ==
  ASSUME IsFiniteSet(DOMAIN nodes), NEW direct, NEW D, D \subseteq direct, Joined(direct)
  PROVE  /\ IsFiniteSet(independentComponents(direct)) /\ IsFiniteSet(independentComponents(D))
         /\ Cardinality(independentComponents(D)) <= Cardinality(independentComponents(direct))
<1> DEFINE T == {"configured_in", "explicitly_forwarded_to"}
           W == directTargets(direct, "workflow", T)
           V == directTargets(D, "workflow", T)
           S == DirectServices(direct)
           R == DirectServices(D)
           J == DirectJobs(direct)
           I == DirectJobs(D)
<1>1. /\ V \subseteq W /\ W \subseteq DOMAIN nodes
      /\ R \subseteq S /\ S \subseteq DOMAIN nodes
      /\ I \subseteq J /\ J \subseteq DOMAIN nodes
  BY SelectionsUpward DEF DirectServices, DirectJobs
<1>2. W \cap S = {}
  BY DEF directTargets, DirectServices
<1>3. /\ independentComponents(direct) = (W \cup S) \cup (IF W = {} \/ Cardinality(J) >= 2 THEN J ELSE {})
      /\ independentComponents(D) = (V \cup R) \cup (IF V = {} \/ Cardinality(I) >= 2 THEN I ELSE {})
  BY DEF independentComponents
<1> HIDE DEF W, V, S, R, J, I
<1>4. \A X \in SUBSET DOMAIN nodes : IsFiniteSet(X) /\ Cardinality(X) \in Nat
  BY NoMore
<1>5. \A X, Y \in SUBSET DOMAIN nodes : X \subseteq Y => Cardinality(X) <= Cardinality(Y)
  BY <1>4, NoMore
<1>6. independentComponents(direct) \in SUBSET DOMAIN nodes /\ independentComponents(D) \in SUBSET DOMAIN nodes
  BY <1>1, <1>3
<1>7. Cardinality(I) <= Cardinality(J) /\ Cardinality(I) \in Nat /\ Cardinality(J) \in Nat
  BY <1>1, <1>4, <1>5
<1>8. CASE V = {} /\ W # {} /\ Cardinality(J) < 2
  <2>1. independentComponents(direct) = W \cup S /\ independentComponents(D) = R \cup I
    BY <1>3, <1>7, <1>8
  <2>2. Cardinality(R \cup I) <= Cardinality(R) + Cardinality(I)
    <3>1. Cardinality(R \cup I) = Cardinality(R) + Cardinality(I) - Cardinality(R \cap I)
      BY <1>1, <1>4, FS_Union
    <3>2. Cardinality(R) \in Nat /\ Cardinality(R \cap I) \in Nat
      BY <1>1, <1>4
    <3> QED BY <1>7, <3>1, <3>2
  <2>3. Cardinality(W \cup S) = Cardinality(W) + Cardinality(S)
    <3>1. Cardinality(W \cup S) = Cardinality(W) + Cardinality(S) - Cardinality(W \cap S)
      BY <1>1, <1>4, FS_Union
    <3>2. Cardinality(W \cap S) = 0 /\ Cardinality(W) \in Nat /\ Cardinality(S) \in Nat
      BY <1>1, <1>2, <1>4, FS_EmptySet
    <3> QED BY <3>1, <3>2
  <2>4. Cardinality(W) \in Nat /\ Cardinality(W) # 0
    BY <1>1, <1>4, <1>8, FS_EmptySet
  <2>5. Cardinality(R) <= Cardinality(S) /\ Cardinality(R) \in Nat /\ Cardinality(S) \in Nat
    BY <1>1, <1>4, <1>5
  <2>6. Cardinality(R \cup I) \in Nat
    BY <1>1, <1>4
  <2>7. Cardinality(R \cup I) <= Cardinality(W \cup S)
    BY <1>7, <1>8, <2>2, <2>3, <2>4, <2>5, <2>6
  <2> QED BY <1>4, <1>6, <2>1, <2>7
<1>9. CASE ~(V = {} /\ W # {} /\ Cardinality(J) < 2)
  <2>1. independentComponents(D) \subseteq independentComponents(direct)
    <3>1. (V = {} \/ Cardinality(I) >= 2) => (W = {} \/ Cardinality(J) >= 2)
      BY <1>7, <1>9
    <3> QED BY <1>1, <1>3, <3>1
  <2> QED BY <1>4, <1>5, <1>6, <2>1
<1> QED BY <1>8, <1>9

\* Rule by rule: the nodes it is about are nodes, and those for less are among those for more.
Upward(S, T) == S \subseteq T /\ T \subseteq DOMAIN nodes

LEMMA RulesUpward ==
  ASSUME IsFiniteSet(DOMAIN nodes), NEW reach, NEW R, R \subseteq reach,
         NEW direct, NEW D, D \subseteq direct, Joined(direct)
  PROVE  \A r \in RuleId \ {"CRD404"} : Upward(Evaluate(R, D)[r], Evaluate(reach, direct)[r])
<1> DEFINE A == Evaluate(R, D)
           B == Evaluate(reach, direct)
<1>1. /\ \A t : Upward(nodesOfType(R, t), nodesOfType(reach, t))
      /\ \A t, g : Upward(Tagged(R, t, g), Tagged(reach, t, g))
      /\ \A t, y : Upward(directTargets(D, t, y), directTargets(direct, t, y))
      /\ \A t, w : Upward(directByEvidence(D, t, w), directByEvidence(direct, t, w))
  BY SelectionsUpward DEF Upward
<1>2. Upward(DirectJobs(D), DirectJobs(direct)) /\ Upward(DirectServices(D), DirectServices(direct))
  BY <1>1 DEF DirectJobs, DirectServices
<1>3. \A S, T : Upward(S, T) => Upward(Several(S), Several(T))
  BY NoMore, SeveralUpward DEF Upward, Several
<1>4. \A S, T, X, Y : Upward(S, T) /\ Upward(X, Y) => Upward(S \cup X, T \cup Y)
  BY DEF Upward
<1> DEFINE Writable(r) == {p \in nodesOfType(r, "permission") : p[6] \in {"write", "write-all"}}
<1>5. Upward(Writable(R), Writable(reach))
  BY <1>1 DEF Upward
<1>6. /\ Upward(A["CRD101"], B["CRD101"]) /\ Upward(A["CRD102"], B["CRD102"])
      /\ Upward(A["CRD207"], B["CRD207"]) /\ Upward(A["CRD208"], B["CRD208"])
      /\ Upward(A["CRD204"], B["CRD204"]) /\ Upward(A["CRD302"], B["CRD302"])
      /\ Upward(A["CRD304"], B["CRD304"]) /\ Upward(A["CRD305"], B["CRD305"])
      /\ Upward(A["CRD307"], B["CRD307"]) /\ Upward(A["CRD501"], B["CRD501"])
      /\ Upward(A["CRD502"], B["CRD502"]) /\ Upward(A["CRD503"], B["CRD503"])
  BY <1>1 DEF Evaluate
<1>7. /\ Upward(A["CRD103"], B["CRD103"]) /\ Upward(A["CRD203"], B["CRD203"])
      /\ Upward(A["CRD206"], B["CRD206"]) /\ Upward(A["CRD301"], B["CRD301"])
      /\ Upward(A["CRD306"], B["CRD306"])
  BY <1>1, <1>2, <1>3 DEF Evaluate
<1>8. /\ A["CRD104"] = {t \in nodesOfType(R, "trigger") : t[4] = "pull_request_target"}
      /\ B["CRD104"] = {t \in nodesOfType(reach, "trigger") : t[4] = "pull_request_target"}
      /\ A["CRD202"] = {p \in nodesOfType(R, "permission") : p[6] = "write-all"}
      /\ B["CRD202"] = {p \in nodesOfType(reach, "permission") : p[6] = "write-all"}
      /\ A["CRD303"] = {p \in nodesOfType(R, "port") : p[6] \notin Loopback}
      /\ B["CRD303"] = {p \in nodesOfType(reach, "port") : p[6] \notin Loopback}
      /\ A["CRD308"] = {s \in nodesOfType(R, "service") : MayBeRoot(s)}
      /\ B["CRD308"] = {s \in nodesOfType(reach, "service") : MayBeRoot(s)}
      /\ A["CRD201"] = Writable(R) /\ B["CRD201"] = Writable(reach)
  BY DEF Evaluate
<1>9. /\ A["CRD205"] = Tagged(R, "action", "third_party") \cap Tagged(R, "action", "mutable")
      /\ B["CRD205"] = Tagged(reach, "action", "third_party") \cap Tagged(reach, "action", "mutable")
      /\ A["CRD401"] = Both(nodesOfType(R, "workflow"), DirectServices(D))
      /\ B["CRD401"] = Both(nodesOfType(reach, "workflow"), DirectServices(direct))
      /\ A["CRD402"] = Several(Tagged(R, "environment", "production_like") \cup Tagged(R, "service", "production_like"))
      /\ B["CRD402"] = Several(Tagged(reach, "environment", "production_like")
                               \cup Tagged(reach, "service", "production_like"))
      /\ A["CRD403"] = Both(Writable(R), nodesOfType(R, "environment"))
      /\ B["CRD403"] = Both(Writable(reach), nodesOfType(reach, "environment"))
  BY DEF Evaluate
<1>10. \A r \in RuleId : r = "CRD404" \/ r \in
         {"CRD101", "CRD102", "CRD103", "CRD104", "CRD201", "CRD202", "CRD203", "CRD204", "CRD205", "CRD206",
          "CRD207", "CRD208", "CRD301", "CRD302", "CRD303", "CRD304", "CRD305", "CRD306", "CRD307", "CRD308",
          "CRD401", "CRD402", "CRD403", "CRD501", "CRD502", "CRD503"}
  BY DEF RuleId, Catalog
<1> HIDE DEF A, B, Writable
<1>11. /\ Upward(A["CRD104"], B["CRD104"]) /\ Upward(A["CRD201"], B["CRD201"]) /\ Upward(A["CRD202"], B["CRD202"])
       /\ Upward(A["CRD303"], B["CRD303"]) /\ Upward(A["CRD308"], B["CRD308"])
  BY <1>1, <1>5, <1>8 DEF Upward
<1>12. /\ Upward(A["CRD205"], B["CRD205"]) /\ Upward(A["CRD401"], B["CRD401"])
       /\ Upward(A["CRD403"], B["CRD403"])
  <2>1. Upward(A["CRD205"], B["CRD205"])
    <3>1. /\ Upward(Tagged(R, "action", "third_party"), Tagged(reach, "action", "third_party"))
          /\ Upward(Tagged(R, "action", "mutable"), Tagged(reach, "action", "mutable"))
      BY <1>1
    <3> QED BY <1>9, <3>1 DEF Upward
  <2>2. Upward(A["CRD401"], B["CRD401"])
    <3>1. Upward(nodesOfType(R, "workflow"), nodesOfType(reach, "workflow"))
      BY <1>1
    <3> QED BY <1>2, <1>9, <3>1 DEF Upward, Both
  <2>3. Upward(A["CRD403"], B["CRD403"])
    <3>1. Upward(nodesOfType(R, "environment"), nodesOfType(reach, "environment"))
      BY <1>1
    <3> QED BY <1>5, <1>9, <3>1 DEF Upward, Both
  <2> QED BY <2>1, <2>2, <2>3
<1>13. Upward(A["CRD402"], B["CRD402"])
  <2>1. Upward(Tagged(R, "environment", "production_like") \cup Tagged(R, "service", "production_like"),
               Tagged(reach, "environment", "production_like") \cup Tagged(reach, "service", "production_like"))
    BY <1>1, <1>4
  <2> QED BY <1>3, <1>9, <2>1
<1>14. \A r \in RuleId \ {"CRD404"} : Upward(A[r], B[r])
  BY <1>6, <1>7, <1>10, <1>11, <1>12, <1>13
<1> QED BY <1>14 DEF A, B

LEMMA AffectedNoMore ==
  ASSUME IsFiniteSet(DOMAIN nodes), NEW reach, NEW R, R \subseteq reach,
         NEW direct, NEW D, D \subseteq direct, Joined(direct)
  PROVE  \A r \in RuleId :
           /\ IsFiniteSet(Evaluate(R, D)[r]) /\ IsFiniteSet(Evaluate(reach, direct)[r])
           /\ Cardinality(Evaluate(R, D)[r]) <= Cardinality(Evaluate(reach, direct)[r])
<1>1. \A r \in RuleId \ {"CRD404"} : /\ Evaluate(R, D)[r] \subseteq Evaluate(reach, direct)[r]
                                     /\ Evaluate(reach, direct)[r] \subseteq DOMAIN nodes
  BY RulesUpward DEF Upward
<1>2. \A r \in RuleId \ {"CRD404"} :
           /\ IsFiniteSet(Evaluate(R, D)[r]) /\ IsFiniteSet(Evaluate(reach, direct)[r])
           /\ Cardinality(Evaluate(R, D)[r]) <= Cardinality(Evaluate(reach, direct)[r])
  BY <1>1, NoMore, FS_Subset
<1> DEFINE C == independentComponents(D)
           E == independentComponents(direct)
<1>3. IsFiniteSet(C) /\ IsFiniteSet(E) /\ Cardinality(C) <= Cardinality(E) /\ Cardinality(C) \in Nat /\ Cardinality(E) \in Nat
  BY ComponentsNoMore, FS_CardinalityType
<1>4. Evaluate(R, D)["CRD404"] = Several(C) /\ Evaluate(reach, direct)["CRD404"] = Several(E)
  BY DEF Evaluate
<1> HIDE DEF C, E
<1>5. IsFiniteSet(Several(C)) /\ IsFiniteSet(Several(E)) /\ Cardinality(Several(C)) <= Cardinality(Several(E))
  BY <1>3, FS_EmptySet DEF Several
<1> QED BY <1>2, <1>4, <1>5
-----------------------------------------------------------------------------
(***************************************************************************)
(* The score.                                                              *)
(***************************************************************************)
LEMMA OneMore == \A S, x : IsFiniteSet(S) => IsFiniteSet(S \cup {x})
  BY FS_AddElement

LEMMA CatalogFinite == IsFiniteSet(RuleId)
<1> DEFINE A == {"CRD101", "CRD102", "CRD103", "CRD104"}
           B == {"CRD201", "CRD202", "CRD203", "CRD204", "CRD205", "CRD206", "CRD207", "CRD208"}
           C == {"CRD301", "CRD302", "CRD303", "CRD304", "CRD305", "CRD306", "CRD307", "CRD308"}
           D == {"CRD401", "CRD402", "CRD403", "CRD404"}
           E == {"CRD501", "CRD502", "CRD503"}
<1>1. IsFiniteSet({})
  BY FS_EmptySet
<1>2. IsFiniteSet(A)
  <2>1. A = ((({} \cup {"CRD101"}) \cup {"CRD102"}) \cup {"CRD103"}) \cup {"CRD104"}
    OBVIOUS
  <2> HIDE DEF A
  <2> QED BY <1>1, <2>1, OneMore
<1>3. IsFiniteSet(B)
  <2> DEFINE F == ((({} \cup {"CRD201"}) \cup {"CRD202"}) \cup {"CRD203"}) \cup {"CRD204"}
             G == (((F \cup {"CRD205"}) \cup {"CRD206"}) \cup {"CRD207"}) \cup {"CRD208"}
  <2>1. B = G
    OBVIOUS
  <2>2. IsFiniteSet(F)
    BY <1>1, OneMore
  <2> HIDE DEF F
  <2>3. IsFiniteSet(G)
    BY <2>2, OneMore
  <2> HIDE DEF B, G
  <2> QED BY <2>1, <2>3
<1>4. IsFiniteSet(C)
  <2> DEFINE F == ((({} \cup {"CRD301"}) \cup {"CRD302"}) \cup {"CRD303"}) \cup {"CRD304"}
             G == (((F \cup {"CRD305"}) \cup {"CRD306"}) \cup {"CRD307"}) \cup {"CRD308"}
  <2>1. C = G
    OBVIOUS
  <2>2. IsFiniteSet(F)
    BY <1>1, OneMore
  <2> HIDE DEF F
  <2>3. IsFiniteSet(G)
    BY <2>2, OneMore
  <2> HIDE DEF C, G
  <2> QED BY <2>1, <2>3
<1>5. IsFiniteSet(D)
  <2>1. D = ((({} \cup {"CRD401"}) \cup {"CRD402"}) \cup {"CRD403"}) \cup {"CRD404"}
    OBVIOUS
  <2> HIDE DEF D
  <2> QED BY <1>1, <2>1, OneMore
<1>6. IsFiniteSet(E)
  <2>1. E = (({} \cup {"CRD501"}) \cup {"CRD502"}) \cup {"CRD503"}
    OBVIOUS
  <2> HIDE DEF E
  <2> QED BY <1>1, <2>1, OneMore
<1>7. RuleId = A \cup B \cup C \cup D \cup E
  BY DEF RuleId, Catalog
<1> HIDE DEF A, B, C, D, E
<1> QED BY <1>2, <1>3, <1>4, <1>5, <1>6, <1>7, FS_Union

\* What the rules that match contribute, and what they add up to.
Points(affected, p, e) == [r \in DOMAIN affected |-> Contribution(r, Cardinality(affected[r]), p, e)]

\* Affected nodes as they may be: of rules of the catalog, at least one node for each.
Affected(f) == /\ DOMAIN f \subseteq RuleId
               /\ \A r \in DOMAIN f : Cardinality(f[r]) \in Nat \ {0}

LEMMA ScoreIsSum ==
  \A f, p, e : /\ Calculate(f, p, e).score = Capped(SumFunction(Points(f, p, e)))
               /\ Calculate(f, p, e).contributions = Points(f, p, e)
               /\ Calculate(f, p, e).severity = SeverityForScore(Calculate(f, p, e).score)
  BY DEF Calculate, Points

LEMMA ScoreInScale ==
  ASSUME NEW f, NEW p, NEW e, Affected(f)
  PROVE  LET c == Calculate(f, p, e) IN
         /\ c.score \in 0 .. 100 /\ c.severity \in Severity
         /\ \A r \in DOMAIN c.contributions : c.contributions[r] \in Nat
<1>1. \A r \in DOMAIN f : Contribution(r, Cardinality(f[r]), p, e) \in Nat
  BY ContributionUpward DEF Affected
<1>2. DOMAIN Points(f, p, e) = DOMAIN f /\ \A r \in DOMAIN f : Points(f, p, e)[r] \in Nat
  BY <1>1 DEF Points
<1>3. IsFiniteSet(DOMAIN f)
  BY CatalogFinite, FS_Subset DEF Affected
<1>4. SumFunction(Points(f, p, e)) \in Nat
  BY <1>2, <1>3, SumNat
<1>5. Calculate(f, p, e).score \in 0 .. 100
  BY <1>4, ScoreIsSum DEF Capped
<1>6. \A s \in 0 .. 100 : SeverityForScore(s) \in Severity
  BY DEF SeverityForScore, Severity
<1> QED BY <1>2, <1>5, <1>6, ScoreIsSum

LEMMA ScoreUpward ==
  ASSUME NEW f, NEW g, NEW p, NEW q, NEW e, Affected(f), Affected(g), DOMAIN f \subseteq DOMAIN g,
         \A r \in DOMAIN f : Points(f, p, e)[r] <= Points(g, q, e)[r]
  PROVE  Calculate(f, p, e).score <= Calculate(g, q, e).score
<1>1. /\ \A r \in DOMAIN f : Contribution(r, Cardinality(f[r]), p, e) \in Nat
      /\ \A r \in DOMAIN g : Contribution(r, Cardinality(g[r]), q, e) \in Nat
  BY ContributionUpward DEF Affected
<1> DEFINE v == Points(f, p, e)
           w == Points(g, q, e)
<1>2. /\ DOMAIN v = DOMAIN f /\ \A r \in DOMAIN f : v[r] \in Nat
      /\ DOMAIN w = DOMAIN g /\ \A r \in DOMAIN g : w[r] \in Nat
  BY <1>1 DEF Points
<1>3. IsFiniteSet(DOMAIN g)
  BY CatalogFinite, FS_Subset DEF Affected
<1>4. Calculate(f, p, e).score = Capped(SumFunction(v)) /\ Calculate(g, q, e).score = Capped(SumFunction(w))
  BY ScoreIsSum
<1>5. \A r \in DOMAIN f : v[r] <= w[r]
  OBVIOUS
<1> HIDE DEF v, w
<1>6. SumFunction(v) \in Nat /\ SumFunction(w) \in Nat /\ SumFunction(v) <= SumFunction(w)
  BY <1>2, <1>3, <1>5, SumMonotone
<1> QED BY <1>4, <1>6 DEF Capped

LEMMA AssessmentFits ==
  ASSUME IsFiniteSet(DOMAIN nodes), NEW reach, NEW direct, Joined(direct)
  PROVE  Affected(Assess(reach, direct))
<1> DEFINE f == Assess(reach, direct)
<1>1. /\ DOMAIN f = Matched(Evaluate(reach, direct)) \ Silenced
      /\ \A r \in DOMAIN f : f[r] = Evaluate(reach, direct)[r]
  BY DEF Assess, Restrict
<1>2. \A r \in DOMAIN f : r \in RuleId /\ Evaluate(reach, direct)[r] # {}
  BY <1>1 DEF Matched
<1>3. \A r \in RuleId : IsFiniteSet(Evaluate(reach, direct)[r])
  BY AffectedNoMore
<1> HIDE DEF f
<1>4. \A r \in DOMAIN f : IsFiniteSet(f[r]) /\ f[r] # {}
  BY <1>1, <1>2, <1>3
<1>5. \A r \in DOMAIN f : Cardinality(f[r]) \in Nat \ {0}
  BY <1>4, FS_CardinalityType, FS_EmptySet
<1> QED BY <1>2, <1>5 DEF Affected, f

\* Less evidence.
LEMMA LessEvidence ==
  ASSUME IsFiniteSet(DOMAIN nodes), NEW reach, NEW R, R \subseteq reach,
         NEW direct, NEW D, D \subseteq direct, Joined(direct), NEW p, NEW e
  PROVE  Calculate(Assess(R, D), p, e).score <= Calculate(Assess(reach, direct), p, e).score
<1> DEFINE f == Assess(R, D)
           g == Assess(reach, direct)
<1>1. Joined(D)
  BY DEF Joined
<1>2. Affected(f) /\ Affected(g)
  BY <1>1, AssessmentFits
<1>3. /\ DOMAIN f = Matched(Evaluate(R, D)) \ Silenced /\ \A r \in DOMAIN f : f[r] = Evaluate(R, D)[r]
      /\ DOMAIN g = Matched(Evaluate(reach, direct)) \ Silenced /\ \A r \in DOMAIN g : g[r] = Evaluate(reach, direct)[r]
  BY DEF Assess, Restrict
<1>4. \A r \in RuleId :
           /\ IsFiniteSet(Evaluate(R, D)[r]) /\ IsFiniteSet(Evaluate(reach, direct)[r])
           /\ Cardinality(Evaluate(R, D)[r]) <= Cardinality(Evaluate(reach, direct)[r])
  BY AffectedNoMore
<1>5. \A r \in Matched(Evaluate(R, D)) : r \in Matched(Evaluate(reach, direct))
  <2> SUFFICES ASSUME NEW r \in RuleId, Evaluate(R, D)[r] # {} PROVE Evaluate(reach, direct)[r] # {}
    BY DEF Matched
  <2>1. Cardinality(Evaluate(R, D)[r]) \in Nat /\ Cardinality(Evaluate(R, D)[r]) # 0
    BY <1>4, FS_CardinalityType, FS_EmptySet
  <2>2. Cardinality({}) = 0
    BY FS_EmptySet
  <2> QED BY <1>4, <2>1, <2>2
<1>6. DOMAIN f \subseteq DOMAIN g
  BY <1>3, <1>5
<1> HIDE DEF f, g
<1>7. ASSUME NEW r \in DOMAIN f PROVE Points(f, p, e)[r] <= Points(g, p, e)[r]
  <2>1. r \in RuleId /\ Cardinality(f[r]) \in Nat \ {0} /\ r \in DOMAIN g /\ Cardinality(g[r]) \in Nat \ {0}
    BY <1>2, <1>6 DEF Affected
  <2>2. Cardinality(f[r]) <= Cardinality(g[r])
    BY <1>3, <1>4, <2>1
  <2>3. Contribution(r, Cardinality(f[r]), p, e) <= Contribution(r, Cardinality(g[r]), p, e)
    BY <2>1, <2>2, ContributionUpward
  <2> QED BY <2>1, <2>3 DEF Points
<1>8. Calculate(f, p, e).score <= Calculate(g, p, e).score
  BY <1>2, <1>6, <1>7, ScoreUpward
<1> QED BY <1>8 DEF f, g

\* A milder profile.
LEMMA MilderProfile ==
  ASSUME NEW f, Affected(f), NEW e, NEW i \in 1 .. Len(Milder) - 1
  PROVE  Calculate(f, Milder[i], e).score <= Calculate(f, Milder[i + 1], e).score
<1> DEFINE p == Milder[i]
           q == Milder[i + 1]
<1>1. \A r \in DOMAIN f : Contribution(r, Cardinality(f[r]), p, e) <= Contribution(r, Cardinality(f[r]), q, e)
  BY ContributionMilder DEF Affected
<1> HIDE DEF p, q
<1>2. \A r \in DOMAIN f : Points(f, p, e)[r] <= Points(f, q, e)[r]
  BY <1>1 DEF Points
<1>3. Calculate(f, p, e).score <= Calculate(f, q, e).score
  BY <1>2, ScoreUpward
<1> QED BY <1>3 DEF p, q
-----------------------------------------------------------------------------
(***************************************************************************)
(* The analysis.  The invariant says what an assessment was computed from: *)
(* the nodes reached, the credential's edges and the profile, none of      *)
(* which changes once the graph is built.                                  *)
(***************************************************************************)
GraphFinite == ~limitExceeded => IsFiniteSet(DOMAIN nodes)

Computed(k) ==
  analyses[k].result = Calculate(Assess(analyses[k].reach, DirectOf(k)), selection, ExpectedSecret(k))

\* The phases in which there may be assessments.
Assessing == {"built", "done", "failed"}

ConfigurationTaken ==
  /\ docs \in Inputs
  /\ phase \in EarlierPhase => "classifications" \in DOMAIN repo
  /\ phase \in DOMAIN NextPhase \cup {"built"} => repo.classifications = options.classifications

ScoreInv ==
  /\ BuildInv /\ GraphFinite /\ ConfigurationTaken /\ TypeOK
  /\ DOMAIN analyses # {} => phase \in Assessing /\ ~limitExceeded
  /\ \A k \in DOMAIN analyses : Computed(k)

LEMMA PutFinite == ASSUME NEW p, NEW more, GraphFinite, Put(p, more) PROVE GraphFinite'
  BY DEF Put, AddToGraph, WithinLimits, AtMost, GraphFinite

LEMMA BuildFinite == GraphFinite /\ BuildNext => GraphFinite'
<1> SUFFICES ASSUME GraphFinite, BuildNext PROVE GraphFinite'
  OBVIOUS
<1>1. CASE NextList
  BY <1>1 DEF NextList, graph, GraphFinite
<1>2. CASE \E p, more : Put(p, more)
  BY <1>2, PutFinite
<1> QED
  BY <1>1, <1>2
  DEF BuildNext, AddCanonicalNodes, AddFinding, AddWorkflow, AddInputFlow, AddNestedNodes, AddNestedEdges,
      AddNestedCall, AddCompose, ForwardSecrets, ReportInherit, Do

\* While the graph, the files and what the builder was given stay, so do the results.
LEMMA EvaluateStays ==
  ASSUME nodes' = nodes
  PROVE  \A reach, direct : Evaluate(reach, direct)' = Evaluate(reach, direct)
  BY DEF Evaluate, nodesOfType, Tagged, MayBeRoot

LEMMA ResultStays ==
  ASSUME UNCHANGED <<nodes, edges, repo, credentials, docs, selection>>
  PROVE  \A k : /\ Classify(k)' = Classify(k)
                /\ \A reach : Calculate(Assess(reach, DirectOf(k)), selection, ExpectedSecret(k))'
                                = Calculate(Assess(reach, DirectOf(k)), selection, ExpectedSecret(k))
<1>1. \A reach, direct : Assess(reach, direct)' = Assess(reach, direct)
  <2>1. \A reach, direct : Evaluate(reach, direct)' = Evaluate(reach, direct)
    BY EvaluateStays
  <2>2. Silenced' = Silenced
    BY DEF Silenced, options
  <2> QED BY <2>1, <2>2 DEF Assess
<1>2. \A k : DirectOf(k)' = DirectOf(k)
  BY DEF DirectOf
<1>3. \A k : Classify(k)' = Classify(k)
  <2>1. \A k : UsesOf(k)' = UsesOf(k)
    BY DEF UsesOf
  <2>2. \A k : HasFinding(k)' = HasFinding(k)
    BY <2>1 DEF HasFinding
  <2>3. \A k : HasSecretSyntax(k)' = HasSecretSyntax(k)
    BY <2>1 DEF HasSecretSyntax
  <2>4. repo' = repo
    OBVIOUS
  <2> SUFFICES ASSUME NEW k PROVE Classify(k)' = Classify(k)
    OBVIOUS
  <2>5. HasFinding(k)' = HasFinding(k) /\ HasSecretSyntax(k)' = HasSecretSyntax(k)
    BY <2>2, <2>3
  <2> QED BY <2>4, <2>5, Zenon DEF Classify
<1>4. \A k : ExpectedSecret(k)' = ExpectedSecret(k)
  BY <1>3 DEF ExpectedSecret
<1>5. \A k, reach : Assess(reach, DirectOf(k))' = Assess(reach, DirectOf(k))
  BY <1>1, <1>2 DEF Assess
<1>6. \A f, p, e : Calculate(f, p, e)' = Calculate(f, p, e)
  <2>1. \A r, S : MatchConfidence(r, S)' = MatchConfidence(r, S)
    BY DEF MatchConfidence
  <2> QED BY <2>1 DEF Calculate
<1>7. selection' = selection
  OBVIOUS
<1> SUFFICES ASSUME NEW k, NEW reach
             PROVE  Calculate(Assess(reach, DirectOf(k)), selection, ExpectedSecret(k))'
                      = Calculate(Assess(reach, DirectOf(k)), selection, ExpectedSecret(k))
  BY <1>3
<1> QED BY <1>4, <1>5, <1>6, <1>7

\* What is assessed is in its scale: the graph is finite and its edges end in it.
LEMMA DirectJoined ==
  ASSUME BuildInv, ~limitExceeded, phase \in Assessing
  PROVE  \A k : Joined(DirectOf(k))
<1>1. Pending = {}
  BY DEF Pending, Assessing
<1>2. \A e \in edges : e.to \in DOMAIN nodes
  BY <1>1 DEF BuildInv, Sound, EdgesJoinNodes
<1> QED BY <1>2 DEF DirectOf, Joined

LEMMA ClassKnown ==
  ASSUME docs \in Inputs, repo.classifications = options.classifications
  PROVE  \A k : Classify(k) \in Classification
<1>1. \A k \in DOMAIN options.classifications : options.classifications[k] \in Classification
  BY OptionsAssumption DEF options
<1> QED BY <1>1 DEF Classify, NameClass, Classification

\* One of the profiles is selected: the one asked for, the one the first telling file suggests, or none of them.
LEMMA SelectKnown ==
  ASSUME docs \in Inputs, NEW W
  PROVE  Select(options.profile, W, ComposeFiles) \in Profile
<1> DEFINE telling == {i \in DOMAIN ComposeFiles : Suggests(ComposeFiles[i]) # "none"}
<1>1. options.profile \in Profile /\ DOMAIN docs.compose \subseteq Nat
  BY OptionsAssumption, ComposeAssumption DEF options
<1>2. \A i \in DOMAIN ComposeFiles : /\ i \in DOMAIN docs.compose
                                     /\ ComposeFiles[i].file \in DOMAIN FileMarker
  BY ComposeAssumption DEF ComposeFiles, parseCompose
<1>3. \A i \in telling : Suggests(ComposeFiles[i]) \in Profile
  BY <1>2, MarkerAssumption DEF Suggests, Profile
<1>4. telling \in SUBSET Nat
  BY <1>1, <1>2
<1>5. Select(options.profile, W, ComposeFiles) =
        IF options.profile # "auto" THEN options.profile
        ELSE IF telling # {} THEN Suggests(ComposeFiles[Min(telling)])
        ELSE IF W # {} /\ DOMAIN ComposeFiles = {} THEN "ci" ELSE "auto"
  BY DEF Select
<1> HIDE DEF telling
<1>6. telling # {} => Min(telling) \in telling
  <2>1. telling # {} => \E n \in telling : \A m \in telling : n <= m
    BY <1>4, LeastNumber
  <2> QED BY <2>1 DEF Min
<1> QED BY <1>1, <1>3, <1>5, <1>6 DEF Profile

LEMMA InitScores == Init => ScoreInv
<1> SUFFICES ASSUME Init PROVE ScoreInv
  OBVIOUS
<1>1. BuildInv
  BY InitSound
<1>2. /\ docs \in Inputs /\ phase = "ingest" /\ selection = "auto" /\ DOMAIN analyses = {} /\ DOMAIN nodes = {}
      /\ "classifications" \in DOMAIN repo
  BY DEF Init, NewBuilder, NoKeys, NoFiles
<1>3. GraphFinite
  BY <1>2, FS_EmptySet DEF GraphFinite
<1> QED BY <1>1, <1>2, <1>3, PhaseNames DEF ScoreInv, ConfigurationTaken, TypeOK, Phase, Profile

\* Before the graph is built nothing is assessed.
LEMMA EarlyScores ==
  ASSUME ScoreInv, phase \notin Assessing, UNCHANGED analyses, BuildInv', GraphFinite', ConfigurationTaken',
         phase' \in Phase, selection' \in Profile
  PROVE  ScoreInv'
<1>1. DOMAIN analyses' = {}
  BY DEF ScoreInv
<1> QED BY <1>1 DEF ScoreInv, TypeOK

LEMMA IngestScores == ScoreInv /\ Ingest => ScoreInv'
<1> SUFFICES ASSUME ScoreInv, Ingest PROVE ScoreInv'
  OBVIOUS
<1>1. /\ phase = "ingest" /\ phase' = IF IngestFails THEN "failed" ELSE "ingested"
      /\ UNCHANGED <<docs, analyses, selection, nodes, limitExceeded>>
  BY DEF Ingest, graph
<1>2. BuildInv' /\ GraphFinite'
  BY <1>1, IngestSound DEF ScoreInv, GraphFinite
<1>3. ConfigurationTaken'
  <2>1. CASE IngestFails
    BY <1>1, <2>1, PhaseNames DEF ScoreInv, ConfigurationTaken, EarlierPhase
  <2>2. CASE ~IngestFails
    <3>1. PICK W, composites, calls : repo' = Parsed(W, composites, calls)
      BY <2>2 DEF Ingest
    <3>2. "classifications" \in DOMAIN repo'
      BY <3>1 DEF Parsed, NoFiles
    <3> QED BY <1>1, <2>2, <3>2, PhaseNames DEF ScoreInv, ConfigurationTaken
  <2> QED BY <2>1, <2>2
<1>4. phase' \in Phase /\ selection' \in Profile /\ phase \notin Assessing
  BY <1>1 DEF Phase, Assessing, ScoreInv, TypeOK
<1> QED BY <1>1, <1>2, <1>3, <1>4, EarlyScores

LEMMA PrepareScores == ScoreInv /\ Prepare => ScoreInv'
<1> SUFFICES ASSUME ScoreInv, Prepare PROVE ScoreInv'
  OBVIOUS
<1>1. /\ phase = "ingested" /\ phase' = "canonical"
      /\ UNCHANGED <<docs, analyses, nodes, limitExceeded>>
  BY DEF Prepare, graph
<1>2. BuildInv' /\ GraphFinite'
  BY <1>1, PrepareSound DEF ScoreInv, GraphFinite
<1>3. docs \in Inputs /\ "classifications" \in DOMAIN repo
  BY <1>1 DEF ScoreInv, ConfigurationTaken, EarlierPhase
<1>4. selection' \in Profile
  <2>1. PICK W : selection' = Select(options.profile, W, ComposeFiles)
    BY DEF Prepare
  <2> QED BY <1>3, <2>1, SelectKnown
<1>5. ConfigurationTaken'
  <2>1. "classifications" \in DOMAIN Kept(repo)
    BY <1>3 DEF Kept
  <2>2. PICK calls, flows, nested, variables :
          repo' = [[Kept(repo) EXCEPT !.calls = calls, !.flows = flows]
                     EXCEPT !.nestedFlows = nested, !.ignoredVariables = variables,
                            !.classifications = options.classifications]
    BY DEF Prepare
  <2>3. repo'.classifications = options.classifications
    BY <2>1, <2>2
  <2> QED BY <1>1, <1>3, <2>3 DEF ConfigurationTaken, EarlierPhase, options
<1>6. phase' \in Phase /\ phase \notin Assessing
  BY <1>1, PhaseNames DEF Phase, Assessing
<1> QED BY <1>1, <1>2, <1>4, <1>5, <1>6, EarlyScores

LEMMA BuildPhases == BuildNext => /\ phase \in DOMAIN NextPhase /\ phase' \in DOMAIN NextPhase \cup {"built"}
                                  /\ repo' = repo
<1> SUFFICES ASSUME BuildNext PROVE /\ phase \in DOMAIN NextPhase /\ phase' \in DOMAIN NextPhase \cup {"built"}
                                    /\ repo' = repo
  OBVIOUS
<1>1. CASE NextList
  <2>1. \A p \in DOMAIN NextPhase : NextPhase[p] \in DOMAIN NextPhase \cup {"built"}
    BY DEF NextPhase
  <2> QED BY <1>1, <2>1 DEF NextList
<1>2. CASE ~NextList
  BY <1>2, PhaseNames
  DEF BuildNext, AddCanonicalNodes, AddFinding, AddWorkflow, AddInputFlow, AddNestedNodes, AddNestedEdges,
      AddNestedCall, AddCompose, ForwardSecrets, ReportInherit, Do
<1> QED BY <1>1, <1>2

LEMMA BuildScores == ScoreInv /\ Build => ScoreInv'
<1> SUFFICES ASSUME ScoreInv, Build PROVE ScoreInv'
  OBVIOUS
<1>1. BuildNext /\ UNCHANGED <<docs, selection, analyses>>
  BY DEF Build
<1>2. BuildInv' /\ GraphFinite'
  BY <1>1, BuildKeeps, BuildFinite DEF ScoreInv
<1>3. phase \in DOMAIN NextPhase /\ phase' \in DOMAIN NextPhase \cup {"built"} /\ repo' = repo
  BY <1>1, BuildPhases
<1>4. ConfigurationTaken'
  BY <1>1, <1>3, PhaseNames DEF ScoreInv, ConfigurationTaken, EarlierPhase, options
<1>5. phase' \in Phase /\ phase \notin Assessing /\ selection' \in Profile
  BY <1>1, <1>3, PhaseNames DEF Phase, Assessing, ScoreInv, TypeOK
<1> QED BY <1>1, <1>2, <1>4, <1>5, EarlyScores

\* Once the graph is built, what has been computed stays computed.
LEMMA BuiltScores ==
  ASSUME ScoreInv, phase = "built", phase' \in Assessing,
         UNCHANGED <<repo, todo, graph, credentials, docs, selection>>
  PROVE  /\ BuildInv' /\ GraphFinite' /\ ConfigurationTaken' /\ phase' \in Phase
         /\ \A k, reach : Calculate(Assess(reach, DirectOf(k)), selection, ExpectedSecret(k))'
                            = Calculate(Assess(reach, DirectOf(k)), selection, ExpectedSecret(k))
<1>1. BuildInv'
  BY BuiltSound DEF ScoreInv, Assessing
<1>2. UNCHANGED <<nodes, edges, limitExceeded>>
  BY DEF graph
<1>3. GraphFinite'
  BY <1>2 DEF ScoreInv, GraphFinite
<1>4. ConfigurationTaken' /\ phase' \in Phase
  BY PhaseNames DEF ScoreInv, ConfigurationTaken, EarlierPhase, options, Phase, Assessing
<1> QED BY <1>1, <1>2, <1>3, <1>4, ResultStays

LEMMA SameScores ==
  ASSUME ScoreInv, phase = "built", phase' \in Assessing, UNCHANGED analyses,
         UNCHANGED <<repo, todo, graph, credentials, docs, selection>>
  PROVE  ScoreInv'
<1>1. /\ BuildInv' /\ GraphFinite' /\ ConfigurationTaken' /\ phase' \in Phase
      /\ \A k, reach : Calculate(Assess(reach, DirectOf(k)), selection, ExpectedSecret(k))'
                         = Calculate(Assess(reach, DirectOf(k)), selection, ExpectedSecret(k))
  BY BuiltScores
<1>2. Known' = Known
  BY DEF Known
<1>3. TypeOK'
  BY <1>1, <1>2 DEF ScoreInv, TypeOK
<1>4. \A k \in DOMAIN analyses : Computed(k)'
  BY <1>1 DEF ScoreInv, Computed
<1>5. limitExceeded' = limitExceeded
  BY DEF graph
<1> QED BY <1>1, <1>3, <1>4, <1>5 DEF ScoreInv

LEMMA AnalyzeScores == \A k \in Name : ScoreInv /\ AnalyzeCredential(k) => ScoreInv'
<1> SUFFICES ASSUME NEW k \in Name, ScoreInv, AnalyzeCredential(k) PROVE ScoreInv'
  OBVIOUS
<1>1. /\ phase = "built" /\ ~limitExceeded /\ k \in Known /\ phase' \in {"built", "failed"}
      /\ UNCHANGED <<repo, todo, graph, credentials, docs, selection>>
  BY DEF AnalyzeCredential
<1>2. /\ BuildInv' /\ GraphFinite' /\ ConfigurationTaken' /\ phase' \in Phase /\ phase' \in Assessing
      /\ \A x, reach : Calculate(Assess(reach, DirectOf(x)), selection, ExpectedSecret(x))'
                         = Calculate(Assess(reach, DirectOf(x)), selection, ExpectedSecret(x))
  BY <1>1, BuiltScores DEF Assessing
<1>3. CASE UNCHANGED analyses
  BY <1>1, <1>2, <1>3, SameScores
<1>4. CASE analyses' = [x \in DOMAIN analyses \cup {k} |->
                          IF x = k THEN Analyzed(k, Paths(CredentialId(k))) ELSE analyses[x]]
  <2> DEFINE a == Analyzed(k, Paths(CredentialId(k)))
  <2>1. a.result = Calculate(Assess(a.reach, DirectOf(k)), selection, ExpectedSecret(k)) /\ a.class = Classify(k)
    BY DEF Analyzed
  <2>2. a.class \in Classification
    BY <1>1, <2>1, ClassKnown DEF ScoreInv, ConfigurationTaken
  <2>3. Affected(Assess(a.reach, DirectOf(k)))
    <3>1. IsFiniteSet(DOMAIN nodes) /\ Joined(DirectOf(k))
      BY <1>1, DirectJoined DEF ScoreInv, GraphFinite, Assessing
    <3> HIDE DEF a
    <3> QED BY <3>1, AssessmentFits
  <2> HIDE DEF a
  <2>4. /\ a.result.score \in 0 .. 100 /\ a.result.severity \in Severity
        /\ \A r \in DOMAIN a.result.contributions : a.result.contributions[r] \in Nat
    BY <2>1, <2>3, ScoreInScale
  <2>5. analyses' = [x \in DOMAIN analyses \cup {k} |-> IF x = k THEN a ELSE analyses[x]]
    BY <1>4 DEF a
  <2>6. Known' = Known /\ limitExceeded' = limitExceeded /\ selection' = selection
    BY <1>1 DEF Known, graph
  <2>7. TypeOK'
    BY <1>1, <1>2, <2>2, <2>4, <2>5, <2>6 DEF ScoreInv, TypeOK
  <2>8. \A x \in DOMAIN analyses' : Computed(x)'
    <3>1. \A x \in DOMAIN analyses' :
            analyses'[x].result = Calculate(Assess(analyses'[x].reach, DirectOf(x)), selection, ExpectedSecret(x))
      BY <2>1, <2>5 DEF ScoreInv, Computed
    <3> QED BY <1>2, <3>1 DEF Computed
  <2> QED BY <1>1, <1>2, <2>6, <2>7, <2>8 DEF ScoreInv
<1> QED BY <1>3, <1>4 DEF AnalyzeCredential

LEMMA StepScores == ScoreInv /\ [Next]_vars => ScoreInv'
<1> SUFFICES ASSUME ScoreInv, [Next]_vars PROVE ScoreInv'
  OBVIOUS
<1>1. CASE Ingest
  BY <1>1, IngestScores
<1>2. CASE Prepare
  BY <1>2, PrepareScores
<1>3. CASE Build
  BY <1>3, BuildScores
<1>4. ASSUME NEW k \in Name, AnalyzeCredential(k) PROVE ScoreInv'
  BY <1>4, AnalyzeScores
<1>5. CASE Finish
  <2>1. /\ phase = "built" /\ phase' \in {"done", "failed"}
        /\ UNCHANGED <<repo, todo, graph, credentials, docs, selection, analyses>>
    BY <1>5 DEF Finish
  <2> QED BY <2>1, SameScores DEF Assessing
<1>6. CASE UNCHANGED vars
  <2>1. BuildInv'
    BY <1>6, StepSound DEF ScoreInv
  <2>2. UNCHANGED <<repo, phase, nodes, edges, credentials, limitExceeded, docs, selection, analyses>>
    BY <1>6 DEF vars, buildVars
  <2>3. GraphFinite' /\ ConfigurationTaken'
    BY <2>2 DEF ScoreInv, GraphFinite, ConfigurationTaken, options
  <2>4. TypeOK'
    BY <2>2 DEF ScoreInv, TypeOK, Known
  <2>5. \A k \in DOMAIN analyses : Computed(k)'
    BY <2>2, ResultStays DEF ScoreInv, Computed
  <2> QED BY <2>1, <2>2, <2>3, <2>4, <2>5 DEF ScoreInv
<1> QED BY <1>1, <1>2, <1>3, <1>4, <1>5, <1>6 DEF Next

(***************************************************************************)
(* Whatever the rules add up to, the score of every credential stays       *)
(* within its scale, its contributions are numbers and its severity one    *)
(* the report knows; the profile is one of those there are.                *)
(***************************************************************************)
THEOREM ScoresInScale == Spec => []TypeOK
<1>1. Init => ScoreInv
  BY InitScores
<1>2. ScoreInv /\ [Next]_vars => ScoreInv'
  BY StepScores
<1>3. ScoreInv => TypeOK
  BY DEF ScoreInv
<1> QED BY <1>1, <1>2, <1>3, PTL DEF Spec

(***************************************************************************)
(* Less evidence never makes a credential riskier, and neither does a      *)
(* milder profile, for any graph within the limits, any nodes reached and  *)
(* any rules that are switched off: no rule of the catalog counts for more *)
(* when something it is about is taken away.                               *)
(***************************************************************************)
THEOREM ScoresMonotone == Spec => []ScoreIsMonotone
<1>1. Init => ScoreInv
  BY InitScores
<1>2. ScoreInv /\ [Next]_vars => ScoreInv'
  BY StepScores
<1>3. ScoreInv => ScoreIsMonotone
  <2> SUFFICES ASSUME ScoreInv, phase = "done", NEW k \in DOMAIN analyses
               PROVE  LET reach == analyses[k].reach IN
                      /\ \A n \in reach \ {CredentialId(k)} : ScoreOf(k, reach \ {n}, selection) <= analyses[k].result.score
                      /\ \A i \in 1 .. Len(Milder) - 1 : ScoreOf(k, reach, Milder[i]) <= ScoreOf(k, reach, Milder[i + 1])
    BY DEF ScoreIsMonotone
  <2> DEFINE reach == analyses[k].reach
             Into(R) == {e \in DirectOf(k) : e.to \in R}
  <2>1. IsFiniteSet(DOMAIN nodes) /\ Joined(DirectOf(k))
    BY DirectJoined DEF ScoreInv, GraphFinite, Assessing
  <2>2. analyses[k].result = Calculate(Assess(reach, DirectOf(k)), selection, ExpectedSecret(k))
    BY DEF ScoreInv, Computed
  <2>3. \A R, p : ScoreOf(k, R, p) = Calculate(Assess(R, Into(R)), p, ExpectedSecret(k)).score
    BY DEF ScoreOf
  <2>4. \A R : Into(R) \subseteq DirectOf(k) /\ Joined(Into(R))
    BY <2>1 DEF Joined
  <2> HIDE DEF reach, Into
  <2>5. ASSUME NEW n \in reach PROVE ScoreOf(k, reach \ {n}, selection) <= analyses[k].result.score
    <3>1. reach \ {n} \subseteq reach
      OBVIOUS
    <3>2. Calculate(Assess(reach \ {n}, Into(reach \ {n})), selection, ExpectedSecret(k)).score
            <= Calculate(Assess(reach, DirectOf(k)), selection, ExpectedSecret(k)).score
      BY <2>1, <2>4, <3>1, LessEvidence
    <3> QED BY <2>2, <2>3, <3>2
  <2>6. ASSUME NEW i \in 1 .. Len(Milder) - 1
        PROVE  ScoreOf(k, reach, Milder[i]) <= ScoreOf(k, reach, Milder[i + 1])
    <3>1. Affected(Assess(reach, Into(reach)))
      BY <2>1, <2>4, AssessmentFits
    <3> QED BY <2>3, <3>1, MilderProfile
  <2> QED BY <2>5, <2>6 DEF reach
<1> QED BY <1>1, <1>2, <1>3, PTL DEF Spec
-----------------------------------------------------------------------------
(***************************************************************************)
(* What is ignored.  The references that the parsers return name what the  *)
(* files mention: a key, unless it is the empty one, is that of a          *)
(* reference exactly if some value opens with the secret, or some service  *)
(* has the variable.                                                       *)
(***************************************************************************)
LEMMA NoName == Upper[""] = ""
  BY NameAssumption, UpperAssumption

\* A value that opens with a secret of this key, under a name that shows something.
Opens(t, k) == \E e \in t.expressions : /\ Head(e).context = "secrets"
                                         /\ Identifier[Head(e).member] # ""
                                         /\ k = Upper[Identifier[Head(e).member]]

LEMMA ReadNames == \A t, k : k \in Named(extractReferences(t)) <=> Opens(t, k)
<1> SUFFICES ASSUME NEW t, NEW k PROVE k \in Named(extractReferences(t)) <=> Opens(t, k)
  OBVIOUS
<1> DEFINE Heads == {Head(e) : e \in t.expressions}
           KindOf(m) == CASE m.context = "secrets" -> "secret"
                          [] m.context = "env"     -> "environment"
                          [] OTHER                 -> "github_context"
           Ref(m) == [kind |-> KindOf(m), name |-> Identifier[m.member]]
           M == {x \in Heads : x.context # "call" /\ Identifier[x.member] # ""}
<1>1. extractReferences(t) = {Ref(m) : m \in M}
  BY DEF extractReferences
<1>2. \A m : /\ Ref(m).name = Identifier[m.member]
             /\ Ref(m).kind \in CredentialKind <=> m.context = "secrets"
  BY DEF CredentialKind
<1> HIDE DEF Ref
<1>3. k \in Named(extractReferences(t)) <=> \E m \in M : m.context = "secrets" /\ k = Upper[Identifier[m.member]]
  BY <1>1, <1>2 DEF Named
<1> QED BY <1>3 DEF Opens

LEMMA ReferencesNamed ==
  ASSUME NEW T, NEW k
  PROVE  k \in Named(References(T)) <=> \E t \in T : k \in Named(extractReferences(t))
  BY DEF Named, References

LEMMA NamesInTexts ==
  ASSUME NEW T, NEW k, k # ""
  PROVE  k \in Named(References(T)) <=> k \in SecretsIn(T)
<1> DEFINE Says(t) == \E e \in t.expressions : Head(e).context = "secrets" /\ k = KeyOf(Head(e).member)
<1>1. k \in SecretsIn(T) <=> \E t \in T : Says(t)
  <2> DEFINE X == {x \in UNION {t.expressions : t \in T} : Head(x).context = "secrets"}
  <2>1. \A e : e \in X <=> \E t \in T : e \in t.expressions /\ Head(e).context = "secrets"
    OBVIOUS
  <2>2. SecretsIn(T) = {KeyOf(Head(e).member) : e \in X} \ {""}
    BY DEF SecretsIn
  <2> HIDE DEF X
  <2>3. k \in SecretsIn(T) <=> \E e \in X : k = KeyOf(Head(e).member)
    BY <2>2
  <2> QED BY <2>1, <2>3
<1>2. \A t : k \in Named(extractReferences(t)) <=> Says(t)
  <2>1. \A n : k = Upper[n] => n # ""
    BY NoName
  <2>2. \A n : k = KeyOf(n) <=> Identifier[n] # "" /\ k = Upper[Identifier[n]]
    BY <2>1 DEF KeyOf
  <2>3. \A t : Opens(t, k) <=> Says(t)
    BY <2>2 DEF Opens
  <2> QED BY <2>3, ReadNames
<1> HIDE DEF Says
<1> QED BY <1>1, <1>2, ReferencesNamed

LEMMA ReferencesUpward == \A S, T : S \subseteq T => References(S) \subseteq References(T)
  BY DEF References

LEMMA ValuesGiven == \A m : Values(Given(m, NoKeys)) = ValuesOf(m)
  BY DEF Values, Given, ValuesOf, NoKeys

LEMMA MentionedValues == \A m : Mentioned(m) = References(ValuesOf(m))
<1> SUFFICES ASSUME NEW m PROVE Mentioned(m) = References(ValuesOf(m))
  OBVIOUS
<1> DEFINE g == Given(m, NoKeys)
           One(k) == [name |-> Identifier[k], value |-> g[k], references |-> extractReferences(g[k])]
<1>a. Bindings(g) = {One(k) : k \in DOMAIN g} /\ \A k : One(k).references = extractReferences(g[k])
  BY DEF Bindings
<1> HIDE DEF One
<1>1. \A b \in Bindings(g) : \E k \in DOMAIN g : b.references = extractReferences(g[k])
  BY <1>a
<1>2. \A k \in DOMAIN g : \E b \in Bindings(g) : b.references = extractReferences(g[k])
  BY <1>a
<1>3. Mentioned(m) = UNION {b.references : b \in Bindings(g)}
  BY DEF Mentioned
<1>4. ValuesOf(m) = {g[k] : k \in DOMAIN g}
  BY ValuesGiven DEF Values
<1> HIDE DEF g
<1> QED BY <1>1, <1>2, <1>3, <1>4 DEF References

LEMMA StepTextsAre == \A s : StepTexts(s) = StepValues(s)
  BY ValuesGiven DEF StepTexts, StepValues

LEMMA JobTextsAre == \A j : JobTexts(j) = JobValues(j)
<1> SUFFICES ASSUME NEW j PROVE JobTexts(j) = JobValues(j)
  OBVIOUS
<1>1. {StepTexts(j.steps[i]) : i \in DOMAIN j.steps} = {StepValues(j.steps[i]) : i \in DOMAIN j.steps}
  BY StepTextsAre
<1>2. (IF j.secrets \in {Absent, Inherit} THEN {} ELSE Values(j.secrets))
        = (IF j.secrets \in {Absent, Inherit} THEN {} ELSE ValuesOf(j.secrets))
  BY DEF Values, ValuesOf
<1> QED BY <1>1, <1>2, ValuesGiven DEF JobTexts, JobValues

\* All values of a workflow.
TextsOf(d) == ValuesOf(d.env) \cup UNION {JobValues(d.jobs[k]) : k \in DOMAIN d.jobs}

LEMMA WorkflowReferences ==
  ASSUME NEW d
  PROVE  parseWorkflow(d).references = References(TextsOf(d)) /\ parseWorkflow(d).env = References(ValuesOf(d.env))
<1> DEFINE jobs == {parseJob(k, d.jobs[k]) : k \in DOMAIN d.jobs}
<1>1. \A k : parseJob(k, d.jobs[k]).references = References(JobValues(d.jobs[k]))
  BY JobTextsAre DEF parseJob
<1>2. parseWorkflow(d).references = Mentioned(d.env) \cup UNION {j.references : j \in jobs}
  BY DEF parseWorkflow, collectWorkflowReferences
<1>3. UNION {j.references : j \in jobs} = UNION {References(JobValues(d.jobs[k])) : k \in DOMAIN d.jobs}
  BY <1>1
<1>4. UNION {References(JobValues(d.jobs[k])) : k \in DOMAIN d.jobs}
        = References(UNION {JobValues(d.jobs[k]) : k \in DOMAIN d.jobs})
  BY DEF References
<1>5. \A S, T : References(S \cup T) = References(S) \cup References(T)
  BY DEF References
<1>6. parseWorkflow(d).env = Mentioned(d.env)
  BY DEF parseWorkflow
<1> HIDE DEF jobs
<1>7. Mentioned(d.env) = References(ValuesOf(d.env))
  BY MentionedValues
<1>8. TextsOf(d) = ValuesOf(d.env) \cup UNION {JobValues(d.jobs[k]) : k \in DOMAIN d.jobs}
  BY DEF TextsOf
<1> DEFINE values == UNION {JobValues(d.jobs[k]) : k \in DOMAIN d.jobs}
<1> HIDE DEF values
<1>9. References(TextsOf(d)) = References(ValuesOf(d.env)) \cup References(values)
  BY <1>5, <1>8 DEF values
<1>10. parseWorkflow(d).references = References(ValuesOf(d.env)) \cup References(values)
  BY <1>2, <1>3, <1>4, <1>7 DEF values
<1> QED BY <1>6, <1>7, <1>9, <1>10

\* What a parsed job mentions, part by part, is among what the job as a whole does.
LEMMA JobRead ==
  ASSUME NEW k, NEW d
  PROVE  LET j == parseJob(k, d) IN
         /\ j.references = References(JobValues(d))
         /\ j.env \cup j.outputs \subseteq j.references
         /\ \A i \in DOMAIN j.steps : /\ j.steps[i].references \subseteq j.references
                                      /\ \A b \in j.steps[i].with : extractReferences(b.value) \subseteq j.references
         /\ \A b \in j.secrets : b.references \subseteq j.references
<1> DEFINE j == parseJob(k, d)
<1>1. j.references = References(JobValues(d))
  BY JobTextsAre DEF parseJob
<1>2. j.env = References(ValuesOf(d.env)) /\ j.outputs = References(ValuesOf(d.outputs))
  BY MentionedValues DEF parseJob
<1>3. /\ DOMAIN j.steps = DOMAIN d.steps
      /\ \A i \in DOMAIN d.steps : /\ j.steps[i].references = References(StepValues(d.steps[i]))
                                   /\ j.steps[i].with = Bindings(Given(d.steps[i].with, NoKeys))
  BY StepTextsAre DEF parseJob, parseStep
<1>4. j.secrets = IF d.secrets \in {Absent, Inherit} THEN {} ELSE Bindings(d.secrets)
  BY DEF parseJob
<1> HIDE DEF j
<1>5. /\ ValuesOf(d.env) \subseteq JobValues(d) /\ ValuesOf(d.outputs) \subseteq JobValues(d)
      /\ \A i \in DOMAIN d.steps : StepValues(d.steps[i]) \subseteq JobValues(d)
      /\ d.secrets \notin {Absent, Inherit} => ValuesOf(d.secrets) \subseteq JobValues(d)
  BY DEF JobValues
<1>6. \A m : \A b \in Bindings(m) : /\ b.references = extractReferences(b.value)
                                    /\ b.value \in Values(m)
  BY DEF Bindings, Values
<1>7. \A T : \A t \in T : extractReferences(t) \subseteq References(T)
  BY DEF References
<1>8. j.env \cup j.outputs \subseteq j.references
  BY <1>1, <1>2, <1>5, ReferencesUpward
<1>9. ASSUME NEW i \in DOMAIN j.steps
      PROVE  /\ j.steps[i].references \subseteq j.references
             /\ \A b \in j.steps[i].with : extractReferences(b.value) \subseteq j.references
  <2>1. StepValues(d.steps[i]) \subseteq JobValues(d)
    BY <1>3, <1>5
  <2>2. \A b \in j.steps[i].with : b.value \in ValuesOf(d.steps[i].with)
    BY <1>3, <1>6, ValuesGiven
  <2>3. ValuesOf(d.steps[i].with) \subseteq StepValues(d.steps[i])
    BY DEF StepValues
  <2> QED BY <1>1, <1>3, <1>7, <2>1, <2>2, <2>3, ReferencesUpward
<1>10. ASSUME NEW b \in j.secrets PROVE b.references \subseteq j.references
  <2>1. d.secrets \notin {Absent, Inherit} /\ b \in Bindings(d.secrets)
    BY <1>4, <1>10
  <2>2. b.value \in Values(d.secrets) /\ Values(d.secrets) = ValuesOf(d.secrets)
    BY <1>6, <2>1 DEF Values, ValuesOf
  <2> QED BY <1>1, <1>5, <1>6, <1>7, <2>1, <2>2
<1>11. LET q == parseJob(k, d) IN q = j
  BY DEF j
<1> QED BY <1>1, <1>8, <1>9, <1>10 DEF j

LEMMA WorkflowRead ==
  ASSUME NEW d
  PROVE  /\ WellRead(parseWorkflow(d))
         /\ \A j \in parseWorkflow(d).jobs : \A i \in DOMAIN j.steps : \A b \in j.steps[i].with :
              extractReferences(b.value) \subseteq parseWorkflow(d).references
<1> DEFINE w == parseWorkflow(d)
<1>1. w.references = References(TextsOf(d)) /\ w.env = References(ValuesOf(d.env))
  BY WorkflowReferences
<1>2. w.jobs = {parseJob(k, d.jobs[k]) : k \in DOMAIN d.jobs}
  BY DEF parseWorkflow
<1> HIDE DEF w
<1>3. w.env \subseteq w.references
  BY <1>1, ReferencesUpward DEF TextsOf
<1>4. ASSUME NEW j \in w.jobs
      PROVE  /\ j.references \subseteq w.references
             /\ j.env \cup j.outputs \subseteq j.references
             /\ \A i \in DOMAIN j.steps : /\ j.steps[i].references \subseteq j.references
                                          /\ \A b \in j.steps[i].with : extractReferences(b.value) \subseteq w.references
             /\ \A b \in j.secrets : b.references \subseteq j.references
  <2>1. PICK k \in DOMAIN d.jobs : j = parseJob(k, d.jobs[k])
    BY <1>2
  <2>2. JobValues(d.jobs[k]) \subseteq TextsOf(d)
    BY DEF TextsOf
  <2>3. /\ j.references = References(JobValues(d.jobs[k]))
        /\ j.env \cup j.outputs \subseteq j.references
        /\ \A i \in DOMAIN j.steps : /\ j.steps[i].references \subseteq j.references
                                     /\ \A b \in j.steps[i].with : extractReferences(b.value) \subseteq j.references
        /\ \A b \in j.secrets : b.references \subseteq j.references
    BY <2>1, JobRead
  <2>4. j.references \subseteq w.references
    BY <1>1, <2>2, <2>3, ReferencesUpward
  <2> QED BY <2>3, <2>4
<1>5. WellRead(w)
  BY <1>3, <1>4 DEF WellRead
<1> QED BY <1>4, <1>5 DEF w

\* The secret of a flow is one that its workflow mentions, unless the name shows nothing.
LEMMA FlowSecrets ==
  ASSUME NEW r, \A w \in r.workflows : \E d : w = parseWorkflow(d), NEW f \in LinkSteps(r)
  PROVE  \E w \in r.workflows : Upper[f.secret] \in {""} \cup Named(w.references)
<1> DEFINE Calls(x) ==
             {c \in r.stepCalls : /\ c.workflow = x[1].file /\ c.job = x[2].id /\ c.step = x[3]
                                  /\ c = LastOf({d \in r.stepCalls : d.workflow = c.workflow /\ d.job = c.job /\ d.step = c.step})
                                  /\ c.status = "resolved_local_composite"}
           Flows(x) == UNION {FlowsOfStep(x, c) : c \in Calls(x)}
<1>a. LinkSteps(r) = UNION {Flows(x) : x \in UsingSteps(r.workflows)}
  BY DEF LinkSteps
<1>b. \A x : f \in Flows(x) => \E c : f \in FlowsOfStep(x, c)
  <2> HIDE DEF Calls
  <2> QED OBVIOUS
<1> HIDE DEF Flows
<1>1. PICK x \in UsingSteps(r.workflows) : \E c : f \in FlowsOfStep(x, c)
  BY <1>a, <1>b
<1>2. x[1] \in r.workflows /\ x[2] \in x[1].jobs /\ x[3] \in DOMAIN x[2].steps
  BY <1>1 DEF UsingSteps, JobsOf
<1>3. PICK b \in x[2].steps[x[3]].with : Whole(b.value, "secrets") /\ f.secret = WholeName(b.value)
  BY <1>1 DEF FlowsOfStep
<1>4. PICK e \in b.value.expressions : b.value.expressions = {e} /\ Head(e).context = "secrets"
  BY <1>3 DEF Whole
<1>5. f.secret = Identifier[Head(e).member]
  BY <1>3, <1>4 DEF WholeName
<1>6. PICK d : x[1] = parseWorkflow(d)
  BY <1>2
<1>7. extractReferences(b.value) \subseteq x[1].references
  BY <1>2, <1>3, <1>6, WorkflowRead
<1>8. CASE Identifier[Head(e).member] = ""
  BY <1>2, <1>5, <1>8, NoName
<1>9. CASE Identifier[Head(e).member] # ""
  <2>1. Opens(b.value, Upper[f.secret])
    BY <1>4, <1>5, <1>9 DEF Opens
  <2>2. Upper[f.secret] \in Named(extractReferences(b.value))
    BY <2>1, ReadNames
  <2>3. Named(extractReferences(b.value)) \subseteq Named(x[1].references)
    BY <1>7, NamedUpward
  <2> QED BY <1>2, <2>2, <2>3
<1> QED BY <1>8, <1>9

\* From here on the builder has the files that are kept.
Later == DOMAIN NextPhase \cup {"built", "done"}

FilesTaken ==
  /\ phase \in EarlierPhase => DOMAIN repo = DOMAIN NoFiles /\ ignored = {} /\ DOMAIN nodes = {}
  /\ phase = "ingested" => /\ repo.workflows = {parseWorkflow(d) : d \in docs.workflows}
                           /\ repo.compose = {parseCompose(docs.compose[i]) : i \in DOMAIN docs.compose}
  /\ phase \in Later => /\ repo.workflows = {parseWorkflow(d) : d \in KeptWorkflows}
                        /\ repo.compose = {parseCompose(c) : c \in KeptCompose}
                        /\ repo.ignoredVariables = IgnoredKeys(options.ignoreVariables)

LEMMA ParsedFiles == \A d : parseWorkflow(d).file = d.file /\ parseCompose(d).file = d.file
  BY DEF parseWorkflow, parseCompose

LEMMA Prepared ==
  ASSUME Prepare, DOMAIN repo = DOMAIN NoFiles
  PROVE  /\ repo'.workflows = Kept(repo).workflows /\ repo'.compose = Kept(repo).compose
         /\ repo'.flows = LinkSteps(Kept(repo))
         /\ repo'.ignoredVariables = IgnoredKeys(options.ignoreVariables)
<1> DEFINE kept == Kept(repo)
<1>1. PICK calls, nested, classes :
        repo' = [[kept EXCEPT !.calls = calls, !.flows = LinkSteps(kept)]
                   EXCEPT !.nestedFlows = nested, !.ignoredVariables = IgnoredKeys(options.ignoreVariables),
                          !.classifications = classes]
  BY DEF Prepare
<1>2. {"workflows", "compose", "flows", "ignoredVariables"} \subseteq DOMAIN kept
  BY DEF Kept, NoFiles
<1> HIDE DEF kept
<1>3. /\ repo'.workflows = kept.workflows /\ repo'.compose = kept.compose
      /\ repo'.flows = LinkSteps(kept)
      /\ repo'.ignoredVariables = IgnoredKeys(options.ignoreVariables)
  BY <1>1, <1>2
<1> QED BY <1>3 DEF kept

LEMMA KeptFiles ==
  ASSUME DOMAIN repo = DOMAIN NoFiles,
         repo.workflows = {parseWorkflow(d) : d \in docs.workflows},
         repo.compose = {parseCompose(docs.compose[i]) : i \in DOMAIN docs.compose}
  PROVE  /\ Kept(repo).workflows = {parseWorkflow(d) : d \in KeptWorkflows}
         /\ Kept(repo).compose = {parseCompose(c) : c \in KeptCompose}
<1>1. "workflows" \in DOMAIN repo /\ "compose" \in DOMAIN repo
  BY DEF NoFiles
<1>2. /\ Kept(repo).workflows = {w \in repo.workflows : ~HiddenPath(w.file)}
      /\ Kept(repo).compose = {c \in repo.compose : ~HiddenPath(c.file)}
  BY <1>1 DEF Kept
<1>3. \A d : HiddenPath(parseWorkflow(d).file) <=> d.file \in options.ignorePaths
  BY ParsedFiles DEF HiddenPath
<1>4. \A d : HiddenPath(parseCompose(d).file) <=> d.file \in options.ignorePaths
  BY ParsedFiles DEF HiddenPath
<1>5. {w \in repo.workflows : ~HiddenPath(w.file)} = {parseWorkflow(d) : d \in KeptWorkflows}
  BY <1>3 DEF KeptWorkflows
<1>6. {c \in repo.compose : ~HiddenPath(c.file)} = {parseCompose(c) : c \in KeptCompose}
  <2>1. \A c \in repo.compose : ~HiddenPath(c.file) => \E d \in KeptCompose : c = parseCompose(d)
    BY <1>4 DEF KeptCompose
  <2>2. \A d \in KeptCompose : parseCompose(d) \in repo.compose /\ ~HiddenPath(parseCompose(d).file)
    BY <1>4 DEF KeptCompose
  <2> QED BY <2>1, <2>2
<1> QED BY <1>2, <1>5, <1>6

LEMMA PrepareFiles ==
  ASSUME FilesTaken, Prepare
  PROVE  FilesTaken' /\ VariablesMet'
<1>1. /\ phase = "ingested" /\ phase' = "canonical" /\ todo' = {"canonical"}
      /\ UNCHANGED <<docs, nodes, ignored>>
  BY DEF Prepare, graph
<1>2. /\ DOMAIN repo = DOMAIN NoFiles /\ ignored = {} /\ DOMAIN nodes = {}
      /\ repo.workflows = {parseWorkflow(d) : d \in docs.workflows}
      /\ repo.compose = {parseCompose(docs.compose[i]) : i \in DOMAIN docs.compose}
  BY <1>1 DEF FilesTaken, EarlierPhase
<1>3. /\ repo'.workflows = {parseWorkflow(d) : d \in KeptWorkflows}
      /\ repo'.compose = {parseCompose(c) : c \in KeptCompose}
      /\ repo'.ignoredVariables = IgnoredKeys(options.ignoreVariables)
      /\ repo'.flows = LinkSteps(Kept(repo)) /\ Kept(repo).workflows = repo'.workflows
  BY <1>2, Prepared, KeptFiles
<1>4. FilesTaken'
  <2>1. KeptWorkflows' = KeptWorkflows /\ KeptCompose' = KeptCompose /\ options' = options
    BY <1>1 DEF KeptWorkflows, KeptCompose, options
  <2>2. phase' \notin EarlierPhase /\ phase' # "ingested"
    BY <1>1 DEF EarlierPhase
  <2> QED BY <1>3, <2>1, <2>2 DEF FilesTaken
<1>5. WellGiven'
  <2>1. \A w \in repo'.workflows : WellRead(w) /\ \E d : w = parseWorkflow(d)
    BY <1>3, WorkflowRead
  <2>2. ASSUME NEW f \in repo'.flows PROVE Upper[f.secret] \in Spoken'
    <3>1. \E w \in repo'.workflows : Upper[f.secret] \in {""} \cup Named(w.references)
      BY <1>3, <2>1, FlowSecrets
    <3> QED BY <3>1 DEF Spoken
  <2> QED BY <2>1, <2>2 DEF WellGiven
<1>6. \A p \in Naming : Dealt(p)' = {}
  BY <1>1, PhaseNames DEF Dealt, Ahead, Naming
<1> QED BY <1>1, <1>2, <1>4, <1>5, <1>6 DEF VariablesMet

\* Neither of the two changes while the files and the graph stay.
LEMMA NamesStay ==
  ASSUME FilesTaken, VariablesMet, UNCHANGED <<repo, nodes, ignored, docs>>,
         \/ phase' = phase /\ todo' = todo
         \/ phase = "built" /\ phase' \in Assessing
  PROVE  FilesTaken' /\ VariablesMet'
<1>1. KeptWorkflows' = KeptWorkflows /\ KeptCompose' = KeptCompose /\ options' = options
  BY DEF KeptWorkflows, KeptCompose, options
<1>2. /\ Spoken' = Spoken /\ FilesOf' = FilesOf /\ (WellGiven' <=> WellGiven)
      /\ \A p : ItemsOf(p)' = ItemsOf(p)
  BY GivenStays
<1>3. FilesTaken'
  BY <1>1, PhaseNames DEF FilesTaken, EarlierPhase, Later, Assessing
<1>4. ASSUME phase' # "failed" PROVE \A p \in Naming : Dealt(p)' = Dealt(p)
  BY <1>2, <1>4, PhaseNames DEF Dealt, Ahead, Assessing, Naming
<1>5. \A p, i : Names(p, i)' = Names(p, i)
  BY DEF Names
<1>6. phase' \in DOMAIN NextPhase \cup {"built", "done"} => phase \in DOMAIN NextPhase \cup {"built", "done"}
                                                            /\ phase' # "failed"
  BY PhaseNames
<1> QED BY <1>2, <1>3, <1>4, <1>5, <1>6 DEF VariablesMet

LEMMA InitNames == Init => FilesTaken /\ VariablesMet
  BY PhaseNames DEF Init, NewBuilder, NoKeys, FilesTaken, VariablesMet, EarlierPhase, Later

LEMMA IngestNames == FilesTaken /\ VariablesMet /\ Ingest => FilesTaken' /\ VariablesMet'
<1> SUFFICES ASSUME FilesTaken, VariablesMet, Ingest PROVE FilesTaken' /\ VariablesMet'
  OBVIOUS
<1>1. /\ phase = "ingest" /\ phase' = IF IngestFails THEN "failed" ELSE "ingested"
      /\ UNCHANGED <<docs, nodes, ignored>>
  BY DEF Ingest, graph
<1>2. ignored' = {} /\ DOMAIN nodes' = {}
  BY <1>1 DEF FilesTaken, EarlierPhase
<1>3. phase' \notin Later
  BY <1>1, PhaseNames DEF Later
<1>4. VariablesMet'
  BY <1>2, <1>3 DEF VariablesMet, Later
<1>5. ASSUME phase' = "ingested"
      PROVE  /\ DOMAIN repo' = DOMAIN NoFiles
             /\ repo'.workflows = {parseWorkflow(d) : d \in docs.workflows}
             /\ repo'.compose = {parseCompose(docs.compose[i]) : i \in DOMAIN docs.compose}
  <2>1. ~IngestFails
    BY <1>1, <1>5
  <2>2. PICK composites, calls : repo' = Parsed({parseWorkflow(d) : d \in docs.workflows}, composites, calls)
    BY <2>1 DEF Ingest
  <2> DEFINE W == {parseWorkflow(d) : d \in docs.workflows}
             C == {parseCompose(docs.compose[i]) : i \in DOMAIN docs.compose}
             F == Findings(docs.findings)
             N == UNION {CallsIn(d) : d \in composites}
  <2>3. repo' = [NoFiles EXCEPT !.workflows = W, !.compose = C, !.findings = F, !.stepCalls = calls,
                                !.composites = composites, !.nestedCalls = N]
    BY <2>2 DEF Parsed
  <2> HIDE DEF W, C, F, N
  <2>4. DOMAIN repo' = DOMAIN NoFiles /\ repo'.workflows = W /\ repo'.compose = C
    BY <2>3 DEF NoFiles
  <2> QED BY <2>4 DEF W, C
<1>6. FilesTaken'
  BY <1>1, <1>2, <1>3, <1>5, PhaseNames DEF FilesTaken, EarlierPhase
<1> QED BY <1>4, <1>6

LEMMA BuildNames == BuildInv /\ FilesTaken /\ VariablesMet /\ Build => FilesTaken' /\ VariablesMet'
<1> SUFFICES ASSUME BuildInv, FilesTaken, VariablesMet, Build PROVE FilesTaken' /\ VariablesMet'
  OBVIOUS
<1>1. BuildNext /\ docs' = docs
  BY DEF Build
<1>2. phase \in DOMAIN NextPhase /\ phase' \in DOMAIN NextPhase \cup {"built"} /\ repo' = repo
  BY <1>1, BuildPhases
<1>3. VariablesMet'
  BY <1>1, BuildMeets
<1>4. KeptWorkflows' = KeptWorkflows /\ KeptCompose' = KeptCompose /\ options' = options
  BY <1>1 DEF KeptWorkflows, KeptCompose, options
<1>5. phase \in Later /\ phase' \in Later /\ phase' \notin EarlierPhase /\ phase' # "ingested"
  BY <1>2, PhaseNames DEF Later, EarlierPhase
<1>6. FilesTaken'
  BY <1>2, <1>4, <1>5 DEF FilesTaken
<1> QED BY <1>3, <1>6

\* The names a service is given, as its file spells them.
Spelled(s) ==
  LET env == IF s.environment = Absent THEN NoKeys ELSE s.environment
  IN  (UNION {IF env[k] = {} THEN {k} ELSE env[k] : k \in DOMAIN env})
      \cup (IF s.secrets = Absent THEN {} ELSE s.secrets)

LEMMA ServiceRead ==
  ASSUME NEW s, NEW k, k # ""
  PROVE  k \in Named(collectServiceReferences(s)) <=> k \in ServiceHas(s)
<1> DEFINE env == Given(s.environment, NoKeys)
           secrets == Given(s.secrets, {})
           Into(n) == IF env[n] = {} THEN {n} ELSE env[n]
           E == UNION {Into(n) : n \in DOMAIN env}
           Refs(n) == EnvironmentReferences(n, env[n])
           R == UNION {Refs(n) : n \in DOMAIN env}
           S == {ComposeSecret(Identifier[n]) : n \in secrets}
<1>1. Spelled(s) = E \cup secrets /\ ServiceHas(s) = {KeyOf(n) : n \in Spelled(s)}
  BY DEF Spelled, Given, ServiceHas
<1>2. collectServiceReferences(s) = {r \in R \cup S : r.name # ""}
  BY DEF collectServiceReferences
<1>3. \A n, r : r \in Refs(n) <=> \E m \in Into(n) : r = ComposeVariable(Identifier[m])
  <2> HIDE DEF env
  <2> QED BY DEF EnvironmentReferences
<1> HIDE DEF env, secrets, Into, Refs
<1>4. \A r : r \in R <=> \E m \in E : r = ComposeVariable(Identifier[m])
  <2>1. \A r : r \in R <=> \E n \in DOMAIN env : r \in Refs(n)
    OBVIOUS
  <2>2. \A m : m \in E <=> \E n \in DOMAIN env : m \in Into(n)
    OBVIOUS
  <2> HIDE DEF E, R
  <2> SUFFICES ASSUME NEW r PROVE r \in R <=> \E m \in E : r = ComposeVariable(Identifier[m])
    OBVIOUS
  <2>3. \A n : r \in Refs(n) <=> \E m \in Into(n) : r = ComposeVariable(Identifier[m])
    BY <1>3
  <2> QED BY <2>1, <2>2, <2>3
<1> HIDE DEF E, R
<1>5. \A n : /\ ComposeVariable(n).name = n /\ ComposeVariable(n).kind \in CredentialKind
             /\ ComposeSecret(n).name = n /\ ComposeSecret(n).kind \in CredentialKind
  BY DEF ComposeVariable, ComposeSecret, CredentialKind
<1>6. \A r \in R \cup S : r.kind \in CredentialKind /\ \E n \in Spelled(s) : r.name = Identifier[n]
  <2>1. ASSUME NEW r \in R PROVE r.kind \in CredentialKind /\ \E n \in Spelled(s) : r.name = Identifier[n]
    <3>1. PICK m \in E : r = ComposeVariable(Identifier[m])
      BY <1>4
    <3> QED BY <1>1, <1>5, <3>1
  <2>2. ASSUME NEW r \in S PROVE r.kind \in CredentialKind /\ \E n \in Spelled(s) : r.name = Identifier[n]
    <3>1. PICK m \in secrets : r = ComposeSecret(Identifier[m])
      OBVIOUS
    <3> QED BY <1>1, <1>5, <3>1
  <2> QED BY <2>1, <2>2
<1>7. \A n \in Spelled(s) : \E r \in R \cup S : r.name = Identifier[n]
  <2>1. \A n \in E : ComposeVariable(Identifier[n]) \in R
    BY <1>4
  <2>2. \A n \in secrets : ComposeSecret(Identifier[n]) \in S
    OBVIOUS
  <2> HIDE DEF S
  <2> QED BY <1>1, <1>5, <2>1, <2>2
<1> HIDE DEF S
<1>8. k \in Named(collectServiceReferences(s)) <=> \E r \in R \cup S : r.name # "" /\ k = Upper[r.name]
  BY <1>2, <1>6 DEF Named
<1>a. (\E r \in R \cup S : r.name # "" /\ k = Upper[r.name])
        <=> \E n \in Spelled(s) : Identifier[n] # "" /\ k = Upper[Identifier[n]]
  BY <1>6, <1>7
<1>9. k \in ServiceHas(s) <=> \E n \in Spelled(s) : k = KeyOf(n)
  BY <1>1
<1>10. \A n : k = KeyOf(n) <=> Identifier[n] # "" /\ k = Upper[Identifier[n]]
  BY NoName DEF KeyOf
<1> QED BY <1>8, <1>9, <1>10, <1>a

\* What the builder is given speaks of the variables that the files that are kept mention.
LEMMA MetIsSpoken ==
  ASSUME FilesTaken, ReportTaken, phase = "built", NEW k, k # ""
  PROVE  k \in Spoken <=> k \in MetAnywhere
<1> DEFINE A == {Upper[f.label] : f \in repo.findings}
           B == UNION {Named(w.references) : w \in repo.workflows}
           OfFile(c) == UNION {Named(s.references) : s \in c.services}
           D == UNION {OfFile(c) : c \in repo.compose}
           Texts == UNION {MentionedIn(d) : d \in KeptWorkflows}
           HasFile(c) == UNION {ServiceHas(c.services[n]) : n \in DOMAIN c.services}
           Services == UNION {HasFile(c) : c \in KeptCompose}
<1>1. Spoken = {""} \cup A \cup B \cup D /\ MetAnywhere = Leaked \cup Texts \cup Services
  BY DEF Spoken, MetAnywhere
<1>2. A = Leaked
  BY LeakedAreReported DEF ReportTaken
<1>3. k \in B <=> k \in Texts
  <2>1. repo.workflows = {parseWorkflow(d) : d \in KeptWorkflows}
    BY DEF FilesTaken, Later
  <2>2. \A d : k \in Named(parseWorkflow(d).references) <=> k \in MentionedIn(d)
    BY WorkflowReferences, NamesInTexts DEF MentionedIn, TextsOf
  <2>3. k \in B <=> \E d \in KeptWorkflows : k \in Named(parseWorkflow(d).references)
    BY <2>1
  <2> QED BY <2>2, <2>3
<1>4. k \in D <=> k \in Services
  <2>1. repo.compose = {parseCompose(c) : c \in KeptCompose}
    BY DEF FilesTaken, Later
  <2>2. \A c : k \in OfFile(parseCompose(c)) <=> k \in HasFile(c)
    <3>1. \A n, s : parseService(n, s).references = collectServiceReferences(s)
      BY DEF parseService
    <3>2. \A c : parseCompose(c).services = {parseService(n, c.services[n]) : n \in DOMAIN c.services}
      BY DEF parseCompose
    <3>3. \A s : k \in Named(collectServiceReferences(s)) <=> k \in ServiceHas(s)
      BY ServiceRead
    <3> SUFFICES ASSUME NEW c PROVE k \in OfFile(parseCompose(c)) <=> k \in HasFile(c)
      OBVIOUS
    <3>4. k \in OfFile(parseCompose(c)) <=> \E n \in DOMAIN c.services : k \in Named(collectServiceReferences(c.services[n]))
      <4> DEFINE Of(n) == parseService(n, c.services[n])
      <4>1. parseCompose(c).services = {Of(n) : n \in DOMAIN c.services}
        BY <3>2
      <4>2. \A n : Of(n).references = collectServiceReferences(c.services[n])
        BY <3>1
      <4> HIDE DEF Of
      <4>3. k \in OfFile(parseCompose(c)) <=> \E n \in DOMAIN c.services : k \in Named(Of(n).references)
        BY <4>1
      <4> QED BY <4>2, <4>3
    <3>5. k \in HasFile(c) <=> \E n \in DOMAIN c.services : k \in ServiceHas(c.services[n])
      OBVIOUS
    <3> QED BY <3>3, <3>4, <3>5
  <2> HIDE DEF OfFile, HasFile
  <2>3. k \in D <=> \E c \in KeptCompose : k \in OfFile(parseCompose(c))
    BY <2>1
  <2> QED BY <2>2, <2>3
<1> HIDE DEF A, B, D, Texts, Services
<1> QED BY <1>1, <1>2, <1>3, <1>4

\* Keys of ignored variables show something.
LEMMA IgnoredAreNamed == docs \in Inputs => /\ \A k : IgnoredKey(k) <=> k \in IgnoredKeys(options.ignoreVariables)
                                            /\ \A k : IgnoredKey(k) => k # ""
<1> SUFFICES ASSUME docs \in Inputs PROVE /\ \A k : IgnoredKey(k) <=> k \in IgnoredKeys(options.ignoreVariables)
                                          /\ \A k : IgnoredKey(k) => k # ""
  OBVIOUS
<1>1. options.ignoreVariables \subseteq Name \ {""}
  BY OptionsAssumption DEF options
<1>2. \A n \in Name \ {""} : Upper[n] # ""
  BY UpperAssumption
<1> QED BY <1>1, <1>2 DEF IgnoredKey, IgnoredKeys

\* When the graph is built the ignored variables that the files mention have been met, and no others.
LEMMA IgnoredAreMet ==
  ASSUME FilesTaken, VariablesMet, ReportTaken, phase = "built"
  PROVE  ignored = {x \in MetAnywhere : IgnoredKey(x)}
<1>1. \A k : IgnoredKey(k) <=> k \in repo.ignoredVariables
  BY IgnoredAreNamed DEF ReportTaken, FilesTaken, Later
<1>2. \A k : IgnoredKey(k) => k # ""
  BY IgnoredAreNamed DEF ReportTaken
<1>3. ignored \subseteq Spoken \cap repo.ignoredVariables
  BY DEF VariablesMet
<1>4. /\ \A f \in repo.findings : Names("findings", f) \cap repo.ignoredVariables \subseteq ignored
      /\ \A w \in repo.workflows : Names("workflows", w) \cap repo.ignoredVariables \subseteq ignored
      /\ \A c \in repo.compose : Names("compose", c) \cap repo.ignoredVariables \subseteq ignored
  <2>1. \A p \in Naming : Dealt(p) = ItemsOf(p)
    BY PhaseNames DEF Dealt, Ahead, Naming
  <2>2. \A p \in Naming : \A i \in ItemsOf(p) : Names(p, i) \cap repo.ignoredVariables \subseteq ignored
    BY <2>1 DEF VariablesMet
  <2>3. ItemsOf("findings") = repo.findings /\ ItemsOf("workflows") = repo.workflows /\ ItemsOf("compose") = repo.compose
    BY DEF ItemsOf
  <2> QED BY <2>2, <2>3 DEF Naming
<1>5. ASSUME NEW k \in Spoken, k # "", k \in repo.ignoredVariables PROVE k \in ignored
  <2> DEFINE OfFile(c) == UNION {Named(s.references) : s \in c.services}
  <2>1. /\ \A f : Names("findings", f) = {Upper[f.label]}
        /\ \A w : Names("workflows", w) = Named(w.references)
        /\ \A c : Names("compose", c) = OfFile(c)
    BY DEF Names
  <2>2. Spoken = {""} \cup {Upper[f.label] : f \in repo.findings} \cup (UNION {Named(w.references) : w \in repo.workflows})
                 \cup UNION {OfFile(c) : c \in repo.compose}
    BY DEF Spoken
  <2> HIDE DEF OfFile
  <2> QED BY <1>4, <1>5, <2>1, <2>2
<1> QED BY <1>1, <1>2, <1>3, <1>5, MetIsSpoken
-----------------------------------------------------------------------------
(***************************************************************************)
(* How often.  What is left out is counted by the items it is reported as; *)
(* files and findings have one record each, so that as many records are    *)
(* counted as there are files and entries.                                 *)
(***************************************************************************)
LEMMA SameSize ==
  ASSUME NEW S, NEW T, IsFiniteSet(S), NEW f \in [S -> T],
         \A x, y \in S : f[x] = f[y] => x = y, \A t \in T : \E x \in S : f[x] = t
  PROVE  IsFiniteSet(T) /\ Cardinality(T) = Cardinality(S)
<1>1. f \in Bijection(S, T)
  BY DEF Bijection, Injection, Surjection, IsInjective
<1>2. ExistsBijection(S, T)
  BY <1>1 DEF ExistsBijection
<1> QED BY <1>2, FS_Bijection

\* What is reported as one item.
Under(left, i) == {x \in left : x[1] = i}

LEMMA TallyIs ==
  ASSUME NEW left, IsFiniteSet(left)
  PROVE  \A i : /\ IsFiniteSet(Under(left, i)) /\ Cardinality(Under(left, i)) \in Nat
                /\ i \in DOMAIN Tally(left) <=> Cardinality(Under(left, i)) > 0
                /\ i \in DOMAIN Tally(left) => Tally(left)[i] = Cardinality(Under(left, i))
<1> SUFFICES ASSUME NEW i
             PROVE  /\ IsFiniteSet(Under(left, i)) /\ Cardinality(Under(left, i)) \in Nat
                    /\ i \in DOMAIN Tally(left) <=> Cardinality(Under(left, i)) > 0
                    /\ i \in DOMAIN Tally(left) => Tally(left)[i] = Cardinality(Under(left, i))
  OBVIOUS
<1>1. Under(left, i) \in SUBSET left
  BY DEF Under
<1>2. IsFiniteSet(Under(left, i)) /\ Cardinality(Under(left, i)) \in Nat
  BY <1>1, FS_Subset, FS_CardinalityType
<1>3. Cardinality(Under(left, i)) > 0 <=> Under(left, i) # {}
  BY <1>2, FS_EmptySet
<1>4. i \in DOMAIN Tally(left) <=> Under(left, i) # {}
  BY DEF Tally, Under
<1>5. i \in DOMAIN Tally(left) => Tally(left)[i] = Cardinality(Under(left, i))
  BY DEF Tally, Under
<1> QED BY <1>2, <1>3, <1>4, <1>5

LEMMA TalliesAdded ==
  ASSUME NEW A, NEW B, IsFiniteSet(A), IsFiniteSet(B)
  PROVE  LET bag == Added(Tally(A), Tally(B))
             n(i) == Cardinality(Under(A, i)) + Cardinality(Under(B, i))
         IN  /\ \A i : i \in DOMAIN bag <=> n(i) > 0
             /\ \A i \in DOMAIN bag : bag[i] = n(i)
<1> DEFINE a == Tally(A)
           b == Tally(B)
           bag == Added(a, b)
           na(i) == Cardinality(Under(A, i))
           nb(i) == Cardinality(Under(B, i))
<1>1. \A i : /\ na(i) \in Nat /\ (i \in DOMAIN a <=> na(i) > 0) /\ (i \in DOMAIN a => a[i] = na(i))
             /\ nb(i) \in Nat /\ (i \in DOMAIN b <=> nb(i) > 0) /\ (i \in DOMAIN b => b[i] = nb(i))
  BY TallyIs
<1> HIDE DEF a, b, na, nb
<1>2. DOMAIN bag = DOMAIN a \cup DOMAIN b
  BY DEF Added
<1>3. \A i \in DOMAIN bag : bag[i] = (IF i \in DOMAIN a THEN a[i] ELSE 0) + (IF i \in DOMAIN b THEN b[i] ELSE 0)
  BY DEF Added
<1> HIDE DEF bag
<1>4. \A i : i \in DOMAIN bag <=> na(i) + nb(i) > 0
  BY <1>1, <1>2
<1>5. \A i \in DOMAIN bag : bag[i] = na(i) + nb(i)
  BY <1>1, <1>2, <1>3
<1> QED BY <1>4, <1>5 DEF a, b, bag, na, nb

\* Entries of a report that count are told apart by what they are.
LEMMA LeaksApart ==
  ASSUME docs \in Inputs, docs.findings # Malformed
  PROVE  IsFiniteSet(Leaks) /\ \A i, k \in Leaks : Leak(i) = Leak(k) => i = k
<1>1. DOMAIN docs.findings \subseteq Nat /\ IsFiniteSet(DOMAIN docs.findings)
  BY ReportsAssumption, FilesAssumption
<1>2. IsFiniteSet(Leaks)
  BY <1>1, FS_Subset DEF Leaks
<1>3. ASSUME NEW i \in Leaks, NEW k \in Leaks, Leak(i) = Leak(k) PROVE i = k
  <2>1. FindingIdOf(docs.findings[i]) = Leak(i).id /\ FindingIdOf(docs.findings[k]) = Leak(k).id
    BY DEF Leak, convert
  <2>2. ~(k > i) /\ ~(i > k) /\ i \in Nat /\ k \in Nat
    BY <1>1, <1>3, <2>1 DEF Leaks
  <2> QED BY <2>2
<1> QED BY <1>2, <1>3

\* As many findings as entries.
LEMMA LeaksCounted ==
  ASSUME docs \in Inputs, docs.findings # Malformed, NEW i, NEW X, X \subseteq Leaks,
         NEW left, left = {<<i, Leak(x)>> : x \in X}
  PROVE  Cardinality(left) = Cardinality(X)
<1> DEFINE f == [x \in X |-> <<i, Leak(x)>>]
<1>1. IsFiniteSet(X) /\ \A x, y \in X : Leak(x) = Leak(y) => x = y
  BY LeaksApart, FS_Subset
<1>2. f \in [X -> left] /\ \A x \in X : f[x] = <<i, Leak(x)>>
  OBVIOUS
<1>3. \A t \in left : \E x \in X : f[x] = t
  OBVIOUS
<1> HIDE DEF f
<1>4. \A x, y \in X : f[x] = f[y] => x = y
  BY <1>1, <1>2
<1> QED BY <1>1, <1>2, <1>3, <1>4, SameSize

LEMMA FiniteImage ==
  ASSUME NEW S, NEW T, IsFiniteSet(S), NEW f \in [S -> T], \A t \in T : \E x \in S : f[x] = t
  PROVE  IsFiniteSet(T)
<1>1. f \in Surjection(S, T)
  BY DEF Surjection
<1> QED BY <1>1, FS_Surjection

\* The files that are left out, and the findings, each with what it is reported as.
LeftFiles    == {<<PathItem(d), d>> : d \in {x \in repo.workflows \cup repo.compose : HiddenPath(x.file)}}
LeftFindings == {<<FindingItem(f), f>> : f \in {x \in repo.findings : HiddenFinding(x)}}

WorkflowsAt(p) == {d \in docs.workflows : d.file = p}
ComposeAt(p)   == {i \in DOMAIN docs.compose : docs.compose[i].file = p}

FilesParsed ==
  /\ repo.workflows = {parseWorkflow(d) : d \in docs.workflows}
  /\ repo.compose = {parseCompose(docs.compose[i]) : i \in DOMAIN docs.compose}

LEMMA LeftFilesFinite == docs \in Inputs /\ FilesParsed => IsFiniteSet(LeftFiles)
<1> SUFFICES ASSUME docs \in Inputs, FilesParsed PROVE IsFiniteSet(LeftFiles)
  OBVIOUS
<1>1. IsFiniteSet(docs.workflows) /\ IsFiniteSet(DOMAIN docs.compose)
  BY FilesAssumption
<1>2. IsFiniteSet(repo.workflows)
  <2> DEFINE f == [d \in docs.workflows |-> parseWorkflow(d)]
  <2>1. f \in [docs.workflows -> repo.workflows] /\ \A w \in repo.workflows : \E d \in docs.workflows : f[d] = w
    BY DEF FilesParsed
  <2> HIDE DEF f
  <2> QED BY <1>1, <2>1, FiniteImage
<1>3. IsFiniteSet(repo.compose)
  <2> DEFINE f == [i \in DOMAIN docs.compose |-> parseCompose(docs.compose[i])]
  <2>1. f \in [DOMAIN docs.compose -> repo.compose] /\ \A c \in repo.compose : \E i \in DOMAIN docs.compose : f[i] = c
    BY DEF FilesParsed
  <2> HIDE DEF f
  <2> QED BY <1>1, <2>1, FiniteImage
<1> DEFINE H == {x \in repo.workflows \cup repo.compose : HiddenPath(x.file)}
<1>4. IsFiniteSet(H)
  <2>1. IsFiniteSet(repo.workflows \cup repo.compose)
    BY <1>2, <1>3, FS_Union
  <2> QED BY <2>1, FS_Subset
<1> DEFINE f == [d \in H |-> <<PathItem(d), d>>]
<1>5. LeftFiles = {<<PathItem(d), d>> : d \in H}
  BY DEF LeftFiles
<1> HIDE DEF H
<1>6. f \in [H -> LeftFiles] /\ \A t \in LeftFiles : \E d \in H : f[d] = t
  BY <1>5
<1> HIDE DEF f
<1> QED BY <1>4, <1>6, FiniteImage

LEMMA FilesCounted ==
  ASSUME docs \in Inputs, FilesParsed, NEW p
  PROVE  Cardinality(Under(LeftFiles, <<"path", p>>)) =
           IF p \in options.ignorePaths THEN Cardinality(WorkflowsAt(p)) + Cardinality(ComposeAt(p)) ELSE 0
<1> DEFINE item == <<"path", p>>
           U == Under(LeftFiles, item)
           V == {<<item, parseWorkflow(d)>> : d \in WorkflowsAt(p)}
           C == {<<item, parseCompose(docs.compose[i])>> : i \in ComposeAt(p)}
<1>1. \A t : t \in U <=> \E d \in repo.workflows \cup repo.compose :
                            d.file = p /\ p \in options.ignorePaths /\ t = <<item, d>>
  BY DEF Under, LeftFiles, PathItem, HiddenPath
<1> HIDE DEF U
<1>2. CASE p \notin options.ignorePaths
  <2>1. U = {}
    BY <1>1, <1>2
  <2> QED BY <1>2, <2>1, FS_EmptySet DEF U
<1>3. CASE p \in options.ignorePaths
  <2>1. /\ IsFiniteSet(docs.workflows) /\ \A v, w \in WorkflowsAt(p) : v = w
        /\ IsFiniteSet(DOMAIN docs.compose) /\ \A i, j \in ComposeAt(p) : i = j
    BY FilesAssumption DEF WorkflowsAt, ComposeAt
  <2>2. IsFiniteSet(WorkflowsAt(p)) /\ IsFiniteSet(ComposeAt(p))
    BY <2>1, FS_Subset DEF WorkflowsAt, ComposeAt
  <2>3. IsFiniteSet(V) /\ Cardinality(V) = Cardinality(WorkflowsAt(p))
    <3> DEFINE f == [d \in WorkflowsAt(p) |-> <<item, parseWorkflow(d)>>]
    <3>1. f \in [WorkflowsAt(p) -> V] /\ \A t \in V : \E d \in WorkflowsAt(p) : f[d] = t
      OBVIOUS
    <3> HIDE DEF f, V
    <3> QED BY <2>1, <2>2, <3>1, SameSize
  <2>4. IsFiniteSet(C) /\ Cardinality(C) = Cardinality(ComposeAt(p))
    <3> DEFINE f == [i \in ComposeAt(p) |-> <<item, parseCompose(docs.compose[i])>>]
    <3>1. f \in [ComposeAt(p) -> C] /\ \A t \in C : \E i \in ComposeAt(p) : f[i] = t
      OBVIOUS
    <3> HIDE DEF f, C
    <3> QED BY <2>1, <2>2, <3>1, SameSize
  <2>5. V \cap C = {}
    <3>1. \A d : "jobs" \in DOMAIN parseWorkflow(d) /\ "jobs" \notin DOMAIN parseCompose(d)
      BY DEF parseWorkflow, parseCompose
    <3> QED BY <3>1
  <2>6. U = V \cup C
    <3>1. \A d \in repo.workflows : d.file = p => \E x \in WorkflowsAt(p) : d = parseWorkflow(x)
      BY ParsedFiles DEF FilesParsed, WorkflowsAt
    <3>2. \A x \in WorkflowsAt(p) : parseWorkflow(x) \in repo.workflows /\ parseWorkflow(x).file = p
      BY ParsedFiles DEF FilesParsed, WorkflowsAt
    <3>3. \A d \in repo.compose : d.file = p => \E i \in ComposeAt(p) : d = parseCompose(docs.compose[i])
      BY ParsedFiles DEF FilesParsed, ComposeAt
    <3>4. \A i \in ComposeAt(p) : parseCompose(docs.compose[i]) \in repo.compose /\ parseCompose(docs.compose[i]).file = p
      BY ParsedFiles DEF FilesParsed, ComposeAt
    <3>5. \A t : t \in V <=> \E d \in repo.workflows : d.file = p /\ t = <<item, d>>
      <4> HIDE DEF item
      <4> QED BY <3>1, <3>2
    <3>6. \A t : t \in C <=> \E d \in repo.compose : d.file = p /\ t = <<item, d>>
      <4> HIDE DEF item
      <4> QED BY <3>3, <3>4
    <3> HIDE DEF V, C, item
    <3> QED BY <1>1, <1>3, <3>5, <3>6
  <2> HIDE DEF V, C
  <2>7. Cardinality(U) = Cardinality(V) + Cardinality(C)
    <3>1. Cardinality(V \cap C) = 0
      BY <2>5, FS_EmptySet
    <3>2. Cardinality(V) \in Nat /\ Cardinality(C) \in Nat
      BY <2>3, <2>4, FS_CardinalityType
    <3>3. Cardinality(V \cup C) = Cardinality(V) + Cardinality(C) - Cardinality(V \cap C)
      BY <2>3, <2>4, FS_Union
    <3> QED BY <2>6, <3>1, <3>2, <3>3
  <2> QED BY <1>3, <2>3, <2>4, <2>7 DEF U
<1> QED BY <1>2, <1>3

PathFindings(p) == {i \in Leaks : Leak(i).path = p /\ Unnamed(i)}

\* What a finding is reported as, if it is left out.
LEMMA FindingReported ==
  \A f : /\ \A p : (HiddenFinding(f) /\ FindingItem(f) = <<"path", p>>)
                     <=> (/\ p \in options.ignorePaths /\ f.path = p
                          /\ {f.id, <<f.rule>>} \cap options.ignoreFindings = {})
         /\ \A x : (HiddenFinding(f) /\ FindingItem(f) = <<"finding", x>>)
                     <=> (/\ x \in options.ignoreFindings
                          /\ f.id = x \/ (<<f.rule>> = x /\ f.id \notin options.ignoreFindings))
         /\ HiddenFinding(f) => \/ \E p \in options.ignorePaths : FindingItem(f) = <<"path", p>>
                                \/ \E x \in options.ignoreFindings : FindingItem(f) = <<"finding", x>>
<1> SUFFICES ASSUME NEW f
             PROVE  /\ \A p : (HiddenFinding(f) /\ FindingItem(f) = <<"path", p>>)
                                <=> (/\ p \in options.ignorePaths /\ f.path = p
                                     /\ {f.id, <<f.rule>>} \cap options.ignoreFindings = {})
                    /\ \A x : (HiddenFinding(f) /\ FindingItem(f) = <<"finding", x>>)
                                <=> (/\ x \in options.ignoreFindings
                                     /\ f.id = x \/ (<<f.rule>> = x /\ f.id \notin options.ignoreFindings))
                    /\ HiddenFinding(f) => \/ \E p \in options.ignorePaths : FindingItem(f) = <<"path", p>>
                                           \/ \E x \in options.ignoreFindings : FindingItem(f) = <<"finding", x>>
  OBVIOUS
<1> DEFINE rule == <<f.rule>>
<1>1. HiddenFinding(f) <=> \/ f.id \in options.ignoreFindings \/ rule \in options.ignoreFindings
                           \/ f.path \in options.ignorePaths
  BY DEF HiddenFinding, HiddenPath
<1>2. {f.id, rule} \cap options.ignoreFindings = {} <=> f.id \notin options.ignoreFindings /\ rule \notin options.ignoreFindings
  OBVIOUS
<1>3. FindingItem(f) = IF f.id \in options.ignoreFindings THEN <<"finding", f.id>>
                       ELSE IF rule \in options.ignoreFindings THEN <<"finding", rule>> ELSE <<"path", f.path>>
  BY DEF FindingItem
<1> HIDE DEF rule
<1>4. \A p : (HiddenFinding(f) /\ FindingItem(f) = <<"path", p>>)
               <=> (p \in options.ignorePaths /\ f.path = p /\ {f.id, rule} \cap options.ignoreFindings = {})
  BY <1>1, <1>2, <1>3
<1>5. \A x : (HiddenFinding(f) /\ FindingItem(f) = <<"finding", x>>)
               <=> (x \in options.ignoreFindings /\ (f.id = x \/ (rule = x /\ f.id \notin options.ignoreFindings)))
  BY <1>1, <1>3
<1>6. HiddenFinding(f) => \/ \E p \in options.ignorePaths : FindingItem(f) = <<"path", p>>
                          \/ \E x \in options.ignoreFindings : FindingItem(f) = <<"finding", x>>
  BY <1>1, <1>3
<1> QED BY <1>4, <1>5, <1>6 DEF rule

LEMMA FindingsCounted ==
  ASSUME docs \in Inputs, docs.findings # Malformed, repo.findings = Findings(docs.findings)
  PROVE  /\ IsFiniteSet(LeftFindings)
         /\ \A p : Cardinality(Under(LeftFindings, <<"path", p>>)) =
                     IF p \in options.ignorePaths THEN Cardinality(PathFindings(p)) ELSE 0
         /\ \A x : Cardinality(Under(LeftFindings, <<"finding", x>>)) =
                     IF x \in options.ignoreFindings THEN Cardinality(FindingHits(x)) ELSE 0
<1>1. repo.findings = {Leak(i) : i \in Leaks}
  BY FindingsAreLeaks
<1>2. IsFiniteSet(LeftFindings)
  <2> DEFINE X == {i \in Leaks : HiddenFinding(Leak(i))}
             f == [i \in X |-> <<FindingItem(Leak(i)), Leak(i)>>]
  <2>1. IsFiniteSet(X)
    BY LeaksApart, FS_Subset
  <2>2. LeftFindings = {<<FindingItem(Leak(i)), Leak(i)>> : i \in X}
    BY <1>1 DEF LeftFindings
  <2> HIDE DEF X
  <2>3. f \in [X -> LeftFindings] /\ \A t \in LeftFindings : \E i \in X : f[i] = t
    BY <2>2
  <2> HIDE DEF f
  <2> QED BY <2>1, <2>3, FiniteImage
<1>3. \A i, t : t \in Under(LeftFindings, i) <=> \E k \in Leaks : /\ HiddenFinding(Leak(k)) /\ FindingItem(Leak(k)) = i
                                                                  /\ t = <<i, Leak(k)>>
  BY <1>1 DEF Under, LeftFindings
<1>4. ASSUME NEW p
      PROVE  Cardinality(Under(LeftFindings, <<"path", p>>)) =
               IF p \in options.ignorePaths THEN Cardinality(PathFindings(p)) ELSE 0
  <2> DEFINE item == <<"path", p>>
             X == {k \in Leaks : HiddenFinding(Leak(k)) /\ FindingItem(Leak(k)) = item}
  <2>1. Under(LeftFindings, item) = {<<item, Leak(k)>> : k \in X}
    BY <1>3
  <2>2. \A k : k \in X <=> k \in Leaks /\ p \in options.ignorePaths /\ k \in PathFindings(p)
    <3>1. \A k : (HiddenFinding(Leak(k)) /\ FindingItem(Leak(k)) = item)
                   <=> (p \in options.ignorePaths /\ Leak(k).path = p /\ Unnamed(k))
      BY FindingReported DEF Unnamed
    <3>2. \A k : k \in X <=> k \in Leaks /\ HiddenFinding(Leak(k)) /\ FindingItem(Leak(k)) = item
      OBVIOUS
    <3> HIDE DEF X, item
    <3>3. \A k : k \in PathFindings(p) <=> k \in Leaks /\ Leak(k).path = p /\ Unnamed(k)
      BY DEF PathFindings
    <3> QED BY <3>1, <3>2, <3>3
  <2>3. PathFindings(p) \subseteq Leaks /\ X \subseteq Leaks
    BY DEF PathFindings
  <2> HIDE DEF X
  <2>4. X = IF p \in options.ignorePaths THEN PathFindings(p) ELSE {}
    BY <2>2, <2>3
  <2>5. Cardinality(Under(LeftFindings, item)) = Cardinality(X)
    <3> HIDE DEF item
    <3> QED BY <2>1, <2>3, LeaksCounted
  <2> QED BY <2>4, <2>5, FS_EmptySet
<1>5. ASSUME NEW x
      PROVE  Cardinality(Under(LeftFindings, <<"finding", x>>)) =
               IF x \in options.ignoreFindings THEN Cardinality(FindingHits(x)) ELSE 0
  <2> DEFINE item == <<"finding", x>>
             X == {k \in Leaks : HiddenFinding(Leak(k)) /\ FindingItem(Leak(k)) = item}
  <2>1. Under(LeftFindings, item) = {<<item, Leak(k)>> : k \in X}
    BY <1>3
  <2>2. \A k : k \in X <=> k \in Leaks /\ x \in options.ignoreFindings /\ k \in FindingHits(x)
    <3>1. \A k : (HiddenFinding(Leak(k)) /\ FindingItem(Leak(k)) = item)
                   <=> (/\ x \in options.ignoreFindings
                        /\ Leak(k).id = x \/ (<<Leak(k).rule>> = x /\ Leak(k).id \notin options.ignoreFindings))
      BY FindingReported
    <3>2. \A k : k \in X <=> k \in Leaks /\ HiddenFinding(Leak(k)) /\ FindingItem(Leak(k)) = item
      OBVIOUS
    <3> HIDE DEF X, item
    <3>3. \A k : k \in FindingHits(x) <=> k \in Leaks /\ (Leak(k).id = x \/ (<<Leak(k).rule>> = x /\ Leak(k).id \notin options.ignoreFindings))
      BY DEF FindingHits
    <3> QED BY <3>1, <3>2, <3>3
  <2>3. FindingHits(x) \subseteq Leaks /\ X \subseteq Leaks
    BY DEF FindingHits
  <2> HIDE DEF X
  <2>4. X = IF x \in options.ignoreFindings THEN FindingHits(x) ELSE {}
    BY <2>2, <2>3
  <2>5. Cardinality(Under(LeftFindings, item)) = Cardinality(X)
    <3> HIDE DEF item
    <3> QED BY <2>1, <2>3, LeaksCounted
  <2> QED BY <2>4, <2>5, FS_EmptySet
<1> QED BY <1>2, <1>4, <1>5

\* The items of one kind in a bag.
OfKind(bag, kind) == Restrict(bag, {i \in DOMAIN bag : i[1] = kind})

LEMMA SameOfKind ==
  ASSUME NEW bag, NEW kind, NEW list, list = [i \in DOMAIN list |-> list[i]],
         \A i : i \in DOMAIN bag /\ i[1] = kind <=> i \in DOMAIN list, \A i \in DOMAIN list : bag[i] = list[i]
  PROVE  OfKind(bag, kind) = list
<1> DEFINE S == {i \in DOMAIN bag : i[1] = kind}
<1>1. S = DOMAIN list
  OBVIOUS
<1>2. OfKind(bag, kind) = [i \in S |-> bag[i]]
  BY DEF OfKind, Restrict
<1> HIDE DEF S
<1> QED BY <1>1, <1>2

LEMMA LeftItems ==
  \A t \in LeftFiles \cup LeftFindings : \/ \E p \in options.ignorePaths : t[1] = <<"path", p>>
                                         \/ t \in LeftFindings /\ \E x \in options.ignoreFindings : t[1] = <<"finding", x>>
<1>1. ASSUME NEW t \in LeftFiles PROVE \E p \in options.ignorePaths : t[1] = <<"path", p>>
  BY DEF LeftFiles, PathItem, HiddenPath
<1>2. ASSUME NEW t \in LeftFindings PROVE \/ \E p \in options.ignorePaths : t[1] = <<"path", p>>
                                          \/ \E x \in options.ignoreFindings : t[1] = <<"finding", x>>
  <2>1. PICK f \in {x \in repo.findings : HiddenFinding(x)} : t = <<FindingItem(f), f>>
    BY DEF LeftFindings
  <2> QED BY <2>1, FindingReported
<1> QED BY <1>1, <1>2

LEMMA IgnoredListed ==
  ASSUME docs \in Inputs, FilesParsed, docs.findings # Malformed, repo.findings = Findings(docs.findings)
  PROVE  /\ OfKind(Ignored(repo), "path") = ListedPaths
         /\ OfKind(Ignored(repo), "finding") = ListedFindings
         /\ \A i \in DOMAIN Ignored(repo) : Ignored(repo)[i] \in Nat /\ i[1] \in {"path", "finding"}
<1> DEFINE bag == Ignored(repo)
           n(i) == Cardinality(Under(LeftFiles, i)) + Cardinality(Under(LeftFindings, i))
<1>1. IsFiniteSet(LeftFiles) /\ IsFiniteSet(LeftFindings)
  BY LeftFilesFinite, FindingsCounted
<1>2. bag = Added(Tally(LeftFiles), Tally(LeftFindings))
  BY DEF Ignored, LeftFiles, LeftFindings
<1>3. /\ \A i : i \in DOMAIN bag <=> n(i) > 0
      /\ \A i \in DOMAIN bag : bag[i] = n(i)
  BY <1>1, <1>2, TalliesAdded
<1>4. \A i : /\ Cardinality(Under(LeftFiles, i)) \in Nat /\ Cardinality(Under(LeftFindings, i)) \in Nat
             /\ (Cardinality(Under(LeftFiles, i)) > 0 <=> i \in DOMAIN Tally(LeftFiles))
             /\ (Cardinality(Under(LeftFindings, i)) > 0 <=> i \in DOMAIN Tally(LeftFindings))
  BY <1>1, TallyIs
<1>5. ASSUME NEW i \in DOMAIN bag
      PROVE  bag[i] \in Nat /\ \/ \E p \in options.ignorePaths : i = <<"path", p>>
                               \/ \E x \in options.ignoreFindings : i = <<"finding", x>>
  <2>1. n(i) > 0 /\ bag[i] = n(i)
    BY <1>3
  <2>2. \/ i \in DOMAIN Tally(LeftFiles) \/ i \in DOMAIN Tally(LeftFindings)
    BY <1>4, <2>1
  <2>3. \E t \in LeftFiles \cup LeftFindings : t[1] = i
    BY <2>2 DEF Tally
  <2>4. bag[i] \in Nat
    BY <1>4, <2>1
  <2>5. PICK t \in LeftFiles \cup LeftFindings : t[1] = i
    BY <2>3
  <2>6. \/ \E p \in options.ignorePaths : i = <<"path", p>>
        \/ \E x \in options.ignoreFindings : i = <<"finding", x>>
    BY <2>5, LeftItems
  <2> QED BY <2>4, <2>6
<1>6. \A p : /\ n(<<"path", p>>) = IF p \in options.ignorePaths THEN PathHits(p) ELSE 0
             /\ n(<<"path", p>>) \in Nat
  <2> SUFFICES ASSUME NEW p PROVE /\ n(<<"path", p>>) = IF p \in options.ignorePaths THEN PathHits(p) ELSE 0
                                  /\ n(<<"path", p>>) \in Nat
    OBVIOUS
  <2>1. PathHits(p) = Cardinality(WorkflowsAt(p)) + Cardinality(ComposeAt(p)) + Cardinality(PathFindings(p))
    BY DEF PathHits, WorkflowsAt, ComposeAt, PathFindings
  <2> QED BY <1>4, <2>1, FilesCounted, FindingsCounted
<1>7. \A x : n(<<"finding", x>>) = IF x \in options.ignoreFindings THEN Cardinality(FindingHits(x)) ELSE 0
  <2> SUFFICES ASSUME NEW x
               PROVE  n(<<"finding", x>>) = IF x \in options.ignoreFindings THEN Cardinality(FindingHits(x)) ELSE 0
    OBVIOUS
  <2>1. Under(LeftFiles, <<"finding", x>>) = {}
    BY DEF Under, LeftFiles, PathItem
  <2>2. Cardinality(Under(LeftFiles, <<"finding", x>>)) = 0
    BY <2>1, FS_EmptySet
  <2>3. Cardinality(Under(LeftFindings, <<"finding", x>>)) =
          IF x \in options.ignoreFindings THEN Cardinality(FindingHits(x)) ELSE 0
    BY FindingsCounted
  <2> QED BY <1>4, <2>2, <2>3
<1>8. \A x : Cardinality(FindingHits(x)) \in Nat /\ (Cardinality(FindingHits(x)) > 0 <=> FindingHits(x) # {})
  <2> SUFFICES ASSUME NEW x
               PROVE  Cardinality(FindingHits(x)) \in Nat /\ (Cardinality(FindingHits(x)) > 0 <=> FindingHits(x) # {})
    OBVIOUS
  <2>1. FindingHits(x) \in SUBSET Leaks
    BY DEF FindingHits
  <2>2. IsFiniteSet(FindingHits(x))
    BY <2>1, LeaksApart, FS_Subset
  <2>3. Cardinality(FindingHits(x)) \in Nat /\ (Cardinality(FindingHits(x)) = 0 <=> FindingHits(x) = {})
    BY <2>2, FS_CardinalityType, FS_EmptySet
  <2> QED BY <2>3
<1> HIDE DEF bag, n
<1>9. OfKind(bag, "path") = ListedPaths
  <2>1. /\ \A i : i \in DOMAIN ListedPaths <=> \E p \in options.ignorePaths : PathHits(p) > 0 /\ i = <<"path", p>>
        /\ \A i \in DOMAIN ListedPaths : ListedPaths[i] = PathHits(i[2])
        /\ ListedPaths = [i \in DOMAIN ListedPaths |-> ListedPaths[i]]
    BY DEF ListedPaths
  <2>2. \A i : i \in DOMAIN bag /\ i[1] = "path" <=> i \in DOMAIN ListedPaths
    <3>1. ASSUME NEW i \in DOMAIN bag, i[1] = "path" PROVE i \in DOMAIN ListedPaths
      <4>1. PICK p \in options.ignorePaths : i = <<"path", p>>
        BY <1>5, <3>1
      <4> QED BY <1>3, <1>6, <2>1, <4>1
    <3>2. ASSUME NEW i \in DOMAIN ListedPaths PROVE i \in DOMAIN bag /\ i[1] = "path"
      BY <1>3, <1>6, <2>1
    <3> QED BY <3>1, <3>2
  <2>3. ASSUME NEW i \in DOMAIN ListedPaths PROVE bag[i] = ListedPaths[i]
    <3>1. PICK p \in options.ignorePaths : i = <<"path", p>>
      BY <2>1
    <3> QED BY <1>3, <1>6, <2>1, <2>2, <3>1
  <2> QED BY <2>1, <2>2, <2>3, SameOfKind
<1>10. OfKind(bag, "finding") = ListedFindings
  <2>1. /\ \A i : i \in DOMAIN ListedFindings <=> \E x \in options.ignoreFindings : FindingHits(x) # {} /\ i = <<"finding", x>>
        /\ \A i \in DOMAIN ListedFindings : ListedFindings[i] = Cardinality(FindingHits(i[2]))
        /\ ListedFindings = [i \in DOMAIN ListedFindings |-> ListedFindings[i]]
    BY DEF ListedFindings
  <2>2. \A i : i \in DOMAIN bag /\ i[1] = "finding" <=> i \in DOMAIN ListedFindings
    <3>1. ASSUME NEW i \in DOMAIN bag, i[1] = "finding" PROVE i \in DOMAIN ListedFindings
      <4>1. PICK x \in options.ignoreFindings : i = <<"finding", x>>
        BY <1>5, <3>1
      <4> QED BY <1>3, <1>7, <1>8, <2>1, <4>1
    <3>2. ASSUME NEW i \in DOMAIN ListedFindings PROVE i \in DOMAIN bag /\ i[1] = "finding"
      BY <1>3, <1>7, <1>8, <2>1
    <3> QED BY <3>1, <3>2
  <2>3. ASSUME NEW i \in DOMAIN ListedFindings PROVE bag[i] = ListedFindings[i]
    <3>1. PICK x \in options.ignoreFindings : i = <<"finding", x>>
      BY <2>1
    <3> QED BY <1>3, <1>7, <2>1, <2>2, <3>1
  <2> QED BY <2>1, <2>2, <2>3, SameOfKind
<1> QED BY <1>5, <1>9, <1>10 DEF bag
-----------------------------------------------------------------------------
(***************************************************************************)
(* The list of what is ignored.  It is begun with the files and findings   *)
(* that are left out; every assessment adds what is ignored of its rules,  *)
(* once each, and the end adds the variables.  None of the later items is  *)
(* of a kind that an earlier one has.                                      *)
(***************************************************************************)
LEMMA AddedIs ==
  ASSUME NEW bag, NEW more
  PROVE  LET sum == Added(bag, more) IN
         /\ DOMAIN sum = DOMAIN bag \cup DOMAIN more
         /\ \A i \in DOMAIN sum :
              sum[i] = (IF i \in DOMAIN bag THEN bag[i] ELSE 0) + (IF i \in DOMAIN more THEN more[i] ELSE 0)
  BY DEF Added

LEMMA AddedApart ==
  ASSUME NEW bag, NEW more, NEW kind, \A i \in DOMAIN bag : bag[i] \in Nat, \A i \in DOMAIN more : i[1] # kind
  PROVE  /\ OfKind(Added(bag, more), kind) = OfKind(bag, kind)
         /\ \A i : i[1] = kind /\ i \in DOMAIN Added(bag, more) => i \in DOMAIN bag /\ Added(bag, more)[i] = bag[i]
<1> DEFINE sum == Added(bag, more)
           S == {i \in DOMAIN bag : i[1] = kind}
           T == {i \in DOMAIN sum : i[1] = kind}
<1>1. /\ DOMAIN sum = DOMAIN bag \cup DOMAIN more
      /\ \A i \in DOMAIN sum :
           sum[i] = (IF i \in DOMAIN bag THEN bag[i] ELSE 0) + (IF i \in DOMAIN more THEN more[i] ELSE 0)
  BY AddedIs
<1> HIDE DEF sum
<1>2. S = T
  BY <1>1
<1>3. \A i \in S : sum[i] = bag[i]
  BY <1>1
<1>4. OfKind(sum, kind) = [i \in T |-> sum[i]] /\ OfKind(bag, kind) = [i \in S |-> bag[i]]
  BY DEF OfKind, Restrict
<1>5. \A i : i[1] = kind /\ i \in DOMAIN sum => i \in DOMAIN bag /\ sum[i] = bag[i]
  BY <1>2, <1>3
<1> HIDE DEF S, T
<1>6. OfKind(sum, kind) = OfKind(bag, kind)
  BY <1>2, <1>3, <1>4
<1> QED BY <1>5, <1>6 DEF sum

LEMMA ListsStay ==
  ASSUME docs' = docs
  PROVE  /\ options' = options /\ ListedPaths' = ListedPaths /\ ListedFindings' = ListedFindings
         /\ MetAnywhere' = MetAnywhere /\ (\A k : IgnoredKey(k)' <=> IgnoredKey(k))
         /\ ListedVariables' = ListedVariables
<1>1. options' = options /\ \A i : Leak(i)' = Leak(i)
  BY DEF options, Leak
<1>2. Leaks' = Leaks
  BY DEF Leaks
<1>3. \A i : Unnamed(i)' <=> Unnamed(i)
  BY <1>1 DEF Unnamed
<1>4. \A p : PathHits(p)' = PathHits(p)
  BY <1>1, <1>2, <1>3 DEF PathHits
<1>5. \A x : FindingHits(x)' = FindingHits(x)
  BY <1>1, <1>2 DEF FindingHits
<1>6. ListedPaths' = ListedPaths
  BY <1>1, <1>4 DEF ListedPaths
<1>7. ListedFindings' = ListedFindings
  BY <1>1, <1>5 DEF ListedFindings
<1>8. Leaked' = Leaked
  BY <1>1, <1>2, <1>3 DEF Leaked
<1>9. KeptWorkflows' = KeptWorkflows /\ KeptCompose' = KeptCompose
  BY <1>1 DEF KeptWorkflows, KeptCompose
<1>10. MetAnywhere' = MetAnywhere
  BY <1>8, <1>9 DEF MetAnywhere
<1>11. \A k : IgnoredKey(k)' <=> IgnoredKey(k)
  BY <1>1 DEF IgnoredKey
<1>12. ListedVariables' = ListedVariables
  BY <1>10, <1>11 DEF ListedVariables
<1> QED BY <1>1, <1>6, <1>7, <1>10, <1>11, <1>12

Tallied ==
  /\ IsFiniteSet(DOMAIN analyses)
  /\ phase \in Later =>
       /\ \A i \in DOMAIN suppressed : suppressed[i] \in Nat
       /\ Listed("path") = ListedPaths /\ Listed("finding") = ListedFindings
       /\ \A i \in DOMAIN suppressed :
            i[1] = "rule" => i[2] \in options.ignoreRules /\ suppressed[i] \in 1 .. Cardinality(DOMAIN analyses)
       /\ phase # "done" => \A i \in DOMAIN suppressed : i[1] # "variable"
       /\ phase = "done" => Listed("variable") = ListedVariables

LEMMA ListedIs == /\ \A kind : Listed(kind) = OfKind(suppressed, kind)
                  /\ \A kind : Listed(kind)' = OfKind(suppressed', kind)
  BY DEF Listed, OfKind

LEMMA TalliedStays ==
  ASSUME Tallied, UNCHANGED <<docs, suppressed, analyses>>,
         phase' \in Later => phase \in Later /\ (phase' = "done" <=> phase = "done")
  PROVE  Tallied'
<1>1. \A kind : Listed(kind)' = Listed(kind)
  BY ListedIs
<1> QED BY <1>1, ListsStay DEF Tallied

LEMMA PrepareTallied ==
  ASSUME Tallied, FilesTaken, ReportTaken, Prepare, DOMAIN analyses = {}
  PROVE  Tallied'
<1>1. phase = "ingested" /\ phase' = "canonical" /\ docs' = docs /\ analyses' = analyses /\ suppressed' = Ignored(repo)
  BY DEF Prepare
<1>2. FilesParsed /\ docs \in Inputs /\ docs.findings # Malformed /\ repo.findings = Findings(docs.findings)
  BY <1>1 DEF FilesTaken, ReportTaken, FilesParsed
<1>3. /\ Listed("path")' = ListedPaths /\ Listed("finding")' = ListedFindings
      /\ \A i \in DOMAIN suppressed' : suppressed'[i] \in Nat /\ i[1] \in {"path", "finding"}
  BY <1>1, <1>2, IgnoredListed, ListedIs
<1> QED BY <1>1, <1>3, ListsStay DEF Tallied

LEMMA AnalyzeTallied == \A k \in Name : Tallied /\ AnalyzeCredential(k) => Tallied'
<1> SUFFICES ASSUME NEW k \in Name, Tallied, AnalyzeCredential(k) PROVE Tallied'
  OBVIOUS
<1>1. phase = "built" /\ docs' = docs /\ k \notin DOMAIN analyses /\ phase \in Later /\ phase # "done"
  BY DEF AnalyzeCredential, Later
<1>2. CASE phase' = "failed" /\ UNCHANGED <<analyses, suppressed>>
  BY <1>1, <1>2, TalliedStays, PhaseNames DEF Later
<1>3. ASSUME NEW a, NEW reach,
             phase' = phase, suppressed' = Added(suppressed, RuleItems(k, reach)),
             analyses' = [x \in DOMAIN analyses \cup {k} |-> IF x = k THEN a ELSE analyses[x]]
      PROVE  Tallied'
  <2> DEFINE more == RuleItems(k, reach)
             n == Cardinality(DOMAIN analyses)
  <2>1. IsFiniteSet(DOMAIN analyses') /\ Cardinality(DOMAIN analyses') = n + 1 /\ n \in Nat
    <3>1. IsFiniteSet(DOMAIN analyses) /\ DOMAIN analyses' = DOMAIN analyses \cup {k}
      BY <1>3 DEF Tallied
    <3> QED BY <1>1, <3>1, FS_AddElement, FS_CardinalityType
  <2>2. \A i \in DOMAIN more : i[1] = "rule" /\ i[2] \in options.ignoreRules /\ more[i] = 1
    BY DEF RuleItems
  <2> HIDE DEF more, n
  <2>3. /\ \A i \in DOMAIN suppressed : suppressed[i] \in Nat
        /\ Listed("path") = ListedPaths /\ Listed("finding") = ListedFindings
        /\ \A i \in DOMAIN suppressed : i[1] = "rule" => i[2] \in options.ignoreRules /\ suppressed[i] \in 1 .. n
        /\ \A i \in DOMAIN suppressed : i[1] # "variable"
    BY <1>1 DEF Tallied, n
  <2>4. /\ DOMAIN suppressed' = DOMAIN suppressed \cup DOMAIN more
        /\ \A i \in DOMAIN suppressed' :
             suppressed'[i] = (IF i \in DOMAIN suppressed THEN suppressed[i] ELSE 0)
                              + (IF i \in DOMAIN more THEN more[i] ELSE 0)
    <3>1. suppressed' = Added(suppressed, more)
      BY <1>3 DEF more
    <3> QED BY <3>1, AddedIs
  <2>5. Listed("path")' = ListedPaths /\ Listed("finding")' = ListedFindings
    <3>1. suppressed' = Added(suppressed, more)
      BY <1>3 DEF more
    <3>2. OfKind(suppressed', "path") = OfKind(suppressed, "path")
      BY <2>2, <2>3, <3>1, AddedApart
    <3>3. OfKind(suppressed', "finding") = OfKind(suppressed, "finding")
      BY <2>2, <2>3, <3>1, AddedApart
    <3> QED BY <2>3, <3>2, <3>3, ListedIs
  <2>6. \A i \in DOMAIN suppressed' : suppressed'[i] \in Nat /\ i[1] # "variable"
    BY <2>2, <2>3, <2>4
  <2>7. \A i \in DOMAIN suppressed' : i[1] = "rule" => i[2] \in options.ignoreRules /\ suppressed'[i] \in 1 .. n + 1
    BY <2>1, <2>2, <2>3, <2>4
  <2> QED BY <1>1, <1>3, <2>1, <2>5, <2>6, <2>7, ListsStay DEF Tallied
<1>4. \/ phase' = "failed" /\ UNCHANGED <<analyses, suppressed>>
      \/ \E a, reach : /\ phase' = phase /\ suppressed' = Added(suppressed, RuleItems(k, reach))
                       /\ analyses' = [x \in DOMAIN analyses \cup {k} |-> IF x = k THEN a ELSE analyses[x]]
  BY DEF AnalyzeCredential
<1> QED BY <1>2, <1>3, <1>4

LEMMA FinishTallied ==
  ASSUME Tallied, FilesTaken, VariablesMet, ReportTaken, Finish
  PROVE  Tallied'
<1>1. phase = "built" /\ docs' = docs /\ analyses' = analyses /\ phase \in Later /\ phase # "done"
  BY DEF Finish, Later
<1>2. CASE phase' = "failed" /\ suppressed' = suppressed
  BY <1>1, <1>2, TalliedStays, PhaseNames DEF Later
<1>3. CASE phase' = "done" /\ suppressed' = Added(suppressed, [i \in {<<"variable", k>> : k \in ignored} |-> 1])
  <2> DEFINE more == [i \in {<<"variable", k>> : k \in ignored} |-> 1]
  <2>1. more = ListedVariables
    BY <1>1, IgnoredAreMet DEF ListedVariables
  <2>2. \A i \in DOMAIN more : i[1] = "variable" /\ more[i] = 1
    OBVIOUS
  <2>3. suppressed' = Added(suppressed, more)
    BY <1>3
  <2>4. more = [i \in DOMAIN more |-> more[i]]
    OBVIOUS
  <2> HIDE DEF more
  <2>5. /\ \A i \in DOMAIN suppressed : suppressed[i] \in Nat
        /\ Listed("path") = ListedPaths /\ Listed("finding") = ListedFindings
        /\ \A i \in DOMAIN suppressed :
             i[1] = "rule" => i[2] \in options.ignoreRules /\ suppressed[i] \in 1 .. Cardinality(DOMAIN analyses)
        /\ \A i \in DOMAIN suppressed : i[1] # "variable"
    BY <1>1 DEF Tallied
  <2>6. /\ DOMAIN suppressed' = DOMAIN suppressed \cup DOMAIN more
        /\ \A i \in DOMAIN suppressed' :
             suppressed'[i] = (IF i \in DOMAIN suppressed THEN suppressed[i] ELSE 0)
                              + (IF i \in DOMAIN more THEN more[i] ELSE 0)
    BY <2>3, AddedIs
  <2>7. Listed("path")' = ListedPaths /\ Listed("finding")' = ListedFindings
    <3>1. OfKind(suppressed', "path") = OfKind(suppressed, "path")
      BY <2>2, <2>3, <2>5, AddedApart
    <3>2. OfKind(suppressed', "finding") = OfKind(suppressed, "finding")
      BY <2>2, <2>3, <2>5, AddedApart
    <3> QED BY <2>5, <3>1, <3>2, ListedIs
  <2>8. \A i \in DOMAIN suppressed' : suppressed'[i] \in Nat
    BY <2>2, <2>5, <2>6
  <2>9. \A i \in DOMAIN suppressed' :
          i[1] = "rule" => i[2] \in options.ignoreRules /\ suppressed'[i] \in 1 .. Cardinality(DOMAIN analyses)
    <3>1. \A i \in DOMAIN suppressed' : i[1] = "rule" => i \in DOMAIN suppressed /\ suppressed'[i] = suppressed[i]
      BY <2>2, <2>5, <2>6
    <3> QED BY <2>5, <3>1
  <2>10. Listed("variable")' = ListedVariables
    <3>1. \A i : i \in DOMAIN suppressed' /\ i[1] = "variable" <=> i \in DOMAIN more
      BY <2>2, <2>5, <2>6
    <3>2. \A i \in DOMAIN more : suppressed'[i] = more[i]
      BY <2>2, <2>5, <2>6
    <3>3. OfKind(suppressed', "variable") = more
      BY <2>4, <3>1, <3>2, SameOfKind
    <3> QED BY <2>1, <3>3, ListedIs
  <2> QED BY <1>1, <1>3, <2>7, <2>8, <2>9, <2>10, ListsStay DEF Tallied
<1> QED BY <1>2, <1>3 DEF Finish
-----------------------------------------------------------------------------
(***************************************************************************)
(* Nothing ignored has a part in the result.                               *)
(***************************************************************************)
SuppressInv == RotationInv /\ ScoreInv /\ FilesTaken /\ VariablesMet /\ Tallied

LEMMA InitSuppress == Init => SuppressInv
<1> SUFFICES ASSUME Init PROVE SuppressInv
  OBVIOUS
<1>1. DOMAIN analyses = {} /\ phase \notin Later
  BY PhaseNames DEF Init, NoKeys, Later
<1>2. Tallied
  BY <1>1, FS_EmptySet DEF Tallied
<1> QED BY <1>2, InitRotation, InitScores, InitNames DEF SuppressInv

LEMMA StepSuppress == SuppressInv /\ [Next]_vars => SuppressInv'
<1> SUFFICES ASSUME SuppressInv, [Next]_vars PROVE SuppressInv'
  OBVIOUS
<1>1. RotationInv' /\ ScoreInv'
  BY StepRotation, StepScores DEF SuppressInv
<1>2. BuildInv /\ ReportTaken /\ FilesTaken /\ VariablesMet /\ Tallied
  BY DEF SuppressInv, RotationInv
<1> SUFFICES FilesTaken' /\ VariablesMet' /\ Tallied'
  BY <1>1 DEF SuppressInv
<1>3. CASE Ingest
  <2>1. phase' \notin Later /\ analyses' = analyses
    BY <1>3, PhaseNames DEF Ingest, Later
  <2> QED BY <1>2, <1>3, <2>1, IngestNames DEF Tallied
<1>4. CASE Prepare
  <2>1. DOMAIN analyses = {}
    BY <1>4 DEF SuppressInv, ScoreInv, Prepare, Assessing
  <2> QED BY <1>2, <1>4, <2>1, PrepareFiles, PrepareTallied
<1>5. CASE Build
  <2>1. BuildNext /\ UNCHANGED <<docs, suppressed, analyses>>
    BY <1>5 DEF Build
  <2>2. phase \in DOMAIN NextPhase /\ phase' \in DOMAIN NextPhase \cup {"built"}
    BY <2>1, BuildPhases
  <2>3. phase \in Later /\ phase # "done" /\ phase' # "done"
    BY <2>2, PhaseNames DEF Later
  <2> QED BY <1>2, <1>5, <2>1, <2>3, BuildNames, TalliedStays
<1>6. ASSUME NEW k \in Name, AnalyzeCredential(k) PROVE FilesTaken' /\ VariablesMet' /\ Tallied'
  <2>1. UNCHANGED <<repo, nodes, ignored, docs>> /\ phase = "built" /\ phase' \in Assessing
    BY <1>6 DEF AnalyzeCredential, graph, Assessing
  <2> QED BY <1>2, <1>6, <2>1, NamesStay, AnalyzeTallied
<1>7. CASE Finish
  <2>1. UNCHANGED <<repo, nodes, ignored, docs>> /\ phase = "built" /\ phase' \in Assessing
    BY <1>7 DEF Finish, graph, Assessing
  <2> QED BY <1>2, <1>7, <2>1, NamesStay, FinishTallied
<1>8. CASE UNCHANGED vars
  <2>1. UNCHANGED <<repo, phase, todo, nodes, ignored, docs, suppressed, analyses>>
    BY <1>8 DEF vars, buildVars
  <2> QED BY <1>2, <2>1, NamesStay, TalliedStays
<1> QED BY <1>3, <1>4, <1>5, <1>6, <1>7, <1>8 DEF Next

\* The rules that contribute to a result are none of those that do not count.
LEMMA SilencedApart ==
  ASSUME ScoreInv, NEW k \in DOMAIN analyses
  PROVE  DOMAIN analyses[k].result.contributions \cap Silenced = {}
<1> DEFINE f == Assess(analyses[k].reach, DirectOf(k))
<1>1. analyses[k].result = Calculate(f, selection, ExpectedSecret(k))
  BY DEF ScoreInv, Computed
<1>2. DOMAIN f \cap Silenced = {}
  BY DEF Assess, Restrict
<1> HIDE DEF f
<1>3. DOMAIN analyses[k].result.contributions = DOMAIN f
  <2>1. analyses[k].result.contributions = Points(f, selection, ExpectedSecret(k))
    BY <1>1, ScoreIsSum
  <2>2. DOMAIN Points(f, selection, ExpectedSecret(k)) = DOMAIN f
    BY DEF Points
  <2> QED BY <2>1, <2>2
<1> QED BY <1>2, <1>3

(***************************************************************************)
(* Whatever the configuration ignores, of whatever repository: when the    *)
(* analysis is done, no ignored variable has been assessed, no ignored or  *)
(* disabled rule contributes to a score and no part of an ignored file is  *)
(* in the graph; and the report lists exactly what was ignored, each file  *)
(* and finding as often as it was left out (counted by what the            *)
(* configuration names first), each variable that the files mention once,  *)
(* and rules no oftener than there are credentials.                        *)
(***************************************************************************)
THEOREM SuppressionsReported == Spec => []SuppressionsAreReported
<1>1. Init => SuppressInv
  BY InitSuppress
<1>2. SuppressInv /\ [Next]_vars => SuppressInv'
  BY StepSuppress
<1>3. SuppressInv => SuppressionsAreReported
  <2> SUFFICES ASSUME SuppressInv, phase = "done" PROVE SuppressionsAreReported
    BY DEF SuppressionsAreReported
  <2>1. phase \in Later
    BY DEF Later
  <2>2. /\ Listed("path") = ListedPaths /\ Listed("finding") = ListedFindings
        /\ Listed("variable") = ListedVariables
        /\ \A i \in DOMAIN suppressed :
             i[1] = "rule" => i[2] \in options.ignoreRules /\ suppressed[i] \in 1 .. Cardinality(DOMAIN analyses)
    BY <2>1 DEF SuppressInv, Tallied
  <2>3. \A i \in DOMAIN Listed("rule") : i[2] \in options.ignoreRules /\ suppressed[i] \in 1 .. Cardinality(DOMAIN analyses)
    BY <2>2 DEF Listed, Restrict
  <2>4. ASSUME NEW k \in DOMAIN analyses
        PROVE  ~IgnoredKey(k) /\ DOMAIN analyses[k].result.contributions \cap Silenced = {}
    <3>1. PICK u \in credentials : u.key = k
      BY DEF SuppressInv, ScoreInv, TypeOK, Known
    <3>2. k \notin repo.ignoredVariables
      BY <3>1 DEF SuppressInv, RotationInv, FindingsFound, Credited
    <3>3. repo.ignoredVariables = IgnoredKeys(options.ignoreVariables) /\ docs \in Inputs
      BY <2>1 DEF SuppressInv, FilesTaken, RotationInv, ReportTaken
    <3> QED BY <3>2, <3>3, IgnoredAreNamed, SilencedApart DEF SuppressInv
  <2>5. ASSUME NEW n \in DOMAIN nodes, n[1] \in Parts PROVE n[2] \notin options.ignorePaths
    <3>1. n[2] \in {w.file : w \in repo.workflows} \cup {c.file : c \in repo.compose}
      BY <2>5 DEF SuppressInv, VariablesMet, FilesOf
    <3>2. \A w \in repo.workflows : w.file \notin options.ignorePaths
      BY <2>1, ParsedFiles DEF SuppressInv, FilesTaken, KeptWorkflows
    <3>3. \A c \in repo.compose : c.file \notin options.ignorePaths
      BY <2>1, ParsedFiles DEF SuppressInv, FilesTaken, KeptCompose
    <3> QED BY <3>1, <3>2, <3>3
  <2> QED BY <2>2, <2>3, <2>4, <2>5 DEF SuppressionsAreReported, Parts
<1> QED BY <1>1, <1>2, <1>3, PTL DEF Spec
-----------------------------------------------------------------------------
(***************************************************************************)
(* What the builder was given, and what the files say, for as long as they *)
(* stay.                                                                   *)
(***************************************************************************)
\* The resolution of a step's action, if it names one of the repository.
Resolution(r, x) ==
  {c \in r.stepCalls : /\ c.workflow = x[1].file /\ c.job = x[2].id /\ c.step = x[3]
                       /\ c = LastOf({d \in r.stepCalls : d.workflow = c.workflow /\ d.job = c.job /\ d.step = c.step})
                       /\ c.status = "resolved_local_composite"}

LEMMA LinkStepsAre ==
  \A r, y : y \in LinkSteps(r) <=>
              \E x \in UsingSteps(r.workflows) : \E c \in Resolution(r, x) : y \in FlowsOfStep(x, c)
<1> SUFFICES ASSUME NEW r, NEW y
             PROVE  y \in LinkSteps(r) <=>
                      \E x \in UsingSteps(r.workflows) : \E c \in Resolution(r, x) : y \in FlowsOfStep(x, c)
  OBVIOUS
<1> DEFINE F(x) == UNION {FlowsOfStep(x, c) : c \in Resolution(r, x)}
<1>1. LinkSteps(r) = UNION {F(x) : x \in UsingSteps(r.workflows)}
  BY DEF LinkSteps, Resolution
<1>2. \A x : y \in F(x) <=> \E c \in Resolution(r, x) : y \in FlowsOfStep(x, c)
  OBVIOUS
<1> HIDE DEF F
<1> QED BY <1>1, <1>2

\* The calls by which a flow goes on, and the inputs it is bound to there.
Onwards(r, f) ==
  {c \in r.nestedCalls : /\ c.parent = f.dir /\ c.step \in f.usages
                         /\ c.status = "resolved_local_composite" /\ c.dir \notin Visited(f)
                         /\ Len(f.path) + 2 <= MaxCompositeActionNestingDepth}
BoundAt(f, c) ==
  {b \in ActionIn(f.dir).steps[c.step].with :
     Whole(b.value, "inputs") /\ WholeName(b.value) = f.input /\ Reads(c.dir, b.name)}
FlowOf(f, c, b) ==
  [workflow |-> f.workflow, job |-> f.job, step |-> f.step, rootInput |-> f.rootInput,
   path |-> Append(f.path, [parent |-> f.dir, at |-> c.step, child |-> c.dir]),
   parent |-> f.dir, parentInput |-> f.input, at |-> c.step,
   input |-> b.name, dir |-> c.dir, secret |-> f.secret, usages |-> InternalUsages(c.dir, b.name)]

LEMMA HopsAre ==
  \A r, f, y : y \in Hops(r, f) <=> \E c \in Onwards(r, f) : \E b \in BoundAt(f, c) : y = FlowOf(f, c, b)
<1> SUFFICES ASSUME NEW r, NEW f, NEW y
             PROVE  y \in Hops(r, f) <=> \E c \in Onwards(r, f) : \E b \in BoundAt(f, c) : y = FlowOf(f, c, b)
  OBVIOUS
<1> DEFINE F(c) == {FlowOf(f, c, b) : b \in BoundAt(f, c)}
<1>1. Hops(r, f) = UNION {F(c) : c \in Onwards(r, f)}
  BY DEF Hops, Onwards, BoundAt, FlowOf
<1>2. \A c : y \in F(c) <=> \E b \in BoundAt(f, c) : y = FlowOf(f, c, b)
  OBVIOUS
<1> HIDE DEF F
<1> QED BY <1>1, <1>2

LEMMA ActionsStay ==
  ASSUME docs' = docs
  PROVE  /\ \A dir : ActionIn(dir)' = ActionIn(dir)
         /\ \A u : ActionStatus(u)' = ActionStatus(u)
         /\ \A W : ResolveSteps(W)' = ResolveSteps(W)
         /\ \A d : CallsIn(d)' = CallsIn(d)
         /\ \A r : LinkSteps(r)' = LinkSteps(r)
         /\ \A r, f : Hops(r, f)' = Hops(r, f)
<1>1. \A dir : ActionIn(dir)' = ActionIn(dir) /\ MetadataIn(dir)' = MetadataIn(dir)
  BY DEF ActionIn, MetadataIn
<1>2. \A u : ActionStatus(u)' = ActionStatus(u)
  <2>1. \A dir : metadataStatus(dir)' = metadataStatus(dir)
    BY <1>1 DEF metadataStatus
  <2> QED BY <2>1 DEF ActionStatus
<1>3. \A W : ResolveSteps(W)' = ResolveSteps(W)
  BY <1>2 DEF ResolveSteps
<1>4. \A d : CallsIn(d)' = CallsIn(d)
  BY <1>1, <1>2 DEF CallsIn
<1>6. \A dir, n : InternalUsages(dir, n)' = InternalUsages(dir, n) /\ (Reads(dir, n)' <=> Reads(dir, n))
  BY <1>1 DEF InternalUsages, Reads
<1>7. \A x, c : FlowsOfStep(x, c)' = FlowsOfStep(x, c)
  BY <1>6 DEF FlowsOfStep
<1>8. \A r : LinkSteps(r)' = LinkSteps(r)
  <2>1. (\A r, y : y \in LinkSteps(r) <=>
                     \E x \in UsingSteps(r.workflows) : \E c \in Resolution(r, x) : y \in FlowsOfStep(x, c))'
    BY LinkStepsAre, PTL
  <2> QED BY <1>7, <2>1, LinkStepsAre
<1>9. \A r, f : Hops(r, f)' = Hops(r, f)
  BY <1>1, <1>6 DEF Hops
<1> QED BY <1>1, <1>2, <1>3, <1>4, <1>8, <1>9

(***************************************************************************)
(* The actions of the repository that are found: with what the steps of    *)
(* workflows call, they have what their own steps call.                    *)
(***************************************************************************)
ActionDirs  == {dir \in {d.dir : d \in docs.actions} : metadataStatus(dir) = "resolved_local_composite"}
MoreDirs(F) == F \cup DirsOf(UNION {CallsIn(d) : d \in F})

\* A uses: value that names an action of the repository.
LEMMA StatusResolved ==
  ASSUME NEW u \in Uses
  PROVE  ActionStatus(u) = "resolved_local_composite" <=>
           u.class = "local" /\ metadataStatus(u.target) = "resolved_local_composite"
<1>1. u.class \in UsesClass
  BY DEF Uses
<1> QED BY <1>1 DEF UsesClass, ActionStatus

LEMMA OneMetadata ==
  ASSUME NEW dir, NEW d, MetadataIn(dir) = {d}
  PROVE  ActionIn(dir) = parseActionMetadata(d) /\ TheAction(dir) = d /\ d \in docs.actions /\ d.dir = dir
<1>1. d \in docs.actions /\ d.dir = dir /\ \A x \in docs.actions : x.dir = dir => x = d
  BY DEF MetadataIn
<1>2. TheAction(dir) = d
  BY <1>1 DEF TheAction
<1>3. (CHOOSE x \in {d} : TRUE) = d
  OBVIOUS
<1>4. ActionIn(dir) = parseActionMetadata(d)
  BY <1>3 DEF ActionIn
<1> QED BY <1>1, <1>2, <1>4

LEMMA MetadataResolved ==
  ASSUME docs \in Inputs, NEW dir
  PROVE  metadataStatus(dir) = "resolved_local_composite" <=>
           \E d \in docs.actions : MetadataIn(dir) = {d} /\ d.using = "composite" /\ ~ActionFails(d)
<1> DEFINE M == MetadataIn(dir)
<1>0. IsFiniteSet(M)
  <2>1. IsFiniteSet(docs.actions) /\ M \subseteq docs.actions
    BY FilesAssumption DEF MetadataIn
  <2> QED BY <2>1, FS_Subset
<1>a. ASSUME NEW d, M = {d} PROVE ActionIn(dir).using = d.using
  <2>1. ActionIn(dir) = parseActionMetadata(d)
    BY <1>a, OneMetadata
  <2> QED BY <2>1 DEF parseActionMetadata
<1>b. M \subseteq docs.actions
  BY DEF MetadataIn
<1>1. ASSUME metadataStatus(dir) = "resolved_local_composite"
      PROVE  \E d \in docs.actions : M = {d} /\ d.using = "composite" /\ ~ActionFails(d)
  <2>1. /\ M # {} /\ ~(Cardinality(M) > 1)
        /\ ~\E d \in M : M = {d} /\ ActionFails(d)
        /\ ActionIn(dir).using = "composite"
    BY <1>1 DEF metadataStatus
  <2> HIDE DEF M
  <2>2. Cardinality(M) \in Nat /\ Cardinality(M) # 0
    BY <1>0, <2>1, FS_CardinalityType, FS_EmptySet
  <2>a. Cardinality(M) = 1
    BY <2>1, <2>2
  <2>3. PICK d : M = {d}
    BY <1>0, <2>a, FS_Singleton
  <2> QED BY <1>a, <1>b, <2>1, <2>3
<1>2. ASSUME NEW d \in docs.actions, M = {d}, d.using = "composite", ~ActionFails(d)
      PROVE  metadataStatus(dir) = "resolved_local_composite"
  <2>1. Cardinality(M) = 1
    BY <1>2, FS_Singleton
  <2>2. \A x \in M : x = d
    BY <1>2
  <2>3. ActionIn(dir).using = "composite"
    BY <1>2, <1>a
  <2>4. ~(Cardinality(M) > 1) /\ M # {}
    BY <1>2, <2>1
  <2>5. ~\E x \in M : M = {x} /\ ActionFails(x)
    BY <1>2, <2>2
  <2> QED BY <2>3, <2>4, <2>5 DEF metadataStatus
<1> QED BY <1>1, <1>2

LEMMA ResolvedIsRun ==
  ASSUME docs \in Inputs, NEW u \in Uses
  PROVE  ActionStatus(u) = "resolved_local_composite" <=> Runs(u)
<1>1. u # Absent
  BY AbsentAssumption
<1> QED BY <1>1, StatusResolved, MetadataResolved DEF Runs

\* A step has an action if its file gives it a uses: value.
LEMMA ActionRead == \A u : /\ u \in Uses => Action(u) # Absent /\ Action(u).uses = u
                           /\ u = Absent => Action(u) = Absent
<1> SUFFICES ASSUME NEW u \in Uses PROVE Action(u) # Absent /\ Action(u).uses = u
  BY DEF Action
<1>1. u # Absent
  BY AbsentAssumption
<1>2. classifyAction(u) \in ActionReference
  BY DEF classifyAction, ActionReference, Uses
<1>3. classifyAction(u) # Absent /\ classifyAction(u).uses = u
  BY <1>2, AbsentAssumption DEF classifyAction
<1> QED BY <1>1, <1>3 DEF Action

\* An action that is found, and what it calls.
LEMMA RunningAction ==
  ASSUME docs \in Inputs, NEW dir, metadataStatus(dir) = "resolved_local_composite"
  PROVE  LET d == TheAction(dir) IN
         /\ d \in docs.actions /\ d.dir = dir /\ dir \in ActionDirs
         /\ ActionIn(dir).steps = [i \in DOMAIN d.steps |-> parseActionStep(d.steps[i])]
         /\ ActionIn(dir).inputs = {Identifier[k] : k \in Given(d.inputs, {})}
         /\ \A i \in DOMAIN d.steps : d.steps[i].uses \in Uses \cup {Absent}
<1>1. PICK d \in docs.actions : MetadataIn(dir) = {d} /\ d.using = "composite" /\ ~ActionFails(d)
  BY MetadataResolved
<1>2. ActionIn(dir) = parseActionMetadata(d) /\ TheAction(dir) = d /\ d.dir = dir
  BY <1>1, OneMetadata
<1>3. d.steps # Malformed
  BY <1>1 DEF ActionFails
<1>4. \A i \in DOMAIN d.steps : d.steps[i].uses \in Uses \cup {Absent}
  BY <1>1, <1>3, ValuesAssumption
<1>5. /\ ActionIn(dir).steps = [i \in DOMAIN d.steps |-> parseActionStep(d.steps[i])]
      /\ ActionIn(dir).inputs = {Identifier[k] : k \in Given(d.inputs, {})}
  BY <1>1, <1>2 DEF parseActionMetadata
<1>6. dir \in ActionDirs
  BY <1>2 DEF ActionDirs
<1> QED BY <1>2, <1>4, <1>5, <1>6

LEMMA CallsOfAction ==
  ASSUME docs \in Inputs, NEW dir, metadataStatus(dir) = "resolved_local_composite", NEW c
  PROVE  c \in CallsIn(dir) <=>
           \E i \in DOMAIN TheAction(dir).steps :
             /\ TheAction(dir).steps[i].uses # Absent
             /\ c = [parent |-> dir, step |-> i, status |-> ActionStatus(TheAction(dir).steps[i].uses),
                     dir |-> TheAction(dir).steps[i].uses.target]
<1> DEFINE d == TheAction(dir)
           steps == ActionIn(dir).steps
           Call(i) == [parent |-> dir, step |-> i, status |-> ActionStatus(steps[i].action.uses),
                       dir |-> steps[i].action.uses.target]
           Use(i) == [parent |-> dir, step |-> i, status |-> ActionStatus(d.steps[i].uses), dir |-> d.steps[i].uses.target]
<1>1. /\ steps = [i \in DOMAIN d.steps |-> parseActionStep(d.steps[i])]
      /\ \A i \in DOMAIN d.steps : d.steps[i].uses \in Uses \cup {Absent}
  BY RunningAction
<1>2. CallsIn(dir) = {Call(i) : i \in {k \in DOMAIN steps : steps[k].action # Absent}}
  BY DEF CallsIn
<1> HIDE DEF d
<1>3. DOMAIN steps = DOMAIN d.steps /\ \A i \in DOMAIN d.steps : steps[i].action = Action(d.steps[i].uses)
  BY <1>1 DEF parseActionStep
<1> HIDE DEF steps
<1>4. \A i \in DOMAIN d.steps : steps[i].action # Absent <=> d.steps[i].uses # Absent
  BY <1>1, <1>3, ActionRead
<1>5. \A i \in DOMAIN d.steps : d.steps[i].uses # Absent => steps[i].action.uses = d.steps[i].uses
  BY <1>1, <1>3, ActionRead
<1>6. \A i \in DOMAIN d.steps : d.steps[i].uses # Absent => Call(i) = Use(i)
  BY <1>5
<1> HIDE DEF Call
<1>7. c \in CallsIn(dir) <=> \E i \in DOMAIN d.steps : d.steps[i].uses # Absent /\ c = Call(i)
  BY <1>2, <1>3, <1>4
<1>8. c \in CallsIn(dir) <=> \E i \in DOMAIN d.steps : d.steps[i].uses # Absent /\ c = Use(i)
  BY <1>6, <1>7
<1> QED BY <1>8 DEF d

LEMMA MoreAreActions ==
  ASSUME docs \in Inputs, NEW F \in SUBSET ActionDirs
  PROVE  MoreDirs(F) \in SUBSET ActionDirs
<1> SUFFICES ASSUME NEW dir \in F, NEW c \in CallsIn(dir), c.status = "resolved_local_composite" PROVE c.dir \in ActionDirs
  BY DEF MoreDirs, DirsOf
<1>1. metadataStatus(dir) = "resolved_local_composite"
  BY DEF ActionDirs
<1>2. PICK i \in DOMAIN TheAction(dir).steps :
        /\ TheAction(dir).steps[i].uses # Absent
        /\ c = [parent |-> dir, step |-> i, status |-> ActionStatus(TheAction(dir).steps[i].uses),
                dir |-> TheAction(dir).steps[i].uses.target]
  BY <1>1, CallsOfAction
<1> DEFINE u == TheAction(dir).steps[i].uses
<1>3. u \in Uses
  BY <1>1, <1>2, RunningAction
<1>4. ActionStatus(u) = "resolved_local_composite" /\ c.dir = u.target
  BY <1>2
<1> HIDE DEF u
<1>5. metadataStatus(u.target) = "resolved_local_composite"
  BY <1>3, <1>4, StatusResolved
<1> QED BY <1>4, <1>5, RunningAction

\* The search ends with a set that has all that is called from it.
LEMMA ActionsFound ==
  ASSUME docs \in Inputs, NEW calls, DirsOf(calls) \subseteq ActionDirs
  PROVE  DirsOf(calls) \subseteq CanonicalActions(calls) /\ MoreDirs(CanonicalActions(calls)) = CanonicalActions(calls)
<1> DEFINE Step(g, F) == IF MoreDirs(F) = F THEN F ELSE g[MoreDirs(F)]
           Grows(g) == g = [F \in SUBSET ActionDirs |-> Step(g, F)]
           Around(F) == {C \in SUBSET ActionDirs : F \subseteq C /\ MoreDirs(C) = C}
           Least(F) == {d \in ActionDirs : \A C \in Around(F) : d \in C}
           g0 == [F \in SUBSET ActionDirs |-> Least(F)]
           grow == CHOOSE g : Grows(g)
<1>1. CanonicalActions(calls) = grow[DirsOf(calls)]
  BY DEF CanonicalActions, ActionDirs, MoreDirs
<1>2. \A F, C : F \subseteq C => MoreDirs(F) \subseteq MoreDirs(C)
  BY DEF MoreDirs, DirsOf
<1>3. \A F : F \subseteq MoreDirs(F)
  BY DEF MoreDirs
<1>4. Grows(g0)
  <2>1. ASSUME NEW F \in SUBSET ActionDirs PROVE Step(g0, F) = Least(F)
    <3>1. CASE MoreDirs(F) = F
      <4>1. F \in Around(F)
        BY <3>1
      <4>2. \A C \in Around(F) : F \subseteq C
        OBVIOUS
      <4> HIDE DEF Around
      <4> QED BY <3>1, <4>1, <4>2
    <3>2. CASE MoreDirs(F) # F
      <4>1. MoreDirs(F) \in SUBSET ActionDirs
        BY MoreAreActions
      <4>2. Around(MoreDirs(F)) = Around(F)
        BY <1>2, <1>3
      <4>3. Least(MoreDirs(F)) = Least(F)
        BY <4>2
      <4> HIDE DEF Least
      <4> QED BY <3>2, <4>1, <4>3
    <3> QED BY <3>1, <3>2
  <2> HIDE DEF Step, Least
  <2> QED BY <2>1
<1>5. Grows(grow)
  <2> HIDE DEF Grows
  <2> QED BY <1>4
<1> HIDE DEF grow, g0
<1>6. \A F \in SUBSET ActionDirs : grow[F] = IF MoreDirs(F) = F THEN F ELSE grow[MoreDirs(F)]
  BY <1>5
<1>7. IsFiniteSet(ActionDirs)
  <2>1. IsFiniteSet(docs.actions)
    BY FilesAssumption
  <2> DEFINE A == docs.actions
             D == {d.dir : d \in A}
             f == [d \in A |-> d.dir]
  <2>a. f \in [A -> D] /\ \A t \in D : \E x \in A : f[x] = t
    OBVIOUS
  <2>b. IsFiniteSet(A)
    BY <2>1
  <2> HIDE DEF A, D, f
  <2>c. IsFiniteSet(D)
    BY <2>a, <2>b, FiniteImage
  <2>2. IsFiniteSet({d.dir : d \in docs.actions})
    BY <2>c DEF A, D
  <2> QED BY <2>2, FS_Subset DEF ActionDirs
<1> DEFINE Ok(F) == F \subseteq grow[F] /\ MoreDirs(grow[F]) = grow[F]
           Left(F) == Cardinality(ActionDirs \ F)
           T == {Left(F) : F \in {X \in SUBSET ActionDirs : ~Ok(X)}}
<1>8. \A F \in SUBSET ActionDirs : Ok(F)
  <2> SUFFICES ASSUME NEW X \in SUBSET ActionDirs, ~Ok(X) PROVE FALSE
    OBVIOUS
  <2>1. \A F \in SUBSET ActionDirs : Left(F) \in Nat
    <3> SUFFICES ASSUME NEW F \in SUBSET ActionDirs PROVE Left(F) \in Nat
      OBVIOUS
    <3>1. IsFiniteSet(ActionDirs \ F)
      BY <1>7, FS_Subset
    <3> QED BY <3>1, FS_CardinalityType
  <2>2. Left(X) \in T
    OBVIOUS
  <2>3. PICK n \in T : \A m \in T : n <= m
    <3>1. T \in SUBSET Nat /\ T # {}
      BY <2>1, <2>2
    <3> HIDE DEF T
    <3> QED BY <3>1, LeastNumber
  <2>4. PICK F \in SUBSET ActionDirs : n = Left(F) /\ ~Ok(F)
    BY <2>3
  <2>5. MoreDirs(F) # F
    BY <1>6, <2>4
  <2>6. F \subseteq MoreDirs(F) /\ MoreDirs(F) \in SUBSET ActionDirs /\ grow[F] = grow[MoreDirs(F)]
    BY <1>3, <1>6, <2>5, MoreAreActions
  <2>7. ~Ok(MoreDirs(F))
    BY <2>4, <2>6
  <2>8. Left(MoreDirs(F)) \in T
    BY <2>6, <2>7
  <2>9. n <= Left(MoreDirs(F))
    BY <2>3, <2>8
  <2>10. Left(MoreDirs(F)) < Left(F)
    <3> DEFINE A == ActionDirs \ F
               B == ActionDirs \ MoreDirs(F)
    <3>1. IsFiniteSet(A) /\ B \in SUBSET A /\ A # B
      BY <1>7, <2>5, <2>6, FS_Subset
    <3> HIDE DEF A, B
    <3>2. Cardinality(B) <= Cardinality(A) /\ Cardinality(B) # Cardinality(A) /\ IsFiniteSet(B)
      BY <3>1, FS_Subset
    <3>3. Cardinality(B) \in Nat /\ Cardinality(A) \in Nat
      BY <3>1, <3>2, FS_CardinalityType
    <3>4. Cardinality(B) < Cardinality(A)
      BY <3>2, <3>3
    <3> QED BY <3>4 DEF A, B
  <2>11. Left(F) \in Nat /\ Left(MoreDirs(F)) \in Nat
    BY <2>1, <2>6
  <2> HIDE DEF Left
  <2> QED BY <2>4, <2>9, <2>10, <2>11
<1> HIDE DEF Ok
<1>9. Ok(DirsOf(calls))
  BY <1>8
<1> QED BY <1>1, <1>9 DEF Ok

\* The steps of workflows that parse, and their actions.
Parses(d) == d \in docs.workflows /\ ~WorkflowFails(d)

LEMMA UsesGiven ==
  ASSUME docs \in Inputs, NEW d, Parses(d), NEW k \in DOMAIN d.jobs
  PROVE  /\ d.jobs[k].uses \in Uses \cup {Absent}
         /\ \A i \in DOMAIN d.jobs[k].steps : d.jobs[k].steps[i].uses \in Uses \cup {Absent}
         /\ ~JobFails(d.jobs[k])
<1>1. d \in docs.workflows /\ d.jobs \notin {Absent, Malformed} /\ ~JobFails(d.jobs[k])
  BY DEF Parses, WorkflowFails
<1> QED BY <1>1, ValuesAssumption

LEMMA JobsRead ==
  \A D, x : x \in JobsOf({parseWorkflow(d) : d \in D})
              <=> \E d \in D : \E k \in DOMAIN d.jobs : x = <<parseWorkflow(d), parseJob(k, d.jobs[k])>>
<1> SUFFICES ASSUME NEW D, NEW x
             PROVE  x \in JobsOf({parseWorkflow(d) : d \in D})
                      <=> \E d \in D : \E k \in DOMAIN d.jobs : x = <<parseWorkflow(d), parseJob(k, d.jobs[k])>>
  OBVIOUS
<1> DEFINE W == {parseWorkflow(d) : d \in D}
<1>1. \A d : parseWorkflow(d).jobs = {parseJob(k, d.jobs[k]) : k \in DOMAIN d.jobs}
  BY DEF parseWorkflow
<1>2. JobsOf(W) = {y \in W \X UNION {w.jobs : w \in W} : y[2] \in y[1].jobs}
  BY DEF JobsOf
<1>3. ASSUME x \in JobsOf(W)
      PROVE  \E d \in D : \E k \in DOMAIN d.jobs : x = <<parseWorkflow(d), parseJob(k, d.jobs[k])>>
  <2>1. x = <<x[1], x[2]>> /\ x[1] \in W /\ x[2] \in x[1].jobs
    <3> HIDE DEF W
    <3> QED BY <1>2, <1>3
  <2>2. PICK d \in D : x[1] = parseWorkflow(d)
    BY <2>1
  <2>3. PICK k \in DOMAIN d.jobs : x[2] = parseJob(k, d.jobs[k])
    BY <1>1, <2>1, <2>2
  <2> QED BY <2>1, <2>2, <2>3
<1>4. ASSUME NEW d \in D, NEW k \in DOMAIN d.jobs PROVE <<parseWorkflow(d), parseJob(k, d.jobs[k])>> \in JobsOf(W)
  <2> DEFINE w == parseWorkflow(d)
             j == parseJob(k, d.jobs[k])
  <2>1. w \in W /\ j \in w.jobs
    BY <1>1
  <2> HIDE DEF W, w, j
  <2>2. <<w, j>> \in JobsOf(W)
    BY <1>2, <2>1
  <2> QED BY <2>2 DEF w, j
<1> QED BY <1>3, <1>4

LEMMA UsingRead ==
  ASSUME docs \in Inputs, NEW D, \A d \in D : Parses(d)
  PROVE  \A x : x \in UsingSteps({parseWorkflow(d) : d \in D})
                  <=> \E d \in D : \E k \in DOMAIN d.jobs : \E i \in DOMAIN d.jobs[k].steps :
                        /\ d.jobs[k].steps[i].uses # Absent
                        /\ x = <<parseWorkflow(d), parseJob(k, d.jobs[k]), i>>
<1> DEFINE W == {parseWorkflow(d) : d \in D}
           One(y) == {<<y[1], y[2], i>> : i \in {m \in DOMAIN y[2].steps : y[2].steps[m].action # Absent}}
<1>1. UsingSteps(W) = UNION {One(y) : y \in JobsOf(W)}
  BY DEF UsingSteps
<1>2. ASSUME NEW d \in D, NEW k \in DOMAIN d.jobs
      PROVE  LET j == parseJob(k, d.jobs[k]) IN
             /\ DOMAIN j.steps = DOMAIN d.jobs[k].steps
             /\ \A i \in DOMAIN j.steps : j.steps[i].action # Absent <=> d.jobs[k].steps[i].uses # Absent
  <2>1. \A i \in DOMAIN d.jobs[k].steps : d.jobs[k].steps[i].uses \in Uses \cup {Absent}
    BY UsesGiven
  <2>2. parseJob(k, d.jobs[k]).steps = [i \in DOMAIN d.jobs[k].steps |-> parseStep(d.jobs[k].steps[i])]
    BY DEF parseJob
  <2>3. \A s : parseStep(s).action = Action(s.uses)
    BY DEF parseStep
  <2> QED BY <2>1, <2>2, <2>3, ActionRead
<1> SUFFICES ASSUME NEW x
             PROVE  x \in UsingSteps(W)
                      <=> \E d \in D : \E k \in DOMAIN d.jobs : \E i \in DOMAIN d.jobs[k].steps :
                            /\ d.jobs[k].steps[i].uses # Absent
                            /\ x = <<parseWorkflow(d), parseJob(k, d.jobs[k]), i>>
  OBVIOUS
<1>3. x \in UsingSteps(W) <=> \E y \in JobsOf(W) : x \in One(y)
  <2> HIDE DEF One
  <2> QED BY <1>1
<1>4. \A y : x \in One(y) <=> \E i \in DOMAIN y[2].steps : y[2].steps[i].action # Absent /\ x = <<y[1], y[2], i>>
  OBVIOUS
<1> HIDE DEF One
<1>5. \A y : y \in JobsOf(W) <=> \E d \in D : \E k \in DOMAIN d.jobs : y = <<parseWorkflow(d), parseJob(k, d.jobs[k])>>
  BY JobsRead
<1>6. x \in UsingSteps(W) <=>
        \E d \in D : \E k \in DOMAIN d.jobs : x \in One(<<parseWorkflow(d), parseJob(k, d.jobs[k])>>)
  <2> HIDE DEF W
  <2> QED BY <1>3, <1>5
<1>7. \A d \in D : \A k \in DOMAIN d.jobs :
        x \in One(<<parseWorkflow(d), parseJob(k, d.jobs[k])>>)
          <=> \E i \in DOMAIN d.jobs[k].steps : /\ d.jobs[k].steps[i].uses # Absent
                                                /\ x = <<parseWorkflow(d), parseJob(k, d.jobs[k]), i>>
  <2> SUFFICES ASSUME NEW d \in D, NEW k \in DOMAIN d.jobs
               PROVE  x \in One(<<parseWorkflow(d), parseJob(k, d.jobs[k])>>)
                        <=> \E i \in DOMAIN d.jobs[k].steps :
                              /\ d.jobs[k].steps[i].uses # Absent
                              /\ x = <<parseWorkflow(d), parseJob(k, d.jobs[k]), i>>
    OBVIOUS
  <2> DEFINE w == parseWorkflow(d)
             j == parseJob(k, d.jobs[k])
  <2>1. /\ DOMAIN j.steps = DOMAIN d.jobs[k].steps
        /\ \A i \in DOMAIN j.steps : j.steps[i].action # Absent <=> d.jobs[k].steps[i].uses # Absent
    BY <1>2
  <2> HIDE DEF w, j
  <2>2. x \in One(<<w, j>>) <=> \E i \in DOMAIN j.steps : j.steps[i].action # Absent /\ x = <<w, j, i>>
    BY <1>4
  <2>3. x \in One(<<w, j>>) <=> \E i \in DOMAIN d.jobs[k].steps : d.jobs[k].steps[i].uses # Absent /\ x = <<w, j, i>>
    BY <2>1, <2>2
  <2> QED BY <2>3 DEF w, j
<1> QED BY <1>6, <1>7

\* What a step's action is resolved to.
CallAt(d, k, i) ==
  LET u == d.jobs[k].steps[i].uses IN
  [workflow |-> d.file, job |-> Identifier[k], step |-> i, raw |-> u.raw, status |-> ActionStatus(u), dir |-> u.target]

LEMMA CallsRead ==
  ASSUME docs \in Inputs, NEW D, \A d \in D : Parses(d)
  PROVE  \A c : c \in ResolveSteps({parseWorkflow(d) : d \in D})
                  <=> \E d \in D : \E k \in DOMAIN d.jobs : \E i \in DOMAIN d.jobs[k].steps :
                        d.jobs[k].steps[i].uses # Absent /\ c = CallAt(d, k, i)
<1> DEFINE W == {parseWorkflow(d) : d \in D}
           Use(x) == x[2].steps[x[3]].action.uses
           Call(x) == [workflow |-> x[1].file, job |-> x[2].id, step |-> x[3], raw |-> Use(x).raw,
                       status |-> ActionStatus(Use(x)), dir |-> Use(x).target]
<1> SUFFICES ASSUME NEW c
             PROVE  c \in ResolveSteps(W)
                      <=> \E d \in D : \E k \in DOMAIN d.jobs : \E i \in DOMAIN d.jobs[k].steps :
                            d.jobs[k].steps[i].uses # Absent /\ c = CallAt(d, k, i)
  OBVIOUS
<1>1. ResolveSteps(W) = {Call(x) : x \in UsingSteps(W)}
  BY DEF ResolveSteps
<1>2. ASSUME NEW d \in D, NEW k \in DOMAIN d.jobs, NEW i \in DOMAIN d.jobs[k].steps, d.jobs[k].steps[i].uses # Absent
      PROVE  Call(<<parseWorkflow(d), parseJob(k, d.jobs[k]), i>>) = CallAt(d, k, i)
  <2> DEFINE w == parseWorkflow(d)
             j == parseJob(k, d.jobs[k])
             u == d.jobs[k].steps[i].uses
  <2>1. w.file = d.file
    BY ParsedFiles
  <2>2. j.id = Identifier[k] /\ j.steps[i].action = Action(u)
    BY DEF parseJob, parseStep
  <2>3. u \in Uses
    BY <1>2, UsesGiven
  <2>4. Action(u).uses = u
    BY <2>3, ActionRead
  <2> HIDE DEF w, j, u
  <2>5. Use(<<w, j, i>>) = u
    BY <2>2, <2>4
  <2> HIDE DEF Use
  <2>6. Call(<<w, j, i>>) = [workflow |-> d.file, job |-> Identifier[k], step |-> i, raw |-> u.raw,
                             status |-> ActionStatus(u), dir |-> u.target]
    BY <2>1, <2>2, <2>5
  <2> HIDE DEF Call
  <2> QED BY <2>6 DEF w, j, u, CallAt
<1> HIDE DEF Call
<1>3. c \in ResolveSteps(W) <=> \E x \in UsingSteps(W) : c = Call(x)
  BY <1>1
<1>4. \A x : x \in UsingSteps(W)
               <=> \E d \in D : \E k \in DOMAIN d.jobs : \E i \in DOMAIN d.jobs[k].steps :
                     /\ d.jobs[k].steps[i].uses # Absent
                     /\ x = <<parseWorkflow(d), parseJob(k, d.jobs[k]), i>>
  BY UsingRead
<1> HIDE DEF W
<1>5. c \in ResolveSteps(W) <=> \E d \in D : \E k \in DOMAIN d.jobs : \E i \in DOMAIN d.jobs[k].steps :
                                  /\ d.jobs[k].steps[i].uses # Absent
                                  /\ c = Call(<<parseWorkflow(d), parseJob(k, d.jobs[k]), i>>)
  <2> DEFINE At(d, k, i) == <<parseWorkflow(d), parseJob(k, d.jobs[k]), i>>
  <2>1. \A x : x \in UsingSteps(W)
                 <=> \E d \in D : \E k \in DOMAIN d.jobs : \E i \in DOMAIN d.jobs[k].steps :
                       d.jobs[k].steps[i].uses # Absent /\ x = At(d, k, i)
    BY <1>4
  <2> HIDE DEF At
  <2>2. c \in ResolveSteps(W) <=> \E d \in D : \E k \in DOMAIN d.jobs : \E i \in DOMAIN d.jobs[k].steps :
                                    d.jobs[k].steps[i].uses # Absent /\ c = Call(At(d, k, i))
    BY <1>3, <2>1
  <2> QED BY <2>2 DEF At
<1> QED BY <1>2, <1>5

LEMMA CallsFound ==
  ASSUME docs \in Inputs, NEW D, \A d \in D : Parses(d)
  PROVE  DirsOf(ResolveSteps({parseWorkflow(d) : d \in D})) \subseteq ActionDirs
<1> SUFFICES ASSUME NEW c \in ResolveSteps({parseWorkflow(d) : d \in D}), c.status = "resolved_local_composite"
             PROVE  c.dir \in ActionDirs
  BY DEF DirsOf
<1>a. \E d \in D : \E k \in DOMAIN d.jobs : \E i \in DOMAIN d.jobs[k].steps :
        d.jobs[k].steps[i].uses # Absent /\ c = CallAt(d, k, i)
  BY CallsRead
<1>b. PICK d \in D : \E k \in DOMAIN d.jobs : \E i \in DOMAIN d.jobs[k].steps :
        d.jobs[k].steps[i].uses # Absent /\ c = CallAt(d, k, i)
  BY <1>a
<1>c. PICK k \in DOMAIN d.jobs : \E i \in DOMAIN d.jobs[k].steps :
        d.jobs[k].steps[i].uses # Absent /\ c = CallAt(d, k, i)
  BY <1>b
<1>1. PICK i \in DOMAIN d.jobs[k].steps : d.jobs[k].steps[i].uses # Absent /\ c = CallAt(d, k, i)
  BY <1>c
<1> DEFINE u == d.jobs[k].steps[i].uses
<1>2. u \in Uses
  BY <1>1, UsesGiven
<1>3. ActionStatus(u) = "resolved_local_composite" /\ c.dir = u.target
  BY <1>1 DEF CallAt
<1> HIDE DEF u
<1>4. metadataStatus(c.dir) = "resolved_local_composite"
  BY <1>2, <1>3, StatusResolved
<1> QED BY <1>4, RunningAction

(***************************************************************************)
(* The flows that go on from others are closed under going on, and each    *)
(* comes from one.  Their levels are the lengths of their paths.           *)
(***************************************************************************)
IsPath(p) == \E S : p \in Seq(S)

LEMMA LongerPath == \A p, x : IsPath(p) => /\ Len(p) \in Nat /\ IsPath(Append(p, x)) /\ Len(Append(p, x)) = Len(p) + 1
                                           /\ DOMAIN p = 1 .. Len(p)
                                           /\ DOMAIN Append(p, x) = 1 .. Len(p) + 1
                                           /\ \A i \in 1 .. Len(p) : Append(p, x)[i] = p[i]
                                           /\ Append(p, x)[Len(p) + 1] = x
<1> SUFFICES ASSUME NEW p, NEW x, IsPath(p)
             PROVE  /\ Len(p) \in Nat /\ IsPath(Append(p, x)) /\ Len(Append(p, x)) = Len(p) + 1
                    /\ DOMAIN p = 1 .. Len(p)
                    /\ DOMAIN Append(p, x) = 1 .. Len(p) + 1
                    /\ \A i \in 1 .. Len(p) : Append(p, x)[i] = p[i]
                    /\ Append(p, x)[Len(p) + 1] = x
  OBVIOUS
<1>1. PICK S : p \in Seq(S)
  BY DEF IsPath
<1> DEFINE T == S \cup {x}
<1>2. p \in Seq(T) /\ x \in T
  <2>1. Len(p) \in Nat /\ p \in [1 .. Len(p) -> S]
    BY <1>1, LenProperties
  <2>2. p \in [1 .. Len(p) -> T]
    BY <2>1
  <2> HIDE DEF T
  <2>3. p \in Seq(T)
    BY <2>1, <2>2, SeqDef
  <2> QED BY <2>3 DEF T
<1> HIDE DEF T
<1>3. Append(p, x) \in Seq(T)
  BY <1>2
<1>4. /\ Len(p) \in Nat /\ Len(Append(p, x)) = Len(p) + 1 /\ DOMAIN p = 1 .. Len(p)
      /\ \A i \in 1 .. Len(p) : Append(p, x)[i] = p[i]
      /\ Append(p, x)[Len(p) + 1] = x
  BY <1>2, AppendProperties, LenProperties
<1>5. DOMAIN Append(p, x) = 1 .. Len(p) + 1
  BY <1>3, <1>4, LenProperties
<1> QED BY <1>3, <1>4, <1>5 DEF IsPath

LEMMA NoPath == IsPath(<<>>) /\ Len(<<>>) = 0
<1>1. <<>> \in Seq({})
  OBVIOUS
<1> QED BY <1>1 DEF IsPath

LEMMA LevelsOfFlows ==
  \A r, roots : \E level :
    /\ level[1] = roots
    /\ \A n \in 2 .. MaxCompositeActionNestingDepth :
         \A f : f \in level[n] <=> \E g \in level[n - 1] : f \in Hops(r, g)
    /\ \A f : f \in LinkNested(r, roots) <=> \E n \in 2 .. MaxCompositeActionNestingDepth : f \in level[n]
<1> SUFFICES ASSUME NEW r, NEW roots
             PROVE  \E level :
                      /\ level[1] = roots
                      /\ \A n \in 2 .. MaxCompositeActionNestingDepth :
                           \A f : f \in level[n] <=> \E g \in level[n - 1] : f \in Hops(r, g)
                      /\ \A f : f \in LinkNested(r, roots)
                                  <=> \E n \in 2 .. MaxCompositeActionNestingDepth : f \in level[n]
  OBVIOUS
<1> DEFINE Further(X) == UNION {Hops(r, f) : f \in X}
           N == MaxCompositeActionNestingDepth
           Levels(g, m) == g = [n \in 1 .. m |-> IF n = 1 THEN roots ELSE Further(g[n - 1])]
           level == CHOOSE g : Levels(g, N)
           T == {m \in Nat : ~\E g : Levels(g, m)}
<1>1. LinkNested(r, roots) = UNION {level[n] : n \in 2 .. N}
  BY DEF LinkNested
<1> HIDE DEF Further
<1>2. N \in Nat
  BY LimitsAssumption
<1>3. T = {}
  <2> SUFFICES ASSUME T # {} PROVE FALSE
    OBVIOUS
  <2>1. PICK m \in T : \A k \in T : m <= k
    <3>1. T \in SUBSET Nat
      OBVIOUS
    <3> HIDE DEF T
    <3> QED BY <3>1, LeastNumber
  <2>2. m \in Nat /\ ~\E g : Levels(g, m)
    OBVIOUS
  <2>3. m # 0
    <3> DEFINE g == [n \in 1 .. 0 |-> {}]
    <3>1. Levels(g, 0)
      OBVIOUS
    <3> HIDE DEF Levels, g
    <3> QED BY <2>2, <3>1
  <2>4. m - 1 \in Nat /\ m - 1 \notin T
    <3> HIDE DEF T
    <3> QED BY <2>1, <2>2, <2>3
  <2>5. PICK g : Levels(g, m - 1)
    <3> HIDE DEF Levels
    <3> QED BY <2>4
  <2> DEFINE h == [n \in 1 .. m |-> IF n = 1 THEN roots ELSE Further(g[n - 1])]
  <2>6. \A n \in 1 .. m - 1 : g[n] = h[n]
    BY <2>4, <2>5
  <2>7. \A n \in 1 .. m : n # 1 => n - 1 \in 1 .. m - 1
    BY <2>2
  <2>8. \A n \in 1 .. m : n # 1 => Further(g[n - 1]) = Further(h[n - 1])
    <3> HIDE DEF h
    <3> QED BY <2>6, <2>7
  <2>9. h = [n \in 1 .. m |-> IF n = 1 THEN roots ELSE Further(h[n - 1])]
    <3> DEFINE e == [n \in 1 .. m |-> IF n = 1 THEN roots ELSE Further(h[n - 1])]
    <3>1. \A n \in 1 .. m : e[n] = h[n]
      BY <2>8
    <3>2. h = e
      BY <3>1
    <3> HIDE DEF h
    <3> QED BY <3>2
  <2> QED BY <2>2, <2>9
<1>4. \E g : Levels(g, N)
  <2> HIDE DEF Levels
  <2> QED BY <1>2, <1>3
<1>5. Levels(level, N)
  <2> HIDE DEF Levels
  <2> QED BY <1>4
<1> HIDE DEF level
<1>6. \A n \in 1 .. N : level[n] = IF n = 1 THEN roots ELSE Further(level[n - 1])
  BY <1>5
<1>7. \A X, f : f \in Further(X) <=> \E g \in X : f \in Hops(r, g)
  BY DEF Further
<1>8. 1 \in 1 .. N /\ \A n \in 2 .. N : n \in 1 .. N /\ n # 1
  BY LimitsAssumption
<1> HIDE DEF N
<1>9. level[1] = roots /\ \A n \in 2 .. N : level[n] = Further(level[n - 1])
  BY <1>6, <1>8
<1>10. \A n \in 2 .. N : \A f : f \in level[n] <=> \E g \in level[n - 1] : f \in Hops(r, g)
  BY <1>7, <1>9
<1>11. \A f : f \in LinkNested(r, roots) <=> \E n \in 2 .. N : f \in level[n]
  BY <1>1
<1>12. /\ level[1] = roots
       /\ \A n \in 2 .. N : \A f : f \in level[n] <=> \E g \in level[n - 1] : f \in Hops(r, g)
       /\ \A f : f \in LinkNested(r, roots) <=> \E n \in 2 .. N : f \in level[n]
  BY <1>9, <1>10, <1>11
<1> QED BY <1>12 DEF N

FlowsLinked(r) ==
  LET all == r.flows \cup r.nestedFlows IN
  /\ \A f \in r.flows : f.path = <<>>
  /\ \A f \in all : IsPath(f.path) /\ Hops(r, f) \subseteq r.nestedFlows
  /\ \A f \in r.nestedFlows : \E g \in all : f \in Hops(r, g)

LEMMA HopPath ==
  ASSUME NEW r, NEW f, NEW g \in Hops(r, f), IsPath(f.path)
  PROVE  /\ IsPath(g.path) /\ Len(g.path) = Len(f.path) + 1 /\ Len(f.path) \in Nat
         /\ Len(g.path) + 1 <= MaxCompositeActionNestingDepth
<1>1. PICK c \in Onwards(r, f) : \E b \in BoundAt(f, c) : g = FlowOf(f, c, b)
  BY HopsAre
<1>2. g.path = Append(f.path, [parent |-> f.dir, at |-> c.step, child |-> c.dir])
  BY <1>1 DEF FlowOf
<1>3. Len(f.path) + 2 <= MaxCompositeActionNestingDepth
  BY <1>1 DEF Onwards
<1>4. Len(f.path) \in Nat /\ MaxCompositeActionNestingDepth \in Nat
  BY LongerPath, LimitsAssumption
<1> QED BY <1>2, <1>3, <1>4, LongerPath

LEMMA SameHops == \A r, s, f : r.nestedCalls = s.nestedCalls => Hops(r, f) = Hops(s, f)
  BY DEF Hops

LEMMA SameLinks == \A r, s : r.workflows = s.workflows /\ r.stepCalls = s.stepCalls => LinkSteps(r) = LinkSteps(s)
<1> SUFFICES ASSUME NEW r, NEW s, r.workflows = s.workflows, r.stepCalls = s.stepCalls PROVE LinkSteps(r) = LinkSteps(s)
  OBVIOUS
<1>1. \A x : Resolution(r, x) = Resolution(s, x)
  BY DEF Resolution
<1>2. \A y : y \in LinkSteps(r) <=> y \in LinkSteps(s)
  BY <1>1, LinkStepsAre
<1> QED BY <1>2

LEMMA FlowsAreLinked ==
  ASSUME NEW r, NEW q, r.nestedCalls = q.nestedCalls, \A f \in r.flows : f.path = <<>>,
         r.nestedFlows = LinkNested(q, r.flows)
  PROVE  FlowsLinked(r)
<1> DEFINE N == MaxCompositeActionNestingDepth
           roots == r.flows
           nested == r.nestedFlows
<1>1. PICK level : /\ level[1] = roots
                   /\ \A n \in 2 .. N : \A f : f \in level[n] <=> \E g \in level[n - 1] : f \in Hops(q, g)
                   /\ \A f : f \in LinkNested(q, roots) <=> \E n \in 2 .. N : f \in level[n]
  BY LevelsOfFlows
<1>2. N \in Nat /\ 1 <= N
  BY LimitsAssumption
<1>3. \A f : Hops(r, f) = Hops(q, f)
  BY SameHops
<1>4. level[1] = roots /\ \A f : f \in nested <=> \E n \in 2 .. N : f \in level[n]
  BY <1>1
<1> HIDE DEF roots, nested
<1>5. \A n \in 2 .. N : \A f : f \in level[n] <=> \E g \in level[n - 1] : f \in Hops(r, g)
  BY <1>1, <1>3
<1>6. \A n \in 2 .. N : n - 1 \in 1 .. N
  BY <1>2
<1> DEFINE Ok(n) == \A f \in level[n] : IsPath(f.path) /\ Len(f.path) = n - 1
           T == {n \in 1 .. N : ~Ok(n)}
<1>7. \A n \in 1 .. N : Ok(n)
  <2> SUFFICES ASSUME T # {} PROVE FALSE
    OBVIOUS
  <2>1. PICK n \in T : \A m \in T : n <= m
    <3>1. T \in SUBSET Nat
      BY <1>2
    <3> HIDE DEF T
    <3> QED BY <3>1, LeastNumber
  <2>2. n \in 1 .. N /\ ~Ok(n)
    OBVIOUS
  <2>3. Ok(1)
    BY <1>4, NoPath DEF roots
  <2>4. n \in 2 .. N /\ n - 1 \in 1 .. N
    <3> HIDE DEF Ok
    <3> QED BY <1>2, <2>2, <2>3
  <2>5. Ok(n - 1)
    <3> HIDE DEF Ok
    <3> QED BY <2>1, <2>4
  <2>6. ASSUME NEW f \in level[n] PROVE IsPath(f.path) /\ Len(f.path) = n - 1
    <3>1. PICK g \in level[n - 1] : f \in Hops(r, g)
      BY <1>5, <2>4
    <3>2. IsPath(g.path) /\ Len(g.path) = n - 1 - 1
      BY <2>5
    <3>3. IsPath(f.path) /\ Len(f.path) = Len(g.path) + 1
      BY <3>1, <3>2, HopPath
    <3> QED BY <2>4, <3>2, <3>3
  <2> QED BY <2>2, <2>6
<1>8. \A f : f \in roots \cup nested <=> \E n \in 1 .. N : f \in level[n]
  <2>1. \A n \in 1 .. N : n = 1 \/ n \in 2 .. N
    BY <1>2
  <2>2. \A n \in 2 .. N : n \in 1 .. N
    BY <1>2
  <2>3. 1 \in 1 .. N
    BY <1>2
  <2>4. \A f : f \in nested <=> \E n \in 2 .. N : f \in level[n]
    BY <1>4
  <2> QED BY <1>4, <2>1, <2>2, <2>3, <2>4
<1>9. ASSUME NEW f \in roots \cup nested
      PROVE  IsPath(f.path) /\ Hops(r, f) \subseteq nested
  <2>1. PICK n \in 1 .. N : f \in level[n]
    BY <1>8
  <2>2. IsPath(f.path) /\ Len(f.path) = n - 1
    BY <1>7, <2>1
  <2>3. ASSUME NEW g \in Hops(r, f) PROVE g \in nested
    <3>1. Len(g.path) = Len(f.path) + 1 /\ Len(g.path) + 1 <= N
      BY <2>2, HopPath
    <3>2. n + 1 \in 2 .. N
      BY <1>2, <2>2, <3>1
    <3>3. g \in level[n + 1]
      <4>1. (n + 1) - 1 = n
        BY <1>2
      <4> QED BY <1>5, <2>1, <2>3, <3>2, <4>1
    <3> QED BY <1>4, <3>2, <3>3
  <2> QED BY <2>2, <2>3
<1>10. ASSUME NEW f \in nested PROVE \E g \in roots \cup nested : f \in Hops(r, g)
  <2>1. PICK n \in 2 .. N : f \in level[n]
    BY <1>4
  <2>2. PICK g \in level[n - 1] : f \in Hops(r, g)
    BY <1>5, <2>1
  <2>3. g \in roots \cup nested
    BY <1>6, <1>8, <2>2
  <2> QED BY <2>2, <2>3
<1> QED BY <1>9, <1>10 DEF FlowsLinked, roots, nested

(***************************************************************************)
(* What the builder is given of calls and flows is what the files and the  *)
(* linkers have, from the time it is taken.                                *)
(***************************************************************************)
ActionsRead ==
  /\ repo.stepCalls = ResolveSteps({parseWorkflow(d) : d \in docs.workflows})
  /\ repo.nestedCalls = UNION {CallsIn(d) : d \in repo.composites}
  /\ DirsOf(repo.stepCalls) \subseteq repo.composites
  /\ MoreDirs(repo.composites) = repo.composites

ReadTaken ==
  /\ docs \in Inputs
  /\ phase \in {"ingested"} \cup Later => ActionsRead /\ \A d \in docs.workflows : Parses(d)
  /\ phase \in Later =>
       /\ docs.findings # Malformed /\ repo.findings = Reported
       /\ repo.calls = ResolveJobs(repo.workflows)
       /\ repo.flows = LinkSteps(repo) /\ FlowsLinked(repo)

LEMMA FirstFlows == \A r : \A f \in LinkSteps(r) : f.path = <<>>
<1> SUFFICES ASSUME NEW r, NEW f \in LinkSteps(r) PROVE f.path = <<>>
  OBVIOUS
<1>1. PICK x \in UsingSteps(r.workflows) : \E c \in Resolution(r, x) : f \in FlowsOfStep(x, c)
  BY LinkStepsAre
<1>2. PICK c \in Resolution(r, x) : f \in FlowsOfStep(x, c)
  BY <1>1
<1> QED BY <1>2 DEF FlowsOfStep

LEMMA ReadStays ==
  ASSUME ReadTaken, UNCHANGED <<docs, repo>>, phase' \in Later => phase \in Later,
         phase' = "ingested" => phase = "ingested"
  PROVE  ReadTaken'
<1>1. /\ \A dir : ActionIn(dir)' = ActionIn(dir)
      /\ \A u : ActionStatus(u)' = ActionStatus(u)
      /\ \A W : ResolveSteps(W)' = ResolveSteps(W)
      /\ \A d : CallsIn(d)' = CallsIn(d)
      /\ \A r : LinkSteps(r)' = LinkSteps(r)
      /\ \A r, f : Hops(r, f)' = Hops(r, f)
  BY ActionsStay
<1>2. Reported' = Reported
  BY DEF Reported, HiddenFinding, HiddenPath, options
<1>3. (\A d : Parses(d)' <=> Parses(d)) /\ Later' = Later /\ \A F : MoreDirs(F)' = MoreDirs(F)
  BY <1>1 DEF Parses, Later, MoreDirs
<1>4. ActionsRead' <=> ActionsRead
  BY <1>1, <1>3 DEF ActionsRead
<1>5. \A r : FlowsLinked(r)' <=> FlowsLinked(r)
  BY <1>1 DEF FlowsLinked
<1>6. ResolveJobs(repo.workflows)' = ResolveJobs(repo.workflows) /\ LinkSteps(repo)' = LinkSteps(repo)
      /\ (FlowsLinked(repo)' <=> FlowsLinked(repo))
  BY <1>1, <1>5 DEF ResolveJobs
<1> QED BY <1>2, <1>3, <1>4, <1>6 DEF ReadTaken

LEMMA InitRead == Init => ReadTaken
  BY PhaseNames DEF Init, ReadTaken, Later

LEMMA IngestRead == ReadTaken /\ Ingest => ReadTaken'
<1> SUFFICES ASSUME ReadTaken, Ingest PROVE ReadTaken'
  OBVIOUS
<1> DEFINE W == {parseWorkflow(d) : d \in docs.workflows}
           calls == ResolveSteps(W)
           composites == CanonicalActions(calls)
<1>1. /\ phase = "ingest" /\ phase' = IF IngestFails THEN "failed" ELSE "ingested"
      /\ docs' = docs /\ docs \in Inputs
      /\ repo' = IF IngestFails THEN repo ELSE Parsed(W, composites, calls)
  BY DEF Ingest, ReadTaken
<1>2. phase' \notin Later /\ phase \notin Later
  BY <1>1, PhaseNames DEF Later
<1>3. CASE IngestFails
  BY <1>1, <1>2, <1>3 DEF ReadTaken, Later
<1>4. CASE ~IngestFails
  <2>1. \A d \in docs.workflows : Parses(d)
    BY <1>4 DEF IngestFails, Parses
  <2> HIDE DEF composites, calls
  <2>2. repo'.stepCalls = calls /\ repo'.composites = composites /\ repo'.nestedCalls = UNION {CallsIn(d) : d \in composites}
    <3> DEFINE C == {parseCompose(docs.compose[i]) : i \in DOMAIN docs.compose}
               F == Findings(docs.findings)
               N == UNION {CallsIn(d) : d \in composites}
    <3>1. repo' = Parsed(W, composites, calls)
      BY <1>1, <1>4
    <3>2. repo' = [NoFiles EXCEPT !.workflows = W, !.compose = C, !.findings = F, !.stepCalls = calls,
                                  !.composites = composites, !.nestedCalls = N]
      BY <3>1 DEF Parsed
    <3> HIDE DEF W, C, F, N
    <3>3. repo'.stepCalls = calls /\ repo'.composites = composites /\ repo'.nestedCalls = N
      BY <3>2 DEF NoFiles
    <3> QED BY <3>3 DEF N
  <2>3. DirsOf(calls) \subseteq ActionDirs
    BY <1>1, <2>1, CallsFound DEF calls
  <2>4. DirsOf(calls) \subseteq composites /\ MoreDirs(composites) = composites
    BY <1>1, <2>3, ActionsFound DEF composites
  <2>5. /\ \A X : ResolveSteps(X)' = ResolveSteps(X)
        /\ \A d : CallsIn(d)' = CallsIn(d)
    BY <1>1, ActionsStay
  <2>6. \A F : MoreDirs(F)' = MoreDirs(F)
    BY <2>5 DEF MoreDirs
  <2>7. ActionsRead'
    <3>1. repo'.stepCalls = ResolveSteps(W) /\ W' = W
      BY <1>1, <2>2 DEF calls
    <3>2. repo'.nestedCalls = UNION {CallsIn(d) : d \in repo'.composites}
      BY <2>2
    <3>3. DirsOf(repo'.stepCalls) \subseteq repo'.composites /\ MoreDirs(repo'.composites) = repo'.composites
      BY <2>2, <2>4
    <3>4. W' = {parseWorkflow(d) : d \in docs'.workflows}
      OBVIOUS
    <3> HIDE DEF W
    <3> QED BY <2>5, <2>6, <3>1, <3>2, <3>3, <3>4 DEF ActionsRead
  <2>8. \A d \in docs'.workflows : Parses(d)'
    BY <1>1, <2>1 DEF Parses
  <2> QED BY <1>1, <1>2, <2>7, <2>8 DEF ReadTaken
<1> QED BY <1>3, <1>4

LEMMA PrepareRead == ReadTaken /\ ReportTaken /\ FilesTaken /\ Prepare => ReadTaken'
<1> SUFFICES ASSUME ReadTaken, ReportTaken, FilesTaken, Prepare PROVE ReadTaken'
  OBVIOUS
<1> DEFINE kept == Kept(repo)
           C == ResolveJobs(kept.workflows)
           F == LinkSteps(kept)
           linked == [kept EXCEPT !.calls = C, !.flows = F]
           N == LinkNested(linked, linked.flows)
<1>1. /\ phase = "ingested" /\ phase' = "canonical" /\ docs' = docs
      /\ DOMAIN repo = DOMAIN NoFiles /\ ActionsRead /\ docs \in Inputs
      /\ \A d \in docs.workflows : Parses(d)
      /\ docs.findings # Malformed /\ repo.findings = Findings(docs.findings)
  BY DEF Prepare, FilesTaken, ReadTaken, ReportTaken, EarlierPhase
<1>2. PICK variables, classes :
        repo' = [linked EXCEPT !.nestedFlows = N, !.ignoredVariables = variables, !.classifications = classes]
  BY DEF Prepare
<1>3. DOMAIN kept = DOMAIN NoFiles /\ kept.findings = Reported /\ kept.stepCalls = repo.stepCalls
      /\ kept.composites = repo.composites /\ kept.nestedCalls = repo.nestedCalls
  BY <1>1 DEF Kept, NoFiles, Reported
<1>4. DOMAIN NoFiles = {"workflows", "compose", "findings", "stepCalls", "composites", "nestedCalls", "calls", "flows",
                        "nestedFlows", "ignoredVariables", "classifications"}
  BY DEF NoFiles
<1> HIDE DEF kept, C, F
<1>5. /\ DOMAIN linked = DOMAIN NoFiles /\ linked.calls = C /\ linked.flows = F /\ linked.workflows = kept.workflows
      /\ linked.findings = kept.findings /\ linked.stepCalls = kept.stepCalls
      /\ linked.composites = kept.composites /\ linked.nestedCalls = kept.nestedCalls
  BY <1>3, <1>4
<1> HIDE DEF linked, N
<1>6. /\ repo'.calls = C /\ repo'.flows = F /\ repo'.workflows = kept.workflows /\ repo'.nestedFlows = N
      /\ repo'.findings = Reported /\ repo'.stepCalls = repo.stepCalls
      /\ repo'.composites = repo.composites /\ repo'.nestedCalls = repo.nestedCalls
      /\ linked.nestedCalls = repo.nestedCalls
  BY <1>2, <1>3, <1>4, <1>5
<1>7. /\ \A X : ResolveSteps(X)' = ResolveSteps(X)
      /\ \A d : CallsIn(d)' = CallsIn(d)
      /\ \A r : LinkSteps(r)' = LinkSteps(r)
      /\ \A r, f : Hops(r, f)' = Hops(r, f)
  BY <1>1, ActionsStay
<1>8. Reported' = Reported
  BY <1>1 DEF Reported, HiddenFinding, HiddenPath, options
<1>9. (\A d : Parses(d)' <=> Parses(d)) /\ \A X : MoreDirs(X)' = MoreDirs(X)
  BY <1>1, <1>7 DEF Parses, MoreDirs
<1>10. ActionsRead'
  BY <1>1, <1>6, <1>7, <1>9 DEF ActionsRead
<1>11. repo'.calls = ResolveJobs(repo'.workflows)
  BY <1>6 DEF C
<1>12. repo'.flows = LinkSteps(repo')
  <2>1. repo'.workflows = kept.workflows /\ repo'.stepCalls = kept.stepCalls
    BY <1>3, <1>6
  <2>2. LinkSteps(kept) = LinkSteps(repo')
    BY <2>1, SameLinks
  <2> QED BY <1>6, <2>2 DEF F
<1>13. FlowsLinked(repo')
  <2>1. \A f \in repo'.flows : f.path = <<>>
    BY <1>6, FirstFlows DEF F
  <2>2. repo'.nestedFlows = LinkNested(linked, repo'.flows)
    BY <1>5, <1>6 DEF N
  <2>3. repo'.nestedCalls = linked.nestedCalls
    BY <1>6
  <2> QED BY <2>1, <2>2, <2>3, FlowsAreLinked
<1>14. FlowsLinked(repo)'
  BY <1>7, <1>13 DEF FlowsLinked
<1>15. repo'.flows = LinkSteps(repo)' /\ repo'.calls = ResolveJobs(repo.workflows)'
  BY <1>7, <1>11, <1>12 DEF ResolveJobs
<1> QED BY <1>1, <1>6, <1>8, <1>9, <1>10, <1>14, <1>15 DEF ReadTaken

(***************************************************************************)
(* The paths from a node are the walks from it that are not empty: the     *)
(* sequences of edges that the search can build up one at a time.  There   *)
(* is nothing more to find after as many levels as there are nodes.        *)
(***************************************************************************)
Walks(start) ==
  {q \in Seq(edges) : \A j \in 0 .. Len(q) - 1 : SubSeq(q, 1, j + 1) \in Longer(start, SubSeq(q, 1, j))}

LEMMA PrefixOfPrefix ==
  ASSUME NEW q \in Seq(edges), NEW n \in 0 .. Len(q), NEW m \in 0 .. n
  PROVE  SubSeq(SubSeq(q, 1, n), 1, m) = SubSeq(q, 1, m)
<1>1. Len(q) \in Nat /\ n \in Nat /\ m \in Nat /\ m <= n /\ n <= Len(q) /\ m \in 0 .. Len(q)
  BY LenProperties
<1>2. \A i \in 1 .. Len(q) : q[i] \in edges
  BY ElementOfSeq
<1>a. \A k \in 0 .. Len(q) : \A i \in 1 .. k : SubSeq(q, 1, k)[i] = q[i]
  <2> SUFFICES ASSUME NEW k \in 0 .. Len(q), NEW i \in 1 .. k PROVE SubSeq(q, 1, k)[i] = q[i]
    OBVIOUS
  <2>1. i \in 1 .. k - 1 + 1 /\ 1 + i - 1 = i
    BY <1>1
  <2>2. \A x \in 1 .. k : q[x] \in edges
    BY <1>1, <1>2
  <2>3. SubSeq(q, 1, k)[i] = q[1 + i - 1]
    BY <1>1, <2>1, <2>2, SubSeqProperties
  <2> QED BY <2>1, <2>3
<1> DEFINE s == SubSeq(q, 1, n)
           t == SubSeq(q, 1, m)
<1>3. s \in Seq(edges) /\ Len(s) = n /\ t \in Seq(edges) /\ Len(t) = m
  BY <1>1, PrefixAgain
<1>4. (\A i \in 1 .. n : s[i] = q[i]) /\ \A i \in 1 .. m : t[i] = q[i]
  BY <1>1, <1>a
<1> HIDE DEF s, t
<1>5. \A i \in 1 .. n : s[i] \in edges
  BY <1>3, ElementOfSeq
<1> DEFINE u == SubSeq(s, 1, m)
<1>6. u \in Seq(edges) /\ Len(u) = m
  <2>1. m \in 0 .. Len(s)
    BY <1>1, <1>3
  <2> QED BY <1>3, <2>1, SubSeqProperties, <1>5, <1>1
<1>7. \A i \in 1 .. m : u[i] = s[i]
  <2> SUFFICES ASSUME NEW i \in 1 .. m PROVE u[i] = s[i]
    OBVIOUS
  <2>1. i \in 1 .. m - 1 + 1 /\ 1 + i - 1 = i
    BY <1>1
  <2>2. \A x \in 1 .. m : s[x] \in edges
    BY <1>1, <1>5
  <2>3. u[i] = s[1 + i - 1]
    BY <1>1, <2>1, <2>2, SubSeqProperties
  <2> QED BY <2>1, <2>3
<1>8. \A i \in 1 .. Len(u) : u[i] = t[i]
  BY <1>1, <1>4, <1>6, <1>7
<1> HIDE DEF u
<1>9. u = t
  BY <1>3, <1>6, <1>8, SeqEqual
<1> QED BY <1>9 DEF u, s, t

LEMMA WalkBegins == \A start : <<>> \in Walks(start)
  BY EmptySeq DEF Walks

LEMMA WalkOn ==
  ASSUME NEW start, NEW q \in Walks(start), NEW r \in Longer(start, q)
  PROVE  r \in Walks(start)
<1>1. q \in Seq(edges) /\ Len(q) \in Nat
  BY LenProperties DEF Walks
<1>2. r \in Seq(edges) /\ Len(r) = Len(q) + 1 /\ SubSeq(r, 1, Len(q)) = q
  BY <1>1, LongerByOne
<1>3. ASSUME NEW j \in 0 .. Len(r) - 1 PROVE SubSeq(r, 1, j + 1) \in Longer(start, SubSeq(r, 1, j))
  <2>1. CASE j = Len(q)
    <3>1. SubSeq(r, 1, Len(r)) = r /\ j + 1 = Len(r)
      BY <1>1, <1>2, <2>1, PrefixAgain
    <3> QED BY <1>2, <2>1, <3>1
  <2>2. CASE j \in 0 .. Len(q) - 1
    <3>1. Len(q) \in 0 .. Len(r) /\ j \in 0 .. Len(q) /\ j + 1 \in 0 .. Len(q)
      BY <1>1, <1>2, <2>2
    <3>2. SubSeq(q, 1, j) = SubSeq(r, 1, j) /\ SubSeq(q, 1, j + 1) = SubSeq(r, 1, j + 1)
      BY <1>2, <3>1, PrefixOfPrefix
    <3>3. SubSeq(q, 1, j + 1) \in Longer(start, SubSeq(q, 1, j))
      BY <2>2 DEF Walks
    <3> QED BY <3>2, <3>3
  <2>3. j = Len(q) \/ j \in 0 .. Len(q) - 1
    <3>1. Len(r) = Len(q) + 1 /\ Len(q) \in Nat
      BY <1>1, <1>2
    <3>2. \A n \in Nat : \A x \in 0 .. (n + 1) - 1 : x = n \/ x \in 0 .. n - 1
      OBVIOUS
    <3>3. \A x \in 0 .. (Len(q) + 1) - 1 : x = Len(q) \/ x \in 0 .. Len(q) - 1
      BY <3>1, <3>2
    <3>4. j \in 0 .. (Len(q) + 1) - 1
      BY <3>1
    <3> QED BY <3>3, <3>4
  <2> QED BY <2>1, <2>2, <2>3
<1> QED BY <1>2, <1>3 DEF Walks

LEMMA WalkBack ==
  ASSUME NEW start, NEW w \in Walks(start), w # <<>>
  PROVE  \E q \in Walks(start) : w \in Longer(start, q) /\ Len(w) = Len(q) + 1
<1> DEFINE q == SubSeq(w, 1, Len(w) - 1)
<1>1. w \in Seq(edges) /\ Len(w) \in Nat \ {0}
  BY EmptySeq DEF Walks
<1>2. Len(w) - 1 \in 0 .. Len(w) /\ Len(w) - 1 \in 0 .. Len(w) - 1 /\ (Len(w) - 1) + 1 = Len(w)
  BY <1>1
<1>3. q \in Seq(edges) /\ Len(q) = Len(w) - 1 /\ SubSeq(w, 1, Len(w)) = w
  BY <1>1, <1>2, PrefixAgain
<1>4. w \in Longer(start, q)
  <2>1. SubSeq(w, 1, (Len(w) - 1) + 1) \in Longer(start, SubSeq(w, 1, Len(w) - 1))
    BY <1>2 DEF Walks
  <2> QED BY <1>2, <1>3, <2>1
<1>5. ASSUME NEW j \in 0 .. Len(q) - 1 PROVE SubSeq(q, 1, j + 1) \in Longer(start, SubSeq(q, 1, j))
  <2>1. j \in 0 .. Len(w) - 1 /\ j \in 0 .. Len(w) - 1 /\ j + 1 \in 0 .. Len(w) - 1
    BY <1>1, <1>3
  <2>2. SubSeq(q, 1, j) = SubSeq(w, 1, j) /\ SubSeq(q, 1, j + 1) = SubSeq(w, 1, j + 1)
    BY <1>1, <1>2, <2>1, PrefixOfPrefix
  <2>3. SubSeq(w, 1, j + 1) \in Longer(start, SubSeq(w, 1, j))
    BY <2>1 DEF Walks
  <2> QED BY <2>2, <2>3
<1>6. q \in Walks(start)
  BY <1>3, <1>5 DEF Walks
<1>7. Len(w) = Len(q) + 1
  BY <1>1, <1>3
<1> QED BY <1>4, <1>6, <1>7

LEMMA WalkInduction ==
  ASSUME NEW start, NEW S, <<>> \in S, \A q \in Walks(start) : q \in S => Longer(start, q) \subseteq S
  PROVE  Walks(start) \subseteq S
<1> DEFINE T == {Len(w) : w \in Walks(start) \ S}
<1> SUFFICES ASSUME NEW x \in Walks(start), x \notin S PROVE FALSE
  OBVIOUS
<1>1. \A w \in Walks(start) : Len(w) \in Nat
  BY LenProperties DEF Walks
<1>2. PICK n \in T : \A m \in T : n <= m
  <2>1. T \in SUBSET Nat /\ T # {}
    BY <1>1
  <2> HIDE DEF T
  <2> QED BY <2>1, LeastNumber
<1>3. PICK w \in Walks(start) : w \notin S /\ n = Len(w)
  BY <1>2
<1>4. PICK q \in Walks(start) : w \in Longer(start, q) /\ Len(w) = Len(q) + 1
  BY <1>3, WalkBack
<1>5. q \notin S
  BY <1>3, <1>4
<1>6. Len(q) \in T
  BY <1>5
<1>7. n <= Len(q) /\ Len(q) \in Nat
  BY <1>1, <1>2, <1>6
<1> QED BY <1>3, <1>4, <1>7

LEMMA LongerOn ==
  \A start, p, q : q \in Longer(start, p) <=> /\ ~(p # <<>> /\ AtDepth(p))
                                              /\ \E e \in Onward(start, p) : q = Append(p, e) /\ WithinHops(q)
<1> SUFFICES ASSUME NEW start, NEW p, NEW q
             PROVE  q \in Longer(start, p) <=> /\ ~(p # <<>> /\ AtDepth(p))
                                               /\ \E e \in Onward(start, p) : q = Append(p, e) /\ WithinHops(q)
  OBVIOUS
<1> QED BY DEF Longer

LEMMA NoSteps ==
  \A start : NodesOn(start, <<>>) = {start} /\ EndOf(start, <<>>) = start /\ \A C : Spent(<<>>, C) = 0
<1>1. \A C : {i \in DOMAIN <<>> : <<>>[i].class \in C} = {}
  OBVIOUS
<1> QED BY <1>1, FS_EmptySet DEF NodesOn, EndOf, Spent

LEMMA OneStep ==
  ASSUME NEW start, NEW p \in Seq(edges), NEW e \in edges
  PROVE  /\ NodesOn(start, Append(p, e)) = NodesOn(start, p) \cup {e.to}
         /\ EndOf(start, Append(p, e)) = e.to
         /\ \A C : Spent(p, C) \in Nat /\ Spent(Append(p, e), C) = Spent(p, C) + (IF e.class \in C THEN 1 ELSE 0)
<1> DEFINE q == Append(p, e)
           n == Len(p)
<1>1. /\ q \in Seq(edges) /\ Len(q) = n + 1 /\ n \in Nat /\ DOMAIN p = 1 .. n /\ DOMAIN q = 1 .. n + 1
      /\ \A i \in 1 .. n : q[i] = p[i]
      /\ q[n + 1] = e
  <2>1. q \in Seq(edges) /\ n \in Nat /\ DOMAIN p = 1 .. n
    BY LenProperties
  <2>2. Len(q) = n + 1 /\ (\A i \in 1 .. n : q[i] = p[i]) /\ q[n + 1] = e
    BY AppendProperties, <2>1
  <2>3. DOMAIN q = 1 .. Len(q)
    BY <2>1, LenProperties
  <2> QED BY <2>1, <2>2, <2>3
<1> HIDE DEF q, n
<1>2. DOMAIN q = DOMAIN p \cup {n + 1} /\ n + 1 \notin DOMAIN p
  BY <1>1
<1>3. NodesOn(start, q) = NodesOn(start, p) \cup {e.to}
  BY <1>1, <1>2 DEF NodesOn
<1>4. EndOf(start, q) = e.to
  <2>1. q # <<>>
    BY <1>1
  <2> QED BY <1>1, <2>1 DEF EndOf
<1>5. ASSUME NEW C
      PROVE  Spent(p, C) \in Nat /\ Spent(q, C) = Spent(p, C) + (IF e.class \in C THEN 1 ELSE 0)
  <2> DEFINE A == {i \in DOMAIN p : p[i].class \in C}
             B == {i \in DOMAIN q : q[i].class \in C}
  <2>1. IsFiniteSet(A) /\ Cardinality(A) \in Nat
    <3>1. IsFiniteSet(1 .. n) /\ A \subseteq 1 .. n
      BY <1>1, FS_Interval
    <3> HIDE DEF A
    <3>2. IsFiniteSet(A)
      BY <3>1, FS_Subset
    <3> QED BY <3>2, FS_CardinalityType
  <2>2. B = IF e.class \in C THEN A \cup {n + 1} ELSE A
    BY <1>1, <1>2
  <2>3. n + 1 \notin A
    BY <1>2
  <2> HIDE DEF A, B
  <2>5. Cardinality(A \cup {n + 1}) = Cardinality(A) + 1
    BY <2>1, <2>3, FS_AddElement
  <2>4. Cardinality(B) = Cardinality(A) + (IF e.class \in C THEN 1 ELSE 0)
    <3>1. CASE e.class \in C
      BY <2>1, <2>2, <2>5, <3>1
    <3>2. CASE e.class \notin C
      BY <2>1, <2>2, <3>2
    <3> QED BY <3>1, <3>2
  <2> QED BY <2>1, <2>4 DEF Spent, A, B
<1> QED BY <1>3, <1>4, <1>5 DEF q

\* A walk and the edge it goes on by.
LEMMA WalkStep ==
  ASSUME NEW start, NEW q \in Walks(start), NEW r \in Longer(start, q)
  PROVE  \E e \in edges : /\ e \in Onward(start, q) /\ r = Append(q, e) /\ WithinHops(r)
                          /\ NodesOn(start, r) = NodesOn(start, q) \cup {e.to} /\ e.to \notin NodesOn(start, q)
                          /\ e.from = EndOf(start, q) /\ EndOf(start, r) = e.to /\ Walkable(e)
                          /\ \A C : Spent(q, C) \in Nat /\ Spent(r, C) = Spent(q, C) + (IF e.class \in C THEN 1 ELSE 0)
<1>1. q \in Seq(edges)
  BY DEF Walks
<1>2. PICK e \in Onward(start, q) : r = Append(q, e) /\ WithinHops(r)
  BY LongerOn
<1>3. e \in edges /\ e.to \notin NodesOn(start, q) /\ e.from = EndOf(start, q) /\ Walkable(e)
  BY <1>2 DEF Onward
<1> QED BY <1>1, <1>2, <1>3, OneStep

\* What the search for paths computes.
LEMMA GrowIs ==
  ASSUME NEW start
  PROVE  \E grow : /\ Paths(start) = grow[{<<>>}]
                   /\ \A F \in SUBSET Seq(edges) :
                        grow[F] = IF More(start, F) = {} THEN {} ELSE More(start, F) \cup grow[More(start, F)]
<1> DEFINE Step(g, F) == IF More(start, F) = {} THEN {} ELSE More(start, F) \cup g[More(start, F)]
           Grows(g) == g = [F \in SUBSET Seq(edges) |-> Step(g, F)]
           g0 == [F \in SUBSET Seq(edges) |-> Grown(start, F)]
           grow == CHOOSE g : Grows(g)
<1>1. Paths(start) = grow[{<<>>}]
  BY DEF Paths, More
<1>2. Grows(g0)
  <2>1. ASSUME NEW F \in SUBSET Seq(edges) PROVE Step(g0, F) = Grown(start, F)
    <3>1. More(start, F) \in SUBSET Seq(edges)
      BY GrownStep
    <3>2. g0[More(start, F)] = Grown(start, More(start, F))
      BY <3>1
    <3>3. Grown(start, F) = IF More(start, F) = {} THEN {} ELSE More(start, F) \cup Grown(start, More(start, F))
      BY GrownStep
    <3> HIDE DEF g0
    <3> QED BY <3>2, <3>3
  <2> HIDE DEF Step
  <2> QED BY <2>1
<1> HIDE DEF g0
<1>3. Grows(grow)
  <2> HIDE DEF Grows
  <2> QED BY <1>2
<1> HIDE DEF grow
<1>4. \A F \in SUBSET Seq(edges) : grow[F] = Step(grow, F)
  <2> HIDE DEF Step
  <2> QED BY <1>3
<1> QED BY <1>1, <1>4

\* A walk never comes back to a node.
LEMMA WalkNodes ==
  ASSUME NEW start
  PROVE  \A w \in Walks(start) : /\ IsFiniteSet(NodesOn(start, w)) /\ Cardinality(NodesOn(start, w)) = Len(w) + 1
                                 /\ NodesOn(start, w) \subseteq DOMAIN nodes \cup {start}
                                 /\ EndOf(start, w) \in NodesOn(start, w)
<1> DEFINE Fits(w) == /\ IsFiniteSet(NodesOn(start, w)) /\ Cardinality(NodesOn(start, w)) = Len(w) + 1
                      /\ NodesOn(start, w) \subseteq DOMAIN nodes \cup {start}
                      /\ EndOf(start, w) \in NodesOn(start, w)
           S == {w \in Walks(start) : Fits(w)}
<1>1. Fits(<<>>)
  <2>1. IsFiniteSet({start}) /\ Cardinality({start}) = 1
    BY FS_Singleton
  <2>2. Len(<<>>) = 0
    OBVIOUS
  <2>3. NodesOn(start, <<>>) = {start} /\ EndOf(start, <<>>) = start
    BY NoSteps
  <2> QED BY <2>1, <2>2, <2>3
<1>2. ASSUME NEW q \in Walks(start), Fits(q), NEW r \in Longer(start, q) PROVE r \in Walks(start) /\ Fits(r)
  <2>1. PICK e \in edges : /\ NodesOn(start, r) = NodesOn(start, q) \cup {e.to} /\ e.to \notin NodesOn(start, q)
                           /\ EndOf(start, r) = e.to /\ Walkable(e)
    BY WalkStep
  <2>2. Len(r) = Len(q) + 1 /\ Len(q) \in Nat
    <3>1. q \in Seq(edges)
      BY DEF Walks
    <3> QED BY <3>1, LongerByOne, LenProperties
  <2>3. e.to \in DOMAIN nodes
    BY <2>1 DEF Walkable
  <2>4. IsFiniteSet(NodesOn(start, r)) /\ Cardinality(NodesOn(start, r)) = Cardinality(NodesOn(start, q)) + 1
    BY <1>2, <2>1, FS_AddElement
  <2> QED BY <1>2, <2>1, <2>2, <2>3, <2>4, WalkOn
<1> HIDE DEF Fits
<1>3. <<>> \in S
  BY <1>1, WalkBegins
<1>4. \A q \in Walks(start) : q \in S => Longer(start, q) \subseteq S
  BY <1>2
<1> HIDE DEF S
<1>5. Walks(start) \subseteq S
  BY <1>3, <1>4, WalkInduction
<1> QED BY <1>5 DEF S, Fits

LEMMA WalksAreShort ==
  ASSUME NEW start, IsFiniteSet(DOMAIN nodes)
  PROVE  \E n \in Nat : \A w \in Walks(start) : Len(w) < n
<1> DEFINE D == DOMAIN nodes \cup {start}
<1>1. IsFiniteSet(D)
  BY FS_AddElement
<1> HIDE DEF D
<1>2. Cardinality(D) \in Nat
  BY <1>1, FS_CardinalityType
<1>3. ASSUME NEW w \in Walks(start) PROVE Len(w) < Cardinality(D)
  <2>1. Cardinality(NodesOn(start, w)) = Len(w) + 1 /\ NodesOn(start, w) \subseteq D
    BY WalkNodes DEF D
  <2>2. Cardinality(NodesOn(start, w)) <= Cardinality(D)
    BY <1>1, <2>1, FS_Subset
  <2>3. Len(w) \in Nat
    BY LenProperties DEF Walks
  <2> QED BY <1>2, <2>1, <2>2, <2>3
<1> QED BY <1>2, <1>3

Layer(start, n)  == {q \in Walks(start) : Len(q) = n}
Beyond(start, n) == {q \in Walks(start) : Len(q) > n}

LEMMA NextLevel ==
  ASSUME NEW start, NEW n \in Nat
  PROVE  /\ More(start, Layer(start, n)) = Layer(start, n + 1) /\ Layer(start, n) \in SUBSET Seq(edges)
         /\ Beyond(start, n) = Layer(start, n + 1) \cup Beyond(start, n + 1)
<1>1. \A w \in Walks(start) : Len(w) \in Nat /\ w \in Seq(edges)
  BY LenProperties DEF Walks
<1>2. ASSUME NEW r \in More(start, Layer(start, n)) PROVE r \in Layer(start, n + 1)
  <2>1. PICK q \in Layer(start, n) : r \in Longer(start, q)
    BY DEF More
  <2>2. q \in Walks(start) /\ q \in Seq(edges) /\ Len(q) = n
    BY <1>1, <2>1 DEF Layer
  <2> QED BY <2>1, <2>2, LongerByOne, WalkOn DEF Layer
<1>3. ASSUME NEW r \in Layer(start, n + 1) PROVE r \in More(start, Layer(start, n))
  <2>1. r \in Walks(start) /\ Len(r) = n + 1
    BY DEF Layer
  <2>2. r # <<>>
    BY <2>1
  <2>3. PICK q \in Walks(start) : r \in Longer(start, q) /\ Len(r) = Len(q) + 1
    BY <2>1, <2>2, WalkBack
  <2>4. q \in Layer(start, n)
    BY <1>1, <2>1, <2>3 DEF Layer
  <2> QED BY <2>3, <2>4 DEF More
<1>4. Beyond(start, n) = Layer(start, n + 1) \cup Beyond(start, n + 1)
  BY <1>1 DEF Beyond, Layer
<1> QED BY <1>1, <1>2, <1>3, <1>4 DEF Layer

LEMMA PathsAreWalks ==
  ASSUME NEW start, IsFiniteSet(DOMAIN nodes)
  PROVE  Paths(start) = Walks(start) \ {<<>>}
<1>1. PICK grow : /\ Paths(start) = grow[{<<>>}]
                  /\ \A F \in SUBSET Seq(edges) :
                       grow[F] = IF More(start, F) = {} THEN {} ELSE More(start, F) \cup grow[More(start, F)]
  BY GrowIs
<1>2. PICK b \in Nat : \A w \in Walks(start) : Len(w) < b
  BY WalksAreShort
<1>3. \A w \in Walks(start) : Len(w) \in Nat /\ w \in Seq(edges)
  BY LenProperties DEF Walks
<1>4. grow[{}] = {}
  <2>1. More(start, {}) = {} /\ {} \in SUBSET Seq(edges)
    BY DEF More
  <2> QED BY <1>1, <2>1
<1>5. ASSUME NEW n \in Nat, grow[Layer(start, n + 1)] = Beyond(start, n + 1) PROVE grow[Layer(start, n)] = Beyond(start, n)
  <2>1. /\ More(start, Layer(start, n)) = Layer(start, n + 1) /\ Layer(start, n) \in SUBSET Seq(edges)
        /\ Beyond(start, n) = Layer(start, n + 1) \cup Beyond(start, n + 1)
    BY NextLevel
  <2>2. grow[Layer(start, n)] = IF Layer(start, n + 1) = {} THEN {} ELSE Layer(start, n + 1) \cup Beyond(start, n + 1)
    BY <1>1, <1>5, <2>1
  <2>3. Layer(start, n + 1) = {} => Beyond(start, n + 1) = {}
    BY <1>4, <1>5
  <2> QED BY <2>1, <2>2, <2>3
<1> DEFINE T == {m \in Nat : m <= b /\ grow[Layer(start, b - m)] # Beyond(start, b - m)}
<1>6. T = {}
  <2> SUFFICES ASSUME T # {} PROVE FALSE
    OBVIOUS
  <2>1. T \in SUBSET Nat
    OBVIOUS
  <2>2. PICK m \in T : \A x \in T : m <= x
    <3> HIDE DEF T
    <3> QED BY <2>1, LeastNumber
  <2>3. m \in Nat /\ m <= b /\ grow[Layer(start, b - m)] # Beyond(start, b - m)
    OBVIOUS
  <2>4. m # 0
    <3> SUFFICES ASSUME m = 0 PROVE FALSE
      OBVIOUS
    <3>1. b - m = b
      BY <1>2
    <3>2. Layer(start, b) = {} /\ Beyond(start, b) = {}
      BY <1>2, <1>3 DEF Layer, Beyond
    <3> QED BY <1>4, <2>3, <3>1, <3>2
  <2>5. m - 1 \in Nat /\ m - 1 <= b /\ m - 1 < m
    BY <1>2, <2>3, <2>4
  <2>6. m - 1 \notin T
    BY <2>2, <2>3, <2>5
  <2>7. grow[Layer(start, b - (m - 1))] = Beyond(start, b - (m - 1))
    BY <2>5, <2>6
  <2>8. b - (m - 1) = (b - m) + 1 /\ b - m \in Nat
    BY <1>2, <2>3
  <2> QED BY <1>5, <2>3, <2>7, <2>8
<1>7. grow[Layer(start, 0)] = Beyond(start, 0)
  <2>1. b - b = 0 /\ b <= b
    BY <1>2
  <2> QED BY <1>2, <1>6, <2>1
<1>8. Layer(start, 0) = {<<>>} /\ Beyond(start, 0) = Walks(start) \ {<<>>}
  <2>1. <<>> \in Walks(start) /\ Len(<<>>) = 0
    BY WalkBegins
  <2>2. \A w \in Walks(start) : Len(w) = 0 <=> w = <<>>
    BY <1>3, EmptySeq
  <2> QED BY <1>3, <2>1, <2>2 DEF Layer, Beyond
<1> QED BY <1>1, <1>7, <1>8

LEMMA SpentIs == \A start : \A w \in Walks(start) : \A C : Spent(w, C) \in Nat
<1> SUFFICES ASSUME NEW start, NEW w \in Walks(start), NEW C PROVE Spent(w, C) \in Nat
  OBVIOUS
<1> DEFINE A == {i \in DOMAIN w : w[i].class \in C}
<1>1. IsFiniteSet(1 .. Len(w)) /\ A \subseteq 1 .. Len(w)
  <2>1. w \in Seq(edges)
    BY DEF Walks
  <2>2. DOMAIN w = 1 .. Len(w) /\ Len(w) \in Nat
    BY <2>1, LenProperties
  <2> QED BY <2>2, FS_Interval
<1> HIDE DEF A
<1>2. IsFiniteSet(A)
  BY <1>1, FS_Subset
<1> QED BY <1>2, FS_CardinalityType DEF Spent, A

(***************************************************************************)
(* Every node that a walk goes through is the end of a walk that spends no *)
(* more.                                                                   *)
(***************************************************************************)
Got(start, n, w) == \E v \in Walks(start) : EndOf(start, v) = n /\ \A C : Spent(v, C) <= Spent(w, C)

LEMMA OnTheWay == \A start : \A w \in Walks(start) : \A n \in NodesOn(start, w) : Got(start, n, w)
<1> SUFFICES ASSUME NEW start PROVE \A w \in Walks(start) : \A n \in NodesOn(start, w) : Got(start, n, w)
  OBVIOUS
<1> DEFINE S == {w \in Walks(start) : \A n \in NodesOn(start, w) : Got(start, n, w)}
<1>0. \A w \in Walks(start) : \A C : Spent(w, C) \in Nat
  BY SpentIs
<1>1. <<>> \in S
  <2>1. \A C : Spent(<<>>, C) <= Spent(<<>>, C)
    BY <1>0, WalkBegins
  <2> QED BY <2>1, NoSteps, WalkBegins DEF Got
<1>2. ASSUME NEW q \in Walks(start), q \in S, NEW r \in Longer(start, q), NEW n \in NodesOn(start, r) PROVE Got(start, n, r)
  <2>1. r \in Walks(start)
    BY WalkOn
  <2>2. PICK e \in edges : /\ NodesOn(start, r) = NodesOn(start, q) \cup {e.to} /\ EndOf(start, r) = e.to
                           /\ \A C : Spent(r, C) = Spent(q, C) + (IF e.class \in C THEN 1 ELSE 0)
    BY WalkStep
  <2>3. \A C : Spent(q, C) <= Spent(r, C) /\ Spent(r, C) <= Spent(r, C)
    <3> SUFFICES ASSUME NEW C PROVE Spent(q, C) <= Spent(r, C) /\ Spent(r, C) <= Spent(r, C)
      OBVIOUS
    <3>1. Spent(q, C) \in Nat /\ Spent(r, C) \in Nat
      BY <1>0, <2>1
    <3>2. Spent(r, C) = Spent(q, C) \/ Spent(r, C) = Spent(q, C) + 1
      <4>1. CASE e.class \in C
        BY <2>2, <4>1, <3>1
      <4>2. CASE e.class \notin C
        BY <2>2, <4>2, <3>1
      <4> QED BY <4>1, <4>2
    <3> QED BY <3>1, <3>2
  <2>4. CASE n = e.to
    BY <2>1, <2>2, <2>3, <2>4 DEF Got
  <2>5. CASE n \in NodesOn(start, q)
    <3>1. PICK v \in Walks(start) : EndOf(start, v) = n /\ \A C : Spent(v, C) <= Spent(q, C)
      BY <1>2, <2>5 DEF Got
    <3>2. \A C : Spent(v, C) <= Spent(r, C)
      <4> SUFFICES ASSUME NEW C PROVE Spent(v, C) <= Spent(r, C)
        OBVIOUS
      <4>1. Spent(q, C) \in Nat /\ Spent(r, C) \in Nat /\ Spent(v, C) \in Nat
        BY <1>0, <2>1
      <4> QED BY <2>3, <3>1, <4>1
    <3> QED BY <3>1, <3>2 DEF Got
  <2> QED BY <2>2, <2>4, <2>5
<1>3. \A q \in Walks(start) : q \in S => Longer(start, q) \subseteq S
  BY <1>2, WalkOn
<1> HIDE DEF S
<1>4. Walks(start) \subseteq S
  BY <1>1, <1>3, WalkInduction
<1> QED BY <1>4 DEF S

(***************************************************************************)
(* What is known of every credential that has been assessed, and of what   *)
(* it was assessed from.                                                   *)
(***************************************************************************)
OnWalks(k) ==
  LET start == CredentialId(k) IN
  /\ \A n : n \in analyses[k].reach <=> \E w \in Walks(start) : n = EndOf(start, w)
  /\ analyses[k].truncated <=> \E w \in Walks(start) : Truncated(start, w)

ReachTaken == \A k \in DOMAIN analyses : OnWalks(k)

ReachInv == SuppressInv /\ LedInv /\ ReadTaken /\ ReachTaken

LEMMA WalksStay ==
  ASSUME UNCHANGED <<nodes, edges, docs>>
  PROVE  \A start : Walks(start)' = Walks(start) /\ \A w : Truncated(start, w)' <=> Truncated(start, w)
<1>1. \A start, p : Longer(start, p)' = Longer(start, p) /\ Onward(start, p)' = Onward(start, p) /\ (AtDepth(p)' <=> AtDepth(p))
  BY DEF Longer, Onward, Walkable, AtDepth, maxDepth, options
<1>2. ASSUME NEW start PROVE Walks(start)' = Walks(start)
  BY <1>1 DEF Walks
<1>3. \A start, w : Truncated(start, w)' <=> Truncated(start, w)
  BY <1>1 DEF Truncated
<1> QED BY <1>2, <1>3

LEMMA DepthAbove == docs \in Inputs => maxDepth \in Nat \ {0}
<1> SUFFICES ASSUME docs \in Inputs PROVE maxDepth \in Nat \ {0}
  OBVIOUS
<1>1. options.maxDepth \in Nat /\ DefaultMaxDepth \in Nat \ {0}
  BY OptionsAssumption, LimitsAssumption DEF options
<1> QED BY <1>1 DEF maxDepth, OrDefault

LEMMA WalksAssessed ==
  ASSUME docs \in Inputs, IsFiniteSet(DOMAIN nodes), NEW k
  PROVE  LET start == CredentialId(k)
             a     == Analyzed(k, Paths(start))
         IN  /\ \A n : n \in a.reach <=> \E w \in Walks(start) : n = EndOf(start, w)
             /\ a.truncated <=> \E w \in Walks(start) : Truncated(start, w)
<1> DEFINE start == CredentialId(k)
           paths == Paths(start)
           W == Walks(start)
<1>1. paths = W \ {<<>>} /\ <<>> \in W
  BY PathsAreWalks, WalkBegins
<1>2. /\ Analyzed(k, paths).reach = UNION {NodesOn(start, p) : p \in paths \cup {<<>>}}
      /\ Analyzed(k, paths).truncated = \E p \in paths : Truncated(start, p)
  BY DEF Analyzed
<1>3. paths \cup {<<>>} = W
  BY <1>1
<1>4. ~Truncated(start, <<>>)
  <2>1. Spent(<<>>, {"plain", "reusable"}) = 0
    BY NoSteps
  <2>2. maxDepth \in Nat \ {0}
    BY DepthAbove
  <2> QED BY <2>1, <2>2 DEF Truncated, AtDepth
<1>5. \A n : (\E w \in W : n \in NodesOn(start, w)) <=> \E w \in W : n = EndOf(start, w)
  <2>1. \A w \in W : EndOf(start, w) \in NodesOn(start, w)
    BY WalkNodes
  <2>2. \A w \in W : \A n \in NodesOn(start, w) : \E v \in W : EndOf(start, v) = n
    BY OnTheWay DEF Got
  <2> HIDE DEF W, start
  <2> QED BY <2>1, <2>2
<1> HIDE DEF W, paths, start
<1>6. \A n : n \in Analyzed(k, paths).reach <=> \E w \in W : n \in NodesOn(start, w)
  BY <1>2, <1>3
<1>7. Analyzed(k, paths).truncated <=> \E w \in W : Truncated(start, w)
  BY <1>1, <1>2, <1>4
<1>8. \A n : n \in Analyzed(k, paths).reach <=> \E w \in W : n = EndOf(start, w)
  BY <1>5, <1>6
<1> QED BY <1>7, <1>8 DEF W, paths, start

LEMMA ReachStays == ReachTaken /\ UNCHANGED <<nodes, edges, docs, analyses>> => ReachTaken'
<1> SUFFICES ASSUME ReachTaken, UNCHANGED <<nodes, edges, docs, analyses>> PROVE ReachTaken'
  OBVIOUS
<1>1. \A start : Walks(start)' = Walks(start) /\ \A w : Truncated(start, w)' <=> Truncated(start, w)
  BY WalksStay
<1> QED BY <1>1 DEF ReachTaken, OnWalks

LEMMA AnalyzeReach == \A k \in Name : SuppressInv /\ ReachTaken /\ AnalyzeCredential(k) => ReachTaken'
<1> SUFFICES ASSUME NEW k \in Name, SuppressInv, ReachTaken, AnalyzeCredential(k) PROVE ReachTaken'
  OBVIOUS
<1>1. phase = "built" /\ ~limitExceeded /\ UNCHANGED <<nodes, edges, docs>>
  BY DEF AnalyzeCredential, graph
<1>2. docs \in Inputs /\ IsFiniteSet(DOMAIN nodes)
  BY <1>1 DEF SuppressInv, RotationInv, ReportTaken, ScoreInv, GraphFinite
<1>3. CASE UNCHANGED analyses
  BY <1>1, <1>3, ReachStays
<1>4. CASE analyses' = [x \in DOMAIN analyses \cup {k} |->
                          IF x = k THEN Analyzed(k, Paths(CredentialId(k))) ELSE analyses[x]]
  <2> DEFINE a == Analyzed(k, Paths(CredentialId(k)))
  <2>1. /\ \A n : n \in a.reach <=> \E w \in Walks(CredentialId(k)) : n = EndOf(CredentialId(k), w)
        /\ a.truncated <=> \E w \in Walks(CredentialId(k)) : Truncated(CredentialId(k), w)
    BY <1>2, WalksAssessed
  <2>2. analyses' = [x \in DOMAIN analyses \cup {k} |-> IF x = k THEN a ELSE analyses[x]]
    BY <1>4
  <2> HIDE DEF a
  <2>3. \A start : Walks(start)' = Walks(start) /\ \A w : Truncated(start, w)' <=> Truncated(start, w)
    BY <1>1, WalksStay
  <2>4. ASSUME NEW x \in DOMAIN analyses'
        PROVE  /\ \A n : n \in analyses'[x].reach <=> \E w \in Walks(CredentialId(x)) : n = EndOf(CredentialId(x), w)
               /\ analyses'[x].truncated <=> \E w \in Walks(CredentialId(x)) : Truncated(CredentialId(x), w)
    <3>1. CASE x = k
      <4>1. analyses'[x] = a
        BY <2>2, <3>1
      <4> QED BY <2>1, <3>1, <4>1
    <3>2. CASE x # k
      <4>1. x \in DOMAIN analyses /\ analyses'[x] = analyses[x]
        BY <2>2, <3>2
      <4> QED BY <4>1 DEF ReachTaken, OnWalks
    <3> QED BY <3>1, <3>2
  <2> QED BY <2>3, <2>4 DEF ReachTaken, OnWalks
<1> QED BY <1>3, <1>4 DEF AnalyzeCredential

\* Nothing is drawn before the builder starts.
NothingYet == edges = {} /\ credentials = {} /\ \A p \in Leading \cup {"findings"} : phase \in Later => Dealt(p) = {}

LEMMA NothingLed == NothingYet => LedInv
<1> SUFFICES ASSUME NothingYet PROVE LedInv
  OBVIOUS
<1>1. Known = {} /\ OnlyArrows
  BY DEF NothingYet, Known, OnlyArrows
<1>2. ASSUME phase \in Later PROVE EarlyKnown /\ AllArrows
  <2>1. \A p \in {"findings", "workflows", "flows"} \cup Leading : Dealt(p) = {}
    BY <1>2 DEF NothingYet, Leading
  <2>2. EarlyKnown
    BY <1>1, <2>1 DEF EarlyKnown
  <2>3. AllArrows
    BY <2>1 DEF AllArrows
  <2> QED BY <2>2, <2>3
<1> QED BY <1>1, <1>2 DEF LedInv, Later

LEMMA InitLed == Init => LedInv
<1> SUFFICES ASSUME Init PROVE LedInv
  OBVIOUS
<1>1. edges = {} /\ credentials = {} /\ phase \notin Later
  BY PhaseNames DEF Init, NewBuilder, Later
<1> QED BY <1>1, NothingLed DEF NothingYet

LEMMA EarlyLed == BuildInv /\ (Ingest \/ Prepare) => LedInv'
<1> SUFFICES ASSUME BuildInv, Ingest \/ Prepare PROVE LedInv'
  OBVIOUS
<1>1. phase \in EarlierPhase /\ edges' = edges /\ credentials' = credentials
  BY DEF Ingest, Prepare, EarlierPhase, graph
<1>2. edges' = {} /\ credentials' = {}
  BY <1>1 DEF BuildInv
<1>3. phase' \in Later => phase' = "canonical"
  BY PhaseNames DEF Ingest, Prepare, Later
<1>4. ASSUME phase' = "canonical", NEW p \in Leading \cup {"findings"} PROVE Dealt(p)' = {}
  <2>1. "canonical" \in Ahead(p)
    BY PhaseNames DEF Ahead, Leading
  <2>2. phase' \in Ahead(p)'
    BY <1>4, <2>1 DEF Ahead
  <2> QED BY <2>2 DEF Dealt
<1>5. NothingYet'
  BY <1>2, <1>3, <1>4 DEF NothingYet, Leading, Later
<1>6. (NothingYet => LedInv)'
  BY NothingLed, PTL
<1> QED BY <1>5, <1>6

LEMMA BuildLed == SuppressInv /\ LedInv /\ Build => LedInv'
  BY BuildLeads DEF SuppressInv, RotationInv, Build

LEMMA SameLed ==
  ASSUME LedInv, UNCHANGED <<repo, graph, credentials, todo>>, phase' = phase \/ (phase = "built" /\ phase' \in Assessing)
  PROVE  LedInv'
<1>1. edges' = edges /\ nodes' = nodes /\ limitExceeded' = limitExceeded /\ Known' = Known
  BY DEF graph, Known
<1>2. /\ \A p, i : ArrowsOf(p, i)' = ArrowsOf(p, i)
      /\ \A f : MetParent(f)' <=> MetParent(f)
      /\ Early' = Early /\ EarlyNames' = EarlyNames
      /\ \A k : Shown(k)' <=> Shown(k)
  BY ArrowsStay
<1>3. /\ \A p : ItemsOf(p)' = ItemsOf(p)
      /\ \A p : Ahead(p)' = Ahead(p)
  BY GivenStays DEF Ahead
<1>4. OnlyArrows'
  BY <1>1, <1>2, <1>3 DEF LedInv, OnlyArrows, Leads, Leading
<1>5. ASSUME phase' \in Later
      PROVE  phase \in Later /\ (\A p \in Leading \cup {"findings"} : Dealt(p)' = Dealt(p))
             /\ (phase' \in Ahead("flows") => phase \in Ahead("flows"))
  <2>1. CASE phase' = phase
    BY <1>3, <1>5, <2>1 DEF Dealt, Later
  <2>2. CASE phase = "built" /\ phase' \in {"built", "done"}
    <3>1. \A p \in Leading \cup {"findings"} : phase \notin Ahead(p) /\ phase' \notin Ahead(p) /\ phase # p /\ phase' # p
      BY <2>2, PhaseNames DEF Ahead, Leading
    <3>2. "flows" \in Leading
      BY DEF Leading
    <3> QED BY <1>3, <2>2, <3>1, <3>2 DEF Dealt, Later
  <2>3. CASE phase = "built" /\ phase' = "failed"
    BY <1>5, <2>3, PhaseNames DEF Later
  <2> QED BY <2>1, <2>2, <2>3 DEF Assessing
<1>6. ASSUME phase' \in Later PROVE EarlyKnown'
  <2>1. EarlyKnown /\ Dealt("findings")' = Dealt("findings") /\ Dealt("workflows")' = Dealt("workflows")
    BY <1>5, <1>6 DEF LedInv, Later, Leading
  <2>2. \A p, i : Names(p, i)' = Names(p, i)
    BY DEF Names, Named
  <2> QED BY <1>1, <1>2, <1>3, <1>5, <1>6, <2>1, <2>2 DEF EarlyKnown
<1>7. ASSUME phase' \in Later, ~limitExceeded PROVE AllArrows'
  <2>1. AllArrows /\ \A p \in Leading \cup {"flows"} : Dealt(p)' = Dealt(p)
    BY <1>5, <1>7 DEF LedInv, Later, Leading
  <2>2. Led(edges)' = Led(edges) /\ Leading' = Leading
    BY <1>1 DEF Led, Leads, Leading
  <2> QED BY <1>1, <1>2, <2>1, <2>2 DEF AllArrows
<1> QED BY <1>1, <1>4, <1>6, <1>7 DEF LedInv, Later

LEMMA InitReach == Init => ReachInv
<1> SUFFICES ASSUME Init PROVE ReachInv
  OBVIOUS
<1>1. DOMAIN analyses = {}
  BY DEF Init, NoKeys
<1> QED BY <1>1, InitSuppress, InitLed, InitRead DEF ReachInv, ReachTaken

LEMMA StepReach == ReachInv /\ [Next]_vars => ReachInv'
<1> SUFFICES ASSUME ReachInv, [Next]_vars PROVE ReachInv'
  OBVIOUS
<1>1. SuppressInv' /\ SuppressInv /\ LedInv /\ ReadTaken /\ ReachTaken
  BY StepSuppress DEF ReachInv
<1>2. BuildInv /\ ReportTaken /\ FilesTaken /\ ScoreInv
  BY <1>1 DEF SuppressInv, RotationInv
<1> SUFFICES LedInv' /\ ReadTaken' /\ ReachTaken'
  BY <1>1 DEF ReachInv
<1>3. ASSUME phase \notin Assessing, analyses' = analyses PROVE ReachTaken'
  BY <1>2, <1>3 DEF ReachTaken, ScoreInv
<1>4. CASE Ingest
  <2>1. phase \notin Assessing /\ analyses' = analyses
    BY <1>4 DEF Ingest, Assessing
  <2> QED BY <1>1, <1>2, <1>3, <1>4, <2>1, EarlyLed, IngestRead
<1>5. CASE Prepare
  <2>1. phase \notin Assessing /\ analyses' = analyses
    BY <1>5 DEF Prepare, Assessing
  <2> QED BY <1>1, <1>2, <1>3, <1>5, <2>1, EarlyLed, PrepareRead
<1>6. CASE Build
  <2>1. BuildNext /\ UNCHANGED <<docs, analyses>>
    BY <1>6 DEF Build
  <2>2. phase \in DOMAIN NextPhase /\ phase' \in DOMAIN NextPhase \cup {"built"} /\ repo' = repo
    BY <2>1, BuildPhases
  <2>3. phase \in Later /\ phase \notin Assessing /\ phase' # "ingested"
    BY <2>2, PhaseNames DEF Later, Assessing
  <2> QED BY <1>1, <1>3, <1>6, <2>1, <2>2, <2>3, BuildLed, ReadStays
<1>7. ASSUME phase = "built", phase' \in Assessing, UNCHANGED <<repo, graph, credentials, todo, docs>>
      PROVE  LedInv' /\ ReadTaken'
  <2>1. phase \in Later /\ phase' # "ingested"
    BY <1>7 DEF Later, Assessing
  <2> QED BY <1>1, <1>7, <2>1, SameLed, ReadStays
<1>8. ASSUME NEW k \in Name, AnalyzeCredential(k) PROVE LedInv' /\ ReadTaken' /\ ReachTaken'
  <2>1. phase = "built" /\ phase' \in Assessing /\ UNCHANGED <<repo, graph, credentials, todo, docs>>
    BY <1>8 DEF AnalyzeCredential, Assessing
  <2> QED BY <1>1, <1>7, <1>8, <2>1, AnalyzeReach
<1>9. CASE Finish
  <2>1. phase = "built" /\ phase' \in Assessing /\ UNCHANGED <<repo, graph, credentials, todo, docs, analyses>>
    BY <1>9 DEF Finish, Assessing
  <2>2. UNCHANGED <<nodes, edges, docs, analyses>>
    BY <2>1 DEF graph
  <2> QED BY <1>1, <1>7, <2>1, <2>2, ReachStays
<1>10. CASE UNCHANGED vars
  <2>1. UNCHANGED <<repo, phase, graph, credentials, todo, docs, analyses, nodes, edges>>
    BY <1>10 DEF vars, buildVars, graph
  <2> QED BY <1>1, <2>1, SameLed, ReadStays, ReachStays
<1> QED BY <1>4, <1>5, <1>6, <1>8, <1>9, <1>10 DEF Next

(***************************************************************************)
(* What a credential is called after so many calls, and where it is handed *)
(* to after so many levels.                                                *)
(***************************************************************************)
LEMMA AliasesAre ==
  \A s : \E after :
    /\ after[0] = {s} /\ Aliases(s) = after[MaxReusableWorkflowHops]
    /\ \A n \in 1 .. MaxReusableWorkflowHops :
         \A a : a \in after[n] <=> a \in after[n - 1] \/ \E b \in after[n - 1] : a \in HandedOn(b)
<1> SUFFICES ASSUME NEW s
             PROVE  \E after :
                      /\ after[0] = {s} /\ Aliases(s) = after[MaxReusableWorkflowHops]
                      /\ \A n \in 1 .. MaxReusableWorkflowHops :
                           \A a : a \in after[n] <=> a \in after[n - 1] \/ \E b \in after[n - 1] : a \in HandedOn(b)
  OBVIOUS
<1> DEFINE Further(X) == X \cup UNION {HandedOn(a) : a \in X}
           N == MaxReusableWorkflowHops
           Afters(g, m) == g = [n \in 0 .. m |-> IF n = 0 THEN {s} ELSE Further(g[n - 1])]
           after == CHOOSE g : Afters(g, N)
           T == {m \in Nat : ~\E g : Afters(g, m)}
<1>1. Aliases(s) = after[N]
  BY DEF Aliases
<1> HIDE DEF Further
<1>2. N \in Nat
  BY LimitsAssumption
<1>3. T = {}
  <2> SUFFICES ASSUME T # {} PROVE FALSE
    OBVIOUS
  <2>1. PICK m \in T : \A k \in T : m <= k
    <3>1. T \in SUBSET Nat
      OBVIOUS
    <3> HIDE DEF T
    <3> QED BY <3>1, LeastNumber
  <2>2. m \in Nat /\ ~\E g : Afters(g, m)
    OBVIOUS
  <2>3. m # 0
    <3> DEFINE g == [n \in 0 .. 0 |-> {s}]
    <3>1. \A n \in 0 .. 0 : n = 0
      OBVIOUS
    <3>2. Afters(g, 0)
      BY <3>1
    <3> HIDE DEF Afters, g
    <3> QED BY <2>2, <3>2
  <2>4. m - 1 \in Nat /\ m - 1 \notin T
    <3> HIDE DEF T
    <3> QED BY <2>1, <2>2, <2>3
  <2>5. PICK g : Afters(g, m - 1)
    <3> HIDE DEF Afters
    <3> QED BY <2>4
  <2> DEFINE h == [n \in 0 .. m |-> IF n = 0 THEN {s} ELSE Further(g[n - 1])]
  <2>6. \A n \in 0 .. m - 1 : g[n] = h[n]
    <3> SUFFICES ASSUME NEW n \in 0 .. m - 1 PROVE g[n] = h[n]
      OBVIOUS
    <3>1. n \in 0 .. m
      BY <2>2
    <3>2. h[n] = IF n = 0 THEN {s} ELSE Further(g[n - 1])
      BY <3>1
    <3> HIDE DEF h, T
    <3>3. g[n] = IF n = 0 THEN {s} ELSE Further(g[n - 1])
      BY <2>5
    <3> QED BY <3>2, <3>3
  <2>7. \A n \in 0 .. m : n # 0 => n - 1 \in 0 .. m - 1
    BY <2>2
  <2>8. \A n \in 0 .. m : n # 0 => Further(g[n - 1]) = Further(h[n - 1])
    <3> HIDE DEF h
    <3> QED BY <2>6, <2>7
  <2>9. h = [n \in 0 .. m |-> IF n = 0 THEN {s} ELSE Further(h[n - 1])]
    <3> DEFINE e == [n \in 0 .. m |-> IF n = 0 THEN {s} ELSE Further(h[n - 1])]
    <3>1. \A n \in 0 .. m : e[n] = h[n]
      BY <2>8
    <3>2. h = e
      BY <3>1
    <3> HIDE DEF h
    <3> QED BY <3>2
  <2> QED BY <2>2, <2>9
<1>4. \E g : Afters(g, N)
  <2> HIDE DEF Afters
  <2> QED BY <1>2, <1>3
<1>5. Afters(after, N)
  <2> HIDE DEF Afters
  <2> QED BY <1>4
<1> HIDE DEF after
<1>6. \A n \in 0 .. N : after[n] = IF n = 0 THEN {s} ELSE Further(after[n - 1])
  BY <1>5
<1>7. \A X, a : a \in Further(X) <=> a \in X \/ \E b \in X : a \in HandedOn(b)
  BY DEF Further
<1>8. 0 \in 0 .. N /\ \A n \in 1 .. N : n \in 0 .. N /\ n # 0
  BY <1>2
<1> HIDE DEF N
<1>9. after[0] = {s} /\ \A n \in 1 .. N : after[n] = Further(after[n - 1])
  BY <1>6, <1>8
<1>10. \A n \in 1 .. N : \A a : a \in after[n] <=> a \in after[n - 1] \/ \E b \in after[n - 1] : a \in HandedOn(b)
  BY <1>7, <1>9
<1>11. /\ after[0] = {s} /\ Aliases(s) = after[N]
       /\ \A n \in 1 .. N : \A a : a \in after[n] <=> a \in after[n - 1] \/ \E b \in after[n - 1] : a \in HandedOn(b)
  BY <1>1, <1>9, <1>10
<1> QED BY <1>11 DEF N

LEMMA HandedDownAre ==
  \A s : \E level :
    /\ \A h : h \in level[1] <=> \E x \in StepsAt : Runs(StepOf(x).uses) /\ h \in HandedByStep(s, x)
    /\ \A n \in 2 .. MaxCompositeActionNestingDepth :
         \A h : h \in level[n] <=> \E g \in level[n - 1] : \E i \in Reading(g.dir, g.input) : h \in HandedByAction(g, i)
    /\ \A h : h \in HandedDown(s) <=> \E n \in 1 .. MaxCompositeActionNestingDepth : h \in level[n]
<1> SUFFICES ASSUME NEW s
             PROVE  \E level :
                      /\ \A h : h \in level[1] <=> \E x \in StepsAt : Runs(StepOf(x).uses) /\ h \in HandedByStep(s, x)
                      /\ \A n \in 2 .. MaxCompositeActionNestingDepth :
                           \A h : h \in level[n] <=>
                                    \E g \in level[n - 1] : \E i \in Reading(g.dir, g.input) : h \in HandedByAction(g, i)
                      /\ \A h : h \in HandedDown(s) <=> \E n \in 1 .. MaxCompositeActionNestingDepth : h \in level[n]
  OBVIOUS
<1> DEFINE Further(X) == UNION {UNION {HandedByAction(h, i) : i \in Reading(h.dir, h.input)} : h \in X}
           roots == UNION {HandedByStep(s, x) : x \in {y \in StepsAt : Runs(StepOf(y).uses)}}
           N == MaxCompositeActionNestingDepth
           Levels(g, m) == g = [n \in 1 .. m |-> IF n = 1 THEN roots ELSE Further(g[n - 1])]
           level == CHOOSE g : Levels(g, N)
           T == {m \in Nat : ~\E g : Levels(g, m)}
<1>1. HandedDown(s) = UNION {level[n] : n \in 1 .. N}
  BY DEF HandedDown
<1>a. \A X, f : f \in Further(X) <=> \E g \in X : \E i \in Reading(g.dir, g.input) : f \in HandedByAction(g, i)
  <2> DEFINE One(h) == UNION {HandedByAction(h, i) : i \in Reading(h.dir, h.input)}
  <2>1. \A h, f : f \in One(h) <=> \E i \in Reading(h.dir, h.input) : f \in HandedByAction(h, i)
    OBVIOUS
  <2>2. \A X : Further(X) = UNION {One(h) : h \in X}
    OBVIOUS
  <2> HIDE DEF One, Further
  <2> QED BY <2>1, <2>2
<1>b. \A h : h \in roots <=> \E x \in StepsAt : Runs(StepOf(x).uses) /\ h \in HandedByStep(s, x)
  OBVIOUS
<1> HIDE DEF Further, roots
<1>2. N \in Nat
  BY LimitsAssumption
<1>3. T = {}
  <2> SUFFICES ASSUME T # {} PROVE FALSE
    OBVIOUS
  <2>1. PICK m \in T : \A k \in T : m <= k
    <3>1. T \in SUBSET Nat
      OBVIOUS
    <3> HIDE DEF T
    <3> QED BY <3>1, LeastNumber
  <2>2. m \in Nat /\ ~\E g : Levels(g, m)
    OBVIOUS
  <2>3. m # 0
    <3> DEFINE g == [n \in 1 .. 0 |-> {}]
    <3>1. Levels(g, 0)
      OBVIOUS
    <3> HIDE DEF Levels, g
    <3> QED BY <2>2, <3>1
  <2>4. m - 1 \in Nat /\ m - 1 \notin T
    <3> HIDE DEF T
    <3> QED BY <2>1, <2>2, <2>3
  <2>5. PICK g : Levels(g, m - 1)
    <3> HIDE DEF Levels
    <3> QED BY <2>4
  <2> DEFINE h == [n \in 1 .. m |-> IF n = 1 THEN roots ELSE Further(g[n - 1])]
  <2>6. \A n \in 1 .. m - 1 : g[n] = h[n]
    BY <2>4, <2>5
  <2>7. \A n \in 1 .. m : n # 1 => n - 1 \in 1 .. m - 1
    BY <2>2
  <2>8. \A n \in 1 .. m : n # 1 => Further(g[n - 1]) = Further(h[n - 1])
    <3> HIDE DEF h
    <3> QED BY <2>6, <2>7
  <2>9. h = [n \in 1 .. m |-> IF n = 1 THEN roots ELSE Further(h[n - 1])]
    <3> DEFINE e == [n \in 1 .. m |-> IF n = 1 THEN roots ELSE Further(h[n - 1])]
    <3>1. \A n \in 1 .. m : e[n] = h[n]
      BY <2>8
    <3>2. h = e
      BY <3>1
    <3> HIDE DEF h
    <3> QED BY <3>2
  <2> QED BY <2>2, <2>9
<1>4. \E g : Levels(g, N)
  <2> HIDE DEF Levels
  <2> QED BY <1>2, <1>3
<1>5. Levels(level, N)
  <2> HIDE DEF Levels
  <2> QED BY <1>4
<1> HIDE DEF level
<1>6. \A n \in 1 .. N : level[n] = IF n = 1 THEN roots ELSE Further(level[n - 1])
  BY <1>5
<1>8. 1 \in 1 .. N /\ \A n \in 2 .. N : n \in 1 .. N /\ n # 1
  BY LimitsAssumption
<1> HIDE DEF N
<1>9. level[1] = roots /\ \A n \in 2 .. N : level[n] = Further(level[n - 1])
  BY <1>6, <1>8
<1>10. \A n \in 2 .. N : \A h : h \in level[n] <=>
          \E g \in level[n - 1] : \E i \in Reading(g.dir, g.input) : h \in HandedByAction(g, i)
  BY <1>a, <1>9
<1>11. \A h : h \in HandedDown(s) <=> \E n \in 1 .. N : h \in level[n]
  BY <1>1
<1>12. /\ \A h : h \in level[1] <=> \E x \in StepsAt : Runs(StepOf(x).uses) /\ h \in HandedByStep(s, x)
       /\ \A n \in 2 .. N : \A h : h \in level[n] <=>
            \E g \in level[n - 1] : \E i \in Reading(g.dir, g.input) : h \in HandedByAction(g, i)
       /\ \A h : h \in HandedDown(s) <=> \E n \in 1 .. N : h \in level[n]
  BY <1>b, <1>9, <1>10, <1>11
<1> QED BY <1>12 DEF N

(***************************************************************************)
(* The steps and the services that are drawn are those of the files, and   *)
(* what is drawn to them is what the files give them.                      *)
(***************************************************************************)
LEMMA StepsAre ==
  \A x : x \in StepsAt <=> \E d \in KeptWorkflows : \E k \in DOMAIN d.jobs : \E i \in DOMAIN d.jobs[k].steps : x = <<d, k, i>>
<1> DEFINE At(d, k, i) == <<d, k, i>>
           InJob(d, k) == {At(d, k, i) : i \in DOMAIN d.jobs[k].steps}
           InFile(d) == UNION {InJob(d, k) : k \in DOMAIN d.jobs}
<1>1. StepsAt = UNION {InFile(d) : d \in KeptWorkflows}
  BY DEF StepsAt
<1> SUFFICES \A x : x \in StepsAt <=>
               \E d \in KeptWorkflows : \E k \in DOMAIN d.jobs : \E i \in DOMAIN d.jobs[k].steps : x = At(d, k, i)
  OBVIOUS
<1> HIDE DEF At
<1>2. \A d, k, x : x \in InJob(d, k) <=> \E i \in DOMAIN d.jobs[k].steps : x = At(d, k, i)
  OBVIOUS
<1>3. \A d, x : x \in InFile(d) <=> \E k \in DOMAIN d.jobs : x \in InJob(d, k)
  OBVIOUS
<1> HIDE DEF InJob, InFile
<1> QED BY <1>1, <1>2, <1>3

LEMMA ServicesAre ==
  \A x : x \in ServicesAt <=> \E c \in KeptCompose : \E k \in DOMAIN c.services : x = <<c, k>>
<1> DEFINE At(c, k) == <<c, k>>
           InFile(c) == {At(c, k) : k \in DOMAIN c.services}
<1>1. ServicesAt = UNION {InFile(c) : c \in KeptCompose}
  BY DEF ServicesAt
<1> SUFFICES \A x : x \in ServicesAt <=> \E c \in KeptCompose : \E k \in DOMAIN c.services : x = At(c, k)
  OBVIOUS
<1> HIDE DEF At
<1>2. \A c, x : x \in InFile(c) <=> \E k \in DOMAIN c.services : x = At(c, k)
  OBVIOUS
<1> HIDE DEF InFile
<1> QED BY <1>1, <1>2

LEMMA ReferencesBoth == \A S, T : References(S) \cup References(T) = References(S \cup T)
<1> SUFFICES ASSUME NEW S, NEW T PROVE References(S) \cup References(T) = References(S \cup T)
  OBVIOUS
<1>1. \A X, r : r \in References(X) <=> \E t \in X : r \in extractReferences(t)
  BY DEF References
<1> QED BY <1>1

LEMMA StepNames ==
  ASSUME NEW d, NEW k, NEW i \in DOMAIN d.jobs[k].steps, d.jobs[k].uses \in Uses \cup {Absent}, NEW a, a # ""
  PROVE  LET w == parseWorkflow(d)  j == parseJob(k, d.jobs[k]) IN
         a \in Named(j.steps[i].references \cup Propagated(w, j)) <=> a \in StepHas(<<d, k, i>>)
<1> DEFINE w == parseWorkflow(d)
           j == parseJob(k, d.jobs[k])
           J == d.jobs[k]
           own == StepValues(J.steps[i])
           env == ValuesOf(J.env)
           wide == IF J.uses = Absent THEN ValuesOf(d.env) ELSE {}
<1>1. j.steps[i].references = References(own)
  BY StepTextsAre DEF parseJob, parseStep
<1>2. j.env = References(env) /\ j.uses = Action(J.uses)
  BY MentionedValues DEF parseJob
<1>3. w.env = References(ValuesOf(d.env))
  BY WorkflowReferences
<1>4. j.uses = Absent <=> J.uses = Absent
  BY <1>2, ActionRead
<1>5. References({}) = {}
  BY DEF References
<1>6. StepHas(<<d, k, i>>) = SecretsIn(own \cup env \cup wide)
  BY DEF StepHas, StepOf
<1> HIDE DEF w, j, own, env
<1>7. Inherited(w, j) = References(wide)
  BY <1>3, <1>4, <1>5 DEF Inherited
<1> HIDE DEF J, wide
<1>8. j.steps[i].references \cup Propagated(w, j) = References(own \cup env \cup wide)
  <2>1. References(own) \cup (References(wide) \cup References(env)) = References(own \cup (wide \cup env))
    <3>1. References(wide) \cup References(env) = References(wide \cup env)
      BY ReferencesBoth
    <3>2. References(own) \cup References(wide \cup env) = References(own \cup (wide \cup env))
      BY ReferencesBoth
    <3> QED BY <3>1, <3>2
  <2>2. own \cup (wide \cup env) = own \cup env \cup wide
    OBVIOUS
  <2> QED BY <1>1, <1>2, <1>7, <2>1, <2>2 DEF Propagated
<1>9. a \in Named(References(own \cup env \cup wide)) <=> a \in SecretsIn(own \cup env \cup wide)
  BY NamesInTexts
<1> QED BY <1>6, <1>8, <1>9 DEF w, j

\* A step as the report and as the graph names it.
StepPlace(x) == <<"step", x[1].file, Identifier[x[2]], x[3]>>
IsStep(n, x) == n[1] = "step" /\ <<"step", n[2], n[4], n[5]>> = StepPlace(x)

LEMMA StepArrowsAre ==
  ASSUME ReadTaken, FilesTaken, phase \in Later
  PROVE  /\ \A w \in repo.workflows : \A r \in WorkflowArrows(w) :
              \E a : \E x \in StepsAt : \E n : r = <<CredentialId(a), n, "plain">> /\ IsStep(n, x) /\ Shown(a) /\ a \in StepHas(x)
         /\ \A a : \A x \in StepsAt : Shown(a) /\ a \in StepHas(x) =>
              \E n : IsStep(n, x) /\ \E w \in repo.workflows : <<CredentialId(a), n, "plain">> \in WorkflowArrows(w)
<1>1. /\ repo.workflows = {parseWorkflow(d) : d \in KeptWorkflows} /\ docs \in Inputs
      /\ \A d \in KeptWorkflows : Parses(d)
  BY DEF FilesTaken, ReadTaken, KeptWorkflows
<1>2. \A d : \A x : x \in parseWorkflow(d).jobs <=> \E k \in DOMAIN d.jobs : x = parseJob(k, d.jobs[k])
  BY DEF parseWorkflow
<1>3. \A d : parseWorkflow(d).file = d.file
  BY ParsedFiles
<1>4. \A k, J : parseJob(k, J).id = Identifier[k] /\ DOMAIN parseJob(k, J).steps = DOMAIN J.steps
  BY DEF parseJob
<1>5. ASSUME NEW d \in KeptWorkflows, NEW k \in DOMAIN d.jobs, NEW i \in DOMAIN d.jobs[k].steps
      PROVE  /\ IsStep(StepId(parseWorkflow(d), parseJob(k, d.jobs[k]), i), <<d, k, i>>)
             /\ <<d, k, i>> \in StepsAt
             /\ \A a : a # "" => (a \in Named(parseJob(k, d.jobs[k]).steps[i].references
                                              \cup Propagated(parseWorkflow(d), parseJob(k, d.jobs[k])))
                                  <=> a \in StepHas(<<d, k, i>>))
  <2>1. d.jobs[k].uses \in Uses \cup {Absent}
    BY <1>1, UsesGiven
  <2>2. <<d, k, i>> \in StepsAt
    BY StepsAre
  <2>3. IsStep(StepId(parseWorkflow(d), parseJob(k, d.jobs[k]), i), <<d, k, i>>)
    BY <1>3, <1>4 DEF IsStep, StepId, StepPlace
  <2> QED BY <2>1, <2>2, <2>3, StepNames
<1>6. \A a : Shown(a) => a # ""
  BY DEF Shown
<1>7. ASSUME NEW w \in repo.workflows, NEW r \in WorkflowArrows(w)
      PROVE  \E a : \E x \in StepsAt : \E n :
               r = <<CredentialId(a), n, "plain">> /\ IsStep(n, x) /\ Shown(a) /\ a \in StepHas(x)
  <2>1. PICK d \in KeptWorkflows : w = parseWorkflow(d)
    BY <1>1
  <2>2. PICK j \in w.jobs : r \in JobArrows(w, j)
    BY DEF WorkflowArrows
  <2>3. PICK k \in DOMAIN d.jobs : j = parseJob(k, d.jobs[k])
    BY <1>2, <2>1, <2>2
  <2>4. PICK i \in DOMAIN j.steps : r \in StepArrows(w, j, i)
    BY <2>2 DEF JobArrows
  <2>5. i \in DOMAIN d.jobs[k].steps
    BY <1>4, <2>3, <2>4
  <2>6. PICK a \in Named(j.steps[i].references \cup Propagated(w, j)) :
          Shown(a) /\ r = <<CredentialId(a), StepId(w, j, i), "plain">>
    BY <2>4 DEF StepArrows, LedTo
  <2>7. a \in StepHas(<<d, k, i>>) /\ IsStep(StepId(w, j, i), <<d, k, i>>) /\ <<d, k, i>> \in StepsAt
    BY <1>5, <1>6, <2>1, <2>3, <2>5, <2>6
  <2> QED BY <2>6, <2>7
<1>8. ASSUME NEW a, NEW x \in StepsAt, Shown(a), a \in StepHas(x)
      PROVE  \E n : IsStep(n, x) /\ \E w \in repo.workflows : <<CredentialId(a), n, "plain">> \in WorkflowArrows(w)
  <2>1. PICK d \in KeptWorkflows : \E k \in DOMAIN d.jobs : \E i \in DOMAIN d.jobs[k].steps : x = <<d, k, i>>
    BY StepsAre
  <2>2. PICK k \in DOMAIN d.jobs : \E i \in DOMAIN d.jobs[k].steps : x = <<d, k, i>>
    BY <2>1
  <2>3. PICK i \in DOMAIN d.jobs[k].steps : x = <<d, k, i>>
    BY <2>2
  <2> DEFINE w == parseWorkflow(d)
             j == parseJob(k, d.jobs[k])
  <2>4. w \in repo.workflows /\ j \in w.jobs /\ i \in DOMAIN j.steps
    BY <1>1, <1>2, <1>4
  <2>5. IsStep(StepId(w, j, i), x) /\ a \in Named(j.steps[i].references \cup Propagated(w, j))
    BY <1>5, <1>6, <1>8, <2>3
  <2> HIDE DEF w, j
  <2>6. <<CredentialId(a), StepId(w, j, i), "plain">> \in StepArrows(w, j, i)
    BY <1>8, <2>5 DEF StepArrows, LedTo
  <2>7. <<CredentialId(a), StepId(w, j, i), "plain">> \in WorkflowArrows(w)
    BY <2>4, <2>6 DEF WorkflowArrows, JobArrows
  <2> QED BY <2>4, <2>5, <2>7
<1> QED BY <1>7, <1>8

ServicePlace(x) == <<"service", x[1].file, Identifier[x[2]]>>
HeldBy(x)       == ServiceHas(x[1].services[x[2]])

LEMMA ServiceArrowsAre ==
  ASSUME FilesTaken, phase \in Later
  PROVE  /\ \A c \in repo.compose : \A r \in ComposeArrows(c) :
              \E a : \E x \in ServicesAt : r = <<CredentialId(a), ServicePlace(x), "plain">> /\ Shown(a) /\ a \in HeldBy(x)
         /\ \A a : \A x \in ServicesAt : Shown(a) /\ a \in HeldBy(x) =>
              \E c \in repo.compose : <<CredentialId(a), ServicePlace(x), "plain">> \in ComposeArrows(c)
<1>1. repo.compose = {parseCompose(c) : c \in KeptCompose}
  BY DEF FilesTaken
<1>2. \A c : \A s : s \in parseCompose(c).services <=> \E k \in DOMAIN c.services : s = parseService(k, c.services[k])
  BY DEF parseCompose
<1>3. \A c : parseCompose(c).file = c.file
  BY ParsedFiles
<1>4. \A k, s : parseService(k, s).name = Identifier[k] /\ parseService(k, s).references = collectServiceReferences(s)
  BY DEF parseService
<1>5. \A a, s : a # "" => (a \in Named(collectServiceReferences(s)) <=> a \in ServiceHas(s))
  BY ServiceRead
<1>6. ASSUME NEW c, NEW k \in DOMAIN c.services
      PROVE  /\ ServiceId(parseCompose(c), parseService(k, c.services[k])) = ServicePlace(<<c, k>>)
             /\ HeldBy(<<c, k>>) = ServiceHas(c.services[k])
  BY <1>3, <1>4 DEF ServiceId, ServicePlace, HeldBy
<1>7. \A a : Shown(a) => a # ""
  BY DEF Shown
<1>8. ASSUME NEW p \in repo.compose, NEW r \in ComposeArrows(p)
      PROVE  \E a : \E x \in ServicesAt : r = <<CredentialId(a), ServicePlace(x), "plain">> /\ Shown(a) /\ a \in HeldBy(x)
  <2>1. PICK c \in KeptCompose : p = parseCompose(c)
    BY <1>1
  <2>2. PICK s \in p.services : r \in ServiceArrows(p, s)
    BY DEF ComposeArrows
  <2>3. PICK k \in DOMAIN c.services : s = parseService(k, c.services[k])
    BY <1>2, <2>1, <2>2
  <2>4. PICK a \in Named(s.references) : Shown(a) /\ r = <<CredentialId(a), ServiceId(p, s), "plain">>
    BY <2>2 DEF ServiceArrows, LedTo
  <2>5. a \in HeldBy(<<c, k>>) /\ ServiceId(p, s) = ServicePlace(<<c, k>>) /\ <<c, k>> \in ServicesAt
    <3>1. ServiceId(p, s) = ServicePlace(<<c, k>>) /\ HeldBy(<<c, k>>) = ServiceHas(c.services[k])
      BY <1>6, <2>1, <2>3
    <3>2. a # "" /\ a \in Named(collectServiceReferences(c.services[k]))
      BY <1>4, <1>7, <2>3, <2>4
    <3>3. a \in ServiceHas(c.services[k])
      BY <1>5, <3>2
    <3>4. <<c, k>> \in ServicesAt
      BY <2>1, ServicesAre
    <3> QED BY <3>1, <3>3, <3>4
  <2> QED BY <2>4, <2>5
<1>9. ASSUME NEW a, NEW x \in ServicesAt, Shown(a), a \in HeldBy(x)
      PROVE  \E c \in repo.compose : <<CredentialId(a), ServicePlace(x), "plain">> \in ComposeArrows(c)
  <2>1. PICK c \in KeptCompose : \E k \in DOMAIN c.services : x = <<c, k>>
    BY ServicesAre
  <2>2. PICK k \in DOMAIN c.services : x = <<c, k>>
    BY <2>1
  <2> DEFINE p == parseCompose(c)
             s == parseService(k, c.services[k])
  <2>3. p \in repo.compose /\ s \in p.services
    BY <1>1, <1>2
  <2>4. ServiceId(p, s) = ServicePlace(x) /\ a \in Named(s.references)
    BY <1>4, <1>5, <1>6, <1>7, <1>9, <2>2
  <2> HIDE DEF p, s
  <2>5. <<CredentialId(a), ServiceId(p, s), "plain">> \in ServiceArrows(p, s)
    BY <1>9, <2>4 DEF ServiceArrows, LedTo
  <2> QED BY <2>3, <2>4, <2>5 DEF ComposeArrows
<1> QED BY <1>8, <1>9

(***************************************************************************)
(* What a job hands on to the workflow it calls, in the files and in the   *)
(* graph.                                                                  *)
(***************************************************************************)
Follows(s, a) ==
  \E w \in repo.workflows : \E j \in w.jobs : \E b \in j.secrets :
    Declared(w, j, b) /\ Aliased(b) /\ SourceOf(b).key = s /\ Upper[b.name] = a

LEMMA ShownIs ==
  ASSUME docs \in Inputs, FilesTaken, phase \in Later
  PROVE  \A k : Shown(k) <=> k # "" /\ ~IgnoredKey(k)
<1>1. repo.ignoredVariables = IgnoredKeys(options.ignoreVariables)
  BY DEF FilesTaken
<1> QED BY <1>1, IgnoredAreNamed DEF Shown

LEMMA EarlyIsKnown ==
  ASSUME ReadTaken, FilesTaken, phase \in Later
  PROVE  Early = KnownAliases
<1> DEFINE A == {Upper[f.label] : f \in repo.findings}
           B == UNION {Named(w.references) : w \in repo.workflows}
           Texts == UNION {MentionedIn(d) : d \in KeptWorkflows}
<1>1. A = Leaked
  BY LeakedAreReported DEF ReadTaken
<1>2. ASSUME NEW k, k # "" PROVE k \in B <=> k \in Texts
  <2>1. repo.workflows = {parseWorkflow(d) : d \in KeptWorkflows}
    BY DEF FilesTaken
  <2>2. \A d : k \in Named(parseWorkflow(d).references) <=> k \in MentionedIn(d)
    BY <1>2, WorkflowReferences, NamesInTexts DEF MentionedIn, TextsOf
  <2>3. k \in B <=> \E d \in KeptWorkflows : k \in Named(parseWorkflow(d).references)
    BY <2>1
  <2> QED BY <2>2, <2>3
<1>3. \A k : Shown(k) <=> k # "" /\ ~IgnoredKey(k)
  BY ShownIs DEF ReadTaken
<1>4. Early = {k \in A \cup B : Shown(k)} /\ KnownAliases = {k \in Leaked \cup Texts : k # "" /\ ~IgnoredKey(k)}
  BY DEF Early, EarlyNames, KnownAliases
<1> HIDE DEF A, B, Texts
<1> QED BY <1>1, <1>2, <1>3, <1>4

\* The secret that a value mentions, if it mentions one.
LEMMA OneSecret ==
  ASSUME NEW t, IsFiniteSet(t.expressions), NEW b, b.references = extractReferences(t), NEW s
  PROVE  Single(b) /\ SourceOf(b).key = s <=> \E m \in NamesIn(t) : NamesIn(t) = {m} /\ Upper[m] = s
<1> DEFINE Ref(n) == [kind |-> "secret", name |-> n]
           NameOf(e) == Identifier[Head(e).member]
           X == {e \in t.expressions : Head(e).context = "secrets"}
           E == {e \in X : NameOf(e) # ""}
<1>1. NamesIn(t) = {NameOf(e) : e \in E}
  BY DEF NamesIn
<1>2. \A r : r \in SecretsOf(b) <=> \E n \in NamesIn(t) : r = Ref(n)
  <2> DEFINE Heads == {Head(e) : e \in t.expressions}
             KindOf(m) == CASE m.context = "secrets" -> "secret"
                            [] m.context = "env"     -> "environment"
                            [] OTHER                 -> "github_context"
             R(m) == [kind |-> KindOf(m), name |-> Identifier[m.member]]
             M == {x \in Heads : x.context # "call" /\ Identifier[x.member] # ""}
  <2>1. extractReferences(t) = {R(m) : m \in M}
    BY DEF extractReferences
  <2>2. \A m : /\ R(m).kind = "secret" <=> m.context = "secrets"
               /\ m.context = "secrets" => R(m) = Ref(Identifier[m.member])
    OBVIOUS
  <2> HIDE DEF R, KindOf
  <2>3. \A r : r \in SecretsOf(b) <=> \E m \in M : m.context = "secrets" /\ r = Ref(Identifier[m.member])
    <3> HIDE DEF M
    <3>1. SecretsOf(b) = {r \in {R(m) : m \in M} : r.kind = "secret"}
      BY <2>1 DEF SecretsOf
    <3>2. \A r : r \in SecretsOf(b) <=> \E m \in M : r = R(m) /\ m.context = "secrets"
      BY <2>2, <3>1
    <3> HIDE DEF Ref
    <3> QED BY <2>2, <3>2
  <2>4. \A m : m \in M /\ m.context = "secrets" <=> \E e \in E : m = Head(e)
    OBVIOUS
  <2>5. \A n : n \in NamesIn(t) <=> \E m \in M : m.context = "secrets" /\ n = Identifier[m.member]
    <3>1. \A n : n \in NamesIn(t) <=> \E e \in E : n = Identifier[Head(e).member]
      BY <1>1
    <3> HIDE DEF E, M
    <3> QED BY <2>4, <3>1
  <2> HIDE DEF Ref, M, E
  <2> QED BY <2>3, <2>5
<1>3. \A n : Ref(n).name = n /\ Ref(n).kind = "secret"
  OBVIOUS
<1> HIDE DEF Ref
<1>4. IsFiniteSet(NamesIn(t))
  <2>1. IsFiniteSet(E)
    BY FS_Subset
  <2>2. [e \in E |-> NameOf(e)] \in [E -> NamesIn(t)] /\ \A n \in NamesIn(t) : \E e \in E : [x \in E |-> NameOf(x)][e] = n
    BY <1>1
  <2> HIDE DEF E, NameOf
  <2> QED BY <2>1, <2>2, FiniteImage
<1>5. IsFiniteSet(SecretsOf(b))
  <2> DEFINE f == [n \in NamesIn(t) |-> Ref(n)]
  <2>1. f \in [NamesIn(t) -> SecretsOf(b)] /\ \A r \in SecretsOf(b) : \E n \in NamesIn(t) : f[n] = r
    BY <1>2
  <2> HIDE DEF f
  <2> QED BY <1>4, <2>1, FiniteImage
<1>6. Single(b) <=> \E r : SecretsOf(b) = {r}
  BY <1>5, FS_Singleton DEF Single
<1>7. \A r : SecretsOf(b) = {r} => SourceOf(b).key = Upper[r.name]
  BY DEF SourceOf, UseOf
<1>8. \A n : NamesIn(t) = {n} => SecretsOf(b) = {Ref(n)}
  BY <1>2
<1>9. ASSUME NEW r, SecretsOf(b) = {r} PROVE NamesIn(t) = {r.name}
  <2>1. PICK n \in NamesIn(t) : r = Ref(n)
    BY <1>2, <1>9
  <2>2. \A m \in NamesIn(t) : Ref(m) = r
    BY <1>2, <1>9
  <2> QED BY <1>3, <2>1, <2>2
<1> HIDE DEF NameOf, X, E
<1>10. ASSUME NEW m \in NamesIn(t), NamesIn(t) = {m}, Upper[m] = s PROVE Single(b) /\ SourceOf(b).key = s
  <2>1. SecretsOf(b) = {Ref(m)}
    BY <1>8, <1>10
  <2>2. Single(b)
    BY <1>6, <2>1
  <2>3. SourceOf(b).key = Upper[Ref(m).name]
    BY <1>7, <2>1
  <2> QED BY <1>3, <1>10, <2>2, <2>3
<1>11. ASSUME Single(b), SourceOf(b).key = s PROVE \E m \in NamesIn(t) : NamesIn(t) = {m} /\ Upper[m] = s
  <2>1. PICK r : SecretsOf(b) = {r}
    BY <1>6, <1>11
  <2> QED BY <1>7, <1>9, <1>11, <2>1
<1> QED BY <1>10, <1>11

\* The contract of a workflow that may be called.
Offers(u, n) ==
  \E t \in KeptWorkflows : /\ t.file = u.target /\ "workflow_call" \in Given(t.on, {})
                           /\ \E c \in Given(t.call, {}) : Identifier[c] = n

LEMMA CallIs ==
  ASSUME ReadTaken, FilesTaken, phase \in Later, JobsApart,
         NEW d \in KeptWorkflows, NEW k \in DOMAIN d.jobs
  PROVE  LET w == parseWorkflow(d)  j == parseJob(k, d.jobs[k])  u == d.jobs[k].uses IN
         /\ u = Absent => CallsOf(w, j) = {}
         /\ u # Absent => CallOf(w, j) = [workflow |-> d.file, job |-> Identifier[k], raw |-> u.raw,
                                          status |-> resolveCall(u, repo.workflows), target |-> u.target]
<1> DEFINE w == parseWorkflow(d)
           j == parseJob(k, d.jobs[k])
           u == d.jobs[k].uses
           W == repo.workflows
           Rec(x) == [workflow |-> x[1].file, job |-> x[2].id, raw |-> x[2].uses.uses.raw,
                      status |-> resolveCall(x[2].uses.uses, W), target |-> x[2].uses.uses.target]
           Own(f, i, v) == [workflow |-> f, job |-> i, raw |-> v.raw, status |-> resolveCall(v, W), target |-> v.target]
<1>1. /\ W = {parseWorkflow(x) : x \in KeptWorkflows} /\ docs \in Inputs
      /\ \A x \in KeptWorkflows : Parses(x)
      /\ repo.calls = ResolveJobs(W)
  BY DEF FilesTaken, ReadTaken, KeptWorkflows
<1>2. \A x : x \in JobsOf(W) <=> \E e \in KeptWorkflows : \E l \in DOMAIN e.jobs : x = <<parseWorkflow(e), parseJob(l, e.jobs[l])>>
  <2>1. \A x : x \in JobsOf({parseWorkflow(y) : y \in KeptWorkflows})
                 <=> \E e \in KeptWorkflows : \E l \in DOMAIN e.jobs : x = <<parseWorkflow(e), parseJob(l, e.jobs[l])>>
    BY JobsRead
  <2> QED BY <1>1, <2>1
<1>3. \A x, y \in KeptWorkflows : x.file = y.file => x = y
  BY <1>1, FilesAssumption DEF KeptWorkflows
<1>4. \A c : c \in repo.calls <=> \E x \in JobsOf(W) : x[2].uses # Absent /\ c = Rec(x)
  BY <1>1 DEF ResolveJobs
<1>5. \A l, J : parseJob(l, J).id = Identifier[l] /\ parseJob(l, J).uses = Action(J.uses)
  BY DEF parseJob
<1>6. ASSUME NEW e \in KeptWorkflows, NEW l \in DOMAIN e.jobs
      PROVE  LET v == e.jobs[l].uses  y == parseJob(l, e.jobs[l]) IN
             /\ y.uses # Absent <=> v # Absent
             /\ v # Absent => v \in Uses /\ Rec(<<parseWorkflow(e), y>>) = Own(e.file, Identifier[l], v)
  <2>1. e.jobs[l].uses \in Uses \cup {Absent}
    BY <1>1, UsesGiven
  <2>2. parseWorkflow(e).file = e.file
    BY ParsedFiles
  <2>3. CASE e.jobs[l].uses = Absent
    BY <1>5, <2>3, ActionRead
  <2>4. CASE e.jobs[l].uses # Absent
    <3> DEFINE y == parseJob(l, e.jobs[l])
    <3>1. y.uses # Absent /\ y.uses.uses = e.jobs[l].uses /\ y.id = Identifier[l]
      BY <1>5, <2>1, <2>4, ActionRead
    <3> HIDE DEF y
    <3>2. Rec(<<parseWorkflow(e), y>>) = Own(e.file, Identifier[l], e.jobs[l].uses)
      BY <2>2, <3>1
    <3> QED BY <2>1, <2>4, <3>1, <3>2 DEF y
  <2> QED BY <2>3, <2>4
<1>7. w.file = d.file /\ j.id = Identifier[k]
  BY <1>5, ParsedFiles
<1>8. \A c : c \in CallsOf(w, j) <=> c \in repo.calls /\ c.workflow = d.file /\ c.job = Identifier[k]
  BY <1>7 DEF CallsOf
<1>9. ASSUME NEW c \in CallsOf(w, j) PROVE u # Absent /\ c = Own(d.file, Identifier[k], u)
  <2>1. PICK x \in JobsOf(W) : x[2].uses # Absent /\ c = Rec(x)
    BY <1>4, <1>8
  <2>2. PICK e \in KeptWorkflows : \E l \in DOMAIN e.jobs : x = <<parseWorkflow(e), parseJob(l, e.jobs[l])>>
    BY <1>2
  <2>3. PICK l \in DOMAIN e.jobs : x = <<parseWorkflow(e), parseJob(l, e.jobs[l])>>
    BY <2>2
  <2>4. e.jobs[l].uses # Absent /\ c = Own(e.file, Identifier[l], e.jobs[l].uses)
    <3> HIDE DEF Rec, Own
    <3>1. x[2] = parseJob(l, e.jobs[l])
      BY <2>3
    <3> QED BY <1>6, <2>1, <2>3, <3>1
  <2>5. c.workflow = e.file /\ c.job = Identifier[l]
    BY <2>4
  <2>6. e = d
    BY <1>3, <1>8, <2>5
  <2>7. l = k
    BY <1>8, <2>5, <2>6 DEF JobsApart
  <2> HIDE DEF Own
  <2> QED BY <2>4, <2>6, <2>7
<1>10. CASE u = Absent
  BY <1>9, <1>10
<1>11. CASE u # Absent
  <2>1. Own(d.file, Identifier[k], u) \in CallsOf(w, j)
    <3>1. <<w, j>> \in JobsOf(W) /\ <<w, j>>[2].uses # Absent /\ Rec(<<w, j>>) = Own(d.file, Identifier[k], u)
      <4> HIDE DEF Rec, Own
      <4>1. <<w, j>> \in JobsOf(W)
        BY <1>2
      <4>2. j.uses # Absent /\ Rec(<<w, j>>) = Own(d.file, Identifier[k], u)
        BY <1>6, <1>11
      <4> QED BY <4>1, <4>2
    <3>2. Own(d.file, Identifier[k], u) \in repo.calls
      <4> HIDE DEF Rec, Own
      <4> QED BY <1>4, <3>1
    <3> QED BY <1>8, <3>2
  <2>2. CallsOf(w, j) = {Own(d.file, Identifier[k], u)}
    <3> HIDE DEF Own
    <3> QED BY <1>9, <2>1
  <2>3. u.raw \in Nat /\ Own(d.file, Identifier[k], u).raw = u.raw
    BY <1>6, <1>11 DEF Uses
  <2>4. CallOf(w, j) = Own(d.file, Identifier[k], u)
    <3> HIDE DEF Own, w, j, u
    <3>1. \A c \in CallsOf(w, j) : c.raw <= c.raw
      BY <2>2, <2>3
    <3>2. LastOf(CallsOf(w, j)) = Own(d.file, Identifier[k], u)
      BY <2>2, <2>3, <3>1 DEF LastOf
    <3> QED BY <2>2, <3>2 DEF CallOf
  <2> QED BY <1>11, <2>4
<1> QED BY <1>10, <1>11

LEMMA DeclaredIs ==
  ASSUME ReadTaken, FilesTaken, phase \in Later, JobsApart,
         NEW d \in KeptWorkflows, NEW k \in DOMAIN d.jobs, NEW b
  PROVE  LET u == d.jobs[k].uses IN
         Declared(parseWorkflow(d), parseJob(k, d.jobs[k]), b) <=> u # Absent /\ u.class = "local" /\ Offers(u, b.name)
<1> DEFINE w == parseWorkflow(d)
           j == parseJob(k, d.jobs[k])
           u == d.jobs[k].uses
           W == repo.workflows
<1>1. /\ W = {parseWorkflow(x) : x \in KeptWorkflows} /\ docs \in Inputs
      /\ \A x \in KeptWorkflows : Parses(x)
  BY DEF FilesTaken, ReadTaken, KeptWorkflows
<1>2. /\ u = Absent => CallsOf(w, j) = {}
      /\ u # Absent => /\ CallOf(w, j).status = resolveCall(u, W) /\ CallOf(w, j).target = u.target
                       /\ u \in Uses
  <2>1. u \in Uses \cup {Absent}
    BY <1>1, UsesGiven
  <2>2. /\ u = Absent => CallsOf(w, j) = {}
        /\ u # Absent => CallOf(w, j) = [workflow |-> d.file, job |-> Identifier[k], raw |-> u.raw,
                                         status |-> resolveCall(u, W), target |-> u.target]
    BY CallIs
  <2> HIDE DEF w, j, u, W
  <2> QED BY <2>1, <2>2
<1>3. ASSUME NEW t \in KeptWorkflows
      PROVE  /\ parseWorkflow(t).file = t.file /\ parseWorkflow(t).triggers = Given(t.on, {})
             /\ parseWorkflow(t).call # Absent <=> "workflow_call" \in Given(t.on, {})
             /\ \A n : "workflow_call" \in Given(t.on, {}) =>
                         (n \in parseWorkflow(t).call <=> \E c \in Given(t.call, {}) : Identifier[c] = n)
  <2> DEFINE C == {Identifier[c] : c \in Given(t.call, {})}
  <2>1. t \in docs.workflows /\ t.call # Malformed
    BY <1>1 DEF Parses, WorkflowFails
  <2>2. C # Absent
    BY <1>1, <2>1, ValuesAssumption
  <2>3. parseWorkflow(t).call = IF "workflow_call" \in Given(t.on, {}) THEN C ELSE Absent
    BY DEF parseWorkflow, parseWorkflowCallContract
  <2>4. \A n : n \in C <=> \E c \in Given(t.call, {}) : Identifier[c] = n
    OBVIOUS
  <2>5. parseWorkflow(t).file = t.file /\ parseWorkflow(t).triggers = Given(t.on, {})
    BY DEF parseWorkflow
  <2> HIDE DEF C
  <2> QED BY <2>2, <2>3, <2>4, <2>5
<1> HIDE DEF w, j, u, W
<1>4. Resolved(w, j) => u # Absent
  BY <1>2 DEF Resolved, CallOf
<1>5. ASSUME u # Absent
      PROVE  Resolved(w, j) <=> u.class = "local" /\ \E t \in W : t.file = u.target /\ "workflow_call" \in t.triggers
  <2>1. u.class \in UsesClass
    BY <1>2, <1>5 DEF Uses
  <2> DEFINE target == {t \in W : t.file = u.target}
  <2>2. resolveCall(u, W) = "resolved_local" <=> u.class = "local" /\ \E t \in target : "workflow_call" \in t.triggers
    <3>1. resolveCall(u, W) =
            CASE u.class = "expression"             -> "unsupported_expression"
              [] u.class \in {"external", "docker"} -> "opaque_external"
              [] u.class = "rejected"               -> "rejected_path"
              [] u.class = "local" /\ target = {}   -> "target_missing"
              [] u.class = "local" /\ target # {}   ->
                   IF \E t \in target : "workflow_call" \in t.triggers THEN "resolved_local" ELSE "target_not_reusable"
      BY DEF resolveCall
    <3> HIDE DEF target
    <3>2. CASE u.class = "local"
      <4>1. CASE target = {}
        BY <3>1, <3>2, <4>1
      <4>2. CASE target # {}
        BY <3>1, <3>2, <4>2
      <4> QED BY <4>1, <4>2
    <3>3. CASE u.class # "local"
      BY <2>1, <3>1, <3>3 DEF UsesClass
    <3> QED BY <3>2, <3>3
  <2>3. Resolved(w, j) <=> resolveCall(u, W) = "resolved_local"
    BY <1>2, <1>5 DEF Resolved
  <2> QED BY <2>2, <2>3
<1>6. \A t : t \in TargetsOf(w, j) <=> t \in W /\ Resolved(w, j) /\ t.file = CallOf(w, j).target
  BY DEF TargetsOf, W
<1>7. ASSUME Declared(w, j, b) PROVE u # Absent /\ u.class = "local" /\ Offers(u, b.name)
  <2>1. PICK t \in TargetsOf(w, j) : t.call # Absent /\ b.name \in t.call
    BY <1>7 DEF Declared
  <2>2. t \in W /\ Resolved(w, j) /\ u # Absent /\ u.class = "local" /\ t.file = u.target
    BY <1>2, <1>4, <1>5, <1>6, <2>1
  <2>3. PICK x \in KeptWorkflows : t = parseWorkflow(x)
    BY <1>1, <2>2 DEF W
  <2>4. x.file = u.target /\ "workflow_call" \in Given(x.on, {}) /\ \E c \in Given(x.call, {}) : Identifier[c] = b.name
    BY <1>3, <2>1, <2>2, <2>3
  <2> QED BY <2>2, <2>4 DEF Offers
<1>8. ASSUME u # Absent, u.class = "local", Offers(u, b.name) PROVE Declared(w, j, b)
  <2>1. PICK x \in KeptWorkflows : /\ x.file = u.target /\ "workflow_call" \in Given(x.on, {})
                                   /\ \E c \in Given(x.call, {}) : Identifier[c] = b.name
    BY <1>8 DEF Offers
  <2> DEFINE t == parseWorkflow(x)
  <2>2. t \in W /\ t.file = u.target /\ "workflow_call" \in t.triggers /\ t.call # Absent /\ b.name \in t.call
    BY <1>1, <1>3, <2>1 DEF W
  <2> HIDE DEF t
  <2>3. Resolved(w, j)
    BY <1>5, <1>8, <2>2
  <2>4. t \in TargetsOf(w, j)
    BY <1>2, <1>6, <1>8, <2>2, <2>3
  <2> QED BY <2>2, <2>4 DEF Declared
<1> QED BY <1>7, <1>8 DEF w, j, u

\* The bindings of a job's secrets, one for each that it names.
SecretAs(J, n) == [name |-> Identifier[n], value |-> J.secrets[n], references |-> extractReferences(J.secrets[n])]

LEMMA SecretsRead ==
  \A k, J, b : b \in parseJob(k, J).secrets <=>
                 J.secrets \notin {Absent, Inherit} /\ \E n \in DOMAIN J.secrets : b = SecretAs(J, n)
<1> SUFFICES ASSUME NEW k, NEW J, NEW b
             PROVE  b \in parseJob(k, J).secrets <=>
                      J.secrets \notin {Absent, Inherit} /\ \E n \in DOMAIN J.secrets : b = SecretAs(J, n)
  OBVIOUS
<1>1. parseJob(k, J).secrets = IF J.secrets \in {Absent, Inherit} THEN {} ELSE Bindings(J.secrets)
  BY DEF parseJob
<1>2. Bindings(J.secrets) = {SecretAs(J, n) : n \in DOMAIN J.secrets}
  BY DEF Bindings, SecretAs
<1>3. b \in Bindings(J.secrets) <=> \E n \in DOMAIN J.secrets : b = SecretAs(J, n)
  BY <1>2
<1> QED BY <1>1, <1>3

LEMMA HandsOnIs ==
  ASSUME ReadTaken, FilesTaken, phase \in Later, JobsApart,
         NEW d \in KeptWorkflows, NEW k \in DOMAIN d.jobs, NEW s, Shown(s), NEW a
  PROVE  LET w == parseWorkflow(d)  j == parseJob(k, d.jobs[k]) IN
         (\E b \in j.secrets : Declared(w, j, b) /\ Aliased(b) /\ SourceOf(b).key = s /\ Upper[b.name] = a)
         <=> a \in KnownAliases \ {s} /\ HandsOn(d.jobs[k], s, a)
<1> DEFINE w == parseWorkflow(d)
           j == parseJob(k, d.jobs[k])
           J == d.jobs[k]
           u == J.uses
<1>1. docs \in Inputs /\ Parses(d)
  BY DEF ReadTaken, KeptWorkflows
<1>2. ~JobFails(J) /\ d \in docs.workflows /\ d.jobs \notin {Absent, Malformed}
  BY <1>1, UsesGiven DEF Parses, WorkflowFails
<1>3. J.secrets \notin {Absent, Inherit} => \A n \in DOMAIN J.secrets : IsFiniteSet(J.secrets[n].expressions)
  BY <1>1, <1>2, ValuesAssumption DEF JobFails
<1>4. \A b : Declared(w, j, b) <=> u # Absent /\ u.class = "local" /\ Offers(u, b.name)
  BY DeclaredIs
<1>5. \A b : b \in j.secrets <=> J.secrets \notin {Absent, Inherit} /\ \E n \in DOMAIN J.secrets : b = SecretAs(J, n)
  BY SecretsRead
<1>6. ASSUME NEW n \in DOMAIN J.secrets, J.secrets \notin {Absent, Inherit}
      PROVE  /\ SecretAs(J, n).name = Identifier[n]
             /\ Single(SecretAs(J, n)) /\ SourceOf(SecretAs(J, n)).key = s
                  <=> \E m \in NamesIn(J.secrets[n]) : NamesIn(J.secrets[n]) = {m} /\ Upper[m] = s
  <2> DEFINE b == SecretAs(J, n)
             t == J.secrets[n]
  <2>1. b.name = Identifier[n] /\ b.references = extractReferences(t)
    BY DEF SecretAs
  <2>2. IsFiniteSet(t.expressions)
    BY <1>3, <1>6
  <2> HIDE DEF b, t
  <2>3. Single(b) /\ SourceOf(b).key = s <=> \E m \in NamesIn(t) : NamesIn(t) = {m} /\ Upper[m] = s
    BY <2>1, <2>2, OneSecret
  <2> QED BY <2>1, <2>3 DEF b, t
<1>7. Early = KnownAliases
  BY EarlyIsKnown
<1>8. \A n : Offers(u, Identifier[n]) <=>
        \E t \in KeptWorkflows : /\ t.file = J.uses.target /\ "workflow_call" \in Given(t.on, {})
                                 /\ \E c \in Given(t.call, {}) : Identifier[c] = Identifier[n]
  BY DEF Offers
<1>9. HandsOn(J, s, a) <=>
        /\ J.secrets \notin {Absent, Inherit} /\ u # Absent /\ u.class = "local"
        /\ \E n \in DOMAIN J.secrets :
             /\ Upper[Identifier[n]] = a
             /\ \E m \in NamesIn(J.secrets[n]) : NamesIn(J.secrets[n]) = {m} /\ Upper[m] = s
             /\ Offers(u, Identifier[n])
  BY <1>8 DEF HandsOn, KeyOf
<1> HIDE DEF w, j, J, u
<1>10. ASSUME NEW b \in j.secrets, Declared(w, j, b), Aliased(b), SourceOf(b).key = s, Upper[b.name] = a
       PROVE  a \in KnownAliases \ {s} /\ HandsOn(J, s, a)
  <2>1. PICK n \in DOMAIN J.secrets : b = SecretAs(J, n) /\ J.secrets \notin {Absent, Inherit}
    BY <1>5, <1>10
  <2>2. Single(b) /\ a \in Early /\ s # a
    BY <1>10 DEF Aliased
  <2>3. u # Absent /\ u.class = "local" /\ Offers(u, b.name)
    BY <1>4, <1>10
  <2>4. b.name = Identifier[n]
    BY <1>6, <2>1
  <2>5. \E m \in NamesIn(J.secrets[n]) : NamesIn(J.secrets[n]) = {m} /\ Upper[m] = s
    BY <1>6, <1>10, <2>1, <2>2
  <2>6. HandsOn(J, s, a)
    BY <1>9, <1>10, <2>1, <2>3, <2>4, <2>5
  <2> QED BY <1>7, <2>2, <2>6
<1>11. ASSUME a \in KnownAliases \ {s}, HandsOn(J, s, a)
       PROVE  \E b \in j.secrets : Declared(w, j, b) /\ Aliased(b) /\ SourceOf(b).key = s /\ Upper[b.name] = a
  <2>1. J.secrets \notin {Absent, Inherit} /\ u # Absent /\ u.class = "local"
    BY <1>9, <1>11
  <2>2. PICK n \in DOMAIN J.secrets :
             /\ Upper[Identifier[n]] = a
             /\ \E m \in NamesIn(J.secrets[n]) : NamesIn(J.secrets[n]) = {m} /\ Upper[m] = s
             /\ Offers(u, Identifier[n])
    BY <1>9, <1>11
  <2> DEFINE b == SecretAs(J, n)
  <2>3. b \in j.secrets
    BY <1>5, <2>1
  <2>4. b.name = Identifier[n] /\ Single(b) /\ SourceOf(b).key = s
    BY <1>6, <2>1, <2>2
  <2> HIDE DEF b
  <2>5. Declared(w, j, b)
    BY <1>4, <2>1, <2>2, <2>4
  <2>6. Aliased(b)
    BY <1>7, <1>11, <2>2, <2>4 DEF Aliased
  <2> QED BY <2>2, <2>3, <2>4, <2>5, <2>6
<1> QED BY <1>10, <1>11 DEF w, j, J

LEMMA FollowsIs ==
  ASSUME ReadTaken, FilesTaken, phase \in Later, JobsApart
  PROVE  \A s, a : Shown(s) => (a \in HandedOn(s) <=> Follows(s, a))
<1> SUFFICES ASSUME NEW s, NEW a, Shown(s) PROVE a \in HandedOn(s) <=> Follows(s, a)
  OBVIOUS
<1> DEFINE Hands(d, k) ==
             \E b \in parseJob(k, d.jobs[k]).secrets :
               Declared(parseWorkflow(d), parseJob(k, d.jobs[k]), b) /\ Aliased(b) /\ SourceOf(b).key = s /\ Upper[b.name] = a
<1>1. repo.workflows = {parseWorkflow(d) : d \in KeptWorkflows}
  BY DEF FilesTaken
<1>2. \A d, j : j \in parseWorkflow(d).jobs <=> \E k \in DOMAIN d.jobs : j = parseJob(k, d.jobs[k])
  BY DEF parseWorkflow
<1>3. Follows(s, a) <=> \E d \in KeptWorkflows : \E k \in DOMAIN d.jobs : Hands(d, k)
  <2> DEFINE Of(w, j) == \E b \in j.secrets : Declared(w, j, b) /\ Aliased(b) /\ SourceOf(b).key = s /\ Upper[b.name] = a
  <2>1. Follows(s, a) <=> \E w \in repo.workflows : \E j \in w.jobs : Of(w, j)
    BY DEF Follows
  <2>2. \A d, k : Hands(d, k) <=> Of(parseWorkflow(d), parseJob(k, d.jobs[k]))
    OBVIOUS
  <2> HIDE DEF Of, Hands
  <2> QED BY <1>1, <1>2, <2>1, <2>2
<1>4. \A d \in KeptWorkflows : \A k \in DOMAIN d.jobs : Hands(d, k) <=> a \in KnownAliases \ {s} /\ HandsOn(d.jobs[k], s, a)
  BY HandsOnIs
<1>5. a \in HandedOn(s) <=> \E d \in KeptWorkflows : \E k \in DOMAIN d.jobs : a \in KnownAliases \ {s} /\ HandsOn(d.jobs[k], s, a)
  BY DEF HandedOn
<1> HIDE DEF Hands
<1> QED BY <1>3, <1>4, <1>5

(***************************************************************************)
(* What the linkers take for a flow, as the files say it.                  *)
(***************************************************************************)
LEMMA WholeIs ==
  \A t, c, n : Whole(t, c) /\ WholeName(t) = n <=> \E m \in Alone(t, c) : Identifier[m.member] = n
<1> SUFFICES ASSUME NEW t, NEW c, NEW n
             PROVE  Whole(t, c) /\ WholeName(t) = n <=> \E m \in Alone(t, c) : Identifier[m.member] = n
  OBVIOUS
<1> DEFINE X == {x \in t.expressions : t.bare /\ t.expressions = {x} /\ Len(x) = 1 /\ Head(x).context = c}
<1>1. Alone(t, c) = {Head(e) : e \in X}
  BY DEF Alone
<1>2. Whole(t, c) <=> X # {}
  BY DEF Whole
<1>3. \A e \in X : t.expressions = {e}
  OBVIOUS
<1>4. \A e \in X : WholeName(t) = Identifier[Head(e).member]
  BY <1>3 DEF WholeName
<1> HIDE DEF X
<1> QED BY <1>1, <1>2, <1>4

\* The steps of an action that read an input.
LEMMA UsagesAre ==
  ASSUME docs \in Inputs, NEW dir, metadataStatus(dir) = "resolved_local_composite"
  PROVE  \A n : /\ Reads(dir, n) <=> Reading(dir, n) # {}
                /\ Reads(dir, n) => InternalUsages(dir, n) = Reading(dir, n)
<1> SUFFICES ASSUME NEW n
             PROVE  /\ Reads(dir, n) <=> Reading(dir, n) # {}
                    /\ Reads(dir, n) => InternalUsages(dir, n) = Reading(dir, n)
  OBVIOUS
<1> DEFINE d == TheAction(dir)
           steps == ActionIn(dir).steps
           Ref(x) == [kind |-> "action_input", name |-> x]
           Asks(t) == \E e \in t.expressions : Head(e).context = "inputs" /\ Identifier[Head(e).member] = n
           Says(i) == \E t \in StepValues(d.steps[i]) : Asks(t)
           Takes == \E k \in Given(d.inputs, {}) : Identifier[k] = n
<1>1. /\ steps = [i \in DOMAIN d.steps |-> parseActionStep(d.steps[i])]
      /\ ActionIn(dir).inputs = {Identifier[k] : k \in Given(d.inputs, {})}
  BY RunningAction
<1> HIDE DEF d
<1>2. DOMAIN steps = DOMAIN d.steps /\ \A i \in DOMAIN d.steps : steps[i].references = ActionReferences(StepValues(d.steps[i]))
  BY <1>1, StepTextsAre DEF parseActionStep
<1>3. n \in ActionIn(dir).inputs <=> Takes
  BY <1>1
<1> HIDE DEF steps, Takes
<1>4. \A t : Ref(n) \in extractActionReferences(t) <=> n # "" /\ Asks(t)
  <2> SUFFICES ASSUME NEW t PROVE Ref(n) \in extractActionReferences(t) <=> n # "" /\ Asks(t)
    OBVIOUS
  <2> DEFINE KindOf(m) == CASE m.context = "inputs" -> "action_input"
                            [] m.context = "env"    -> "environment"
                            [] OTHER                -> "github_context"
             R(m) == [kind |-> KindOf(m), name |-> Identifier[m.member]]
             Heads == {Head(e) : e \in t.expressions}
             M == {x \in Heads : x.context # "call" /\ Identifier[x.member] # ""}
  <2>1. extractActionReferences(t) = {R(m) : m \in M}
    BY DEF extractActionReferences
  <2>2. \A m : R(m) = Ref(n) <=> m.context = "inputs" /\ Identifier[m.member] = n
    <3> SUFFICES ASSUME NEW m PROVE R(m) = Ref(n) <=> m.context = "inputs" /\ Identifier[m.member] = n
      OBVIOUS
    <3>1. KindOf(m) = "action_input" <=> m.context = "inputs"
      OBVIOUS
    <3> HIDE DEF KindOf
    <3>2. R(m).kind = KindOf(m) /\ R(m).name = Identifier[m.member] /\ Ref(n).kind = "action_input" /\ Ref(n).name = n
      OBVIOUS
    <3>3. ASSUME KindOf(m) = "action_input", Identifier[m.member] = n PROVE R(m) = Ref(n)
      BY <3>3
    <3> HIDE DEF R, Ref
    <3> QED BY <3>1, <3>2, <3>3
  <2>3. \A m : m \in M <=> (\E e \in t.expressions : m = Head(e)) /\ m.context # "call" /\ Identifier[m.member] # ""
    OBVIOUS
  <2> HIDE DEF R, Ref, M
  <2>4. Ref(n) \in extractActionReferences(t) <=> \E m \in M : m.context = "inputs" /\ Identifier[m.member] = n
    BY <2>1, <2>2
  <2> QED BY <2>3, <2>4
<1>5. \A i \in DOMAIN d.steps : Ref(n) \in steps[i].references <=> n # "" /\ Says(i)
  <2>1. \A T, r : r \in ActionReferences(T) <=> \E t \in T : r \in extractActionReferences(t)
    BY DEF ActionReferences
  <2>2. \A i \in DOMAIN d.steps : Ref(n) \in steps[i].references
                                   <=> \E t \in StepValues(d.steps[i]) : Ref(n) \in extractActionReferences(t)
    <3> HIDE DEF Ref
    <3> QED BY <1>2, <2>1
  <2> HIDE DEF Ref, Asks
  <2> QED BY <1>4, <2>2
<1>6. InternalUsages(dir, n) = {i \in DOMAIN d.steps : n # "" /\ Says(i)}
  <2>1. InternalUsages(dir, n) = {i \in DOMAIN steps : Ref(n) \in steps[i].references}
    BY DEF InternalUsages, steps
  <2> HIDE DEF Ref, Says
  <2> QED BY <1>2, <1>5, <2>1
<1>7. Reading(dir, n) = {i \in DOMAIN d.steps : n # "" /\ Takes /\ Says(i)}
  BY DEF Reading, d, Takes
<1>8. Reads(dir, n) <=> Takes /\ InternalUsages(dir, n) # {}
  BY <1>3 DEF Reads
<1> HIDE DEF Says
<1> QED BY <1>6, <1>7, <1>8

\* A step's call is the one that is resolved for it, if it names an action of the repository.
LEMMA ResolutionIs ==
  ASSUME ReadTaken, phase \in Later, JobsApart,
         NEW d \in KeptWorkflows, NEW k \in DOMAIN d.jobs, NEW i \in DOMAIN d.jobs[k].steps, d.jobs[k].steps[i].uses # Absent
  PROVE  \A c : c \in Resolution(repo, <<parseWorkflow(d), parseJob(k, d.jobs[k]), i>>)
                  <=> c = CallAt(d, k, i) /\ Runs(d.jobs[k].steps[i].uses)
<1> DEFINE u == d.jobs[k].steps[i].uses
           mine == CallAt(d, k, i)
           W == {parseWorkflow(e) : e \in docs.workflows}
           Same(c) == c \in repo.stepCalls /\ c.workflow = d.file /\ c.job = Identifier[k] /\ c.step = i
<1>1. /\ docs \in Inputs /\ repo.stepCalls = ResolveSteps(W)
      /\ \A e \in docs.workflows : Parses(e)
      /\ d \in docs.workflows
  BY DEF ReadTaken, ActionsRead, KeptWorkflows
<1>2. \A c : c \in repo.stepCalls <=> \E e \in docs.workflows : \E l \in DOMAIN e.jobs : \E m \in DOMAIN e.jobs[l].steps :
                                        e.jobs[l].steps[m].uses # Absent /\ c = CallAt(e, l, m)
  BY <1>1, CallsRead
<1>3. \A e, l, m : CallAt(e, l, m).workflow = e.file /\ CallAt(e, l, m).job = Identifier[l] /\ CallAt(e, l, m).step = m
  BY DEF CallAt
<1>4. mine.status = ActionStatus(u) /\ mine.raw = u.raw /\ mine.dir = u.target
  BY DEF CallAt
<1>5. u \in Uses
  BY <1>1, UsesGiven
<1>6. \A e \in docs.workflows : e.file = d.file => e = d
  BY <1>1, FilesAssumption
<1>7. parseWorkflow(d).file = d.file /\ parseJob(k, d.jobs[k]).id = Identifier[k]
  BY DEF parseWorkflow, parseJob
<1> HIDE DEF W, mine
<1>8. Same(mine)
  BY <1>1, <1>2, <1>3 DEF mine
<1>9. ASSUME NEW c, Same(c) PROVE c = mine
  <2>1. PICK e \in docs.workflows : \E l \in DOMAIN e.jobs : \E m \in DOMAIN e.jobs[l].steps :
                                      e.jobs[l].steps[m].uses # Absent /\ c = CallAt(e, l, m)
    BY <1>2, <1>9
  <2>2. PICK l \in DOMAIN e.jobs : \E m \in DOMAIN e.jobs[l].steps :
                                      e.jobs[l].steps[m].uses # Absent /\ c = CallAt(e, l, m)
    BY <2>1
  <2>3. PICK m \in DOMAIN e.jobs[l].steps : c = CallAt(e, l, m)
    BY <2>2
  <2>4. e = d /\ Identifier[l] = Identifier[k] /\ m = i
    BY <1>3, <1>6, <1>9, <2>3
  <2>5. l = k
    BY <2>4 DEF JobsApart
  <2> QED BY <2>3, <2>4, <2>5 DEF mine
<1> DEFINE Calls(c) == {e \in repo.stepCalls : e.workflow = c.workflow /\ e.job = c.job /\ e.step = c.step}
<1>10. Calls(mine) = {mine}
  BY <1>8, <1>9
<1>11. LastOf(Calls(mine)) = mine
  <2>1. u.raw \in Nat
    BY <1>5 DEF Uses
  <2>2. mine.raw <= mine.raw
    BY <1>4, <2>1
  <2> HIDE DEF Calls, u
  <2> QED BY <1>10, <2>2 DEF LastOf
<1>12. \A c : c \in Resolution(repo, <<parseWorkflow(d), parseJob(k, d.jobs[k]), i>>)
                <=> Same(c) /\ c = LastOf(Calls(c)) /\ c.status = "resolved_local_composite"
  BY <1>7 DEF Resolution
<1>13. ActionStatus(u) = "resolved_local_composite" <=> Runs(u)
  BY <1>1, <1>5, ResolvedIsRun
<1> HIDE DEF Same, Calls, u
<1>14. \A c : c \in Resolution(repo, <<parseWorkflow(d), parseJob(k, d.jobs[k]), i>>) <=> c = mine /\ Runs(u)
  BY <1>4, <1>8, <1>9, <1>11, <1>12, <1>13
<1> QED BY <1>14 DEF mine, u

(***************************************************************************)
(* A flow begins where a step binds an input that is read to a secret and  *)
(* nothing else.                                                           *)
(***************************************************************************)
Binds(x, n) == /\ Reads(StepOf(x).uses.target, Identifier[n])
               /\ Whole(With(StepOf(x))[n], "secrets")
RootFlow(x, n) ==
  LET s == StepOf(x) IN
  [workflow |-> x[1].file, job |-> Identifier[x[2]], step |-> x[3], rootInput |-> Identifier[n], path |-> <<>>,
   input |-> Identifier[n], dir |-> s.uses.target, secret |-> WholeName(With(s)[n]),
   usages |-> InternalUsages(s.uses.target, Identifier[n])]

LEMMA FlowsBegin ==
  ASSUME NEW d, NEW k, NEW i \in DOMAIN d.jobs[k].steps, NEW c, c.dir = d.jobs[k].steps[i].uses.target
  PROVE  \A y : y \in FlowsOfStep(<<parseWorkflow(d), parseJob(k, d.jobs[k]), i>>, c)
                  <=> \E n \in DOMAIN With(StepOf(<<d, k, i>>)) : Binds(<<d, k, i>>, n) /\ y = RootFlow(<<d, k, i>>, n)
<1> DEFINE w == parseWorkflow(d)
           j == parseJob(k, d.jobs[k])
           s == StepOf(<<d, k, i>>)
           m == With(s)
           One(n) == [name |-> Identifier[n], value |-> m[n], references |-> extractReferences(m[n])]
           Flow(b) == [workflow |-> w.file, job |-> j.id, step |-> i, rootInput |-> b.name, path |-> <<>>,
                       input |-> b.name, dir |-> c.dir, secret |-> WholeName(b.value),
                       usages |-> InternalUsages(c.dir, b.name)]
           Fit(b) == Reads(c.dir, b.name) /\ Whole(b.value, "secrets")
<1>1. w.file = d.file /\ j.id = Identifier[k] /\ j.steps[i].with = Bindings(Given(d.jobs[k].steps[i].with, NoKeys))
  BY DEF parseWorkflow, parseJob, parseStep
<1>2. s = d.jobs[k].steps[i]
  BY DEF StepOf
<1>3. j.steps[i].with = {One(n) : n \in DOMAIN m}
  BY <1>1, <1>2 DEF With, Bindings
<1>4. FlowsOfStep(<<w, j, i>>, c) = {Flow(b) : b \in {x \in j.steps[i].with : Fit(x)}}
  BY DEF FlowsOfStep
<1>5. \A n : One(n).name = Identifier[n] /\ One(n).value = m[n]
  OBVIOUS
<1> HIDE DEF w, j, m, One
<1>6. \A n : Flow(One(n)) = RootFlow(<<d, k, i>>, n)
  <2> SUFFICES ASSUME NEW n PROVE Flow(One(n)) = RootFlow(<<d, k, i>>, n)
    OBVIOUS
  <2>1. RootFlow(<<d, k, i>>, n) =
          [workflow |-> d.file, job |-> Identifier[k], step |-> i, rootInput |-> Identifier[n], path |-> <<>>,
           input |-> Identifier[n], dir |-> c.dir, secret |-> WholeName(m[n]),
           usages |-> InternalUsages(c.dir, Identifier[n])]
    BY <1>2 DEF RootFlow, m
  <2> QED BY <1>1, <1>5, <2>1
<1>7. \A n : Fit(One(n)) <=> Binds(<<d, k, i>>, n)
  BY <1>2, <1>5 DEF Binds, m
<1> HIDE DEF Flow, Fit
<1>8. \A y : y \in FlowsOfStep(<<w, j, i>>, c) <=> \E n \in DOMAIN m : Fit(One(n)) /\ y = Flow(One(n))
  <2>1. \A y : y \in FlowsOfStep(<<w, j, i>>, c) <=> \E b \in j.steps[i].with : Fit(b) /\ y = Flow(b)
    BY <1>4
  <2> QED BY <1>3, <2>1
<1> QED BY <1>6, <1>7, <1>8 DEF w, j, m, s

LEMMA RootFlowsAre ==
  ASSUME ReadTaken, FilesTaken, phase \in Later, JobsApart
  PROVE  \A y : y \in repo.flows
                  <=> \E x \in StepsAt : Runs(StepOf(x).uses)
                                         /\ \E n \in DOMAIN With(StepOf(x)) : Binds(x, n) /\ y = RootFlow(x, n)
<1> SUFFICES ASSUME NEW y
             PROVE  y \in repo.flows
                      <=> \E x \in StepsAt : Runs(StepOf(x).uses)
                                             /\ \E n \in DOMAIN With(StepOf(x)) : Binds(x, n) /\ y = RootFlow(x, n)
  OBVIOUS
<1> DEFINE At(d, k, i) == <<d, k, i>>
           Begins(x) == Runs(StepOf(x).uses) /\ \E n \in DOMAIN With(StepOf(x)) : Binds(x, n) /\ y = RootFlow(x, n)
           Read(d, k, i) == <<parseWorkflow(d), parseJob(k, d.jobs[k]), i>>
           Starts(z) == \E c \in Resolution(repo, z) : y \in FlowsOfStep(z, c)
           W == {parseWorkflow(d) : d \in KeptWorkflows}
<1>1. /\ repo.workflows = W /\ docs \in Inputs
      /\ \A d \in KeptWorkflows : Parses(d)
      /\ repo.flows = LinkSteps(repo)
  BY DEF FilesTaken, ReadTaken, KeptWorkflows
<1>2. y \in repo.flows <=> \E z \in UsingSteps(W) : Starts(z)
  BY <1>1, LinkStepsAre
<1>3. \A z : z \in UsingSteps(W) <=> \E d \in KeptWorkflows : \E k \in DOMAIN d.jobs : \E i \in DOMAIN d.jobs[k].steps :
                                       d.jobs[k].steps[i].uses # Absent /\ z = Read(d, k, i)
  BY <1>1, UsingRead
<1>4. \A x : x \in StepsAt <=>
         \E d \in KeptWorkflows : \E k \in DOMAIN d.jobs : \E i \in DOMAIN d.jobs[k].steps : x = At(d, k, i)
  BY StepsAre
<1>5. ASSUME NEW d \in KeptWorkflows, NEW k \in DOMAIN d.jobs, NEW i \in DOMAIN d.jobs[k].steps
      PROVE  d.jobs[k].steps[i].uses # Absent /\ Starts(Read(d, k, i)) <=> Begins(At(d, k, i))
  <2> DEFINE u == d.jobs[k].steps[i].uses
  <2>1. StepOf(At(d, k, i)).uses = u
    BY DEF StepOf
  <2>2. Runs(u) => u # Absent
    BY DEF Runs
  <2>3. ASSUME u # Absent PROVE Starts(Read(d, k, i)) <=> Begins(At(d, k, i))
    <3>1. \A c : c \in Resolution(repo, Read(d, k, i)) <=> c = CallAt(d, k, i) /\ Runs(u)
      BY <2>3, ResolutionIs
    <3>2. CallAt(d, k, i).dir = u.target
      BY DEF CallAt
    <3>3. y \in FlowsOfStep(Read(d, k, i), CallAt(d, k, i))
            <=> \E n \in DOMAIN With(StepOf(At(d, k, i))) : Binds(At(d, k, i), n) /\ y = RootFlow(At(d, k, i), n)
      BY <3>2, FlowsBegin
    <3> HIDE DEF Read, At, u
    <3> QED BY <2>1, <3>1, <3>3
  <2>4. Begins(At(d, k, i)) => Runs(u)
    BY <2>1
  <2> HIDE DEF Starts, Begins, At, Read
  <2> QED BY <2>2, <2>3, <2>4
<1> HIDE DEF Read, At, Starts, Begins, W
<1>6. y \in repo.flows <=> \E d \in KeptWorkflows : \E k \in DOMAIN d.jobs : \E i \in DOMAIN d.jobs[k].steps :
                              d.jobs[k].steps[i].uses # Absent /\ Starts(Read(d, k, i))
  BY <1>2, <1>3
<1>7. (\E x \in StepsAt : Begins(x)) <=>
         \E d \in KeptWorkflows : \E k \in DOMAIN d.jobs : \E i \in DOMAIN d.jobs[k].steps : Begins(At(d, k, i))
  BY <1>4
<1>8. y \in repo.flows <=> \E x \in StepsAt : Begins(x)
  BY <1>5, <1>6, <1>7
<1> QED BY <1>8 DEF Begins

\* The flows of the graph, and how one goes on.
AllFlows == repo.flows \cup repo.nestedFlows

LEMMA FlowInduction ==
  ASSUME FlowsLinked(repo), NEW S, repo.flows \subseteq S, \A f \in AllFlows : f \in S => Hops(repo, f) \subseteq S
  PROVE  AllFlows \subseteq S
<1> SUFFICES ASSUME NEW f0 \in AllFlows, f0 \notin S PROVE FALSE
  OBVIOUS
<1> DEFINE T == {n \in Nat : \E f \in AllFlows : f \notin S /\ Len(f.path) = n}
<1>1. \A f \in AllFlows : IsPath(f.path) /\ Len(f.path) \in Nat
  BY LongerPath DEF FlowsLinked, AllFlows
<1>2. PICK n \in T : \A m \in T : n <= m
  <2>1. T \in SUBSET Nat /\ Len(f0.path) \in T
    BY <1>1
  <2> HIDE DEF T
  <2> QED BY <2>1, LeastNumber
<1>3. PICK f \in AllFlows : f \notin S /\ Len(f.path) = n
  OBVIOUS
<1>4. f \in repo.nestedFlows
  BY <1>3 DEF AllFlows
<1>5. PICK g \in AllFlows : f \in Hops(repo, g)
  BY <1>4 DEF FlowsLinked, AllFlows
<1>6. Len(f.path) = Len(g.path) + 1 /\ Len(g.path) \in Nat
  BY <1>1, <1>5, HopPath
<1>7. g \notin S
  BY <1>3, <1>5
<1>8. Len(g.path) \in T
  BY <1>6, <1>7
<1> HIDE DEF T
<1>9. n <= Len(g.path)
  BY <1>2, <1>8
<1> QED BY <1>3, <1>6, <1>9

\* The action that a flow is in is found, and reads it.
Settled(f) == /\ f.dir \in repo.composites /\ metadataStatus(f.dir) = "resolved_local_composite"
              /\ Reads(f.dir, f.input) /\ f.usages = InternalUsages(f.dir, f.input)

GoesOn(f, i, n) ==
  LET a == TheAction(f.dir).steps[i] IN
  /\ Runs(a.uses) /\ Len(f.path) + 2 <= MaxCompositeActionNestingDepth /\ a.uses.target \notin Visited(f)
  /\ n \in DOMAIN With(a) /\ Whole(With(a)[n], "inputs") /\ WholeName(With(a)[n]) = f.input
  /\ Reads(a.uses.target, Identifier[n])
NextFlow(f, i, n) ==
  LET to == TheAction(f.dir).steps[i].uses.target IN
  [workflow |-> f.workflow, job |-> f.job, step |-> f.step, rootInput |-> f.rootInput,
   path |-> Append(f.path, [parent |-> f.dir, at |-> i, child |-> to]),
   parent |-> f.dir, parentInput |-> f.input, at |-> i,
   input |-> Identifier[n], dir |-> to, secret |-> f.secret, usages |-> InternalUsages(to, Identifier[n])]

LEMMA RunsIs ==
  ASSUME docs \in Inputs, NEW u \in Uses \cup {Absent}
  PROVE  Runs(u) => metadataStatus(u.target) = "resolved_local_composite" /\ ActionStatus(u) = "resolved_local_composite"
<1>1. Runs(u) => u \in Uses
  BY DEF Runs
<1> QED BY <1>1, ResolvedIsRun, StatusResolved

LEMMA OnwardCalls ==
  ASSUME docs \in Inputs, ActionsRead, NEW f, Settled(f)
  PROVE  \A c : c \in Onwards(repo, f)
                  <=> \E i \in f.usages : LET u == TheAction(f.dir).steps[i].uses IN
                        /\ Runs(u) /\ Len(f.path) + 2 <= MaxCompositeActionNestingDepth /\ u.target \notin Visited(f)
                        /\ c = [parent |-> f.dir, step |-> i, status |-> ActionStatus(u), dir |-> u.target]
<1> SUFFICES ASSUME NEW c
             PROVE  c \in Onwards(repo, f)
                      <=> \E i \in f.usages : LET u == TheAction(f.dir).steps[i].uses IN
                            /\ Runs(u) /\ Len(f.path) + 2 <= MaxCompositeActionNestingDepth /\ u.target \notin Visited(f)
                            /\ c = [parent |-> f.dir, step |-> i, status |-> ActionStatus(u), dir |-> u.target]
  OBVIOUS
<1> DEFINE d == TheAction(f.dir)
           Use(i) == d.steps[i].uses
           Call(i) == [parent |-> f.dir, step |-> i, status |-> ActionStatus(Use(i)), dir |-> Use(i).target]
<1>1. metadataStatus(f.dir) = "resolved_local_composite" /\ f.dir \in repo.composites
  BY DEF Settled
<1>2. /\ \A i \in DOMAIN d.steps : Use(i) \in Uses \cup {Absent}
      /\ f.usages \subseteq DOMAIN d.steps
  <2>1. \A i \in DOMAIN d.steps : Use(i) \in Uses \cup {Absent}
    BY <1>1, RunningAction
  <2>2. f.usages = Reading(f.dir, f.input)
    BY <1>1, UsagesAre DEF Settled
  <2> QED BY <2>1, <2>2 DEF Reading
<1>3. c \in CallsIn(f.dir) <=> \E i \in DOMAIN d.steps : Use(i) # Absent /\ c = Call(i)
  BY <1>1, CallsOfAction
<1>4. c \in repo.nestedCalls /\ c.parent = f.dir <=> c \in CallsIn(f.dir)
  <2>1. \A e, dir : e \in CallsIn(dir) => e.parent = dir
    BY DEF CallsIn
  <2>2. repo.nestedCalls = UNION {CallsIn(e) : e \in repo.composites}
    BY DEF ActionsRead
  <2>3. c \in repo.nestedCalls <=> \E e \in repo.composites : c \in CallsIn(e)
    BY <2>2
  <2> QED BY <1>1, <2>1, <2>3
<1>5. \A i \in DOMAIN d.steps : Use(i) # Absent => (ActionStatus(Use(i)) = "resolved_local_composite" <=> Runs(Use(i)))
  BY <1>2, ResolvedIsRun
<1>6. \A i : Call(i).step = i /\ Call(i).status = ActionStatus(Use(i)) /\ Call(i).dir = Use(i).target
  OBVIOUS
<1>7. \A i : Runs(Use(i)) => Use(i) # Absent
  BY DEF Runs
<1> HIDE DEF Call, Use, d
<1>8. c \in Onwards(repo, f)
        <=> \E i \in f.usages : /\ Runs(Use(i)) /\ Len(f.path) + 2 <= MaxCompositeActionNestingDepth
                                /\ Use(i).target \notin Visited(f) /\ c = Call(i)
  <2>1. c \in Onwards(repo, f) <=>
           /\ c \in CallsIn(f.dir) /\ c.step \in f.usages
           /\ c.status = "resolved_local_composite" /\ c.dir \notin Visited(f)
           /\ Len(f.path) + 2 <= MaxCompositeActionNestingDepth
    BY <1>4 DEF Onwards
  <2> QED BY <1>2, <1>3, <1>5, <1>6, <1>7, <2>1
<1> QED BY <1>8 DEF Call, Use, d

LEMMA ActionBinds ==
  ASSUME docs \in Inputs, NEW dir, metadataStatus(dir) = "resolved_local_composite", NEW i \in DOMAIN TheAction(dir).steps
  PROVE  LET a == TheAction(dir).steps[i] IN
         \A b : b \in ActionIn(dir).steps[i].with
                  <=> \E n \in DOMAIN With(a) : b = [name |-> Identifier[n], value |-> With(a)[n]]
<1> DEFINE a == TheAction(dir).steps[i]
           m == Given(a.with, NoKeys)
<1>1. ActionIn(dir).steps = [x \in DOMAIN TheAction(dir).steps |-> parseActionStep(TheAction(dir).steps[x])]
  BY RunningAction
<1>2. ActionIn(dir).steps[i].with = {[name |-> Identifier[n], value |-> a.with[n]] : n \in DOMAIN m}
  BY <1>1 DEF parseActionStep
<1>3. \A n \in DOMAIN m : a.with[n] = m[n]
  BY DEF Given, NoKeys
<1>4. With(a) = m
  BY DEF With
<1> HIDE DEF a, m
<1>5. \A b : b \in ActionIn(dir).steps[i].with <=> \E n \in DOMAIN m : b = [name |-> Identifier[n], value |-> m[n]]
  BY <1>2, <1>3
<1> QED BY <1>4, <1>5 DEF a

LEMMA HopIs ==
  ASSUME docs \in Inputs, ActionsRead, NEW f, Settled(f)
  PROVE  \A g : g \in Hops(repo, f) <=> \E i \in f.usages : \E n : GoesOn(f, i, n) /\ g = NextFlow(f, i, n)
<1> SUFFICES ASSUME NEW g
             PROVE  g \in Hops(repo, f) <=> \E i \in f.usages : \E n : GoesOn(f, i, n) /\ g = NextFlow(f, i, n)
  OBVIOUS
<1> DEFINE d == TheAction(f.dir)
           a(i) == d.steps[i]
           u(i) == a(i).uses
           Call(i) == [parent |-> f.dir, step |-> i, status |-> ActionStatus(u(i)), dir |-> u(i).target]
           Bind(i, n) == [name |-> Identifier[n], value |-> With(a(i))[n]]
           Able(i) == Runs(u(i)) /\ Len(f.path) + 2 <= MaxCompositeActionNestingDepth /\ u(i).target \notin Visited(f)
           Fit(i, n) == /\ n \in DOMAIN With(a(i)) /\ Whole(With(a(i))[n], "inputs") /\ WholeName(With(a(i))[n]) = f.input
                        /\ Reads(u(i).target, Identifier[n])
<1>1. metadataStatus(f.dir) = "resolved_local_composite" /\ f.usages \subseteq DOMAIN d.steps
  <2>1. f.usages = Reading(f.dir, f.input)
    BY UsagesAre DEF Settled
  <2> QED BY <2>1 DEF Settled, Reading
<1>2. \A c : c \in Onwards(repo, f) <=> \E i \in f.usages : Able(i) /\ c = Call(i)
  BY OnwardCalls
<1>3. \A i \in f.usages : \A b : b \in BoundAt(f, Call(i)) <=> \E n : Fit(i, n) /\ b = Bind(i, n)
  <2> SUFFICES ASSUME NEW i \in f.usages, NEW b
               PROVE  b \in BoundAt(f, Call(i)) <=> \E n : Fit(i, n) /\ b = Bind(i, n)
    OBVIOUS
  <2>1. b \in ActionIn(f.dir).steps[i].with <=> \E n \in DOMAIN With(a(i)) : b = Bind(i, n)
    BY <1>1, ActionBinds
  <2>2. b \in BoundAt(f, Call(i)) <=> /\ b \in ActionIn(f.dir).steps[i].with
                                     /\ Whole(b.value, "inputs") /\ WholeName(b.value) = f.input /\ Reads(u(i).target, b.name)
    BY DEF BoundAt
  <2>3. \A n : Bind(i, n).name = Identifier[n] /\ Bind(i, n).value = With(a(i))[n]
    OBVIOUS
  <2> HIDE DEF Bind, a, u
  <2> QED BY <2>1, <2>2, <2>3
<1>4. \A i \in f.usages : \A n : FlowOf(f, Call(i), Bind(i, n)) = NextFlow(f, i, n)
  BY DEF FlowOf, NextFlow
<1>5. \A i, n : GoesOn(f, i, n) <=> Able(i) /\ Fit(i, n)
  BY DEF GoesOn
<1>6. g \in Hops(repo, f) <=> \E c \in Onwards(repo, f) : \E b \in BoundAt(f, c) : g = FlowOf(f, c, b)
  BY HopsAre
<1> HIDE DEF Call, Bind, Able, Fit
<1>7. g \in Hops(repo, f) <=> \E i \in f.usages : Able(i) /\ \E b \in BoundAt(f, Call(i)) : g = FlowOf(f, Call(i), b)
  BY <1>2, <1>6
<1>8. \A i \in f.usages : (\E b \in BoundAt(f, Call(i)) : g = FlowOf(f, Call(i), b)) <=> \E n : Fit(i, n) /\ g = NextFlow(f, i, n)
  BY <1>3, <1>4
<1> QED BY <1>5, <1>7, <1>8

\* Every flow is in an action that is found, and carries the secret of the root flow that it goes on from.
LEMMA FlowsSettled ==
  ASSUME ReadTaken, FilesTaken, phase \in Later, JobsApart
  PROVE  \A f \in AllFlows : Settled(f)
<1> DEFINE S == {f \in AllFlows : Settled(f)}
<1>1. docs \in Inputs /\ ActionsRead /\ FlowsLinked(repo)
  BY DEF ReadTaken
<1>2. ASSUME NEW f \in repo.flows PROVE Settled(f)
  <2>1. PICK x \in StepsAt : Runs(StepOf(x).uses) /\ \E n \in DOMAIN With(StepOf(x)) : Binds(x, n) /\ f = RootFlow(x, n)
    BY RootFlowsAre
  <2>2. PICK n \in DOMAIN With(StepOf(x)) : Binds(x, n) /\ f = RootFlow(x, n)
    BY <2>1
  <2>3. PICK d \in KeptWorkflows : \E k \in DOMAIN d.jobs : \E i \in DOMAIN d.jobs[k].steps : x = <<d, k, i>>
    BY StepsAre
  <2>4. PICK k \in DOMAIN d.jobs : \E i \in DOMAIN d.jobs[k].steps : x = <<d, k, i>>
    BY <2>3
  <2>5. PICK i \in DOMAIN d.jobs[k].steps : x = <<d, k, i>>
    BY <2>4
  <2> DEFINE u == d.jobs[k].steps[i].uses
  <2>6. StepOf(x).uses = u /\ Runs(u) /\ u # Absent
    BY <2>1, <2>5 DEF StepOf, Runs
  <2>7. Parses(d) /\ d \in docs.workflows
    BY DEF ReadTaken, KeptWorkflows
  <2>8. u \in Uses
    BY <1>1, <2>6, <2>7, UsesGiven
  <2>9. metadataStatus(u.target) = "resolved_local_composite" /\ ActionStatus(u) = "resolved_local_composite"
    BY <1>1, <2>6, <2>8, RunsIs
  <2>10. u.target \in repo.composites
    <3>1. CallAt(d, k, i) \in repo.stepCalls
      <4>1. CallAt(d, k, i) \in Resolution(repo, <<parseWorkflow(d), parseJob(k, d.jobs[k]), i>>)
        BY <2>6, ResolutionIs
      <4> QED BY <4>1 DEF Resolution
    <3>2. CallAt(d, k, i).status = "resolved_local_composite" /\ CallAt(d, k, i).dir = u.target
      BY <2>9 DEF CallAt
    <3>3. \A c \in repo.stepCalls : c.status = "resolved_local_composite" => c.dir \in DirsOf(repo.stepCalls)
      BY DEF DirsOf
    <3>4. u.target \in DirsOf(repo.stepCalls)
      BY <3>1, <3>2, <3>3
    <3> QED BY <1>1, <3>4 DEF ActionsRead
  <2>11. f.dir = u.target /\ f.input = Identifier[n] /\ f.usages = InternalUsages(u.target, Identifier[n])
    BY <2>2, <2>6 DEF RootFlow
  <2>12. Reads(u.target, Identifier[n])
    BY <2>2, <2>6 DEF Binds
  <2> QED BY <2>9, <2>10, <2>11, <2>12 DEF Settled
<1>3. ASSUME NEW f \in AllFlows, Settled(f), NEW g \in Hops(repo, f) PROVE Settled(g)
  <2>1. PICK i \in f.usages : \E n : GoesOn(f, i, n) /\ g = NextFlow(f, i, n)
    BY <1>1, <1>3, HopIs
  <2>2. PICK n : GoesOn(f, i, n) /\ g = NextFlow(f, i, n)
    BY <2>1
  <2> DEFINE u == TheAction(f.dir).steps[i].uses
  <2>3. Runs(u) /\ Reads(u.target, Identifier[n])
    BY <2>2 DEF GoesOn
  <2>4. u \in Uses \cup {Absent}
    <3>1. metadataStatus(f.dir) = "resolved_local_composite" /\ f.usages = Reading(f.dir, f.input)
      BY <1>1, <1>3, UsagesAre DEF Settled
    <3> QED BY <1>1, <3>1, RunningAction DEF Reading
  <2>5. metadataStatus(u.target) = "resolved_local_composite"
    BY <1>1, <2>3, <2>4, RunsIs
  <2>6. g.dir = u.target /\ g.input = Identifier[n] /\ g.usages = InternalUsages(u.target, Identifier[n])
    BY <2>2 DEF NextFlow
  <2>7. u.target \in repo.composites
    <3>1. PICK c \in Onwards(repo, f) : \E b \in BoundAt(f, c) : g = FlowOf(f, c, b)
      BY HopsAre
    <3>2. c \in repo.nestedCalls /\ c.status = "resolved_local_composite" /\ c.dir = g.dir
      BY <3>1 DEF Onwards, FlowOf
    <3>3. c.dir \in DirsOf(UNION {CallsIn(e) : e \in repo.composites})
      BY <1>1, <3>2 DEF ActionsRead, DirsOf
    <3>4. c.dir \in MoreDirs(repo.composites)
      BY <3>3 DEF MoreDirs
    <3> QED BY <1>1, <2>6, <3>2, <3>4 DEF ActionsRead
  <2> QED BY <2>3, <2>5, <2>6, <2>7 DEF Settled
<1>4. \A f \in AllFlows : f \in S => Hops(repo, f) \subseteq S
  <2>1. \A f \in AllFlows : Hops(repo, f) \subseteq AllFlows
    BY <1>1 DEF FlowsLinked, AllFlows
  <2> QED BY <1>3, <2>1
<1>5. repo.flows \subseteq S
  BY <1>2 DEF AllFlows
<1>6. AllFlows \subseteq S
  <2> HIDE DEF S
  <2> QED BY <1>1, <1>4, <1>5, FlowInduction
<1> QED BY <1>6

LEMMA FlowsRooted ==
  ASSUME FlowsLinked(repo)
  PROVE  \A f \in AllFlows : \E g \in repo.flows : RootOf(g) = RootOf(f) /\ g.secret = f.secret
<1> DEFINE S == {f \in AllFlows : \E g \in repo.flows : RootOf(g) = RootOf(f) /\ g.secret = f.secret}
<1>1. \A f \in AllFlows : \A h \in Hops(repo, f) : RootOf(h) = RootOf(f) /\ h.secret = f.secret /\ h \in AllFlows
  <2> SUFFICES ASSUME NEW f \in AllFlows, NEW h \in Hops(repo, f)
               PROVE  RootOf(h) = RootOf(f) /\ h.secret = f.secret /\ h \in AllFlows
    OBVIOUS
  <2>1. PICK c \in Onwards(repo, f) : \E b \in BoundAt(f, c) : h = FlowOf(f, c, b)
    BY HopsAre
  <2>2. PICK b : h = FlowOf(f, c, b)
    BY <2>1
  <2>3. RootOf(h) = RootOf(f) /\ h.secret = f.secret
    BY <2>2 DEF FlowOf, RootOf
  <2> QED BY <2>3 DEF FlowsLinked, AllFlows
<1>2. repo.flows \subseteq S
  BY DEF AllFlows
<1>3. \A f \in AllFlows : f \in S => Hops(repo, f) \subseteq S
  BY <1>1
<1>4. AllFlows \subseteq S
  <2> HIDE DEF S
  <2> QED BY <1>2, <1>3, FlowInduction
<1> QED BY <1>4

\* Flows that begin in one input of one step carry one secret.
LEMMA OneRoot ==
  ASSUME ReadTaken, FilesTaken, phase \in Later, JobsApart, NEW f \in repo.flows, NEW g \in repo.flows, RootOf(f) = RootOf(g)
  PROVE  f.secret = g.secret
<1>1. docs \in Inputs /\ \A d \in KeptWorkflows : d \in docs.workflows /\ Parses(d)
  BY DEF ReadTaken, KeptWorkflows
<1>2. PICK x \in StepsAt : Runs(StepOf(x).uses) /\ \E n \in DOMAIN With(StepOf(x)) : Binds(x, n) /\ f = RootFlow(x, n)
  BY RootFlowsAre
<1>3. PICK n \in DOMAIN With(StepOf(x)) : f = RootFlow(x, n)
  BY <1>2
<1>4. PICK y \in StepsAt : Runs(StepOf(y).uses) /\ \E m \in DOMAIN With(StepOf(y)) : Binds(y, m) /\ g = RootFlow(y, m)
  BY RootFlowsAre
<1>5. PICK m \in DOMAIN With(StepOf(y)) : g = RootFlow(y, m)
  BY <1>4
<1>6. \A z, l : /\ RootOf(RootFlow(z, l)) = <<z[1].file, Identifier[z[2]], z[3], Identifier[l]>>
                /\ RootFlow(z, l).secret = WholeName(With(StepOf(z))[l])
  BY DEF RootFlow, RootOf
<1>7. x[1].file = y[1].file /\ Identifier[x[2]] = Identifier[y[2]] /\ x[3] = y[3] /\ Identifier[n] = Identifier[m]
  <2>1. RootOf(f) = <<x[1].file, Identifier[x[2]], x[3], Identifier[n]>>
    BY <1>3, <1>6
  <2>2. RootOf(g) = <<y[1].file, Identifier[y[2]], y[3], Identifier[m]>>
    BY <1>5, <1>6
  <2>3. <<x[1].file, Identifier[x[2]], x[3], Identifier[n]>> = <<y[1].file, Identifier[y[2]], y[3], Identifier[m]>>
    BY <2>1, <2>2
  <2>4. \A a, b, c, e, p, q, r, t : <<a, b, c, e>> = <<p, q, r, t>> => a = p /\ b = q /\ c = r /\ e = t
    OBVIOUS
  <2> QED BY <2>3, <2>4
<1>8. \A z \in StepsAt : /\ z = <<z[1], z[2], z[3]>> /\ z[1] \in KeptWorkflows /\ z[2] \in DOMAIN z[1].jobs
                         /\ z[3] \in DOMAIN z[1].jobs[z[2]].steps
  <2> SUFFICES ASSUME NEW z \in StepsAt
               PROVE  /\ z = <<z[1], z[2], z[3]>> /\ z[1] \in KeptWorkflows /\ z[2] \in DOMAIN z[1].jobs
                      /\ z[3] \in DOMAIN z[1].jobs[z[2]].steps
    OBVIOUS
  <2>1. PICK d \in KeptWorkflows : \E k \in DOMAIN d.jobs : \E i \in DOMAIN d.jobs[k].steps : z = <<d, k, i>>
    BY StepsAre
  <2>2. PICK k \in DOMAIN d.jobs : \E i \in DOMAIN d.jobs[k].steps : z = <<d, k, i>>
    BY <2>1
  <2>3. PICK i \in DOMAIN d.jobs[k].steps : z = <<d, k, i>>
    BY <2>2
  <2> QED BY <2>3
<1>9. x = y
  <2>1. x[1] = y[1]
    BY <1>1, <1>7, <1>8, FilesAssumption
  <2>2. x[2] = y[2]
    BY <1>7, <1>8, <2>1 DEF JobsApart
  <2> QED BY <1>7, <1>8, <2>1, <2>2
<1>10. n = m
  <2> DEFINE s == StepOf(x)
  <2>1. ~StepFails(s)
    <3>1. ~JobFails(x[1].jobs[x[2]])
      BY <1>1, <1>8, UsesGiven
    <3> QED BY <1>8, <3>1 DEF JobFails, StepOf
  <2>2. {n, m} \subseteq DOMAIN With(s)
    BY <1>3, <1>5, <1>9
  <2>3. s.with # Absent /\ With(s) = s.with
    BY <2>2 DEF With, Given, NoKeys
  <2>4. ~Collides(s.with)
    BY <2>1, <2>3 DEF StepFails
  <2> HIDE DEF s
  <2> QED BY <1>7, <2>2, <2>3, <2>4 DEF Collides
<1> QED BY <1>3, <1>5, <1>6, <1>9, <1>10

LEMMA OneSource ==
  ASSUME ReadTaken, FilesTaken, phase \in Later, JobsApart
  PROVE  \A f, g \in AllFlows : RootOf(f) = RootOf(g) => f.secret = g.secret
<1> SUFFICES ASSUME NEW f \in AllFlows, NEW g \in AllFlows, RootOf(f) = RootOf(g) PROVE f.secret = g.secret
  OBVIOUS
<1>1. FlowsLinked(repo)
  BY DEF ReadTaken
<1>2. PICK a \in repo.flows : RootOf(a) = RootOf(f) /\ a.secret = f.secret
  BY <1>1, FlowsRooted
<1>3. PICK b \in repo.flows : RootOf(b) = RootOf(g) /\ b.secret = g.secret
  BY <1>1, FlowsRooted
<1>4. a.secret = b.secret
  BY <1>2, <1>3, OneRoot
<1> QED BY <1>2, <1>3, <1>4

(***************************************************************************)
(* A flow as the files have it.                                            *)
(***************************************************************************)
ChainOf(p) == [i \in DOMAIN p |-> <<p[i].parent, p[i].at>>]
Seen(f) == [file |-> f.workflow, job |-> f.job, step |-> f.step, root |-> f.rootInput, chain |-> ChainOf(f.path),
            dir |-> f.dir, input |-> f.input]

LEMMA ChainGrows ==
  ASSUME NEW p, IsPath(p), NEW x
  PROVE  /\ ChainOf(Append(p, x)) = Append(ChainOf(p), <<x.parent, x.at>>)
         /\ Len(ChainOf(p)) = Len(p) /\ DOMAIN ChainOf(p) = DOMAIN p
         /\ \A i \in DOMAIN p : ChainOf(p)[i] = <<p[i].parent, p[i].at>>
<1> DEFINE c == ChainOf(p)
           n == Len(p)
           y == <<x.parent, x.at>>
           q == Append(p, x)
<1>1. /\ n \in Nat /\ DOMAIN p = 1 .. n /\ DOMAIN q = 1 .. n + 1
      /\ \A i \in 1 .. n : q[i] = p[i]
      /\ q[n + 1] = x
  BY LongerPath
<1>2. DOMAIN c = DOMAIN p /\ \A i \in DOMAIN p : c[i] = <<p[i].parent, p[i].at>>
  BY DEF ChainOf
<1>3. c = [i \in 1 .. n |-> <<p[i].parent, p[i].at>>]
  BY <1>1 DEF ChainOf
<1> DEFINE T == {<<p[i].parent, p[i].at>> : i \in 1 .. n} \cup {y}
<1>4. c \in Seq(T) /\ y \in T
  <2>1. c \in [1 .. n -> T]
    BY <1>3
  <2> HIDE DEF c, T
  <2> QED BY <1>1, <2>1, SeqDef DEF T
<1>5. Len(c) = n
  <2> HIDE DEF T
  <2> QED BY <1>1, <1>2, <1>4, LenProperties
<1>6. /\ Append(c, y) \in Seq(T) /\ Len(Append(c, y)) = n + 1
      /\ \A i \in 1 .. n : Append(c, y)[i] = c[i]
      /\ Append(c, y)[n + 1] = y
  <2> HIDE DEF c, T, y
  <2> QED BY <1>4, <1>5, AppendProperties
<1> DEFINE e == ChainOf(q)
<1>7. e = [i \in 1 .. n + 1 |-> <<q[i].parent, q[i].at>>]
  BY <1>1 DEF ChainOf
<1>8. \A i \in 1 .. n + 1 : e[i] = Append(c, y)[i]
  <2> SUFFICES ASSUME NEW i \in 1 .. n + 1 PROVE e[i] = Append(c, y)[i]
    OBVIOUS
  <2>1. CASE i = n + 1
    BY <1>1, <1>6, <1>7, <2>1
  <2>2. CASE i # n + 1
    <3>1. i \in 1 .. n
      BY <1>1, <2>2
    <3>2. e[i] = <<p[i].parent, p[i].at>>
      BY <1>1, <1>7, <3>1
    <3> QED BY <1>1, <1>2, <1>6, <3>1, <3>2
  <2> QED BY <2>1, <2>2
<1>9. DOMAIN Append(c, y) = 1 .. n + 1
  <2> HIDE DEF c, T, y
  <2> QED BY <1>6, LenProperties
<1> DEFINE l == Append(c, y)
<1>10. l = [i \in 1 .. n + 1 |-> l[i]]
  <2> HIDE DEF c, T, y
  <2>1. l \in Seq(T)
    BY <1>6
  <2>2. l \in [1 .. Len(l) -> T]
    BY <2>1, LenProperties, SeqDef
  <2> QED BY <1>6, <2>2
<1>11. e = l
  <2> HIDE DEF c, y, l
  <2>1. \A i \in 1 .. n + 1 : <<q[i].parent, q[i].at>> = l[i]
    BY <1>7, <1>8 DEF l
  <2> HIDE DEF e
  <2> QED BY <1>7, <1>10, <2>1
<1> QED BY <1>1, <1>2, <1>5, <1>11

\* The secret, or the input, that a value is and nothing else.
LEMMA WholeKey ==
  \A t, c, s : Whole(t, c) /\ Upper[WholeName(t)] = s <=> \E m \in Alone(t, c) : KeyOf(m.member) = s
  BY WholeIs DEF KeyOf

HandedRoot(x, n) ==
  [file |-> x[1].file, job |-> Identifier[x[2]], step |-> x[3], root |-> Identifier[n], chain |-> <<>>,
   dir |-> StepOf(x).uses.target, input |-> Identifier[n]]

LEMMA RootsSeen ==
  ASSUME ReadTaken, FilesTaken, phase \in Later, JobsApart
  PROVE  \A s, h : (\E x \in StepsAt : Runs(StepOf(x).uses) /\ h \in HandedByStep(s, x))
                     <=> \E f \in repo.flows : Upper[f.secret] = s /\ h = Seen(f)
<1> SUFFICES ASSUME NEW s, NEW h
             PROVE  (\E x \in StepsAt : Runs(StepOf(x).uses) /\ h \in HandedByStep(s, x))
                      <=> \E f \in repo.flows : Upper[f.secret] = s /\ h = Seen(f)
  OBVIOUS
<1> DEFINE Binding2(x, n) == n \in DOMAIN With(StepOf(x)) /\ Binds(x, n)
           Is(x, n) == Upper[WholeName(With(StepOf(x))[n])] = s
<1>1. \A x, n : Seen(RootFlow(x, n)) = HandedRoot(x, n) /\ RootFlow(x, n).secret = WholeName(With(StepOf(x))[n])
  <2>1. ChainOf(<<>>) = <<>>
    BY DEF ChainOf
  <2> QED BY <2>1 DEF RootFlow, Seen, HandedRoot
<1>2. \A x \in StepsAt : Runs(StepOf(x).uses) =>
         \A n : Reading(StepOf(x).uses.target, Identifier[n]) # {} <=> Reads(StepOf(x).uses.target, Identifier[n])
  <2> SUFFICES ASSUME NEW x \in StepsAt, Runs(StepOf(x).uses)
               PROVE  \A n : Reading(StepOf(x).uses.target, Identifier[n]) # {} <=> Reads(StepOf(x).uses.target, Identifier[n])
    OBVIOUS
  <2>1. PICK d \in KeptWorkflows : \E k \in DOMAIN d.jobs : \E i \in DOMAIN d.jobs[k].steps : x = <<d, k, i>>
    BY StepsAre
  <2>2. PICK k \in DOMAIN d.jobs : \E i \in DOMAIN d.jobs[k].steps : x = <<d, k, i>>
    BY <2>1
  <2>3. PICK i \in DOMAIN d.jobs[k].steps : x = <<d, k, i>>
    BY <2>2
  <2>4. docs \in Inputs /\ Parses(d)
    BY DEF ReadTaken, KeptWorkflows
  <2>5. StepOf(x).uses \in Uses \cup {Absent}
    BY <2>3, <2>4, UsesGiven DEF StepOf
  <2>6. metadataStatus(StepOf(x).uses.target) = "resolved_local_composite"
    BY <2>4, <2>5, RunsIs
  <2> QED BY <2>4, <2>6, UsagesAre
<1>3. \A x : h \in HandedByStep(s, x)
               <=> \E n \in DOMAIN With(StepOf(x)) :
                     /\ Reading(StepOf(x).uses.target, Identifier[n]) # {}
                     /\ \E m \in Alone(With(StepOf(x))[n], "secrets") : KeyOf(m.member) = s
                     /\ h = HandedRoot(x, n)
  BY DEF HandedByStep, HandedRoot
<1>4. \A x \in StepsAt : Runs(StepOf(x).uses) => (h \in HandedByStep(s, x) <=> \E n : Binding2(x, n) /\ Is(x, n) /\ h = HandedRoot(x, n))
  <2> SUFFICES ASSUME NEW x \in StepsAt, Runs(StepOf(x).uses)
               PROVE  h \in HandedByStep(s, x) <=> \E n : Binding2(x, n) /\ Is(x, n) /\ h = HandedRoot(x, n)
    OBVIOUS
  <2>1. \A n : (\E m \in Alone(With(StepOf(x))[n], "secrets") : KeyOf(m.member) = s)
                 <=> Whole(With(StepOf(x))[n], "secrets") /\ Is(x, n)
    <3> SUFFICES ASSUME NEW n
                 PROVE  (\E m \in Alone(With(StepOf(x))[n], "secrets") : KeyOf(m.member) = s)
                          <=> Whole(With(StepOf(x))[n], "secrets") /\ Is(x, n)
      OBVIOUS
    <3> DEFINE t == With(StepOf(x))[n]
               c == "secrets"
    <3>1. Is(x, n) <=> Upper[WholeName(t)] = s
      OBVIOUS
    <3> HIDE DEF t, c, Is
    <3>2. Whole(t, c) /\ Upper[WholeName(t)] = s <=> \E m \in Alone(t, c) : KeyOf(m.member) = s
      BY WholeKey
    <3>3. Whole(t, c) /\ Is(x, n) <=> \E m \in Alone(t, c) : KeyOf(m.member) = s
      BY <3>1, <3>2
    <3> QED BY <3>3 DEF t, c
  <2>2. \A n : Binding2(x, n) <=> /\ n \in DOMAIN With(StepOf(x))
                                  /\ Reading(StepOf(x).uses.target, Identifier[n]) # {}
                                  /\ Whole(With(StepOf(x))[n], "secrets")
    BY <1>2 DEF Binds
  <2> HIDE DEF Binding2, Is
  <2> QED BY <1>3, <2>1, <2>2
<1>5. \A f : f \in repo.flows <=> \E x \in StepsAt : Runs(StepOf(x).uses) /\ \E n : Binding2(x, n) /\ f = RootFlow(x, n)
  BY RootFlowsAre
<1> HIDE DEF Binding2
<1>6. ASSUME NEW x \in StepsAt, Runs(StepOf(x).uses), h \in HandedByStep(s, x)
      PROVE  \E f \in repo.flows : Upper[f.secret] = s /\ h = Seen(f)
  <2>1. PICK n : Binding2(x, n) /\ Is(x, n) /\ h = HandedRoot(x, n)
    BY <1>4, <1>6
  <2>2. RootFlow(x, n) \in repo.flows
    BY <1>5, <1>6, <2>1
  <2> QED BY <1>1, <2>1, <2>2
<1>7. ASSUME NEW f \in repo.flows, Upper[f.secret] = s, h = Seen(f)
      PROVE  \E x \in StepsAt : Runs(StepOf(x).uses) /\ h \in HandedByStep(s, x)
  <2>1. PICK x \in StepsAt : Runs(StepOf(x).uses) /\ \E n : Binding2(x, n) /\ f = RootFlow(x, n)
    BY <1>5
  <2>2. PICK n : Binding2(x, n) /\ f = RootFlow(x, n)
    BY <2>1
  <2>3. Is(x, n) /\ h = HandedRoot(x, n)
    BY <1>1, <1>7, <2>2
  <2> QED BY <1>4, <2>1, <2>2, <2>3
<1> QED BY <1>6, <1>7

LEMMA HopsSeen ==
  ASSUME docs \in Inputs, ActionsRead, NEW f, Settled(f), IsPath(f.path)
  PROVE  \A h : (\E i \in Reading(f.dir, f.input) : h \in HandedByAction(Seen(f), i)) <=> \E g \in Hops(repo, f) : h = Seen(g)
<1> SUFFICES ASSUME NEW h
             PROVE  (\E i \in Reading(f.dir, f.input) : h \in HandedByAction(Seen(f), i)) <=> \E g \in Hops(repo, f) : h = Seen(g)
  OBVIOUS
<1> DEFINE s == Seen(f)
           a(i) == TheAction(f.dir).steps[i]
           On(i, n) == [s EXCEPT !.chain = Append(s.chain, <<s.dir, i>>), !.dir = a(i).uses.target, !.input = Identifier[n]]
           Able(i) == /\ Runs(a(i).uses) /\ Len(f.path) + 2 <= MaxCompositeActionNestingDepth
                      /\ a(i).uses.target \notin Visited(f)
           Fit(i, n) == /\ n \in DOMAIN With(a(i)) /\ Reading(a(i).uses.target, Identifier[n]) # {}
                        /\ \E m \in Alone(With(a(i))[n], "inputs") : Identifier[m.member] = f.input
<1>1. metadataStatus(f.dir) = "resolved_local_composite" /\ f.usages = Reading(f.dir, f.input)
  BY UsagesAre DEF Settled
<1>2. \A i \in f.usages : a(i).uses \in Uses \cup {Absent}
  BY <1>1, RunningAction DEF Reading
<1>3. /\ s.dir = f.dir /\ s.input = f.input /\ s.chain = ChainOf(f.path)
      /\ Len(s.chain) = Len(f.path)
  BY ChainGrows DEF Seen
<1>4. {s.dir} \cup {s.chain[c][1] : c \in DOMAIN s.chain} = Visited(f)
  <2> DEFINE c == ChainOf(f.path)
  <2>1. DOMAIN c = DOMAIN f.path /\ \A i \in DOMAIN f.path : c[i][1] = f.path[i].parent
    BY ChainGrows
  <2> HIDE DEF c, s
  <2>2. {c[i][1] : i \in DOMAIN c} = {f.path[i].parent : i \in DOMAIN f.path}
    BY <2>1
  <2>3. s.chain = c
    BY <1>3 DEF c
  <2> QED BY <1>3, <2>2, <2>3 DEF Visited
<1>5. \A i : h \in HandedByAction(s, i) <=> Able(i) /\ \E n : Fit(i, n) /\ h = On(i, n)
  <2> SUFFICES ASSUME NEW i PROVE h \in HandedByAction(s, i) <=> Able(i) /\ \E n : Fit(i, n) /\ h = On(i, n)
    OBVIOUS
  <2>1. HandedByAction(s, i) =
          IF /\ Runs(a(i).uses) /\ Len(s.chain) + 2 <= MaxCompositeActionNestingDepth
             /\ a(i).uses.target \notin {s.dir} \cup {s.chain[c][1] : c \in DOMAIN s.chain}
          THEN {On(i, k) : k \in {n \in DOMAIN With(a(i)) :
                                    /\ Reading(a(i).uses.target, Identifier[n]) # {}
                                    /\ \E m \in Alone(With(a(i))[n], "inputs") : Identifier[m.member] = s.input}}
          ELSE {}
    BY <1>3 DEF HandedByAction
  <2> HIDE DEF s, On
  <2>2. HandedByAction(s, i) = IF Able(i) THEN {On(i, k) : k \in {n \in DOMAIN With(a(i)) : Fit(i, n)}} ELSE {}
    BY <1>3, <1>4, <2>1
  <2> HIDE DEF Able
  <2>3. \A n : Fit(i, n) => n \in DOMAIN With(a(i))
    OBVIOUS
  <2> HIDE DEF Fit
  <2> QED BY <2>2, <2>3
<1>6. \A i \in f.usages : \A n : GoesOn(f, i, n) <=> Able(i) /\ Fit(i, n)
  <2> SUFFICES ASSUME NEW i \in f.usages, NEW n PROVE GoesOn(f, i, n) <=> Able(i) /\ Fit(i, n)
    OBVIOUS
  <2>1. Whole(With(a(i))[n], "inputs") /\ WholeName(With(a(i))[n]) = f.input
          <=> \E m \in Alone(With(a(i))[n], "inputs") : Identifier[m.member] = f.input
    <3> DEFINE t == With(a(i))[n]
               c == "inputs"
    <3> HIDE DEF t, c
    <3>1. Whole(t, c) /\ WholeName(t) = f.input <=> \E m \in Alone(t, c) : Identifier[m.member] = f.input
      BY WholeIs
    <3> QED BY <3>1 DEF t, c
  <2>2. Runs(a(i).uses) => (Reads(a(i).uses.target, Identifier[n]) <=> Reading(a(i).uses.target, Identifier[n]) # {})
    <3>1. Runs(a(i).uses) => metadataStatus(a(i).uses.target) = "resolved_local_composite"
      BY <1>2, RunsIs
    <3> QED BY <3>1, UsagesAre
  <2> QED BY <2>1, <2>2 DEF GoesOn
<1>7. \A i, n : Seen(NextFlow(f, i, n)) = On(i, n)
  <2> SUFFICES ASSUME NEW i, NEW n PROVE Seen(NextFlow(f, i, n)) = On(i, n)
    OBVIOUS
  <2> DEFINE to == a(i).uses.target
             x == [parent |-> f.dir, at |-> i, child |-> to]
             p == Append(f.path, x)
             g == NextFlow(f, i, n)
  <2>1. /\ g.workflow = f.workflow /\ g.job = f.job /\ g.step = f.step /\ g.rootInput = f.rootInput
        /\ g.path = p /\ g.dir = to /\ g.input = Identifier[n]
    BY DEF NextFlow
  <2>2. ChainOf(p) = Append(ChainOf(f.path), <<f.dir, i>>)
    <3>1. ChainOf(Append(f.path, x)) = Append(ChainOf(f.path), <<x.parent, x.at>>)
      BY ChainGrows
    <3>2. x.parent = f.dir /\ x.at = i
      OBVIOUS
    <3> HIDE DEF x
    <3> QED BY <3>1, <3>2
  <2> HIDE DEF to, p, g
  <2>3. Seen(g) = [file |-> f.workflow, job |-> f.job, step |-> f.step, root |-> f.rootInput,
                   chain |-> Append(ChainOf(f.path), <<f.dir, i>>), dir |-> to, input |-> Identifier[n]]
    BY <2>1, <2>2 DEF Seen
  <2>4. On(i, n) = [file |-> f.workflow, job |-> f.job, step |-> f.step, root |-> f.rootInput,
                    chain |-> Append(ChainOf(f.path), <<f.dir, i>>), dir |-> to, input |-> Identifier[n]]
    <3>1. s = [file |-> f.workflow, job |-> f.job, step |-> f.step, root |-> f.rootInput, chain |-> ChainOf(f.path),
               dir |-> f.dir, input |-> f.input]
      BY DEF Seen
    <3> DEFINE c2 == Append(ChainOf(f.path), <<f.dir, i>>)
               name == Identifier[n]
    <3>2. On(i, n) = [s EXCEPT !.chain = c2, !.dir = to, !.input = name]
      <4> HIDE DEF s
      <4> QED BY <1>3 DEF to
    <3> HIDE DEF c2, name, s, On
    <3> DEFINE t == [file |-> f.workflow, job |-> f.job, step |-> f.step, root |-> f.rootInput, chain |-> c2,
                     dir |-> to, input |-> name]
               F == {"file", "job", "step", "root", "chain", "dir", "input"}
    <3>5. On(i, n) = [k \in F |-> IF k = "input" THEN name ELSE IF k = "dir" THEN to
                                  ELSE IF k = "chain" THEN c2 ELSE s[k]]
      BY <3>1, <3>2
    <3>6. \A k \in F : t[k] = IF k = "input" THEN name ELSE IF k = "dir" THEN to
                              ELSE IF k = "chain" THEN c2 ELSE s[k]
      BY <3>1
    <3>7. t = [k \in F |-> t[k]]
      OBVIOUS
    <3> HIDE DEF t
    <3>4. On(i, n) = [file |-> f.workflow, job |-> f.job, step |-> f.step, root |-> f.rootInput, chain |-> c2,
                      dir |-> to, input |-> name]
      BY <3>5, <3>6, <3>7 DEF t
    <3> QED BY <3>4 DEF c2, name
  <2> QED BY <2>3, <2>4 DEF g
<1>8. \A g : g \in Hops(repo, f) <=> \E i \in f.usages : \E n : GoesOn(f, i, n) /\ g = NextFlow(f, i, n)
  BY HopIs
<1> HIDE DEF s, On, Able, Fit
<1>9. (\E i \in f.usages : h \in HandedByAction(s, i)) <=> \E i \in f.usages : \E n : GoesOn(f, i, n) /\ h = On(i, n)
  BY <1>5, <1>6
<1>10. (\E g \in Hops(repo, f) : h = Seen(g)) <=> \E i \in f.usages : \E n : GoesOn(f, i, n) /\ h = On(i, n)
  BY <1>7, <1>8
<1> QED BY <1>1, <1>9, <1>10 DEF s

(***************************************************************************)
(* The flows of a secret are what the files hand down of it.               *)
(***************************************************************************)
LEMMA HandedIsSeen ==
  ASSUME ReadTaken, FilesTaken, phase \in Later, JobsApart
  PROVE  \A s, h : h \in HandedDown(s) <=> \E f \in AllFlows : Upper[f.secret] = s /\ h = Seen(f)
<1> SUFFICES ASSUME NEW s
             PROVE  \A h : h \in HandedDown(s) <=> \E f \in AllFlows : Upper[f.secret] = s /\ h = Seen(f)
  OBVIOUS
<1> DEFINE N == MaxCompositeActionNestingDepth
           Known2(h) == \E f \in AllFlows : Upper[f.secret] = s /\ h = Seen(f)
<1>1. docs \in Inputs /\ ActionsRead /\ FlowsLinked(repo)
  BY DEF ReadTaken
<1>2. PICK level : /\ \A h : h \in level[1] <=> \E x \in StepsAt : Runs(StepOf(x).uses) /\ h \in HandedByStep(s, x)
                   /\ \A n \in 2 .. N : \A h : h \in level[n] <=>
                        \E g \in level[n - 1] : \E i \in Reading(g.dir, g.input) : h \in HandedByAction(g, i)
                   /\ \A h : h \in HandedDown(s) <=> \E n \in 1 .. N : h \in level[n]
  BY HandedDownAre
<1>3. N \in Nat \ {0}
  BY LimitsAssumption
<1>4. \A h : h \in level[1] <=> \E f \in repo.flows : Upper[f.secret] = s /\ h = Seen(f)
  BY <1>2, RootsSeen
<1>5. \A f \in AllFlows : \A h : (\E i \in Reading(f.dir, f.input) : h \in HandedByAction(Seen(f), i))
                                   <=> \E g \in Hops(repo, f) : h = Seen(g)
  <2> SUFFICES ASSUME NEW f \in AllFlows
               PROVE  \A h : (\E i \in Reading(f.dir, f.input) : h \in HandedByAction(Seen(f), i))
                               <=> \E g \in Hops(repo, f) : h = Seen(g)
    OBVIOUS
  <2>1. Settled(f)
    BY FlowsSettled
  <2>2. IsPath(f.path)
    BY <1>1 DEF FlowsLinked, AllFlows
  <2> QED BY <1>1, <2>1, <2>2, HopsSeen
<1>6. \A f : Seen(f).dir = f.dir /\ Seen(f).input = f.input
  BY DEF Seen
<1>7. \A f \in AllFlows : \A g \in Hops(repo, f) :
        /\ g \in AllFlows /\ g.secret = f.secret
        /\ Len(g.path) = Len(f.path) + 1 /\ Len(f.path) \in Nat /\ Len(g.path) + 1 <= N
  <2> SUFFICES ASSUME NEW f \in AllFlows, NEW g \in Hops(repo, f)
               PROVE  /\ g \in AllFlows /\ g.secret = f.secret
                      /\ Len(g.path) = Len(f.path) + 1 /\ Len(f.path) \in Nat /\ Len(g.path) + 1 <= N
    OBVIOUS
  <2>1. IsPath(f.path) /\ g \in AllFlows
    BY <1>1 DEF FlowsLinked, AllFlows
  <2>2. PICK c \in Onwards(repo, f) : \E b \in BoundAt(f, c) : g = FlowOf(f, c, b)
    BY HopsAre
  <2>3. g.secret = f.secret
    BY <2>2 DEF FlowOf
  <2> QED BY <2>1, <2>3, HopPath
<1> HIDE DEF N
<1>8. \A n \in 1 .. N : \A h \in level[n] : Known2(h)
  <2> DEFINE T == {n \in 1 .. N : \E h \in level[n] : ~Known2(h)}
  <2> SUFFICES ASSUME T # {} PROVE FALSE
    OBVIOUS
  <2>1. PICK n \in T : \A m \in T : n <= m
    <3>1. T \in SUBSET Nat
      BY <1>3
    <3> HIDE DEF T
    <3> QED BY <3>1, LeastNumber
  <2>2. PICK h \in level[n] : ~Known2(h)
    OBVIOUS
  <2>3. n # 1
    BY <1>4, <2>2 DEF AllFlows
  <2>4. n \in 2 .. N /\ n - 1 \in 1 .. N
    BY <1>3, <2>3
  <2>5. n - 1 \notin T
    <3> HIDE DEF T
    <3> QED BY <2>1, <2>4
  <2>6. PICK g \in level[n - 1] : \E i \in Reading(g.dir, g.input) : h \in HandedByAction(g, i)
    BY <1>2, <2>2, <2>4
  <2>7. Known2(g)
    <3> HIDE DEF Known2
    <3> QED BY <2>4, <2>5
  <2>8. PICK f \in AllFlows : Upper[f.secret] = s /\ g = Seen(f)
    BY <2>7
  <2>9. PICK e \in Hops(repo, f) : h = Seen(e)
    BY <1>5, <1>6, <2>6, <2>8
  <2> QED BY <1>7, <2>2, <2>8, <2>9
<1>9. \A f \in AllFlows : Upper[f.secret] = s => Len(f.path) + 1 \in 1 .. N /\ Seen(f) \in level[Len(f.path) + 1]
  <2> DEFINE S == {f \in AllFlows : Upper[f.secret] = s => Len(f.path) + 1 \in 1 .. N /\ Seen(f) \in level[Len(f.path) + 1]}
  <2>1. repo.flows \subseteq S
    <3> SUFFICES ASSUME NEW f \in repo.flows PROVE f \in S
      OBVIOUS
    <3>1. Len(f.path) + 1 = 1
      BY <1>1, NoPath DEF FlowsLinked
    <3>2. Upper[f.secret] = s => Seen(f) \in level[1]
      BY <1>4
    <3> QED BY <1>3, <3>1, <3>2 DEF AllFlows
  <2>2. ASSUME NEW f \in AllFlows, f \in S, NEW g \in Hops(repo, f) PROVE g \in S
    <3>1. /\ g \in AllFlows /\ g.secret = f.secret
          /\ Len(g.path) = Len(f.path) + 1 /\ Len(f.path) \in Nat /\ Len(g.path) + 1 <= N
      BY <1>7
    <3>2. ASSUME Upper[g.secret] = s PROVE Len(g.path) + 1 \in 1 .. N /\ Seen(g) \in level[Len(g.path) + 1]
      <4> DEFINE n == Len(f.path) + 1
      <4>1. Seen(f) \in level[n] /\ n \in Nat
        BY <2>2, <3>1, <3>2
      <4>2. n + 1 = Len(g.path) + 1 /\ n + 1 \in 2 .. N
        BY <1>3, <3>1
      <4>3. \E i \in Reading(f.dir, f.input) : Seen(g) \in HandedByAction(Seen(f), i)
        BY <1>5
      <4>4. (n + 1) - 1 = n
        BY <4>1
      <4> HIDE DEF n
      <4>5. Seen(g) \in level[n + 1]
        BY <1>2, <1>6, <4>1, <4>2, <4>3, <4>4
      <4> QED BY <1>3, <4>2, <4>5
    <3> QED BY <3>1, <3>2
  <2>3. \A f \in AllFlows : f \in S => Hops(repo, f) \subseteq S
    BY <2>2
  <2>4. AllFlows \subseteq S
    <3> HIDE DEF S
    <3> QED BY <1>1, <2>1, <2>3, FlowInduction
  <2> QED BY <2>4
<1>10. ASSUME NEW h, h \in HandedDown(s) PROVE Known2(h)
  <2> HIDE DEF Known2
  <2> QED BY <1>2, <1>8, <1>10 DEF N
<1>11. ASSUME NEW h, Known2(h) PROVE h \in HandedDown(s)
  <2>1. PICK f \in AllFlows : Upper[f.secret] = s /\ h = Seen(f)
    BY <1>11
  <2> QED BY <1>2, <1>9, <2>1 DEF N
<1> QED BY <1>10, <1>11

(***************************************************************************)
(* Who holds a secret, by the nodes of the graph.                          *)
(***************************************************************************)
UsagePlace(n) == <<"usage", n[2][1], n[2][2], n[2][3], n[2][4],
                   [i \in DOMAIN n[3] |-> <<n[3][i].parent, n[3][i].at>>], n[4], n[5], n[6]>>
Placed(n, y) == \/ n[1] = "step" /\ y = <<"step", n[2], n[4], n[5]>>
                \/ n[1] = "service" /\ y = <<"service", n[2], n[3]>>
                \/ n[1] = "usage" /\ y = UsagePlace(n)

LEMMA PlacesAre == \A R, y : y \in Places(R) <=> \E n \in R : Placed(n, y)
<1> SUFFICES ASSUME NEW R, NEW y PROVE y \in Places(R) <=> \E n \in R : Placed(n, y)
  OBVIOUS
<1> DEFINE A == {<<"step", n[2], n[4], n[5]>> : n \in {x \in R : x[1] = "step"}}
           B == {<<"service", n[2], n[3]>> : n \in {x \in R : x[1] = "service"}}
           C == {UsagePlace(n) : n \in {x \in R : x[1] = "usage"}}
<1>1. Places(R) = A \cup B \cup C
  BY DEF Places, UsagePlace
<1>2. y \in A <=> \E n \in R : n[1] = "step" /\ y = <<"step", n[2], n[4], n[5]>>
  OBVIOUS
<1>3. y \in B <=> \E n \in R : n[1] = "service" /\ y = <<"service", n[2], n[3]>>
  OBVIOUS
<1>4. y \in C <=> \E n \in R : n[1] = "usage" /\ y = UsagePlace(n)
  OBVIOUS
<1> HIDE DEF A, B, C
<1> QED BY <1>1, <1>2, <1>3, <1>4 DEF Placed

LEMMA ReadersAre ==
  ASSUME ReadTaken, FilesTaken, phase \in Later, JobsApart
  PROVE  \A s, y : (\E h \in HandedDown(s) : y \in Readers(h))
                     <=> \E f \in AllFlows : Upper[f.secret] = s /\ \E i \in f.usages : y = UsagePlace(UsageId(f, i))
<1>1. docs \in Inputs
  BY DEF ReadTaken
<1>2. \A f \in AllFlows : f.usages = Reading(f.dir, f.input)
  <2>1. \A f \in AllFlows : Settled(f)
    BY FlowsSettled
  <2> QED BY <1>1, <2>1, UsagesAre DEF Settled
<1>3. \A f, i : UsagePlace(UsageId(f, i)) =
                  <<"usage", f.workflow, f.job, f.step, f.rootInput, ChainOf(f.path), f.dir, f.input, i>>
  BY DEF UsagePlace, UsageId, RootOf, ChainOf
<1>4. \A f, y : y \in Readers(Seen(f)) <=> \E i \in Reading(f.dir, f.input) : y = UsagePlace(UsageId(f, i))
  <2> SUFFICES ASSUME NEW f, NEW y
               PROVE  y \in Readers(Seen(f)) <=> \E i \in Reading(f.dir, f.input) : y = UsagePlace(UsageId(f, i))
    OBVIOUS
  <2> DEFINE h == Seen(f)
  <2>1. /\ h.file = f.workflow /\ h.job = f.job /\ h.step = f.step /\ h.root = f.rootInput /\ h.chain = ChainOf(f.path)
        /\ h.dir = f.dir /\ h.input = f.input
    BY DEF Seen
  <2> HIDE DEF h
  <2>2. y \in Readers(h) <=> \E i \in Reading(h.dir, h.input) :
                                y = <<"usage", h.file, h.job, h.step, h.root, h.chain, h.dir, h.input, i>>
    BY DEF Readers
  <2>3. \A i : <<"usage", h.file, h.job, h.step, h.root, h.chain, h.dir, h.input, i>> = UsagePlace(UsageId(f, i))
    BY <1>3, <2>1
  <2>4. y \in Readers(h) <=> \E i \in Reading(f.dir, f.input) : y = UsagePlace(UsageId(f, i))
    BY <2>1, <2>2, <2>3
  <2> QED BY <2>4 DEF h
<1>5. \A s, h : h \in HandedDown(s) <=> \E f \in AllFlows : Upper[f.secret] = s /\ h = Seen(f)
  BY HandedIsSeen
<1> QED BY <1>2, <1>4, <1>5

LEMMA HoldersAre ==
  ASSUME ReadTaken, FilesTaken, phase \in Later, JobsApart
  PROVE  \A s, y : y \in Holders(s) <=>
           \/ \E x \in StepsAt : s \in StepHas(x) /\ y = StepPlace(x)
           \/ \E x \in ServicesAt : s \in HeldBy(x) /\ y = ServicePlace(x)
           \/ \E f \in AllFlows : Upper[f.secret] = s /\ \E i \in f.usages : y = UsagePlace(UsageId(f, i))
<1> SUFFICES ASSUME NEW s, NEW y
             PROVE  y \in Holders(s) <=>
                      \/ \E x \in StepsAt : s \in StepHas(x) /\ y = StepPlace(x)
                      \/ \E x \in ServicesAt : s \in HeldBy(x) /\ y = ServicePlace(x)
                      \/ \E f \in AllFlows : Upper[f.secret] = s /\ \E i \in f.usages : y = UsagePlace(UsageId(f, i))
  OBVIOUS
<1> DEFINE A == {StepPlace(x) : x \in {z \in StepsAt : s \in StepHas(z)}}
           B == {ServicePlace(x) : x \in {z \in ServicesAt : s \in HeldBy(z)}}
           C == UNION {Readers(h) : h \in HandedDown(s)}
<1>1. Holders(s) = A \cup B \cup C
  BY DEF Holders, StepPlace, ServicePlace, HeldBy
<1>2. y \in A <=> \E x \in StepsAt : s \in StepHas(x) /\ y = StepPlace(x)
  OBVIOUS
<1>3. y \in B <=> \E x \in ServicesAt : s \in HeldBy(x) /\ y = ServicePlace(x)
  OBVIOUS
<1>4. y \in C <=> \E h \in HandedDown(s) : y \in Readers(h)
  OBVIOUS
<1>5. (\E h \in HandedDown(s) : y \in Readers(h))
         <=> \E f \in AllFlows : Upper[f.secret] = s /\ \E i \in f.usages : y = UsagePlace(UsageId(f, i))
  BY ReadersAre
<1> HIDE DEF A, B, C
<1> QED BY <1>1, <1>2, <1>3, <1>4, <1>5

(***************************************************************************)
(* A node that only holders of the secrets S are led to.                   *)
(***************************************************************************)
Sees(S, n) ==
  /\ n[1] # "composesecret"
  /\ n[1] = "credential" => \E a \in S : n = CredentialId(a)
  /\ n[1] = "step"       => \E a \in S : \E x \in StepsAt : a \in StepHas(x) /\ IsStep(n, x)
  /\ n[1] = "service"    => \E a \in S : \E x \in ServicesAt : a \in HeldBy(x) /\ n = ServicePlace(x)
  /\ n[1] = "binding"    => \E f \in AllFlows : Upper[f.secret] \in S /\ n = BindingId(f)
  /\ n[1] = "usage"      => \E f \in AllFlows : Upper[f.secret] \in S /\ \E i \in f.usages : n = UsageId(f, i)

LEMMA SeesMore == \A S, T, n : S \subseteq T /\ Sees(S, n) => Sees(T, n)
<1> SUFFICES ASSUME NEW S, NEW T, NEW n, S \subseteq T, Sees(S, n) PROVE Sees(T, n)
  OBVIOUS
<1> QED BY DEF Sees

\* Which of the clauses counts for a node.
LEMMA SeesByType ==
  ASSUME NEW S
  PROVE  /\ \A a : Sees(S, CredentialId(a)) <=> a \in S
         /\ \A f \in AllFlows : Sees(S, BindingId(f)) <=> \E g \in AllFlows : Upper[g.secret] \in S /\ BindingId(f) = BindingId(g)
         /\ \A f, i : Sees(S, UsageId(f, i))
              <=> \E g \in AllFlows : Upper[g.secret] \in S /\ \E k \in g.usages : UsageId(f, i) = UsageId(g, k)
         /\ \A f : Sees(S, ParentUsageId(f))
              <=> \E g \in AllFlows : Upper[g.secret] \in S /\ \E k \in g.usages : ParentUsageId(f) = UsageId(g, k)
<1>1. \A a : CredentialId(a)[1] = "credential" /\ \A b : CredentialId(a) = CredentialId(b) => a = b
  BY DEF CredentialId
<1>2. \A f : BindingId(f)[1] = "binding"
  BY DEF BindingId
<1>3. \A f, i : UsageId(f, i)[1] = "usage"
  BY DEF UsageId
<1>4. \A f : ParentUsageId(f)[1] = "usage"
  BY DEF ParentUsageId
<1>5. \A a : Sees(S, CredentialId(a)) <=> a \in S
  <2>1. \A a : Sees(S, CredentialId(a)) <=> \E b \in S : CredentialId(a) = CredentialId(b)
    BY <1>1 DEF Sees
  <2> QED BY <1>1, <2>1
<1>6. \A f : Sees(S, BindingId(f)) <=> \E g \in AllFlows : Upper[g.secret] \in S /\ BindingId(f) = BindingId(g)
  BY <1>2 DEF Sees
<1>7. \A f, i : Sees(S, UsageId(f, i))
         <=> \E g \in AllFlows : Upper[g.secret] \in S /\ \E k \in g.usages : UsageId(f, i) = UsageId(g, k)
  BY <1>3 DEF Sees
<1>8. \A f : Sees(S, ParentUsageId(f))
         <=> \E g \in AllFlows : Upper[g.secret] \in S /\ \E k \in g.usages : ParentUsageId(f) = UsageId(g, k)
  BY <1>4 DEF Sees
<1> QED BY <1>5, <1>6, <1>7, <1>8

\* A secret that a binding or a usage is seen to carry is that of every flow with that identity.
LEMMA SourceSeen ==
  ASSUME ReadTaken, FilesTaken, phase \in Later, JobsApart, NEW S, NEW f \in AllFlows
  PROVE  /\ Sees(S, BindingId(f)) => Upper[f.secret] \in S
         /\ Sees(S, ParentUsageId(f)) => Upper[f.secret] \in S
<1>1. ASSUME Sees(S, BindingId(f)) PROVE Upper[f.secret] \in S
  <2>1. PICK g \in AllFlows : Upper[g.secret] \in S /\ BindingId(f) = BindingId(g)
    BY <1>1, SeesByType
  <2>2. RootOf(f) = RootOf(g)
    BY <2>1 DEF BindingId
  <2>3. f.secret = g.secret
    BY <2>2, OneSource
  <2> QED BY <2>1, <2>3
<1>2. ASSUME Sees(S, ParentUsageId(f)) PROVE Upper[f.secret] \in S
  <2>1. PICK g \in AllFlows : Upper[g.secret] \in S /\ \E k \in g.usages : ParentUsageId(f) = UsageId(g, k)
    BY <1>2, SeesByType
  <2>2. RootOf(f) = RootOf(g)
    BY <2>1 DEF ParentUsageId, UsageId
  <2>3. f.secret = g.secret
    BY <2>2, OneSource
  <2> QED BY <2>1, <2>3
<1> QED BY <1>1, <1>2

\* Where an arrow of a flow leads.
LEMMA FlowSees ==
  ASSUME ReadTaken, FilesTaken, phase \in Later, JobsApart, NEW S, NEW f \in AllFlows, NEW r, Sees(S, r[1]),
         r \in FlowArrows(f) \cup NestedArrows(f)
  PROVE  Sees(S, r[2])
<1> DEFINE U == {<<BindingId(f), UsageId(f, i), "plain">> : i \in f.usages} \cup
                {<<BindingId(f), UsageId(f, i), "within">> : i \in f.usages}
<1>1. \/ r = <<CredentialId(Upper[f.secret]), BindingId(f), "plain">>
      \/ r = <<ParentUsageId(f), BindingId(f), "crossing">>
      \/ r \in U
  BY DEF FlowArrows, NestedArrows
<1>2. Upper[f.secret] \in S => Sees(S, BindingId(f)) /\ \A i \in f.usages : Sees(S, UsageId(f, i))
  BY SeesByType
<1>3. CASE r = <<CredentialId(Upper[f.secret]), BindingId(f), "plain">>
  <2>1. r[1] = CredentialId(Upper[f.secret]) /\ r[2] = BindingId(f)
    BY <1>3
  <2>2. Upper[f.secret] \in S
    BY <2>1, SeesByType
  <2> QED BY <1>2, <2>1, <2>2
<1>4. CASE r = <<ParentUsageId(f), BindingId(f), "crossing">>
  <2>1. r[1] = ParentUsageId(f) /\ r[2] = BindingId(f)
    BY <1>4
  <2> QED BY <1>2, <2>1, SourceSeen
<1>5. CASE r \in U
  <2>1. PICK i \in f.usages : r[1] = BindingId(f) /\ r[2] = UsageId(f, i)
    BY <1>5
  <2> QED BY <1>2, <2>1, SourceSeen
<1> QED BY <1>1, <1>3, <1>4, <1>5

\* An edge that is followed leads from who has a secret to who has it.
LEMMA EdgeSees ==
  ASSUME ReadTaken, FilesTaken, phase \in Later, JobsApart, OnlyArrows,
         NEW S, NEW T, S \subseteq T, \A a \in S : Shown(a),
         NEW e \in edges, Walkable(e), Sees(S, e.from), e.class = "reusable" => \A a \in S : HandedOn(a) \subseteq T
  PROVE  Sees(T, e.to)
<1>1. CASE ~Leads(e)
  <2>1. e.to[1] \notin Followed
    BY <1>1 DEF Leads, Walkable, Sees
  <2> QED BY <2>1 DEF Followed, Sees
<1>2. CASE Leads(e)
  <2>1. PICK p \in Leading : \E i \in ItemsOf(p) : Arrow(e) \in ArrowsOf(p, i)
    BY <1>2 DEF OnlyArrows
  <2>2. PICK i \in ItemsOf(p) : Arrow(e) \in ArrowsOf(p, i)
    BY <2>1
  <2> DEFINE r == Arrow(e)
  <2>3. r[1] = e.from /\ r[2] = e.to /\ r[3] = e.class
    BY DEF Arrow
  <2> HIDE DEF r
  <2>4. CASE p = "workflows"
    <3>1. i \in repo.workflows /\ r \in WorkflowArrows(i)
      BY <2>2, <2>4 DEF ItemsOf, ArrowsOf, r
    <3>2. PICK a : \E x \in StepsAt : \E n : r = <<CredentialId(a), n, "plain">> /\ IsStep(n, x) /\ a \in StepHas(x)
      BY <3>1, StepArrowsAre
    <3>3. PICK x \in StepsAt : \E n : r = <<CredentialId(a), n, "plain">> /\ IsStep(n, x) /\ a \in StepHas(x)
      BY <3>2
    <3>4. PICK n : r = <<CredentialId(a), n, "plain">> /\ IsStep(n, x) /\ a \in StepHas(x)
      BY <3>3
    <3>5. e.from = CredentialId(a) /\ e.to = n
      BY <2>3, <3>4
    <3>6. a \in T
      BY <3>5, SeesByType
    <3>7. n[1] = "step"
      BY <3>4 DEF IsStep
    <3> QED BY <3>4, <3>5, <3>6, <3>7 DEF Sees
  <2>5. CASE p = "compose"
    <3>1. i \in repo.compose /\ r \in ComposeArrows(i)
      BY <2>2, <2>5 DEF ItemsOf, ArrowsOf, r
    <3>2. PICK a : \E x \in ServicesAt : r = <<CredentialId(a), ServicePlace(x), "plain">> /\ a \in HeldBy(x)
      BY <3>1, ServiceArrowsAre
    <3>3. PICK x \in ServicesAt : r = <<CredentialId(a), ServicePlace(x), "plain">> /\ a \in HeldBy(x)
      BY <3>2
    <3>4. e.from = CredentialId(a) /\ e.to = ServicePlace(x)
      BY <2>3, <3>3
    <3>5. a \in T
      BY <3>4, SeesByType
    <3>6. ServicePlace(x)[1] = "service"
      BY DEF ServicePlace
    <3> QED BY <3>3, <3>4, <3>5, <3>6 DEF Sees
  <2>6. CASE p = "forwarding"
    <3>1. i \in JobsOf(repo.workflows) /\ r \in ForwardArrows(i[1], i[2])
      BY <2>2, <2>6 DEF ItemsOf, ArrowsOf, r
    <3>2. i[1] \in repo.workflows /\ i[2] \in i[1].jobs
      BY <3>1 DEF JobsOf
    <3>3. PICK b \in i[2].secrets : Declared(i[1], i[2], b) /\ Aliased(b) /\ r = AliasArrow(b)
      BY <3>1 DEF ForwardArrows
    <3> DEFINE s == SourceOf(b).key
               a == Upper[b.name]
    <3>4. e.from = CredentialId(s) /\ e.to = CredentialId(a) /\ e.class = "reusable"
      BY <2>3, <3>3 DEF AliasArrow
    <3>5. Follows(s, a) /\ Shown(s)
      BY <3>2, <3>3 DEF Follows, Aliased
    <3> HIDE DEF s, a
    <3>6. a \in HandedOn(s)
      BY <3>5, FollowsIs
    <3>7. s \in S
      BY <3>4, SeesByType
    <3>8. a \in T
      BY <3>4, <3>6, <3>7
    <3> QED BY <3>4, <3>8, SeesByType
  <2>7. CASE p = "flows"
    <3>1. i \in AllFlows /\ r \in FlowArrows(i)
      BY <2>2, <2>7 DEF ItemsOf, ArrowsOf, r, AllFlows
    <3>2. Sees(S, r[2])
      BY <2>3, <3>1, FlowSees
    <3> QED BY <2>3, <3>2, SeesMore
  <2>8. CASE p = "nested_edges"
    <3>1. i \in AllFlows /\ r \in NestedArrows(i)
      BY <2>2, <2>8 DEF ItemsOf, ArrowsOf, r, AllFlows
    <3>2. Sees(S, r[2])
      BY <2>3, <3>1, FlowSees
    <3> QED BY <2>3, <3>2, SeesMore
  <2> QED BY <2>1, <2>4, <2>5, <2>6, <2>7, <2>8 DEF Leading
<1> QED BY <1>1, <1>2

(***************************************************************************)
(* After so many calls a credential has the names that it had and those    *)
(* that they are handed on as; all of them are shown.                      *)
(***************************************************************************)
Renames(s, after) ==
  /\ after[0] = {s} /\ Aliases(s) = after[MaxReusableWorkflowHops]
  /\ \A n \in 1 .. MaxReusableWorkflowHops :
       \A a : a \in after[n] <=> a \in after[n - 1] \/ \E b \in after[n - 1] : a \in HandedOn(b)

LEMMA NamesGrow ==
  ASSUME ReadTaken, FilesTaken, phase \in Later, NEW s, Shown(s), NEW after, Renames(s, after)
  PROVE  /\ \A n \in 0 .. MaxReusableWorkflowHops :
              /\ \A a \in after[n] : Shown(a)
              /\ after[n] \subseteq Aliases(s)
         /\ \A n \in 0 .. MaxReusableWorkflowHops - 1 :
              n + 1 \in 0 .. MaxReusableWorkflowHops /\ after[n] \subseteq after[n + 1]
              /\ \A a \in after[n] : HandedOn(a) \subseteq after[n + 1]
<1> DEFINE N == MaxReusableWorkflowHops
<1>1. N \in Nat
  BY LimitsAssumption
<1>2. \A n \in 0 .. N - 1 : n + 1 \in 0 .. N /\ n + 1 \in 1 .. N /\ (n + 1) - 1 = n
  BY <1>1
<1>3. \A n \in 1 .. N : \A a : a \in after[n] <=> a \in after[n - 1] \/ \E b \in after[n - 1] : a \in HandedOn(b)
  BY DEF Renames
<1>4. after[0] = {s} /\ Aliases(s) = after[N]
  BY DEF Renames
<1> HIDE DEF N
<1>5. \A n \in 0 .. N - 1 : n + 1 \in 0 .. N /\ after[n] \subseteq after[n + 1] /\ \A a \in after[n] : HandedOn(a) \subseteq after[n + 1]
  BY <1>2, <1>3
<1>6. \A a, b : a \in HandedOn(b) => Shown(a)
  <2>1. Early = KnownAliases
    BY EarlyIsKnown
  <2> QED BY <2>1 DEF HandedOn, Early
<1>7. \A n \in 0 .. N : \A a \in after[n] : Shown(a)
  <2> DEFINE T == {n \in 0 .. N : \E a \in after[n] : ~Shown(a)}
  <2> SUFFICES ASSUME T # {} PROVE FALSE
    OBVIOUS
  <2>1. PICK n \in T : \A m \in T : n <= m
    <3>1. T \in SUBSET Nat
      BY <1>1
    <3> HIDE DEF T
    <3> QED BY <3>1, LeastNumber
  <2>2. n # 0
    BY <1>4
  <2>3. n \in 1 .. N /\ n - 1 \in 0 .. N /\ ~(n <= n - 1)
    BY <1>1, <2>2
  <2>4. n - 1 \notin T
    <3> HIDE DEF T
    <3> QED BY <2>1, <2>3
  <2>5. \A a \in after[n - 1] : Shown(a)
    BY <2>3, <2>4
  <2>6. \A a \in after[n] : Shown(a)
    BY <1>3, <1>6, <2>3, <2>5
  <2> QED BY <2>6
<1>8. \A n \in 0 .. N : after[n] \subseteq after[N]
  <2> DEFINE T == {m \in 0 .. N : ~(after[N - m] \subseteq after[N])}
  <2>1. T = {}
    <3> SUFFICES ASSUME T # {} PROVE FALSE
      OBVIOUS
    <3>1. PICK m \in T : \A l \in T : m <= l
      <4>1. T \in SUBSET Nat
        BY <1>1
      <4> HIDE DEF T
      <4> QED BY <4>1, LeastNumber
    <3>2. m \in 0 .. N /\ ~(after[N - m] \subseteq after[N])
      OBVIOUS
    <3>3. m # 0
      <4> SUFFICES ASSUME m = 0 PROVE FALSE
        OBVIOUS
      <4>1. N - m = N
        BY <1>1
      <4> QED BY <3>2, <4>1
    <3>4. m - 1 \in 0 .. N /\ ~(m <= m - 1) /\ N - m \in 0 .. N - 1 /\ N - (m - 1) = (N - m) + 1
      BY <1>1, <3>2, <3>3
    <3>5. m - 1 \notin T
      <4> HIDE DEF T
      <4> QED BY <3>1, <3>4
    <3>6. after[(N - m) + 1] \subseteq after[N]
      BY <3>4, <3>5
    <3> QED BY <1>5, <3>2, <3>4, <3>6
  <2> SUFFICES ASSUME NEW n \in 0 .. N PROVE after[n] \subseteq after[N]
    OBVIOUS
  <2>2. N - n \in 0 .. N /\ N - (N - n) = n
    BY <1>1
  <2> QED BY <2>1, <2>2
<1>9. \A n \in 0 .. N : after[n] \subseteq Aliases(s)
  BY <1>4, <1>8
<1> QED BY <1>5, <1>7, <1>9 DEF N

(***************************************************************************)
(* Every path from a credential ends where a holder of one of its names    *)
(* is: the names grow with the hops that reusable workflows take.          *)
(***************************************************************************)
LEMMA WalksSee ==
  ASSUME ReadTaken, FilesTaken, phase \in Later, JobsApart, OnlyArrows, NEW s, Shown(s)
  PROVE  \A w \in Walks(CredentialId(s)) : Sees(Aliases(s), EndOf(CredentialId(s), w))
<1> DEFINE start == CredentialId(s)
           N == MaxReusableWorkflowHops
           R == {"reusable"}
<1>1. PICK after : Renames(s, after)
  BY AliasesAre DEF Renames
<1> DEFINE S == {w \in Walks(start) : Spent(w, R) \in 0 .. N /\ Sees(after[Spent(w, R)], EndOf(start, w))}
<1>2. N \in Nat
  BY LimitsAssumption
<1>3. /\ \A n \in 0 .. N : (\A a \in after[n] : Shown(a)) /\ after[n] \subseteq Aliases(s)
      /\ \A n \in 0 .. N - 1 : n + 1 \in 0 .. N /\ after[n] \subseteq after[n + 1]
                               /\ \A a \in after[n] : HandedOn(a) \subseteq after[n + 1]
  BY <1>1, NamesGrow
<1>4. <<>> \in S
  <2>1. Spent(<<>>, R) = 0 /\ EndOf(start, <<>>) = start
    BY NoSteps
  <2>2. after[0] = {s}
    BY <1>1 DEF Renames
  <2>3. Sees(after[0], start)
    BY <2>2, SeesByType
  <2> QED BY <1>2, <2>1, <2>3, WalkBegins
<1>5. ASSUME NEW q \in Walks(start), q \in S, NEW r \in Longer(start, q) PROVE r \in S
  <2>1. PICK e \in edges : /\ WithinHops(r) /\ e.from = EndOf(start, q) /\ EndOf(start, r) = e.to /\ Walkable(e)
                           /\ \A C : Spent(q, C) \in Nat /\ Spent(r, C) = Spent(q, C) + (IF e.class \in C THEN 1 ELSE 0)
    BY WalkStep
  <2>2. r \in Walks(start)
    BY WalkOn
  <2> DEFINE n == Spent(q, R)
             m == Spent(r, R)
  <2>3. n \in 0 .. N /\ Sees(after[n], e.from)
    BY <1>5, <2>1
  <2>4. m = n + (IF e.class \in R THEN 1 ELSE 0) /\ m <= N
    BY <2>1 DEF WithinHops
  <2> HIDE DEF n, m
  <2>5. m \in 0 .. N /\ after[n] \subseteq after[m] /\ (e.class = "reusable" => \A a \in after[n] : HandedOn(a) \subseteq after[m])
    <3>1. CASE e.class = "reusable"
      <4>1. m = n + 1
        BY <2>4, <3>1
      <4>2. n \in 0 .. N - 1
        BY <1>2, <2>3, <2>4, <4>1
      <4> QED BY <1>3, <4>1, <4>2
    <3>2. CASE e.class # "reusable"
      <4>1. m = n + 0
        BY <2>4, <3>2
      <4>2. m = n
        BY <1>2, <2>3, <4>1
      <4> QED BY <2>3, <3>2, <4>2
    <3> QED BY <3>1, <3>2
  <2>6. \A a \in after[n] : Shown(a)
    BY <1>3, <2>3
  <2>7. Sees(after[m], e.to)
    BY <2>1, <2>3, <2>5, <2>6, EdgeSees
  <2> QED BY <2>1, <2>2, <2>5, <2>7 DEF m
<1> HIDE DEF start
<1>6. Walks(start) \subseteq S
  <2> DEFINE T == S
  <2>1. <<>> \in T /\ \A q \in Walks(start) : q \in T => Longer(start, q) \subseteq T
    BY <1>4, <1>5
  <2> HIDE DEF T
  <2>2. Walks(start) \subseteq T
    BY <2>1, WalkInduction
  <2> QED BY <2>2 DEF T
<1>7. ASSUME NEW w \in Walks(start) PROVE Sees(Aliases(s), EndOf(start, w))
  <2>1. Spent(w, R) \in 0 .. N /\ Sees(after[Spent(w, R)], EndOf(start, w))
    BY <1>6
  <2>2. after[Spent(w, R)] \subseteq Aliases(s)
    BY <1>3, <2>1
  <2> QED BY <2>1, <2>2, SeesMore
<1> QED BY <1>7 DEF start

\* A place that only holders are led to is that of a holder.
LEMMA SeenHold ==
  ASSUME ReadTaken, FilesTaken, phase \in Later, JobsApart, NEW S, NEW n, NEW y, Sees(S, n), Placed(n, y)
  PROVE  \E a \in S : y \in Holders(a)
<1>1. CASE n[1] = "step" /\ y = <<"step", n[2], n[4], n[5]>>
  <2>1. PICK a \in S : \E x \in StepsAt : a \in StepHas(x) /\ IsStep(n, x)
    BY <1>1 DEF Sees
  <2>2. PICK x \in StepsAt : a \in StepHas(x) /\ IsStep(n, x)
    BY <2>1
  <2>3. y = StepPlace(x)
    BY <1>1, <2>2 DEF IsStep
  <2> QED BY <2>2, <2>3, HoldersAre
<1>2. CASE n[1] = "service" /\ y = <<"service", n[2], n[3]>>
  <2>1. PICK a \in S : \E x \in ServicesAt : a \in HeldBy(x) /\ n = ServicePlace(x)
    BY <1>2 DEF Sees
  <2>2. PICK x \in ServicesAt : a \in HeldBy(x) /\ n = ServicePlace(x)
    BY <2>1
  <2>3. y = ServicePlace(x)
    BY <1>2, <2>2 DEF ServicePlace
  <2> QED BY <2>2, <2>3, HoldersAre
<1>3. CASE n[1] = "usage" /\ y = UsagePlace(n)
  <2>1. PICK f \in AllFlows : Upper[f.secret] \in S /\ \E i \in f.usages : n = UsageId(f, i)
    BY <1>3 DEF Sees
  <2>2. PICK i \in f.usages : n = UsageId(f, i)
    BY <2>1
  <2>3. y = UsagePlace(UsageId(f, i))
    BY <1>3, <2>2
  <2>4. y \in Holders(Upper[f.secret])
    BY <2>2, <2>3, HoldersAre
  <2> QED BY <2>1, <2>4
<1> QED BY <1>1, <1>2, <1>3 DEF Placed

(***************************************************************************)
(* A node that is reached from a credential within so many hops.           *)
(***************************************************************************)
Near(s, n, r, c) ==
  \E w \in Walks(CredentialId(s)) :
    EndOf(CredentialId(s), w) = n /\ Spent(w, {"reusable"}) <= r /\ Spent(w, {"crossing"}) <= c

Uncut(s) == \A w \in Walks(CredentialId(s)) : ~Truncated(CredentialId(s), w)

LEMMA WithinStart == \A s : \A r, c \in Nat : Near(s, CredentialId(s), r, c)
<1> SUFFICES ASSUME NEW s, NEW r \in Nat, NEW c \in Nat PROVE Near(s, CredentialId(s), r, c)
  OBVIOUS
<1>1. Spent(<<>>, {"reusable"}) = 0 /\ Spent(<<>>, {"crossing"}) = 0 /\ EndOf(CredentialId(s), <<>>) = CredentialId(s)
  BY NoSteps
<1>2. 0 <= r /\ 0 <= c
  OBVIOUS
<1> QED BY <1>1, <1>2, WalkBegins DEF Near

\* What is reached within fewer hops is reached within more.
LEMMA WithinMore ==
  \A s, n : \A r, c, r2, c2 \in Nat : Near(s, n, r, c) /\ r <= r2 /\ c <= c2 => Near(s, n, r2, c2)
<1> SUFFICES ASSUME NEW s, NEW n, NEW r \in Nat, NEW c \in Nat, NEW r2 \in Nat, NEW c2 \in Nat,
                    Near(s, n, r, c), r <= r2, c <= c2
             PROVE  Near(s, n, r2, c2)
  OBVIOUS
<1>1. PICK w \in Walks(CredentialId(s)) :
        EndOf(CredentialId(s), w) = n /\ Spent(w, {"reusable"}) <= r /\ Spent(w, {"crossing"}) <= c
  BY DEF Near
<1>2. \A C : Spent(w, C) \in Nat
  BY SpentIs
<1>3. Spent(w, {"reusable"}) <= r2 /\ Spent(w, {"crossing"}) <= c2
  BY <1>1, <1>2
<1> QED BY <1>1, <1>3 DEF Near

\* One more arrow is followed, unless a limit is met.
LEMMA WithinOn ==
  ASSUME NEW s, Uncut(s), \A e \in edges : {e.from, e.to} \subseteq DOMAIN nodes,
         NEW a \in Led(edges), NEW r \in Nat, NEW c \in Nat, Near(s, a[1], r, c),
         NEW r2 \in Nat, NEW c2 \in Nat, r2 <= MaxReusableWorkflowHops, c2 <= MaxCompositeActionForwardingHops,
         r + (IF a[3] = "reusable" THEN 1 ELSE 0) <= r2, c + (IF a[3] = "crossing" THEN 1 ELSE 0) <= c2
  PROVE  Near(s, a[2], r2, c2)
<1> DEFINE start == CredentialId(s)
<1>1. PICK e \in edges : Leads(e) /\ a = Arrow(e)
  BY DEF Led
<1>2. a[1] = e.from /\ a[2] = e.to /\ a[3] = e.class
  BY <1>1 DEF Arrow
<1>3. Walkable(e)
  BY <1>1 DEF Leads, Walkable
<1>4. PICK w \in Walks(start) : EndOf(start, w) = e.from /\ Spent(w, {"reusable"}) <= r /\ Spent(w, {"crossing"}) <= c
  BY <1>2 DEF Near
<1>5. \A v \in Walks(start) : \A C : Spent(v, C) \in Nat
  BY SpentIs
<1>6. r <= r2 /\ c <= c2
  BY LimitsAssumption
<1>7. ~Truncated(start, w) /\ w \in Seq(edges)
  BY DEF Uncut, Walks
<1> HIDE DEF start
<1>8. CASE e.to \in NodesOn(start, w)
  <2>1. PICK v \in Walks(start) : EndOf(start, v) = e.to /\ \A C : Spent(v, C) <= Spent(w, C)
    BY <1>8, OnTheWay DEF Got
  <2>2. Spent(v, {"reusable"}) <= r2 /\ Spent(v, {"crossing"}) <= c2
    <3>1. Spent(v, {"reusable"}) <= Spent(w, {"reusable"}) /\ Spent(v, {"crossing"}) <= Spent(w, {"crossing"})
      BY <2>1
    <3>2. /\ Spent(v, {"reusable"}) \in Nat /\ Spent(w, {"reusable"}) \in Nat
          /\ Spent(v, {"crossing"}) \in Nat /\ Spent(w, {"crossing"}) \in Nat
      BY <1>5
    <3> QED BY <1>4, <1>6, <3>1, <3>2
  <2> QED BY <1>2, <2>1, <2>2 DEF Near, start
<1>9. CASE e.to \notin NodesOn(start, w)
  <2> DEFINE q == Append(w, e)
  <2>1. e \in Onward(start, w)
    BY <1>3, <1>4, <1>9 DEF Onward
  <2>2. ~AtDepth(w)
    BY <1>7, <2>1 DEF Truncated
  <2>3. EndOf(start, q) = e.to /\ \A C : Spent(q, C) = Spent(w, C) + (IF e.class \in C THEN 1 ELSE 0)
    BY <1>7, OneStep
  <2> HIDE DEF q
  <2>4. Spent(q, {"reusable"}) <= r2
    <3>1. Spent(q, {"reusable"}) = Spent(w, {"reusable"}) + (IF e.class = "reusable" THEN 1 ELSE 0)
      BY <2>3
    <3>2. Spent(w, {"reusable"}) \in Nat /\ Spent(w, {"reusable"}) <= r /\ r + (IF e.class = "reusable" THEN 1 ELSE 0) <= r2
      BY <1>2, <1>4, <1>5
    <3> QED BY <3>1, <3>2
  <2>5. Spent(q, {"crossing"}) <= c2
    <3>1. Spent(q, {"crossing"}) = Spent(w, {"crossing"}) + (IF e.class = "crossing" THEN 1 ELSE 0)
      BY <2>3
    <3>2. Spent(w, {"crossing"}) \in Nat /\ Spent(w, {"crossing"}) <= c /\ c + (IF e.class = "crossing" THEN 1 ELSE 0) <= c2
      BY <1>2, <1>4, <1>5
    <3> QED BY <3>1, <3>2
  <2>6. WithinHops(q)
    <3>1. \A C : Spent(q, C) \in Nat
      <4> SUFFICES ASSUME NEW C PROVE Spent(q, C) \in Nat
        OBVIOUS
      <4>1. Spent(w, C) \in Nat
        BY <1>5
      <4>2. Spent(q, C) = Spent(w, C) + (IF e.class \in C THEN 1 ELSE 0)
        BY <2>3
      <4> QED BY <4>1, <4>2
    <3>2. Spent(q, {"reusable"}) \in Nat /\ Spent(q, {"crossing"}) \in Nat
      BY <3>1
    <3>3. MaxReusableWorkflowHops \in Nat /\ MaxCompositeActionForwardingHops \in Nat
      BY LimitsAssumption
    <3> QED BY <2>4, <2>5, <3>2, <3>3 DEF WithinHops
  <2>7. q \in Longer(start, w)
    BY <2>1, <2>2, <2>6, LongerOn DEF q
  <2>8. q \in Walks(start)
    BY <2>7, WalkOn
  <2> QED BY <1>2, <2>3, <2>4, <2>5, <2>8 DEF Near, start
<1> QED BY <1>8, <1>9

\* Once the graph is done, all the arrows are drawn.
LEMMA AllDrawn ==
  ASSUME phase = "done", AllArrows
  PROVE  /\ \A w \in repo.workflows : WorkflowArrows(w) \subseteq Led(edges)
         /\ \A w \in repo.workflows : \A j \in w.jobs : ForwardArrows(w, j) \subseteq Led(edges)
         /\ \A f \in repo.flows : FlowArrows(f) \subseteq Led(edges)
         /\ \A f \in repo.nestedFlows : MetParent(f) => NestedArrows(f) \subseteq Led(edges)
         /\ \A c \in repo.compose : ComposeArrows(c) \subseteq Led(edges)
<1>1. \A p \in Leading : Dealt(p) = ItemsOf(p)
  BY PhaseNames DEF Leading, Dealt, Ahead
<1>2. \A p \in Leading : \A i \in ItemsOf(p) : (p = "nested_edges" => MetParent(i)) => ArrowsOf(p, i) \subseteq Led(edges)
  BY <1>1 DEF AllArrows
<1>3. \A w \in repo.workflows : WorkflowArrows(w) \subseteq Led(edges)
  <2>1. ItemsOf("workflows") = repo.workflows /\ \A i : ArrowsOf("workflows", i) = WorkflowArrows(i)
    BY DEF ItemsOf, ArrowsOf
  <2> QED BY <1>2, <2>1 DEF Leading
<1>4. \A w \in repo.workflows : \A j \in w.jobs : ForwardArrows(w, j) \subseteq Led(edges)
  <2>1. ItemsOf("forwarding") = JobsOf(repo.workflows) /\ \A i : ArrowsOf("forwarding", i) = ForwardArrows(i[1], i[2])
    BY DEF ItemsOf, ArrowsOf
  <2>2. \A w \in repo.workflows : \A j \in w.jobs : <<w, j>> \in JobsOf(repo.workflows)
    BY DEF JobsOf
  <2>3. \A i \in JobsOf(repo.workflows) : ForwardArrows(i[1], i[2]) \subseteq Led(edges)
    BY <1>2, <2>1 DEF Leading
  <2> SUFFICES ASSUME NEW w \in repo.workflows, NEW j \in w.jobs PROVE ForwardArrows(w, j) \subseteq Led(edges)
    OBVIOUS
  <2>4. ForwardArrows(<<w, j>>[1], <<w, j>>[2]) \subseteq Led(edges)
    BY <2>2, <2>3
  <2> QED BY <2>4
<1>5. \A f \in repo.flows : FlowArrows(f) \subseteq Led(edges)
  <2>1. ItemsOf("flows") = repo.flows /\ \A i : ArrowsOf("flows", i) = FlowArrows(i)
    BY DEF ItemsOf, ArrowsOf
  <2> QED BY <1>2, <2>1 DEF Leading
<1>6. \A f \in repo.nestedFlows : MetParent(f) => NestedArrows(f) \subseteq Led(edges)
  <2>1. ItemsOf("nested_edges") = repo.nestedFlows /\ \A i : ArrowsOf("nested_edges", i) = NestedArrows(i)
    BY DEF ItemsOf, ArrowsOf
  <2> QED BY <1>2, <2>1 DEF Leading
<1>7. \A c \in repo.compose : ComposeArrows(c) \subseteq Led(edges)
  <2>1. ItemsOf("compose") = repo.compose /\ \A i : ArrowsOf("compose", i) = ComposeArrows(i)
    BY DEF ItemsOf, ArrowsOf
  <2> QED BY <1>2, <2>1 DEF Leading
<1> QED BY <1>3, <1>4, <1>5, <1>6, <1>7

\* What is known of a credential that has been assessed in full.
Reached(s) ==
  /\ ReadTaken /\ FilesTaken /\ phase = "done" /\ JobsApart /\ AllArrows
  /\ \A e \in edges : {e.from, e.to} \subseteq DOMAIN nodes
  /\ Shown(s) /\ Uncut(s)

LEMMA DoneIsLater == phase = "done" => phase \in Later
  BY DEF Later

\* The names that a credential has after so many calls are that many hops away.
LEMMA NamesReached ==
  ASSUME NEW s, Reached(s), NEW after, Renames(s, after)
  PROVE  \A n \in 0 .. MaxReusableWorkflowHops : \A a \in after[n] : Near(s, CredentialId(a), n, 0)
<1> DEFINE N == MaxReusableWorkflowHops
           H == MaxCompositeActionForwardingHops
<1>1. N \in Nat /\ H \in Nat /\ 0 <= H
  BY LimitsAssumption
<1>2. /\ \A n \in 0 .. N : \A a \in after[n] : Shown(a)
      /\ \A n \in 0 .. N - 1 : n + 1 \in 0 .. N
  BY NamesGrow, DoneIsLater DEF Reached
<1>3. after[0] = {s} /\ \A n \in 1 .. N : \A a : a \in after[n] <=> a \in after[n - 1] \/ \E b \in after[n - 1] : a \in HandedOn(b)
  BY DEF Renames
<1>4. ASSUME NEW b, Shown(b), NEW a \in HandedOn(b)
      PROVE  <<CredentialId(b), CredentialId(a), "reusable">> \in Led(edges)
  <2>1. Follows(b, a)
    BY <1>4, FollowsIs, DoneIsLater DEF Reached
  <2>2. PICK w \in repo.workflows : \E j \in w.jobs : \E x \in j.secrets :
          Declared(w, j, x) /\ Aliased(x) /\ SourceOf(x).key = b /\ Upper[x.name] = a
    BY <2>1 DEF Follows
  <2>3. PICK j \in w.jobs : \E x \in j.secrets :
          Declared(w, j, x) /\ Aliased(x) /\ SourceOf(x).key = b /\ Upper[x.name] = a
    BY <2>2
  <2>4. PICK x \in j.secrets : Declared(w, j, x) /\ Aliased(x) /\ SourceOf(x).key = b /\ Upper[x.name] = a
    BY <2>3
  <2>5. AliasArrow(x) \in ForwardArrows(w, j)
    BY <2>4 DEF ForwardArrows
  <2>6. ForwardArrows(w, j) \subseteq Led(edges)
    <3>1. phase = "done" /\ AllArrows
      BY DEF Reached
    <3>2. \A v \in repo.workflows : \A k \in v.jobs : ForwardArrows(v, k) \subseteq Led(edges)
      BY <3>1, AllDrawn
    <3> QED BY <3>2
  <2>7. AliasArrow(x) = <<CredentialId(b), CredentialId(a), "reusable">>
    BY <2>4 DEF AliasArrow
  <2> QED BY <2>5, <2>6, <2>7
<1> DEFINE T == {n \in 0 .. N : \E a \in after[n] : ~Near(s, CredentialId(a), n, 0)}
<1>5. T = {}
  <2> SUFFICES ASSUME T # {} PROVE FALSE
    OBVIOUS
  <2>1. PICK n \in T : \A m \in T : n <= m
    <3>1. T \in SUBSET Nat
      BY <1>1
    <3> HIDE DEF T
    <3> QED BY <3>1, LeastNumber
  <2>2. PICK a \in after[n] : ~Near(s, CredentialId(a), n, 0)
    OBVIOUS
  <2>3. n \in 0 .. N
    OBVIOUS
  <2>4. n # 0
    <3>1. Near(s, CredentialId(s), 0, 0)
      BY WithinStart
    <3> QED BY <1>3, <2>2, <3>1
  <2>5. n \in 1 .. N /\ n - 1 \in 0 .. N /\ ~(n <= n - 1) /\ n - 1 \in Nat /\ n \in Nat /\ n - 1 <= n /\ (n - 1) + 1 <= n /\ n <= N
    BY <1>1, <2>3, <2>4
  <2>6. n - 1 \notin T
    <3> HIDE DEF T
    <3> QED BY <2>1, <2>5
  <2>7. \A b \in after[n - 1] : Near(s, CredentialId(b), n - 1, 0)
    BY <2>5, <2>6
  <2>8. CASE a \in after[n - 1]
    <3>1. Near(s, CredentialId(a), n - 1, 0)
      BY <2>7, <2>8
    <3>2. 0 \in Nat /\ 0 <= 0
      OBVIOUS
    <3>3. Near(s, CredentialId(a), n, 0)
      <4> HIDE DEF T
      <4> QED BY <2>5, <3>1, <3>2, WithinMore
    <3> QED BY <2>2, <3>3
  <2>9. CASE \E b \in after[n - 1] : a \in HandedOn(b)
    <3>1. PICK b \in after[n - 1] : a \in HandedOn(b)
      BY <2>9
    <3>2. Shown(b)
      BY <1>2, <2>5
    <3> DEFINE t == <<CredentialId(b), CredentialId(a), "reusable">>
    <3>3. t \in Led(edges) /\ t[1] = CredentialId(b) /\ t[2] = CredentialId(a) /\ t[3] = "reusable"
      BY <1>4, <3>1, <3>2
    <3> HIDE DEF t
    <3>4. Near(s, t[1], n - 1, 0)
      BY <2>7, <3>3
    <3>5. Uncut(s) /\ \A e \in edges : {e.from, e.to} \subseteq DOMAIN nodes
      BY DEF Reached
    <3>6. (n - 1) + (IF t[3] = "reusable" THEN 1 ELSE 0) <= n /\ 0 + (IF t[3] = "crossing" THEN 1 ELSE 0) <= 0
      BY <2>5, <3>3
    <3>7. Near(s, t[2], n, 0)
      <4> HIDE DEF T
      <4>1. 0 \in Nat
        OBVIOUS
      <4> QED BY <1>1, <2>5, <3>3, <3>4, <3>5, <3>6, <4>1, WithinOn
    <3> QED BY <2>2, <3>3, <3>7
  <2> QED BY <1>3, <2>2, <2>5, <2>8, <2>9
<1> QED BY <1>5

\* So all of them are within the hops that a path may take.
LEMMA AliasesReached ==
  ASSUME NEW s, Reached(s)
  PROVE  \A a \in Aliases(s) : Near(s, CredentialId(a), MaxReusableWorkflowHops, 0) /\ Shown(a)
<1>1. PICK after : Renames(s, after)
  BY AliasesAre DEF Renames
<1>2. MaxReusableWorkflowHops \in 0 .. MaxReusableWorkflowHops
  BY LimitsAssumption
<1>3. Aliases(s) = after[MaxReusableWorkflowHops]
  BY <1>1 DEF Renames
<1>4. \A a \in after[MaxReusableWorkflowHops] : Near(s, CredentialId(a), MaxReusableWorkflowHops, 0)
  BY <1>1, <1>2, NamesReached
<1>5. \A a \in after[MaxReusableWorkflowHops] : Shown(a)
  BY <1>1, <1>2, NamesGrow, DoneIsLater DEF Reached
<1> QED BY <1>3, <1>4, <1>5

\* What a step more of a chain is, and where it goes on from.
LEMMA PathGoesOn == \A p, x : IsPath(p) => SubSeq(Append(p, x), 1, Len(Append(p, x)) - 1) = p
<1> SUFFICES ASSUME NEW p, NEW x, IsPath(p) PROVE SubSeq(Append(p, x), 1, Len(Append(p, x)) - 1) = p
  OBVIOUS
<1>1. PICK S : p \in Seq(S)
  BY DEF IsPath
<1> DEFINE T == S \cup {x}
           q == Append(p, x)
           n == Len(p)
<1>2. p \in Seq(T) /\ n \in Nat /\ \A i \in 1 .. n : p[i] \in T
  BY <1>1, LenProperties, ElementOfSeq, SeqDef
<1>3. q \in Seq(T) /\ Len(q) = n + 1 /\ (\A i \in 1 .. n : q[i] = p[i]) /\ q[n + 1] = x
  <2>1. x \in T
    OBVIOUS
  <2> HIDE DEF T
  <2> QED BY <1>2, <2>1, AppendProperties
<1> HIDE DEF T, q
<1>4. Len(q) - 1 = n /\ n \in 0 .. Len(q)
  BY <1>2, <1>3
<1>5. SubSeq(q, 1, n) \in Seq(T) /\ Len(SubSeq(q, 1, n)) = n /\ \A i \in 1 .. n : SubSeq(q, 1, n)[i] = q[i]
  <2>1. \A i \in 1 .. n : q[i] \in T
    BY <1>2, <1>3
  <2>2. SubSeq(q, 1, n) = [i \in 1 .. n |-> q[i]]
    BY <1>2, <1>3, <1>4
  <2>3. [i \in 1 .. n |-> q[i]] \in Seq(T)
    BY <1>2, <2>1, SeqDef
  <2>4. Len([i \in 1 .. n |-> q[i]]) = n
    BY <1>2, <2>3, LenProperties
  <2> QED BY <2>2, <2>3, <2>4
<1>6. SubSeq(q, 1, n) = p
  <2>1. \A i \in 1 .. n : SubSeq(q, 1, n)[i] = p[i]
    BY <1>3, <1>5
  <2> QED BY <1>2, <1>5, <2>1, SeqEqual
<1> QED BY <1>4, <1>6 DEF q

\* The usage that a flow goes on from is one of those of the flow before it.
LEMMA HopParent ==
  ASSUME NEW f, IsPath(f.path), NEW c, NEW b
  PROVE  /\ ParentUsageId(FlowOf(f, c, b)) = UsageId(f, c.step)
         /\ FlowOf(f, c, b).secret = f.secret
<1> DEFINE g == FlowOf(f, c, b)
           x == [parent |-> f.dir, at |-> c.step, child |-> c.dir]
<1>1. /\ g.path = Append(f.path, x) /\ g.parent = f.dir /\ g.parentInput = f.input /\ g.at = c.step
      /\ RootOf(g) = RootOf(f) /\ g.secret = f.secret
  BY DEF FlowOf, RootOf
<1>2. SubSeq(g.path, 1, Len(g.path) - 1) = f.path
  <2> HIDE DEF g, x
  <2> QED BY <1>1, PathGoesOn
<1> HIDE DEF g
<1>3. ParentUsageId(g) = UsageId(f, c.step)
  BY <1>1, <1>2 DEF ParentUsageId, UsageId
<1> QED BY <1>1, <1>3 DEF g

(***************************************************************************)
(* A flow of one of the names is as many crossings away as its chain is    *)
(* long, which the hops allow.                                             *)
(***************************************************************************)
FlowNear(s, f) ==
  /\ Len(f.path) \in Nat /\ Len(f.path) <= MaxCompositeActionForwardingHops
  /\ Near(s, BindingId(f), MaxReusableWorkflowHops, Len(f.path))
  /\ \A i \in f.usages : Near(s, UsageId(f, i), MaxReusableWorkflowHops, Len(f.path))

LEMMA ArrowOn ==
  ASSUME NEW s, Reached(s), NEW x, NEW y, NEW k, <<x, y, k>> \in Led(edges), k # "reusable",
         NEW n \in Nat, Near(s, x, MaxReusableWorkflowHops, n), NEW m \in Nat, m <= MaxCompositeActionForwardingHops,
         n + (IF k = "crossing" THEN 1 ELSE 0) <= m
  PROVE  Near(s, y, MaxReusableWorkflowHops, m)
<1> DEFINE t == <<x, y, k>>
           N == MaxReusableWorkflowHops
<1>1. t[1] = x /\ t[2] = y /\ t[3] = k /\ t \in Led(edges)
  OBVIOUS
<1>2. Uncut(s) /\ \A e \in edges : {e.from, e.to} \subseteq DOMAIN nodes
  BY DEF Reached
<1>3. N \in Nat
  BY LimitsAssumption
<1> HIDE DEF t, N
<1>4. N + (IF t[3] = "reusable" THEN 1 ELSE 0) <= N /\ n + (IF t[3] = "crossing" THEN 1 ELSE 0) <= m /\ N <= N
  BY <1>1, <1>3
<1>5. Near(s, t[1], N, n) /\ N <= MaxReusableWorkflowHops
  BY <1>1, <1>4 DEF N
<1>6. Near(s, t[2], N, m)
  BY <1>1, <1>2, <1>3, <1>4, <1>5, WithinOn
<1> QED BY <1>1, <1>6 DEF N

LEMMA RootNear == ASSUME NEW s, Reached(s), NEW f \in repo.flows, Upper[f.secret] \in Aliases(s) PROVE FlowNear(s, f)
<1> DEFINE k == Upper[f.secret]
<1>1. Near(s, CredentialId(k), MaxReusableWorkflowHops, 0) /\ Shown(k)
  BY AliasesReached
<1>2. f.path = <<>>
  BY DoneIsLater DEF Reached, ReadTaken, FlowsLinked
<1>3. phase = "done" /\ AllArrows
  BY DEF Reached
<1>4. FlowArrows(f) \subseteq Led(edges)
  BY <1>3, AllDrawn
<1>5. <<CredentialId(k), BindingId(f), "plain">> \in Led(edges) /\ \A i \in f.usages : <<BindingId(f), UsageId(f, i), "plain">> \in Led(edges)
  BY <1>1, <1>4 DEF FlowArrows
<1>6. 0 \in Nat /\ 0 <= MaxCompositeActionForwardingHops /\ 0 + (IF "plain" = "crossing" THEN 1 ELSE 0) <= 0 /\ "plain" # "reusable"
  BY LimitsAssumption
<1> HIDE DEF k
<1>7. Near(s, BindingId(f), MaxReusableWorkflowHops, 0)
  BY <1>1, <1>5, <1>6, ArrowOn
<1>8. \A i \in f.usages : Near(s, UsageId(f, i), MaxReusableWorkflowHops, 0)
  BY <1>5, <1>6, <1>7, ArrowOn
<1>9. Len(f.path) = 0
  BY <1>2
<1> QED BY <1>6, <1>7, <1>8, <1>9 DEF FlowNear

LEMMA HopNear ==
  ASSUME NEW s, Reached(s), NEW f \in AllFlows, FlowNear(s, f), NEW g \in Hops(repo, f), Upper[g.secret] \in Aliases(s)
  PROVE  FlowNear(s, g)
<1> DEFINE n == Len(f.path)
           m == Len(g.path)
<1>1. FlowsLinked(repo) /\ phase = "done" /\ AllArrows
  BY DoneIsLater DEF Reached, ReadTaken
<1>2. IsPath(f.path) /\ g \in repo.nestedFlows
  BY <1>1 DEF FlowsLinked, AllFlows
<1>3. PICK c \in Onwards(repo, f) : \E b \in BoundAt(f, c) : g = FlowOf(f, c, b)
  BY HopsAre
<1>4. PICK b : g = FlowOf(f, c, b)
  BY <1>3
<1>5. ParentUsageId(g) = UsageId(f, c.step) /\ g.secret = f.secret
  BY <1>2, <1>4, HopParent
<1>6. c.step \in f.usages
  BY <1>3 DEF Onwards
<1>7. Shown(Upper[f.secret])
  BY <1>5, AliasesReached
<1>8. f \in Present
  BY <1>7 DEF Present, AllFlows
<1>9. NestedArrows(g) \subseteq Led(edges)
  <2>1. MetParent(g)
    BY <1>5, <1>6, <1>8 DEF MetParent
  <2> QED BY <1>1, <1>2, <2>1, AllDrawn
<1>10. /\ <<UsageId(f, c.step), BindingId(g), "crossing">> \in Led(edges)
       /\ \A i \in g.usages : <<BindingId(g), UsageId(g, i), "within">> \in Led(edges)
  BY <1>5, <1>9 DEF NestedArrows
<1>11. m = n + 1 /\ n \in Nat /\ m + 1 <= MaxCompositeActionNestingDepth
  BY <1>2, HopPath
<1> HIDE DEF n, m
<1>12. m \in Nat /\ m <= MaxCompositeActionForwardingHops
  BY <1>11, HopsAssumption, LimitsAssumption
<1>13. n + (IF "crossing" = "crossing" THEN 1 ELSE 0) <= m /\ m + (IF "within" = "crossing" THEN 1 ELSE 0) <= m
  BY <1>11, <1>12
<1>14. Near(s, UsageId(f, c.step), MaxReusableWorkflowHops, n)
  BY <1>6 DEF FlowNear, n
<1>15. Near(s, BindingId(g), MaxReusableWorkflowHops, m)
  BY <1>10, <1>11, <1>12, <1>13, <1>14, ArrowOn
<1>16. \A i \in g.usages : Near(s, UsageId(g, i), MaxReusableWorkflowHops, m)
  BY <1>10, <1>12, <1>13, <1>15, ArrowOn
<1> QED BY <1>12, <1>15, <1>16 DEF FlowNear, m

LEMMA FlowsReached == ASSUME NEW s, Reached(s) PROVE \A f \in AllFlows : Upper[f.secret] \in Aliases(s) => FlowNear(s, f)
<1> DEFINE S == {f \in AllFlows : Upper[f.secret] \in Aliases(s) => FlowNear(s, f)}
<1>1. FlowsLinked(repo)
  BY DoneIsLater DEF Reached, ReadTaken
<1>2. repo.flows \subseteq S
  BY RootNear DEF AllFlows
<1>3. ASSUME NEW f \in AllFlows, f \in S, NEW g \in Hops(repo, f) PROVE g \in S
  <2>1. g \in AllFlows
    BY <1>1 DEF FlowsLinked, AllFlows
  <2>2. g.secret = f.secret
    <3>1. PICK c \in Onwards(repo, f) : \E b \in BoundAt(f, c) : g = FlowOf(f, c, b)
      BY HopsAre
    <3>2. PICK b : g = FlowOf(f, c, b)
      BY <3>1
    <3> QED BY <3>2 DEF FlowOf
  <2>3. Upper[g.secret] \in Aliases(s) => FlowNear(s, g)
    BY <1>3, <2>2, HopNear
  <2> QED BY <2>1, <2>3
<1>4. AllFlows \subseteq S
  <2> DEFINE T == S
  <2>1. repo.flows \subseteq T /\ \A f \in AllFlows : f \in T => Hops(repo, f) \subseteq T
    BY <1>2, <1>3
  <2> HIDE DEF T
  <2>2. AllFlows \subseteq T
    BY <1>1, <2>1, FlowInduction
  <2> QED BY <2>2 DEF T
<1> QED BY <1>4

\* Each place of a holder of one of the names is that of a node that is reached.
LEMMA HoldersReached ==
  ASSUME NEW s, Reached(s), NEW a \in Aliases(s), NEW y \in Holders(a)
  PROVE  \E w \in Walks(CredentialId(s)) : Placed(EndOf(CredentialId(s), w), y)
<1> DEFINE N == MaxReusableWorkflowHops
<1>1. /\ ReadTaken /\ FilesTaken /\ phase \in Later /\ JobsApart /\ phase = "done" /\ AllArrows
  BY DoneIsLater DEF Reached
<1>2. Near(s, CredentialId(a), N, 0) /\ Shown(a)
  BY AliasesReached
<1>3. 0 \in Nat /\ 0 <= MaxCompositeActionForwardingHops /\ 0 + (IF "plain" = "crossing" THEN 1 ELSE 0) <= 0 /\ "plain" # "reusable"
  BY LimitsAssumption
<1>4. \A n, c : Near(s, n, N, c) /\ Placed(n, y) => \E w \in Walks(CredentialId(s)) : Placed(EndOf(CredentialId(s), w), y)
  BY DEF Near
<1>5. \/ \E x \in StepsAt : a \in StepHas(x) /\ y = StepPlace(x)
      \/ \E x \in ServicesAt : a \in HeldBy(x) /\ y = ServicePlace(x)
      \/ \E f \in AllFlows : Upper[f.secret] = a /\ \E i \in f.usages : y = UsagePlace(UsageId(f, i))
  BY <1>1, HoldersAre
<1>6. CASE \E x \in StepsAt : a \in StepHas(x) /\ y = StepPlace(x)
  <2>1. PICK x \in StepsAt : a \in StepHas(x) /\ y = StepPlace(x)
    BY <1>6
  <2>2. PICK n : IsStep(n, x) /\ \E w \in repo.workflows : <<CredentialId(a), n, "plain">> \in WorkflowArrows(w)
    BY <1>1, <1>2, <2>1, StepArrowsAre
  <2>3. <<CredentialId(a), n, "plain">> \in Led(edges)
    BY <1>1, <2>2, AllDrawn
  <2>4. Near(s, n, N, 0)
    BY <1>2, <1>3, <2>3, ArrowOn
  <2>5. Placed(n, y)
    BY <2>1, <2>2 DEF Placed, IsStep
  <2> QED BY <1>4, <2>4, <2>5
<1>7. CASE \E x \in ServicesAt : a \in HeldBy(x) /\ y = ServicePlace(x)
  <2>1. PICK x \in ServicesAt : a \in HeldBy(x) /\ y = ServicePlace(x)
    BY <1>7
  <2>2. PICK c \in repo.compose : <<CredentialId(a), ServicePlace(x), "plain">> \in ComposeArrows(c)
    BY <1>1, <1>2, <2>1, ServiceArrowsAre
  <2>3. <<CredentialId(a), ServicePlace(x), "plain">> \in Led(edges)
    BY <1>1, <2>2, AllDrawn
  <2>4. Near(s, ServicePlace(x), N, 0)
    BY <1>2, <1>3, <2>3, ArrowOn
  <2>5. Placed(ServicePlace(x), y)
    BY <2>1 DEF Placed, ServicePlace
  <2> QED BY <1>4, <2>4, <2>5
<1>8. CASE \E f \in AllFlows : Upper[f.secret] = a /\ \E i \in f.usages : y = UsagePlace(UsageId(f, i))
  <2>1. PICK f \in AllFlows : Upper[f.secret] = a /\ \E i \in f.usages : y = UsagePlace(UsageId(f, i))
    BY <1>8
  <2>2. PICK i \in f.usages : y = UsagePlace(UsageId(f, i))
    BY <2>1
  <2>3. FlowNear(s, f)
    BY <2>1, FlowsReached
  <2>4. Near(s, UsageId(f, i), N, Len(f.path))
    BY <2>2, <2>3 DEF FlowNear
  <2>5. UsageId(f, i)[1] = "usage"
    BY DEF UsageId
  <2>6. Placed(UsageId(f, i), y)
    BY <2>2, <2>5 DEF Placed
  <2> QED BY <1>4, <2>4, <2>6
<1> QED BY <1>5, <1>6, <1>7, <1>8

LEMMA ExactNow ==
  ASSUME ReachInv, phase = "done", JobsApart, NEW k \in DOMAIN analyses
  PROVE  LET found == Places(analyses[k].reach)
             held  == UNION {Holders(a) : a \in Aliases(k)}
         IN  found \subseteq held /\ (analyses[k].truncated \/ found = held)
<1> DEFINE found == Places(analyses[k].reach)
           held  == UNION {Holders(a) : a \in Aliases(k)}
           start == CredentialId(k)
<1>1. /\ SuppressInv /\ LedInv /\ ReadTaken /\ ReachTaken /\ FilesTaken /\ phase \in Later
      /\ BuildInv /\ FindingsFound /\ TypeOK /\ ~limitExceeded
  BY DoneIsLater DEF ReachInv, SuppressInv, RotationInv, ScoreInv
<1>2. Shown(k)
  <2>1. k \in Known
    BY <1>1 DEF TypeOK
  <2>2. PICK u \in credentials : k = u.key
    BY <2>1 DEF Known
  <2>3. Credited(u)
    BY <1>1 DEF FindingsFound
  <2> QED BY <2>2, <2>3, CreditedShown
<1>3. /\ \A n : n \in analyses[k].reach <=> \E w \in Walks(start) : n = EndOf(start, w)
      /\ analyses[k].truncated <=> \E w \in Walks(start) : Truncated(start, w)
  BY <1>1 DEF ReachTaken, OnWalks
<1>4. \A y : y \in found <=> \E w \in Walks(start) : Placed(EndOf(start, w), y)
  <2>1. \A y : y \in found <=> \E n \in analyses[k].reach : Placed(n, y)
    BY PlacesAre
  <2> HIDE DEF found, start
  <2> QED BY <1>3, <2>1
<1>5. \A y : y \in held <=> \E a \in Aliases(k) : y \in Holders(a)
  OBVIOUS
<1>6. OnlyArrows /\ AllArrows
  BY <1>1 DEF LedInv
<1>7. ASSUME NEW y \in found PROVE y \in held
  <2>1. PICK w \in Walks(start) : Placed(EndOf(start, w), y)
    BY <1>4
  <2>2. Sees(Aliases(k), EndOf(start, w))
    BY <1>1, <1>2, <1>6, WalksSee
  <2>3. \E a \in Aliases(k) : y \in Holders(a)
    BY <1>1, <2>1, <2>2, SeenHold
  <2> QED BY <1>5, <2>3
<1>8. ASSUME ~analyses[k].truncated, NEW y \in held PROVE y \in found
  <2>1. PICK a \in Aliases(k) : y \in Holders(a)
    BY <1>5
  <2>2. Uncut(k)
    BY <1>3, <1>8 DEF Uncut
  <2>3. \A e \in edges : {e.from, e.to} \subseteq DOMAIN nodes
    <3>1. EdgesJoinNodes /\ Pending = {}
      BY <1>1 DEF BuildInv, Sound, Pending
    <3> QED BY <1>1, <3>1 DEF EdgesJoinNodes
  <2>4. Reached(k)
    BY <1>1, <1>2, <1>6, <2>2, <2>3 DEF Reached
  <2>5. \E w \in Walks(start) : Placed(EndOf(start, w), y)
    BY <2>1, <2>4, HoldersReached
  <2> QED BY <1>4, <2>5
<1> HIDE DEF found, held
<1>9. found \subseteq held /\ (analyses[k].truncated \/ found = held)
  BY <1>7, <1>8
<1> QED BY <1>9 DEF found, held

LEMMA ReachedExactly == ReachInv => ReachIsExact
  BY ExactNow DEF ReachIsExact

(***************************************************************************)
(* A credential reaches the steps, the services and the steps of actions   *)
(* that the files hand it to, under its own name or another, and no        *)
(* others, whatever the repository, the options and the limits: only a     *)
(* walk that was cut at its depth may miss some of them.                   *)
(***************************************************************************)
THEOREM ReachExact == Spec => []ReachIsExact
<1>1. Init => ReachInv
  BY InitReach
<1>2. ReachInv /\ [Next]_vars => ReachInv'
  BY StepReach
<1>3. ReachInv => ReachIsExact
  BY ReachedExactly
<1> QED BY <1>1, <1>2, <1>3, PTL DEF Spec
=============================================================================
