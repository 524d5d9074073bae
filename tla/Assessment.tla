------------------------------ MODULE Assessment ------------------------------
(***************************************************************************)
(* What is concluded from the graph about one credential: how it is        *)
(* classified (internal/classification), which rules of the catalog match  *)
(* (internal/rules), what they add up to under the selected profile        *)
(* (internal/scoring, internal/profile) and what is recommended            *)
(* (internal/remediation).  All of it is computed from the graph, the      *)
(* nodes the credential's paths go through and its own edges.              *)
(***************************************************************************)
EXTENDS GraphBuild, FiniteSetsExt

CONSTANTS
  PublicName, IdentifierName, OperationalName, SecretName, SensitiveName, \* by prefix and suffix
  AwsName,          \* names that contain "AWS"
  Loopback,         \* addresses of the host itself
  FileMarker        \* the profile that a Compose file's name suggests, or "none"

ASSUME NameClassAssumption ==
  UNION {PublicName, IdentifierName, OperationalName, SecretName, SensitiveName, AwsName} \subseteq Name
-----------------------------------------------------------------------------
(***************************************************************************)
(* classification.Assess                                                   *)
(***************************************************************************)
UsesOf(k)    == {u \in credentials : u.key = k}
HasFinding(k) == \E u \in UsesOf(k) : u.finding
HasSecretSyntax(k) == \E u \in UsesOf(k) : u.kind \in {"secret", "compose_secret"}

Classification ==
  {"secret", "credential", "credential_identifier", "sensitive_configuration", "operational_setting",
   "public_configuration", "unknown"}

NameClass(k) ==
  IF k \in IdentifierName THEN "credential_identifier"
  ELSE IF k \in OperationalName THEN "operational_setting"
  ELSE IF k \in SecretName THEN "secret"
  ELSE IF k \in SensitiveName THEN "sensitive_configuration" ELSE "unknown"

\* The first source that says anything: scanner, configuration, prefix, syntax, name.
Classify(k) ==
  IF HasFinding(k) THEN "secret"
  ELSE IF k \in DOMAIN repo.classifications THEN repo.classifications[k]
  ELSE IF k \in PublicName THEN "public_configuration"
  ELSE IF HasSecretSyntax(k) THEN "secret" ELSE NameClass(k)

ExpectedSecret(k) == Classify(k) \in {"secret", "credential"}

\* FAULT: whatever is a secret is rotated.
RotatesSecrets(k) == ExpectedSecret(k)

RotationApplicable(k) == HasFinding(k)
-----------------------------------------------------------------------------
(***************************************************************************)
(* rules.Catalog, with the policy's weight and the remediation of a rule.  *)
(***************************************************************************)
Rule(weight, remediation) == [weight |-> weight, remediation |-> remediation]

Catalog ==
  [CRD101 |-> Rule(15, "REM001"), CRD102 |-> Rule(8, "REM007"),  CRD103 |-> Rule(8, "REM007"),
   CRD104 |-> Rule(16, "REM005"), CRD201 |-> Rule(12, "REM003"), CRD202 |-> Rule(20, "REM003"),
   CRD203 |-> Rule(12, "REM008"), CRD204 |-> Rule(10, "REM007"), CRD205 |-> Rule(7, "REM006"),
   CRD206 |-> Rule(12, "REM009"), CRD207 |-> Rule(5, "REM004"),  CRD208 |-> Rule(12, "REM017"),
   CRD301 |-> Rule(8, "REM011"),  CRD302 |-> Rule(18, "REM013"), CRD303 |-> Rule(8, "REM012"),
   CRD304 |-> Rule(20, "REM014"), CRD305 |-> Rule(12, "REM015"), CRD306 |-> Rule(8, "REM007"),
   CRD307 |-> Rule(10, "REM018"), CRD308 |-> Rule(3, "REM016"),  CRD401 |-> Rule(15, "REM010"),
   CRD402 |-> Rule(10, "REM017"), CRD403 |-> Rule(14, "REM003"), CRD404 |-> Rule(8, "REM007"),
   CRD501 |-> Rule(0, "REM019"),  CRD502 |-> Rule(0, "REM020"),  CRD503 |-> Rule(0, "REM020")]

RuleId == DOMAIN Catalog

(***************************************************************************)
(* rules.Evaluate: the nodes that a rule is about, none if it does not     *)
(* match.  reach is what the paths go through, direct the edges of the     *)
(* credential itself.                                                      *)
(***************************************************************************)
nodesOfType(reach, type)      == {n \in reach \cap DOMAIN nodes : n[1] = type}
Tagged(reach, type, tag)      == {n \in nodesOfType(reach, type) : tag \in nodes[n]}
directTargets(direct, type, types) == {e.to : e \in {d \in direct : d.type \in types /\ d.to[1] = type}}
directByEvidence(direct, type, why) == {e.to : e \in {d \in direct : d.why = why /\ d.to[1] = type}}
Several(S)                    == IF Cardinality(S) >= 2 THEN S ELSE {}
Both(S, T)                    == IF S = {} \/ T = {} THEN {} ELSE S \cup T

DirectJobs(direct) ==
  directTargets(direct, "job", {"configured_in", "explicitly_forwarded_to", "available_to_process"})
DirectServices(direct) ==
  directTargets(direct, "service", {"available_to_service", "mounted_as_secret", "explicitly_forwarded_to"})

independentComponents(direct) ==
  LET workflows == directTargets(direct, "workflow", {"configured_in", "explicitly_forwarded_to"})
      jobs      == DirectJobs(direct)
  IN  workflows \cup DirectServices(direct)
      \cup (IF workflows = {} \/ Cardinality(jobs) >= 2 THEN jobs ELSE {})

\* A container that may run as root.
MayBeRoot(n) == "user_specified" \notin nodes[n] \/ "root" \in nodes[n]

Evaluate(reach, direct) ==
  LET workflows    == nodesOfType(reach, "workflow")
      permissions  == nodesOfType(reach, "permission")
      writable     == {p \in permissions : p[6] \in {"write", "write-all"}}
      environments == nodesOfType(reach, "environment")
      production   == Tagged(reach, "environment", "production_like")
      services     == nodesOfType(reach, "service")
      ports        == nodesOfType(reach, "port")
  IN  [CRD101 |-> nodesOfType(reach, "finding"),
       CRD102 |-> workflows,
       CRD103 |-> Several(DirectJobs(direct)),
       CRD104 |-> {t \in nodesOfType(reach, "trigger") : t[4] = "pull_request_target"},
       CRD201 |-> writable,
       CRD202 |-> {p \in permissions : p[6] = "write-all"},
       CRD203 |-> directByEvidence(direct, "step", "shell"),
       CRD204 |-> Tagged(reach, "action", "third_party"),
       CRD205 |-> Tagged(reach, "action", "third_party") \cap Tagged(reach, "action", "mutable"),
       CRD206 |-> directByEvidence(direct, "job", "job_output"),
       CRD207 |-> Tagged(reach, "workflow", "missing_permissions"),
       CRD208 |-> production,
       CRD301 |-> DirectServices(direct),
       CRD302 |-> Tagged(reach, "service", "privileged"),
       CRD303 |-> {p \in ports : p[6] \notin Loopback},
       CRD304 |-> Tagged(reach, "volume", "docker_socket"),
       CRD305 |-> Tagged(reach, "service", "host_network"),
       CRD306 |-> Several(DirectServices(direct)),
       CRD307 |-> Tagged(reach, "volume", "writable_host_bind"),
       CRD308 |-> {s \in services : MayBeRoot(s)},
       CRD401 |-> Both(workflows, DirectServices(direct)),
       CRD402 |-> Several(production \cup Tagged(reach, "service", "production_like")),
       CRD403 |-> Both(writable, environments),
       CRD404 |-> Several(independentComponents(direct)),
       CRD501 |-> Tagged(reach, "reusable", "unresolved"),
       CRD502 |-> services,
       CRD503 |-> ports]

\* How sure a match is, as ConfidenceWeight has it.
MatchConfidence(rule, affected) ==
  CASE rule = "CRD308" -> IF \E s \in affected : "root" \in nodes[s] THEN 100 ELSE 40
    [] rule \in {"CRD501", "CRD502", "CRD503"} -> 0
    [] rule \in {"CRD208", "CRD303", "CRD402"} -> 70
    [] rule \in {"CRD103", "CRD104", "CRD207", "CRD307", "CRD401", "CRD403", "CRD404"} -> 90
    [] OTHER -> 100
-----------------------------------------------------------------------------
(***************************************************************************)
(* scoring.CalculateForProfile                                             *)
(***************************************************************************)
Profile == {"auto", "local", "ci", "staging", "production"}

\* The name of a Compose file is a marker of one of them, or of none.
ASSUME MarkerAssumption == \A f \in DOMAIN FileMarker : FileMarker[f] \in Profile \cup {"none"}

\* FAULT: a production deployment relaxes what the others relax.
RelaxedForAll(rule, profile) == IF rule = "CRD303" /\ profile = "production" THEN -30 ELSE 0

profileAdjustment(rule, profile) ==
  CASE profile = "local" /\ rule = "CRD303" -> -60
    [] profile = "ci"    /\ rule = "CRD303" -> -50
    [] profile = "auto"  /\ rule = "CRD303" -> -25
    [] profile = "production" /\ rule = "CRD303" -> 30
    [] profile = "production" /\ rule \in {"CRD103", "CRD306", "CRD401", "CRD402", "CRD404"} -> 15
    [] profile = "production" /\ rule \in {"CRD302", "CRD304", "CRD305", "CRD307"} -> 20
    [] OTHER -> 0

\* Half up.
roundDiv(value, divisor) == IF value <= 0 THEN 0 ELSE (value + divisor \div 2) \div divisor

\* Ten per cent for each further node, up to thirty.
AffectedPercent(n) == 10 * (IF n > 4 THEN 3 ELSE n - 1)

Contribution(rule, n, profile, expected) ==
  LET adjusted == roundDiv(Catalog[rule].weight * (100 + AffectedPercent(n)), 100)
      percent  == profileAdjustment(rule, profile)
  IN  IF ~expected THEN 0
      ELSE IF percent = 0 THEN adjusted ELSE roundDiv(adjusted * (100 + percent), 100)

\* FAULT: the sum is the score.
Uncapped(sum) == sum

Capped(sum) == IF sum > 100 THEN 100 ELSE sum

Severity == {"critical", "high", "medium", "low", "informational"}

SeverityForScore(score) ==
  CASE score >= 80 -> "critical"
    [] score \in 60 .. 79 -> "high"
    [] score \in 40 .. 59 -> "medium"
    [] score \in 20 .. 39 -> "low"
    [] score < 20 -> "informational"

overallConfidence(weighted, weight) ==
  LET average == roundDiv(weighted, weight) IN
  IF weight = 0 THEN "unknown"
  ELSE IF average >= 95 THEN "confirmed"
  ELSE IF average >= 80 THEN "high"
  ELSE IF average >= 55 THEN "medium" ELSE "low"

\* affected gives the nodes of every rule that matched and was not suppressed.
Calculate(affected, profile, expected) ==
  LET matched       == DOMAIN affected
      contributions == [r \in matched |-> Contribution(r, Cardinality(affected[r]), profile, expected)]
      score         == Capped(SumFunction(contributions))
      evidence      == [r \in matched |-> IF Catalog[r].weight = 0 THEN 1 ELSE Catalog[r].weight]
      weighted      == [r \in matched |-> MatchConfidence(r, affected[r]) * evidence[r]]
  IN  [score         |-> score,
       severity      |-> SeverityForScore(score),
       contributions |-> contributions,
       confidence    |-> overallConfidence(SumFunction(weighted), SumFunction(evidence)),
       warnings      |-> {r \in matched : Catalog[r].weight = 0}]
-----------------------------------------------------------------------------
(***************************************************************************)
(* remediation.Generate, without the rotation that removeRotation takes    *)
(* out of the recommendations for a credential no scanner found.           *)
(***************************************************************************)
Generate(k, matched) ==
  {Catalog[r].remediation : r \in matched}
  \cup Tags(k \in AwsName /\ "CRD102" \in matched, "REM002")

removeRotation(k, remediations) ==
  IF RotationApplicable(k) THEN remediations ELSE remediations \ {"REM001"}

(***************************************************************************)
(* profile.Select: what is asked for, or else what the first Compose file  *)
(* that says anything suggests, by its name or by its services.            *)
(***************************************************************************)
Suggests(c) ==
  IF FileMarker[c.file] # "none" THEN FileMarker[c.file]
  ELSE IF \E s \in c.services : "production_like" \in s.traits THEN "production" ELSE "none"

Select(requested, workflows, composeFiles) ==
  LET telling == {i \in DOMAIN composeFiles : Suggests(composeFiles[i]) # "none"} IN
  IF requested # "auto" THEN requested
  ELSE IF telling # {} THEN Suggests(composeFiles[Min(telling)])
  ELSE IF workflows # {} /\ DOMAIN composeFiles = {} THEN "ci" ELSE "auto"

(***************************************************************************)
(* reachableCounts                                                         *)
(***************************************************************************)
Counted == {"workflow", "job", "service", "permission", "environment", "action", "port", "volume"}

reachableCounts(reach) == [t \in Counted |-> Cardinality(nodesOfType(reach, t))]
=============================================================================
