------------------------------- MODULE Gitleaks -------------------------------
(***************************************************************************)
(* What the adapter makes of the report of a Gitleaks scan                 *)
(* (internal/adapters/gitleaks): the findings of internal/domain.          *)
(*                                                                         *)
(* A report is a sequence of entries, each Malformed if it is no JSON      *)
(* object with fields of the right types, or Malformed as a whole.  A      *)
(* field that is missing or empty is Absent.  Names either are a secret or *)
(* do not contain it.  Description, tags, author, date and message have no *)
(* part in what a finding is and are left out.                             *)
(***************************************************************************)
EXTENDS Documents

CONSTANTS
  Redacted,         \* "[REDACTED]"
  FixturePath       \* paths with a directory tests or testdata

ASSUME RedactedAssumption == Redacted \in Key

(***************************************************************************)
(* The path of an entry by its place, as it reads once it is cleaned:      *)
(* relative to the repository, an absolute path below the configured       *)
(* prefix, or outside of both.  The repository itself has the name "".     *)
(***************************************************************************)
Place    == {"relative", "prefixed", "outside"}
Prefix   == {"none", "valid", "invalid"}
FilePath == [place : Place, name : STRING]

Entry ==
  [rule : Key \cup {Absent}, key : Key \cup {Absent}, commit : Key \cup {Absent},
   secret : STRING \cup {Absent}, match : STRING \cup {Absent}, fingerprint : STRING \cup {Absent},
   file : FilePath, line : Int]

\* No secret and no line with a secret is shown.
redact(raw, k) == IF k # Absent /\ k \in {raw.secret, raw.match} THEN Redacted ELSE k

Clean(raw, k) == LET shown == redact(raw, k) IN IF shown = Absent THEN "" ELSE Identifier[shown]

OrElse(n, default) == IF n = "" THEN default ELSE n

RuleOf(raw)  == OrElse(Clean(raw, raw.rule), "unknown")
LabelOf(raw) == OrElse(Clean(raw, raw.key), RuleOf(raw))

\* An absolute path needs a prefix, and one that may be stripped.
UnsafePath(file, prefix) ==
  \/ file.place = "outside"
  \/ file.place = "prefixed" /\ prefix # "valid"

normalizeFindingPath(file) == OrElse(file.name, "(unknown)")

\* What makes two entries the same secret; for want of anything else, their place.
secretIdentity(raw) ==
  LET given == SelectSeq(<<raw.secret, raw.match, raw.fingerprint>>, LAMBDA x : x # Absent) IN
  IF given # <<>> THEN <<Head(given)>> ELSE <<RuleOf(raw), normalizeFindingPath(raw.file), raw.line>>

FindingIdOf(raw) ==
  <<RuleOf(raw), normalizeFindingPath(raw.file), raw.line, Clean(raw, raw.commit), secretIdentity(raw)>>

convert(raw) ==
  [id      |-> FindingIdOf(raw),
   rule    |-> RuleOf(raw),
   label   |-> LabelOf(raw),
   path    |-> normalizeFindingPath(raw.file),
   fixture |-> normalizeFindingPath(raw.file) \in FixturePath]

ConvertFails(raw, prefix) == UnsafePath(raw.file, prefix) \/ raw.line < 0

ReportFails(report, prefix) ==
  \/ report = Malformed
  \/ \E i \in DOMAIN report : report[i] = Malformed \/ ConvertFails(report[i], prefix)

\* FAULT: of entries with one identity the first counts.
KeepsFirst(findings) ==
  {findings[i] : i \in {j \in DOMAIN findings :
                          \A k \in DOMAIN findings : findings[k].id = findings[j].id => k >= j}}

\* Of entries with one identity the last counts.
deduplicate(findings) ==
  {findings[i] : i \in {j \in DOMAIN findings :
                          \A k \in DOMAIN findings : findings[k].id = findings[j].id => k <= j}}

Findings(report) == deduplicate([i \in DOMAIN report |-> convert(report[i])])
=============================================================================
