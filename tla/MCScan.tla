------------------------------- MODULE MCScan -------------------------------
(***************************************************************************)
(* A repository with a configuration, a workflow that calls a composite    *)
(* action, a Compose file, a Gitleaks report and a place for the report.   *)
(***************************************************************************)
EXTENDS Scan

CONSTANTS cfg, ci, compose, act, leaks, out,
          policy, caller, clean, leak, broken

MCPath == {cfg, ci, compose, act, leaks, out}
MCKind == [p \in MCPath |->
             CASE p = cfg -> "config" [] p \in {ci, compose} -> "input"
               [] p = act -> "metadata" [] p = leaks -> "gitleaks" [] p = out -> "other"]
MCRank == [p \in MCPath |-> IF p = ci THEN 1 ELSE 2]

MCContent == {policy, caller, clean, leak, broken}
MCParses == MCContent \ {broken}
MCRisky == {leak}
MCCalls == [c \in MCContent |-> IF c = caller THEN {act} ELSE {}]
MCDefault == [gate |-> FALSE, output |-> None, covers |-> {ci, compose}]
MCSettings == [c \in MCContent |->
                 IF c = policy THEN [gate |-> TRUE, output |-> out, covers |-> {ci, compose}]
                 ELSE MCDefault]
MCFits == [p \in MCPath |->
             CASE p = cfg -> {Absent, policy} [] p = ci -> {Absent, caller}
               [] p = compose -> {Absent, clean, leak, broken} [] p = act -> {clean, leak}
               [] p = leaks -> {clean, leak} [] p = out -> {Absent}]

Opt(c, g, gate, o) == [config |-> c, gitleaks |-> g, gate |-> gate, output |-> o,
                       patterns |-> FALSE, covers |-> {}]
MCChoices ==
  { Opt(None, None, TRUE, out), Opt(None, leaks, Unset, Unset),
    Opt(cfg, None, TRUE, cfg), Opt(None, None, TRUE, compose),
    Opt(None, None, TRUE, act), Opt(None, leaks, TRUE, None),
    Opt(cfg, leaks, FALSE, leaks), Opt(None, None, TRUE, Unset),
    [Opt(None, leaks, TRUE, out) EXCEPT !.patterns = TRUE, !.covers = {ci}] }
=============================================================================
