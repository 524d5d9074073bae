----------------------------- MODULE ReportSlot -----------------------------
(***************************************************************************)
(* What publishing a report promises (internal/safefile), however many     *)
(* writers publish to one destination and whenever one of them, or the     *)
(* whole machine, stops.  recoverable is the set of complete reports that  *)
(* can be found at the destination or in the backup files beside it.       *)
(*                                                                         *)
(* A report becomes recoverable when its writer lands it.  Reports may be  *)
(* forgotten, but never the last recoverable one, and the report that      *)
(* stood there before not until another one has landed.  A writer is told  *)
(* of success only after its report has landed.                            *)
(***************************************************************************)
EXTENDS Naturals, Sequences

CONSTANTS Writer, Previous

VARIABLES
  recoverable,
  landed,       \* the writers in the order in which their reports landed
  outcome

vars == <<recoverable, landed, outcome>>

HasLanded(w, ls) == \E i \in 1 .. Len(ls) : ls[i] = w

Init ==
  /\ recoverable \in {{}, {Previous}}
  /\ landed = <<>>
  /\ outcome = [w \in Writer |-> "pending"]

Land(w) ==
  /\ outcome[w] = "pending" /\ ~HasLanded(w, landed)
  /\ landed' = Append(landed, w)
  /\ w \in recoverable' /\ recoverable' \subseteq recoverable \cup {w}
  /\ outcome' \in {outcome, [outcome EXCEPT ![w] = "succeeded"]}

Forget(w) ==
  /\ outcome[w] = "pending"
  /\ recoverable' \subseteq recoverable /\ recoverable' # {}
  /\ Previous \in recoverable \ recoverable' => landed # <<>>
  /\ UNCHANGED landed
  /\ outcome' \in {outcome, [outcome EXCEPT ![w] = "succeeded"]}
  /\ outcome'[w] = "succeeded" => HasLanded(w, landed)

Fail(w) ==
  /\ outcome[w] = "pending"
  /\ outcome' = [outcome EXCEPT ![w] = "failed"]
  /\ UNCHANGED <<recoverable, landed>>

Stop(S) ==
  /\ \A w \in S : outcome[w] = "pending"
  /\ outcome' = [w \in Writer |-> IF w \in S THEN "crashed" ELSE outcome[w]]
  /\ UNCHANGED <<recoverable, landed>>

Next ==
  \/ \E w \in Writer : Land(w) \/ Forget(w) \/ Fail(w)
  \/ \E S \in SUBSET Writer : Stop(S)

Spec == Init /\ [][Next]_vars
=============================================================================
