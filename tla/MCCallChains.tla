---------------------------- MODULE MCCallChains ----------------------------
(***************************************************************************)
(* Every call graph on three nodes, some with two call sites for one       *)
(* callee.                                                                 *)
(***************************************************************************)
EXTENDS CallChains, SequencesExt

MCNode == 1 .. 3

Sorted(S) == SetToSortSeq(S, <)

MCGraphs ==
  {[n \in MCNode |-> Sorted(e[n])] : e \in [MCNode -> SUBSET MCNode]}
  \cup { <<  <<2, 2>>, <<3, 3>>, <<>> >>, << <<2, 2, 3>>, <<1, 3>>, <<2, 2>> >> }

(***************************************************************************)
(* The walks end, whatever cycles the calls form.                          *)
(***************************************************************************)
DiagnosticsEnd == <>(phase = "done")
=============================================================================
