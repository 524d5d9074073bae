----------------------------- MODULE MCTraversal -----------------------------
(***************************************************************************)
(* Graphs of four nodes for TLC.                                           *)
(***************************************************************************)
EXTENDS Traversal, TLC

MCNode == 1 .. 4
MCEdge == 1 .. 6

Plain(a, b) == [from |-> a, to |-> b, class |-> "plain", kind |-> "confirmed", confidence |-> 4]
E(a, b, c)  == [Plain(a, b) EXCEPT !.class = c]

\* Three edges of every class, among fixed ones of every kind and confidence.
MCGraphs ==
  { (1 :> E(1, 2, c[1])) @@ (2 :> E(2, 3, c[2])) @@ (3 :> E(3, 4, c[3]))
      @@ (4 :> [Plain(1, 3) EXCEPT !.kind = k, !.confidence = 1])
      @@ (5 :> [Plain(3, 1) EXCEPT !.confidence = 2])
      @@ (6 :> [E(3, 2, "reusable") EXCEPT !.kind = "exposure", !.confidence = 2])
    : c \in [1 .. 3 -> Class], k \in Kind }

MCInputs ==
  {[nodes |-> ns, edges |-> g, start |-> 1, maxDepth |-> d, maxPaths |-> m] :
     ns \in {MCNode, MCNode \ {4}, {2, 3}}, g \in MCGraphs, d \in 0 .. 3, m \in {0, 3, 6}}

(***************************************************************************)
(* A traversal ends on cyclic graphs.                                      *)
(***************************************************************************)
TraversalEnds == <>(pc = "done")
=============================================================================
