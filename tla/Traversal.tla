------------------------------ MODULE Traversal ------------------------------
(***************************************************************************)
(* Evidence traversal (internal/graph: TraverseLimited).  From one         *)
(* credential node, a depth-first walk retains every distinct path of      *)
(* typed edges.  The recursion is the variable stack: a frame is the path  *)
(* that led to a node, what the code passes along with it, and the edges   *)
(* of that node still to try.                                              *)
(*                                                                         *)
(* An edge is its rank in the order of edge IDs.  Its class says which of  *)
(* the three budgets it consumes: a "reusable" hop counts against the      *)
(* general depth and MaxReusableWorkflowHops, a "crossing" (a parent usage *)
(* to a child binding of a nested composite action) only against           *)
(* MaxCompositeActionForwardingHops, "within" (that binding to a child     *)
(* usage) against none of them, any other edge against the general depth.  *)
(***************************************************************************)
EXTENDS Integers, Sequences, FiniteSets

CONSTANTS
  Node,
  Edge,                              \* ranks of edge IDs
  Inputs,                            \* the graphs and limits a walk may get
  DefaultMaxDepth,                   \* 12 in the code
  DefaultMaxEvidencePaths,           \* 10000
  MaxReusableWorkflowHops,           \* 9
  MaxCompositeActionForwardingHops   \* 9

Class      == {"plain", "reusable", "crossing", "within"}
Kind       == {"confirmed", "exposure", "topology", "unknown", "structural"}
Confidence == 0 .. 4  \* by confidenceRank: unknown is 0, confirmed is 4

\* from and to may name nodes the graph does not have.
EdgeData == [from : Node, to : Node, class : Class, kind : Kind, confidence : Confidence]

ASSUME EdgeAssumption   == Edge \subseteq Nat
ASSUME InputsAssumption ==
  \A in \in Inputs :
    /\ in \in [nodes : SUBSET Node, edges : {in.edges}, start : Node,
              maxDepth : Int, maxPaths : Int]
    /\ IsFiniteSet(in.nodes) /\ IsFiniteSet(DOMAIN in.edges)
    /\ DOMAIN in.edges \subseteq Edge
    /\ in.edges \in [DOMAIN in.edges -> EdgeData]
ASSUME LimitsAssumption ==
  /\ DefaultMaxDepth \in Nat \ {0} /\ DefaultMaxEvidencePaths \in Nat \ {0}
  /\ MaxReusableWorkflowHops \in Nat /\ MaxCompositeActionForwardingHops \in Nat

VARIABLES
  input,
  pc,
  stack,         \* the frames of the recursion
  paths,         \* the retained paths
  limitExceeded

vars == <<input, pc, stack, paths, limitExceeded>>

edges    == input.edges
start    == input.start
maxDepth == IF input.maxDepth <= 0 THEN DefaultMaxDepth ELSE input.maxDepth
maxPaths == IF input.maxPaths <= 0 THEN DefaultMaxEvidencePaths ELSE input.maxPaths

(***************************************************************************)
(* The edges that are walked at all: topology and structural edges, and    *)
(* edges whose end is not a node of the graph, are left out.               *)
(***************************************************************************)
Walkable(e) ==
  /\ edges[e].kind \notin {"topology", "structural"}
  /\ edges[e].from \in input.nodes /\ edges[e].to \in input.nodes

Adjacent(n) == {e \in DOMAIN edges : Walkable(e) /\ edges[e].from = n}

\* FAULT: the confidence of the last edge alone is kept.
LastConfidence(a, b) == b

weakest(a, b) == IF b < a THEN b ELSE a

kindRank(k) ==
  CASE k = "unknown" -> 4
    [] k = "topology" -> 3
    [] k = "exposure" -> 2
    [] k \in {"confirmed", "structural"} -> 1

\* FAULT: two different kinds are combined into one the report does not know.
MixedKind(current, next) == IF next = current THEN current ELSE "mixed"

combineEvidenceKind(current, next) ==
  IF kindRank(next) > kindRank(current) THEN next ELSE current

\* What the walk knows on arriving at a node.
Frame == [node : Node, path : Seq(Edge), visited : SUBSET Node, todo : SUBSET Edge,
          confidence : Confidence, kind : Kind,
          reusableHops : Nat, compositeHops : Nat, generalDepth : Nat]

EvidencePath == [edges : Seq(Edge), confidence : Confidence, kind : Kind, truncated : BOOLEAN]

\* FAULT: every edge of a nested composite action is exempt from its hop budget.
GeneralDepthOnly(f, e) ==
  [f EXCEPT !.reusableHops = @ + (IF edges[e].class = "reusable" THEN 1 ELSE 0),
            !.generalDepth = @ + (IF edges[e].class \in {"crossing", "within"} THEN 0 ELSE 1)]

\* The budgets after edge e.
Spend(f, e) ==
  [f EXCEPT !.reusableHops  = @ + (IF edges[e].class = "reusable" THEN 1 ELSE 0),
            !.compositeHops = @ + (IF edges[e].class = "crossing" THEN 1 ELSE 0),
            !.generalDepth  = @ + (IF edges[e].class \in {"crossing", "within"} THEN 0 ELSE 1)]

\* The frame of the node that edge e leads to.
Extend(f, e) ==
  [Spend(f, e) EXCEPT !.node       = edges[e].to,
                      !.path       = Append(@, e),
                      !.visited    = @ \cup {edges[e].to},
                      !.todo       = Adjacent(edges[e].to),
                      !.confidence = weakest(@, edges[e].confidence),
                      !.kind       = combineEvidenceKind(@, edges[e].kind)]

\* FAULT: only edges back to the start are ever refused as visited.
VisitedStart(f, e) == edges[e].to = start

Visited(f, e) == edges[e].to \in f.visited

\* FAULT: the ninth hop is refused as well.
OverBudgetEarly(g) ==
  g.reusableHops >= MaxReusableWorkflowHops \/ g.compositeHops >= MaxCompositeActionForwardingHops

OverBudget(g) ==
  g.reusableHops > MaxReusableWorkflowHops \/ g.compositeHops > MaxCompositeActionForwardingHops

AtDepth(g) == g.generalDepth >= maxDepth

\* FAULT: a path is marked only when its end has an edge to a node never met.
TruncatedByFirst(f, g) ==
  AtDepth(g) /\ \A e \in g.todo : edges[e].to \notin g.visited

\* hasUnvisited: an edge leads from the path's end to a node not on the path.
Truncated(f, g) ==
  AtDepth(g) /\ \E e \in g.todo : edges[e].to # g.node /\ edges[e].to \notin f.visited

Retained(f, g) == [edges |-> g.path, confidence |-> g.confidence, kind |-> g.kind,
                   truncated |-> Truncated(f, g)]
-----------------------------------------------------------------------------
Init ==
  /\ input \in Inputs
  /\ pc = IF start \in input.nodes THEN "walk" ELSE "done"
  /\ stack = IF start \notin input.nodes THEN <<>>
             ELSE << [node |-> start, path |-> <<>>, visited |-> {start},
                      todo |-> Adjacent(start), confidence |-> 4, kind |-> "confirmed",
                      reusableHops |-> 0, compositeHops |-> 0, generalDepth |-> 0] >>
  /\ paths = {}
  /\ limitExceeded = FALSE

Top == stack[Len(stack)]

\* The next edge of the innermost node, in the order of edge IDs.
IsNext(e) == e \in Top.todo /\ \A d \in Top.todo : e <= d

\* FAULT: the edge stays to be tried.
StuckOn(e) == stack

\* The innermost frame has tried edge e.
Tried(e) == [stack EXCEPT ![Len(stack)].todo = @ \ {e}]

\* Edge e would revisit a node or exceed a hop budget on this path.
Refuse(e) ==
  /\ pc = "walk" /\ stack # <<>> /\ IsNext(e)
  /\ Visited(Top, e) \/ OverBudget(Spend(Top, e))
  /\ stack' = Tried(e)
  /\ UNCHANGED <<input, pc, paths, limitExceeded>>

\* FAULT: the bound is looked at one path too late.
ReachesLimitLate(n) == n > maxPaths

ReachesLimit(n) == n >= maxPaths

(***************************************************************************)
(* Edge e extends the path.  The longer path is retained; then the walk    *)
(* stops altogether, turns back at the general depth, or goes deeper.      *)
(***************************************************************************)
Retain(e) ==
  LET g == Extend(Top, e) IN
  /\ pc = "walk" /\ stack # <<>> /\ IsNext(e)
  /\ ~Visited(Top, e) /\ ~OverBudget(Spend(Top, e))
  /\ paths' = paths \cup {Retained(Top, g)}
  /\ limitExceeded' = ReachesLimit(Cardinality(paths'))
  /\ stack' = IF limitExceeded' THEN <<>>
              ELSE IF AtDepth(g) THEN Tried(e)
              ELSE Append(Tried(e), g)
  /\ UNCHANGED <<input, pc>>

\* Every edge of the innermost node was tried.
Return ==
  /\ pc = "walk" /\ stack # <<>> /\ Top.todo = {}
  /\ stack' = SubSeq(stack, 1, Len(stack) - 1)
  /\ UNCHANGED <<input, pc, paths, limitExceeded>>

Finish ==
  /\ pc = "walk" /\ stack = <<>>
  /\ pc' = "done"
  /\ UNCHANGED <<input, stack, paths, limitExceeded>>

Next ==
  \/ \E e \in Edge : Refuse(e) \/ Retain(e)
  \/ Return
  \/ Finish

Spec     == Init /\ [][Next]_vars
FairSpec == Spec /\ WF_vars(Next)
-----------------------------------------------------------------------------
TypeOK ==
  /\ input \in Inputs
  /\ pc \in {"walk", "done"}
  /\ stack \in Seq(Frame)
  /\ paths \in SUBSET EvidencePath
  /\ limitExceeded \in BOOLEAN

(***************************************************************************)
(* The edges of a path lead from one to the next, starting at the          *)
(* credential, and never back to a node the path went through.             *)
(***************************************************************************)
IsSimplePath(p) ==
  /\ \A i \in 1 .. Len(p) : p[i] \in DOMAIN edges /\ Walkable(p[i]) /\ edges[p[i]].to # start
  /\ Len(p) > 0 => edges[p[1]].from = start
  /\ \A i \in 1 .. Len(p) - 1 : edges[p[i + 1]].from = edges[p[i]].to
  /\ \A i, j \in 1 .. Len(p) : edges[p[i]].to = edges[p[j]].to => i = j

PathsAreSimple == \A q \in paths : q.edges # <<>> /\ IsSimplePath(q.edges)

(***************************************************************************)
(* The budgets a path spent, counted from its edges.                       *)
(***************************************************************************)
Spent(p, classes) == Cardinality({i \in 1 .. Len(p) : edges[p[i]].class \in classes})

WithinBudgets(p) ==
  /\ Spent(p, {"reusable"}) <= MaxReusableWorkflowHops
  /\ Spent(p, {"crossing"}) <= MaxCompositeActionForwardingHops

\* The depth stops the walk behind a path, so it counts all edges but the last.
WithinDepth(p) == Spent(SubSeq(p, 1, Len(p) - 1), {"plain", "reusable"}) < maxDepth

PathsAreWithinBudgets == \A q \in paths : WithinBudgets(q.edges) /\ WithinDepth(q.edges)

(***************************************************************************)
(* A path is no more certain than its weakest edge, and is of the most     *)
(* uncertain kind among its edges.                                         *)
(***************************************************************************)
PathsAreNoStrongerThanEdges ==
  \A q \in paths : \A i \in 1 .. Len(q.edges) :
    /\ q.confidence <= edges[q.edges[i]].confidence
    /\ kindRank(q.kind) >= kindRank(edges[q.edges[i]].kind)

(***************************************************************************)
(* The simple paths within the hop budgets and the depth, and the order in *)
(* which a depth-first walk meets them: a path before its extensions, then *)
(* by the first edge in which two paths differ.                            *)
(***************************************************************************)
SimplePaths ==
  LET Chains == UNION {[1 .. n -> DOMAIN edges] : n \in 1 .. Cardinality(input.nodes) - 1}
  IN  {p \in Chains : IsSimplePath(p)}

Admissible == {p \in SimplePaths : WithinBudgets(p) /\ WithinDepth(p)}

IsProperPrefix(p, q) == Len(p) < Len(q) /\ p = SubSeq(q, 1, Len(p))

Before(p, q) ==
  \/ IsProperPrefix(p, q)
  \/ \E i \in DOMAIN p \cap DOMAIN q :
       SubSeq(p, 1, i - 1) = SubSeq(q, 1, i - 1) /\ p[i] < q[i]

(***************************************************************************)
(* A traversal retains exactly the admissible paths, or the first maxPaths *)
(* of them.  It reports the limit exactly when there are that many or more,*)
(* so a traversal that does not report it dropped none.                    *)
(***************************************************************************)
RetainsExactly ==
  pc = "done" =>
    LET A == Admissible IN
    /\ {q.edges : q \in paths} = {p \in A : Cardinality({r \in A : Before(r, p)}) < maxPaths}
    /\ limitExceeded <=> Cardinality(A) >= maxPaths

(***************************************************************************)
(* A simple path that a finished traversal leaves out either exceeds a hop *)
(* budget or continues a retained path that is marked truncated: the depth *)
(* alone never drops evidence silently.                                    *)
(***************************************************************************)
OmissionIsMarked ==
  pc = "done" /\ ~limitExceeded => \A p \in SimplePaths :
    \/ \E q \in paths : q.edges = p
    \/ \E q \in paths : q.truncated /\ IsProperPrefix(q.edges, p)
    \/ ~WithinBudgets(p)
=============================================================================
