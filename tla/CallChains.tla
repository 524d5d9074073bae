----------------------------- MODULE CallChains -----------------------------
(***************************************************************************)
(* The cycle and depth diagnostics of resolved call graphs: nested         *)
(* composite actions (compositeaction, detectNestedCycles and              *)
(* detectNestedDepthExceeded) and reusable workflows (reusableworkflow,    *)
(* detectCycles and detectDepthExceeded).  Both are recursive walks from   *)
(* every root; the recursion is the variable stack, whose frames hold a    *)
(* node and the next of its outgoing edges to follow.  The two features    *)
(* differ in one place: only the nested depth walk refuses a child that is *)
(* already on its path.                                                    *)
(*                                                                         *)
(* A node is the rank of a directory or workflow file in sorted order.     *)
(***************************************************************************)
EXTENDS Naturals, Sequences, FiniteSets

CONSTANTS
  Node,    \* directories, or workflow files
  Graphs,  \* call graphs: the callees of each node, sorted, one per call site
  Limit    \* MaxCompositeActionNestingDepth and MaxChainDepth (10 in the code)

ASSUME NodeAssumption   == Node \subseteq Nat /\ IsFiniteSet(Node)
ASSUME GraphsAssumption == Graphs \subseteq [Node -> Seq(Node)]
ASSUME LimitAssumption  == Limit \in Nat \ {0}

VARIABLES
  graph, feature, allRoots,
  phase,    \* "cycles", then "depth", then "done"
  roots,    \* the roots still to walk from in this phase
  root,     \* the root of the current walk
  stack,    \* the frames of the recursion
  onPath,   \* the code's own record of the nodes on the current path
  cycles,   \* cycle diagnostics: the first root that met the cycle, and its path
  tooDeep   \* depth diagnostics in the order they are appended

walkVars   == <<root, stack, onPath>>
inputVars  == <<graph, feature, allRoots>>
vars == <<inputVars, walkVars, phase, roots, cycles, tooDeep>>

Feature == {"nested", "reusable"}

Path     == [i \in 1 .. Len(stack) |-> stack[i].node]
Top      == stack[Len(stack)]
HasEdge  == stack # <<>> /\ Top.next <= Len(graph[Top.node])
Child    == graph[Top.node][Top.next]

\* The nodes of the stack from the first occurrence of n on.
CycleFrom(n) ==
  LET start == CHOOSE i \in 1 .. Len(stack) : stack[i].node = n
  IN  SubSeq(Path, start, Len(stack))

\* FAULT: a cycle is reported from whichever node the walk entered it.
AsMet(c) == c

\* The rotation of a cycle that starts at its smallest node.
Canonical(c) ==
  LET least == CHOOSE i \in 1 .. Len(c) : \A j \in 1 .. Len(c) : c[i] <= c[j]
  IN  SubSeq(c, least, Len(c)) \o SubSeq(c, 1, least - 1)

\* FAULT: the walk does not move to the next call site.
SameEdge(s) == s

\* The innermost frame moves to its next call site.
NextEdge(s) == [s EXCEPT ![Len(s)].next = @ + 1]

\* FAULT: a frame starts before its first call site.
PushZero(s, n) == Append(s, [node |-> n, next |-> 0])

Push(s, n) == Append(s, [node |-> n, next |-> 1])
-----------------------------------------------------------------------------
Init ==
  /\ graph \in Graphs
  /\ feature \in Feature
  /\ allRoots \in IF feature = "nested" THEN SUBSET Node ELSE {Node}
  /\ phase = "cycles"
  /\ roots = allRoots
  /\ root = 0
  /\ stack = <<>>
  /\ onPath = {}
  /\ cycles = {}
  /\ tooDeep = <<>>

\* The walk from the next root, in sorted order, begins.
StartRoot(r) ==
  /\ phase # "done" /\ stack = <<>>
  /\ r \in roots /\ \A s \in roots : r <= s
  /\ roots' = roots \ {r}
  /\ root' = r
  /\ stack' = Push(<<>>, r)
  /\ onPath' = {r}
  /\ UNCHANGED <<inputVars, phase, cycles, tooDeep>>

Descend ==
  /\ stack' = Push(NextEdge(stack), Child)
  /\ onPath' = onPath \cup {Child}

Skip ==
  /\ stack' = NextEdge(stack)
  /\ UNCHANGED onPath

\* Another walk, or this one, reported the cycle before.
Known(c) == \E d \in cycles : d.path = c

\* The cycle walk follows a call: back onto the path, or deeper.
FollowForCycles ==
  /\ phase = "cycles" /\ HasEdge
  /\ IF Child \in onPath
       THEN /\ cycles' = LET c == Canonical(CycleFrom(Child)) IN
                         IF Known(c) THEN cycles ELSE cycles \cup {[root |-> root, path |-> c]}
            /\ Skip
       ELSE Descend /\ UNCHANGED cycles
  /\ UNCHANGED <<inputVars, phase, roots, root, tooDeep>>

\* FAULT: a child already on the path is followed as reusable calls are.
FollowsAnyChild(c) == TRUE

\* Does the depth walk consider this child?
Follows(c) == feature = "nested" => c \notin onPath

\* FAULT: the limit counts transitions instead of nodes.
ExceedsTransitions(depth) == depth - 1 > Limit

Exceeds(depth) == depth > Limit

\* The depth walk follows a call: refused, too deep, or deeper.
FollowForDepth ==
  /\ phase = "depth" /\ HasEdge
  /\ IF ~Follows(Child) THEN Skip /\ UNCHANGED tooDeep
     ELSE IF Exceeds(Len(stack) + 1)
       THEN /\ tooDeep' = Append(tooDeep, [root |-> root, path |-> Append(Path, Child)])
            /\ Skip
       ELSE Descend /\ UNCHANGED tooDeep
  /\ UNCHANGED <<inputVars, phase, roots, root, cycles>>

\* Every call of the innermost node was followed: its frame is left.
Return ==
  /\ stack # <<>> /\ ~HasEdge
  /\ stack' = SubSeq(stack, 1, Len(stack) - 1)
  /\ onPath' = onPath \ {Top.node}
  /\ UNCHANGED <<inputVars, phase, roots, root, cycles, tooDeep>>

\* Every root was walked: the depth walk begins, or the diagnostics are done.
NextPhase ==
  /\ phase # "done" /\ stack = <<>> /\ roots = {}
  /\ phase' = IF phase = "cycles" THEN "depth" ELSE "done"
  /\ roots' = IF phase = "cycles" THEN allRoots ELSE {}
  /\ UNCHANGED <<inputVars, walkVars, cycles, tooDeep>>

Next ==
  \/ \E r \in Node : StartRoot(r)
  \/ FollowForCycles
  \/ FollowForDepth
  \/ Return
  \/ NextPhase

Spec     == Init /\ [][Next]_vars
FairSpec == Spec /\ WF_vars(Next)
-----------------------------------------------------------------------------
Diagnostic == [root : Node, path : Seq(Node)]

TypeOK ==
  /\ graph \in [Node -> Seq(Node)]
  /\ feature \in Feature
  /\ allRoots \in SUBSET Node /\ roots \in SUBSET Node
  /\ phase \in {"cycles", "depth", "done"}
  /\ root \in Nat
  /\ stack \in Seq([node : Node, next : Nat \ {0}])
  /\ onPath \in SUBSET Node
  /\ cycles \in SUBSET Diagnostic
  /\ tooDeep \in Seq(Diagnostic)

(***************************************************************************)
(* The stack is a chain of calls that starts at the root.  It repeats no   *)
(* node, and onPath is exactly its nodes, except in the depth walk over    *)
(* reusable workflows, which may go round a cycle.                         *)
(***************************************************************************)
MayRepeat == phase = "depth" /\ feature = "reusable"

PathIsChain ==
  /\ \A i \in 1 .. Len(stack) - 1 :
       \E j \in 1 .. Len(graph[stack[i].node]) : graph[stack[i].node][j] = stack[i + 1].node
  /\ stack # <<>> => stack[1].node = root
  /\ ~MayRepeat =>
       /\ onPath = {stack[i].node : i \in 1 .. Len(stack)}
       /\ \A i, j \in 1 .. Len(stack) : stack[i].node = stack[j].node => i = j
-----------------------------------------------------------------------------
(***************************************************************************)
(* The reference: chains of calls, and the call sites they go through.     *)
(***************************************************************************)
CallSites(u, v) == {i \in 1 .. Len(graph[u]) : graph[u][i] = v}

IsChain(p)  == \A i \in 1 .. Len(p) - 1 : CallSites(p[i], p[i + 1]) # {}
IsSimple(p) == \A i, j \in 1 .. Len(p) : p[i] = p[j] => i = j

SimpleChains == {p \in UNION {[1 .. n -> Node] : n \in 1 .. Cardinality(Node)} :
                   IsSimple(p) /\ IsChain(p)}

Reaches(u, v) == \E p \in SimpleChains : p[1] = u /\ p[Len(p)] = v

(***************************************************************************)
(* When the cycle walks are done, every elementary cycle of calls that a   *)
(* root reaches is reported once, from its smallest node on, under the     *)
(* first root that reaches it, and nothing else is reported as a cycle: a  *)
(* shared callee never is.                                                 *)
(***************************************************************************)
ElementaryCycles ==
  {c \in SimpleChains : CallSites(c[Len(c)], c[1]) # {} /\ \A i \in 1 .. Len(c) : c[1] <= c[i]}

FirstRoot(c) ==
  CHOOSE r \in allRoots : /\ Reaches(r, c[1])
                          /\ \A s \in allRoots : Reaches(s, c[1]) => r <= s

CyclesAreExact ==
  phase # "cycles" =>
    cycles = {[root |-> FirstRoot(c), path |-> c] :
                c \in {d \in ElementaryCycles : \E r \in allRoots : Reaches(r, d[1])}}

(***************************************************************************)
(* When the diagnostics are done, a chain of Limit + 1 nodes from a root   *)
(* is reported once for each way to choose its call sites: every simple    *)
(* chain of nested actions, every chain at all of reusable workflows.      *)
(***************************************************************************)
DeepChains ==
  {p \in [1 .. Limit + 1 -> Node] :
     p[1] \in allRoots /\ IsChain(p) /\ (feature = "nested" => IsSimple(p))}

Ways(p) ==
  {w \in [1 .. Limit -> UNION {CallSites(p[i], p[i + 1]) : i \in 1 .. Limit}] :
     \A i \in 1 .. Limit : w[i] \in CallSites(p[i], p[i + 1])}

Reports(p) ==
  Cardinality({i \in 1 .. Len(tooDeep) : tooDeep[i].path = p /\ tooDeep[i].root = p[1]})

DepthIsExact ==
  phase = "done" =>
    /\ \A p \in DeepChains : Reports(p) = Cardinality(Ways(p))
    /\ \A i \in 1 .. Len(tooDeep) : tooDeep[i].path \in DeepChains
=============================================================================
