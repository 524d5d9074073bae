--------------------------- MODULE TraversalProofs ---------------------------
(***************************************************************************)
(* For all graphs, limits and budgets: what every retained path is (typed, *)
(* simple, within the budgets, no stronger than its edges), that all paths *)
(* the limits allow are retained, and that what is left out is marked.     *)
(***************************************************************************)
EXTENDS Traversal, FiniteSetTheorems, TLAPS

\* No path says more than its edges do.
NoStronger(confidence, kind, p) ==
  \A i \in 1 .. Len(p) :
    /\ confidence <= edges[p[i]].confidence
    /\ kindRank(kind) >= kindRank(edges[p[i]].kind)

\* What a frame knows of the path that led to it.
EndsOf(p) == {edges[p[i]].to : i \in 1 .. Len(p)}

AtEnd(f) ==
  /\ f.path = <<>> => f.node = start
  /\ f.path # <<>> => f.node = edges[f.path[Len(f.path)]].to
  /\ f.visited = {start} \cup EndsOf(f.path)
  /\ f.todo \subseteq Adjacent(f.node)

Counted(f) ==
  /\ f.reusableHops  = Spent(f.path, {"reusable"})
  /\ f.compositeHops = Spent(f.path, {"crossing"})
  /\ f.generalDepth  = Spent(f.path, {"plain", "reusable"})

Reached(f) ==
  /\ f \in Frame
  /\ IsSimplePath(f.path) /\ AtEnd(f) /\ Counted(f)
  /\ f.reusableHops <= MaxReusableWorkflowHops
  /\ f.compositeHops <= MaxCompositeActionForwardingHops
  /\ NoStronger(f.confidence, f.kind, f.path)

\* The walk goes deeper only below the depth.
FrameOK(f) == Reached(f) /\ f.generalDepth < maxDepth

PathOK(q) ==
  /\ q \in EvidencePath /\ q.edges # <<>>
  /\ IsSimplePath(q.edges) /\ WithinBudgets(q.edges) /\ WithinDepth(q.edges)
  /\ NoStronger(q.confidence, q.kind, q.edges)

IInv ==
  /\ input \in Inputs
  /\ pc \in {"walk", "done"}
  /\ stack \in Seq(Frame) /\ \A i \in 1 .. Len(stack) : FrameOK(stack[i])
  /\ IsFiniteSet(paths) /\ \A q \in paths : PathOK(q)
  /\ limitExceeded \in BOOLEAN
-----------------------------------------------------------------------------
(* The data.                                                               *)

LEMMA InputTyped ==
  ASSUME input \in Inputs
  PROVE  /\ start \in Node
         /\ DOMAIN edges \subseteq Edge
         /\ edges \in [DOMAIN edges -> EdgeData]
         /\ maxDepth \in Nat \ {0} /\ maxPaths \in Nat \ {0}
BY InputsAssumption, LimitsAssumption DEF edges, start, maxDepth, maxPaths

LEMMA EdgeTyped ==
  ASSUME input \in Inputs, NEW e \in DOMAIN edges
  PROVE  /\ e \in Edge
         /\ edges[e].from \in Node /\ edges[e].to \in Node
         /\ edges[e].class \in Class /\ edges[e].kind \in Kind
         /\ edges[e].confidence \in 0 .. 4
<1>1. edges[e] \in EdgeData
  BY InputTyped
<1> QED
  BY <1>1, InputTyped DEF EdgeData, Confidence

\* How many edges of some classes a path has, and has with one more.
LEMMA SpentIsNat ==
  ASSUME NEW p \in Seq(Edge), NEW classes
  PROVE  /\ IsFiniteSet({i \in 1 .. Len(p) : edges[p[i]].class \in classes})
         /\ Spent(p, classes) \in Nat
<1>1. IsFiniteSet(1 .. Len(p))
  BY FS_Interval
<1>2. IsFiniteSet({i \in 1 .. Len(p) : edges[p[i]].class \in classes})
  BY <1>1, FS_Subset
<1> QED
  BY <1>2, FS_CardinalityType DEF Spent

LEMMA SpentNothing == ASSUME NEW classes PROVE Spent(<<>>, classes) = 0
<1>1. {i \in 1 .. Len(<<>>) : edges[<<>>[i]].class \in classes} = {}
  OBVIOUS
<1> QED
  BY <1>1, FS_EmptySet DEF Spent

LEMMA SpentMore ==
  ASSUME NEW p \in Seq(Edge), NEW e \in Edge, NEW classes
  PROVE  Spent(Append(p, e), classes) =
           Spent(p, classes) + (IF edges[e].class \in classes THEN 1 ELSE 0)
<1> DEFINE q == Append(p, e)
           S == {i \in 1 .. Len(p) : edges[p[i]].class \in classes}
           T == {i \in 1 .. Len(q) : edges[q[i]].class \in classes}
<1>1. Len(q) = Len(p) + 1 /\ q[Len(p) + 1] = e /\ \A i \in 1 .. Len(p) : q[i] = p[i]
  OBVIOUS
<1>2. IsFiniteSet(S) /\ Cardinality(S) \in Nat
  BY SpentIsNat DEF Spent
<1>3. CASE edges[e].class \in classes
  <2>1. T = S \cup {Len(p) + 1}
    BY <1>1, <1>3
  <2>2. Len(p) + 1 \notin S
    OBVIOUS
  <2>3. Cardinality(S \cup {Len(p) + 1}) = Cardinality(S) + 1
    BY <1>2, <2>2, FS_AddElement
  <2> QED
    BY <1>3, <2>1, <2>3 DEF Spent
<1>4. CASE edges[e].class \notin classes
  <2>1. T = S
    BY <1>1, <1>4
  <2>2. Spent(q, classes) = Cardinality(T) /\ Spent(p, classes) = Cardinality(S)
    BY DEF Spent
  <2> HIDE DEF S, T
  <2> QED
    BY <1>2, <1>4, <2>1, <2>2
<1> QED
  BY <1>3, <1>4
-----------------------------------------------------------------------------
(* One edge further.                                                       *)

\* What Spend and Extend leave in each field.
LEMMA SpendFields ==
  ASSUME NEW f \in Frame, NEW e
  PROVE  LET g == Spend(f, e)
             c == edges[e].class
         IN  /\ g \in Frame
             /\ g.node = f.node /\ g.path = f.path /\ g.visited = f.visited /\ g.todo = f.todo
             /\ g.confidence = f.confidence /\ g.kind = f.kind
             /\ g.reusableHops = f.reusableHops + (IF c = "reusable" THEN 1 ELSE 0)
             /\ g.compositeHops = f.compositeHops + (IF c = "crossing" THEN 1 ELSE 0)
             /\ g.generalDepth = f.generalDepth + (IF c \in {"crossing", "within"} THEN 0 ELSE 1)
<1> DEFINE r == f.reusableHops + (IF edges[e].class = "reusable" THEN 1 ELSE 0)
           c == f.compositeHops + (IF edges[e].class = "crossing" THEN 1 ELSE 0)
           d == f.generalDepth + (IF edges[e].class \in {"crossing", "within"} THEN 0 ELSE 1)
<1>1. Spend(f, e) = [f EXCEPT !.reusableHops = r, !.compositeHops = c, !.generalDepth = d]
  BY Zenon DEF Spend
<1>2. r \in Nat /\ c \in Nat /\ d \in Nat
  BY DEF Frame
<1> HIDE DEF r, c, d
<1>3. LET g == [f EXCEPT !.reusableHops = r, !.compositeHops = c, !.generalDepth = d] IN
        /\ g \in Frame
        /\ g.node = f.node /\ g.path = f.path /\ g.visited = f.visited /\ g.todo = f.todo
        /\ g.confidence = f.confidence /\ g.kind = f.kind
        /\ g.reusableHops = r /\ g.compositeHops = c /\ g.generalDepth = d
  BY <1>2 DEF Frame
<1> QED
  BY <1>1, <1>3 DEF r, c, d

LEMMA ExtendFields ==
  ASSUME NEW f \in Frame, NEW e \in Edge, edges[e].to \in Node, Adjacent(edges[e].to) \subseteq Edge,
         weakest(f.confidence, edges[e].confidence) \in Confidence,
         combineEvidenceKind(f.kind, edges[e].kind) \in Kind
  PROVE  LET g == Extend(f, e) IN
         /\ g \in Frame
         /\ g.node = edges[e].to /\ g.path = Append(f.path, e)
         /\ g.visited = f.visited \cup {edges[e].to} /\ g.todo = Adjacent(edges[e].to)
         /\ g.confidence = weakest(f.confidence, edges[e].confidence)
         /\ g.kind = combineEvidenceKind(f.kind, edges[e].kind)
         /\ g.reusableHops = Spend(f, e).reusableHops
         /\ g.compositeHops = Spend(f, e).compositeHops
         /\ g.generalDepth = Spend(f, e).generalDepth
<1> DEFINE h == Spend(f, e)
           n == edges[e].to
           p == Append(f.path, e)
           v == f.visited \cup {n}
           t == Adjacent(n)
           c == weakest(f.confidence, edges[e].confidence)
           k == combineEvidenceKind(f.kind, edges[e].kind)
<1>1. /\ h \in Frame /\ h.path = f.path /\ h.visited = f.visited
      /\ h.confidence = f.confidence /\ h.kind = f.kind
  BY SpendFields
<1>2. Extend(f, e) = [h EXCEPT !.node = n, !.path = Append(h.path, e), !.visited = h.visited \cup {n},
                               !.todo = t, !.confidence = weakest(h.confidence, edges[e].confidence),
                               !.kind = combineEvidenceKind(h.kind, edges[e].kind)]
  BY Zenon DEF Extend
<1>3. Extend(f, e) = [h EXCEPT !.node = n, !.path = p, !.visited = v,
                               !.todo = t, !.confidence = c, !.kind = k]
  BY <1>1, <1>2
<1>4. n \in Node /\ p \in Seq(Edge) /\ v \in SUBSET Node /\ t \in SUBSET Edge /\ c \in Confidence /\ k \in Kind
  BY DEF Frame
<1> HIDE DEF h, n, p, v, t, c, k
<1>5. LET g == [h EXCEPT !.node = n, !.path = p, !.visited = v,
                         !.todo = t, !.confidence = c, !.kind = k] IN
        /\ g \in Frame
        /\ g.node = n /\ g.path = p /\ g.visited = v /\ g.todo = t /\ g.confidence = c /\ g.kind = k
        /\ g.reusableHops = h.reusableHops /\ g.compositeHops = h.compositeHops
        /\ g.generalDepth = h.generalDepth
  BY <1>1, <1>4 DEF Frame
<1> QED
  BY <1>3, <1>5 DEF h, n, p, v, t, c, k

LEMMA LongerPathIsSimple ==
  ASSUME input \in Inputs, NEW f, Reached(f), NEW e \in f.todo, ~Visited(f, e)
  PROVE  IsSimplePath(Append(f.path, e))
<1> DEFINE p == f.path
           q == Append(p, e)
<1>1. p \in Seq(Edge) /\ IsSimplePath(p) /\ AtEnd(f)
  BY DEF Reached, Frame
<1>2. e \in DOMAIN edges /\ Walkable(e) /\ edges[e].from = f.node
  BY <1>1 DEF AtEnd, Adjacent
<1>3. edges[e].to # start /\ \A i \in 1 .. Len(p) : edges[p[i]].to # edges[e].to
  BY <1>1 DEF AtEnd, EndsOf, Visited
<1>4. Len(q) = Len(p) + 1 /\ q[Len(p) + 1] = e /\ \A i \in 1 .. Len(p) : q[i] = p[i]
  BY <1>1
<1>5. Len(p) \in Nat
  BY <1>1
<1> HIDE DEF p, q
<1>6. \A i \in 1 .. Len(q) : q[i] \in DOMAIN edges /\ Walkable(q[i]) /\ edges[q[i]].to # start
  <2> SUFFICES ASSUME NEW i \in 1 .. Len(q)
               PROVE  q[i] \in DOMAIN edges /\ Walkable(q[i]) /\ edges[q[i]].to # start
    OBVIOUS
  <2>1. CASE i = Len(p) + 1
    BY <1>2, <1>3, <1>4, <2>1
  <2>2. CASE i \in 1 .. Len(p)
    <3>1. p[i] \in DOMAIN edges /\ Walkable(p[i]) /\ edges[p[i]].to # start
      BY <1>1, <2>2 DEF IsSimplePath
    <3> QED
      BY <1>4, <2>2, <3>1
  <2> QED
    BY <1>4, <1>5, <2>1, <2>2
<1>7. edges[q[1]].from = start
  <2>1. CASE p = <<>>
    <3>1. q[1] = e
      BY <1>4, <2>1
    <3> QED
      BY <1>1, <1>2, <2>1, <3>1 DEF AtEnd, p
  <2>2. CASE p # <<>>
    BY <1>1, <1>4, <2>2 DEF IsSimplePath
  <2> QED
    BY <2>1, <2>2
<1>8. \A i \in 1 .. Len(q) - 1 : edges[q[i + 1]].from = edges[q[i]].to
  <2> SUFFICES ASSUME NEW i \in 1 .. Len(q) - 1 PROVE edges[q[i + 1]].from = edges[q[i]].to
    OBVIOUS
  <2>1. CASE i = Len(p)
    <3>1. p # <<>>
      BY <1>4, <2>1
    <3>2. q[i + 1] = e /\ q[i] = p[Len(p)]
      BY <1>4, <1>5, <2>1
    <3> QED
      BY <1>1, <1>2, <3>1, <3>2 DEF AtEnd, p
  <2>2. CASE i # Len(p)
    <3>1. i \in 1 .. Len(p) - 1 /\ i + 1 \in 1 .. Len(p)
      BY <1>4, <1>5, <2>2
    <3> QED
      BY <1>1, <1>4, <1>5, <3>1 DEF IsSimplePath
  <2> QED
    BY <2>1, <2>2
<1>9. \A i, j \in 1 .. Len(q) : edges[q[i]].to = edges[q[j]].to => i = j
  <2>1. \A i, j \in 1 .. Len(p) : edges[p[i]].to = edges[p[j]].to => i = j
    BY <1>1 DEF IsSimplePath
  <2>2. \A i \in 1 .. Len(q) : i \in 1 .. Len(p) \/ i = Len(p) + 1
    BY <1>4, <1>5
  <2> QED
    BY <1>3, <1>4, <2>1, <2>2
<1>10. IsSimplePath(q)
  BY <1>6, <1>7, <1>8, <1>9 DEF IsSimplePath
<1> QED
  BY <1>10 DEF p, q

LEMMA LongerPathIsNoStronger ==
  ASSUME input \in Inputs, NEW f, Reached(f), NEW e \in DOMAIN edges
  PROVE  /\ weakest(f.confidence, edges[e].confidence) \in Confidence
         /\ combineEvidenceKind(f.kind, edges[e].kind) \in Kind
         /\ NoStronger(weakest(f.confidence, edges[e].confidence),
                       combineEvidenceKind(f.kind, edges[e].kind), Append(f.path, e))
<1> DEFINE p == f.path
           q == Append(p, e)
           c == weakest(f.confidence, edges[e].confidence)
           k == combineEvidenceKind(f.kind, edges[e].kind)
<1>1. /\ p \in Seq(Edge) /\ f.confidence \in 0 .. 4 /\ f.kind \in Kind
      /\ NoStronger(f.confidence, f.kind, p)
  BY DEF Reached, Frame, Confidence
<1>2. edges[e].confidence \in 0 .. 4 /\ edges[e].kind \in Kind
  BY EdgeTyped
<1>3. \A x \in Kind : kindRank(x) \in 1 .. 4
  BY DEF Kind, kindRank
<1>4. c \in 0 .. 4 /\ c <= f.confidence /\ c <= edges[e].confidence
  BY <1>1, <1>2 DEF weakest
<1>5. k \in Kind /\ kindRank(k) >= kindRank(f.kind) /\ kindRank(k) >= kindRank(edges[e].kind)
  BY <1>1, <1>2, <1>3 DEF combineEvidenceKind
<1>6. NoStronger(c, k, q)
  <2> SUFFICES ASSUME NEW i \in 1 .. Len(q)
               PROVE  c <= edges[q[i]].confidence /\ kindRank(k) >= kindRank(edges[q[i]].kind)
    BY DEF NoStronger
  <2>1. CASE i = Len(p) + 1
    BY <1>1, <1>4, <1>5, <2>1
  <2>2. CASE i \in 1 .. Len(p)
    <3>1. q[i] = p[i]
      BY <1>1, <2>2
    <3>2. PICK d : d = p[i]
      OBVIOUS
    <3>3. f.confidence <= edges[d].confidence /\ kindRank(f.kind) >= kindRank(edges[d].kind)
      BY <1>1, <2>2, <3>2 DEF NoStronger
    <3>4. edges[d].confidence \in 0 .. 4 /\ edges[d].kind \in Kind
      <4>1. d \in DOMAIN edges
        BY <2>2, <3>2 DEF Reached, IsSimplePath
      <4> QED
        BY <4>1, EdgeTyped
    <3>5. c <= edges[d].confidence
      BY <1>1, <1>4, <3>3, <3>4
    <3>6. kindRank(k) >= kindRank(edges[d].kind)
      BY <1>1, <1>3, <1>5, <3>3, <3>4
    <3> QED
      BY <3>1, <3>2, <3>5, <3>6
  <2> QED
    BY <1>1, <2>1, <2>2
<1> QED
  BY <1>4, <1>5, <1>6 DEF Confidence

\* The frame that an edge leads to, and the path retained for it.
LEMMA OneFurther ==
  ASSUME input \in Inputs, NEW f, FrameOK(f), NEW e \in f.todo,
         ~Visited(f, e), ~OverBudget(Spend(f, e))
  PROVE  Reached(Extend(f, e)) /\ PathOK(Retained(f, Extend(f, e)))
<1> DEFINE g == Extend(f, e)
           n == edges[e].to
<1>1. f \in Frame /\ f.path \in Seq(Edge) /\ Reached(f) /\ AtEnd(f) /\ Counted(f)
  BY DEF FrameOK, Reached, Frame
<1>2. e \in DOMAIN edges /\ e \in Edge /\ n \in Node /\ edges[e].class \in Class
  BY <1>1, EdgeTyped DEF AtEnd, Adjacent
<1>3. /\ g \in Frame /\ g.node = n /\ g.path = Append(f.path, e)
      /\ g.visited = f.visited \cup {n} /\ g.todo = Adjacent(n)
      /\ g.confidence = weakest(f.confidence, edges[e].confidence)
      /\ g.kind = combineEvidenceKind(f.kind, edges[e].kind)
      /\ g.reusableHops = Spend(f, e).reusableHops /\ g.compositeHops = Spend(f, e).compositeHops
      /\ g.generalDepth = Spend(f, e).generalDepth
  <2>1. Adjacent(n) \subseteq Edge
    BY InputTyped DEF Adjacent
  <2> QED
    BY <1>1, <1>2, <2>1, ExtendFields, LongerPathIsNoStronger
<1>4. IsSimplePath(g.path)
  BY <1>1, <1>3, LongerPathIsSimple
<1>5. g.confidence \in Confidence /\ g.kind \in Kind /\ NoStronger(g.confidence, g.kind, g.path)
  BY <1>1, <1>2, <1>3, LongerPathIsNoStronger
<1>6. Counted(g)
  <2>1. g.reusableHops = Spent(g.path, {"reusable"})
    BY <1>1, <1>2, <1>3, SpendFields, SpentMore DEF Counted
  <2>2. g.compositeHops = Spent(g.path, {"crossing"})
    BY <1>1, <1>2, <1>3, SpendFields, SpentMore DEF Counted
  <2>3. edges[e].class \in {"crossing", "within"} <=> edges[e].class \notin {"plain", "reusable"}
    BY <1>2 DEF Class
  <2>4. g.generalDepth = Spent(g.path, {"plain", "reusable"})
    BY <1>1, <1>2, <1>3, <2>3, SpendFields, SpentMore DEF Counted
  <2> QED
    BY <2>1, <2>2, <2>4 DEF Counted
<1>7. g.path \in Seq(Edge) /\ g.path # <<>> /\ Len(g.path) = Len(f.path) + 1 /\ Len(f.path) \in Nat
  BY <1>1, <1>2, <1>3
<1>8. AtEnd(g)
  <2>1. EndsOf(g.path) = EndsOf(f.path) \cup {n}
    <3>1. g.path[Len(f.path) + 1] = e /\ \A i \in 1 .. Len(f.path) : g.path[i] = f.path[i]
      BY <1>1, <1>2, <1>3
    <3>2. 1 .. Len(g.path) = 1 .. Len(f.path) \cup {Len(f.path) + 1}
      BY <1>7
    <3> QED
      BY <3>1, <3>2 DEF EndsOf
  <2>2. edges[g.path[Len(g.path)]].to = n
    BY <1>1, <1>2, <1>3, <1>7
  <2> QED
    BY <1>1, <1>3, <1>7, <2>1, <2>2 DEF AtEnd
<1>10. g.reusableHops <= MaxReusableWorkflowHops /\ g.compositeHops <= MaxCompositeActionForwardingHops
  <2>1. g.reusableHops \in Nat /\ g.compositeHops \in Nat
    BY <1>3 DEF Frame
  <2> QED
    BY <1>3, <2>1, LimitsAssumption DEF OverBudget
<1>11. Reached(g)
  BY <1>3, <1>4, <1>5, <1>6, <1>8, <1>10 DEF Reached
<1>12. PathOK(Retained(f, g))
  <2> DEFINE q == Retained(f, g)
  <2>1. q.edges = g.path /\ q.confidence = g.confidence /\ q.kind = g.kind
    BY DEF Retained
  <2>2. q \in EvidencePath
    BY <1>5, <1>7 DEF EvidencePath, Retained, Truncated
  <2>3. WithinBudgets(g.path)
    BY <1>6, <1>10 DEF WithinBudgets, Counted
  <2>4. WithinDepth(g.path)
    <3>1. SubSeq(g.path, 1, Len(g.path) - 1) = f.path
      BY <1>1, <1>2, <1>3, <1>7
    <3> QED
      BY <1>1, <3>1 DEF WithinDepth, FrameOK, Counted
  <2> QED
    BY <1>4, <1>5, <1>7, <2>1, <2>2, <2>3, <2>4 DEF PathOK
<1> QED
  BY <1>11, <1>12

LEMMA FewerToTry ==
  ASSUME NEW f, FrameOK(f), NEW e
  PROVE  FrameOK([f EXCEPT !.todo = @ \ {e}])
<1> DEFINE g == [f EXCEPT !.todo = @ \ {e}]
<1>1. f \in Frame
  BY DEF FrameOK, Reached
<1>2. /\ g \in Frame /\ g.node = f.node /\ g.path = f.path /\ g.visited = f.visited /\ g.todo \subseteq f.todo
      /\ g.confidence = f.confidence /\ g.kind = f.kind /\ g.reusableHops = f.reusableHops
      /\ g.compositeHops = f.compositeHops /\ g.generalDepth = f.generalDepth
  BY <1>1 DEF Frame
<1>3. Reached(f) /\ AtEnd(f) /\ Counted(f) /\ f.generalDepth < maxDepth
  BY DEF FrameOK, Reached
<1> HIDE DEF g
<1>4. AtEnd(g)
  BY <1>2, <1>3 DEF AtEnd
<1>5. Counted(g)
  BY <1>2, <1>3 DEF Counted
<1>6. Reached(g)
  BY <1>2, <1>3, <1>4, <1>5 DEF Reached
<1>7. FrameOK(g)
  BY <1>2, <1>3, <1>6 DEF FrameOK
<1> QED
  BY <1>7 DEF g
-----------------------------------------------------------------------------
(* The invariant.                                                          *)

LEMMA InitInvariant == Init => IInv
<1> SUFFICES ASSUME Init PROVE IInv
  OBVIOUS
<1> DEFINE f == [node |-> start, path |-> <<>>, visited |-> {start},
                 todo |-> Adjacent(start), confidence |-> 4, kind |-> "confirmed",
                 reusableHops |-> 0, compositeHops |-> 0, generalDepth |-> 0]
<1>1. input \in Inputs
  BY DEF Init
<1>2. FrameOK(f)
  <2>1. f \in Frame
    <3>1. start \in Node /\ Adjacent(start) \subseteq Edge
      BY <1>1, InputTyped DEF Adjacent
    <3> QED
      BY <3>1 DEF Frame, Confidence, Kind
  <2>2. IsSimplePath(f.path) /\ NoStronger(f.confidence, f.kind, f.path)
    BY DEF IsSimplePath, NoStronger
  <2>3. AtEnd(f)
    BY DEF AtEnd, EndsOf
  <2>4. Counted(f)
    BY SpentNothing DEF Counted
  <2> QED
    BY <1>1, <2>1, <2>2, <2>3, <2>4, LimitsAssumption, InputTyped DEF FrameOK, Reached
<1>3. stack = <<>> \/ stack = <<f>>
  BY DEF Init
<1>4. stack \in Seq(Frame) /\ \A i \in 1 .. Len(stack) : FrameOK(stack[i])
  <2>1. f \in Frame
    BY <1>2 DEF FrameOK, Reached
  <2> HIDE DEF f
  <2>2. <<f>> \in Seq(Frame) /\ Len(<<f>>) = 1 /\ <<f>>[1] = f
    BY <2>1
  <2>3. <<>> \in Seq(Frame) /\ Len(<<>>) = 0
    OBVIOUS
  <2>4. CASE stack = <<>>
    BY <2>3, <2>4
  <2>5. CASE stack = <<f>>
    BY <1>2, <2>2, <2>5
  <2> QED
    BY <1>3, <2>4, <2>5
<1> QED
  BY <1>1, <1>4, FS_EmptySet DEF Init, IInv

\* IsNext's edge is one that the innermost frame has still to try.
LEMMA TopFrame ==
  ASSUME IInv, stack # <<>>
  PROVE  FrameOK(Top) /\ Len(stack) \in 1 .. Len(stack) /\ Len(stack) - 1 \in Nat
BY DEF IInv, Top

LEMMA TriedKeeps ==
  ASSUME IInv, stack # <<>>, NEW e
  PROVE  Tried(e) \in Seq(Frame) /\ \A i \in 1 .. Len(Tried(e)) : FrameOK(Tried(e)[i])
<1> DEFINE s == Tried(e)
           g == [Top EXCEPT !.todo = @ \ {e}]
<1>1. FrameOK(g) /\ g \in Frame
  BY TopFrame, FewerToTry DEF FrameOK, Reached
<1>2. s = [stack EXCEPT ![Len(stack)] = g]
  BY TopFrame DEF Tried, Top, IInv
<1> HIDE DEF s, g
<1>3. stack \in Seq(Frame) /\ \A i \in 1 .. Len(stack) : FrameOK(stack[i])
  BY DEF IInv
<1>4. s \in Seq(Frame) /\ Len(s) = Len(stack)
  BY <1>1, <1>2, <1>3
<1>5. \A i \in 1 .. Len(s) : s[i] = IF i = Len(stack) THEN g ELSE stack[i]
  BY <1>2, <1>3, <1>4
<1>6. \A i \in 1 .. Len(s) : FrameOK(s[i])
  BY <1>1, <1>3, <1>4, <1>5
<1> QED
  BY <1>4, <1>6 DEF s

\* What a step that leaves the graph alone has to show.
LEMMA StepKeeps ==
  ASSUME IInv, input' = input, pc' \in {"walk", "done"},
         stack' \in Seq(Frame), \A i \in 1 .. Len(stack') : FrameOK(stack'[i]),
         IsFiniteSet(paths'), \A q \in paths' : PathOK(q),
         limitExceeded' \in BOOLEAN
  PROVE  IInv'
<1>1. edges' = edges /\ start' = start /\ maxDepth' = maxDepth
  BY DEF edges, start, maxDepth
<1>2. \A e : Walkable(e)' <=> Walkable(e)
  BY <1>1 DEF Walkable
<1>3. \A n : Adjacent(n)' = Adjacent(n)
  BY <1>1, <1>2 DEF Adjacent
<1>4. \A p, classes : Spent(p, classes)' = Spent(p, classes)
  BY <1>1 DEF Spent
<1>5. \A p : IsSimplePath(p)' <=> IsSimplePath(p)
  BY <1>1, <1>2 DEF IsSimplePath
<1>6. \A p : (WithinBudgets(p)' <=> WithinBudgets(p)) /\ (WithinDepth(p)' <=> WithinDepth(p))
  BY <1>1, <1>4 DEF WithinBudgets, WithinDepth
<1>7. \A c, k, p : NoStronger(c, k, p)' <=> NoStronger(c, k, p)
  BY <1>1 DEF NoStronger
<1>8. \A p : EndsOf(p)' = EndsOf(p)
  BY <1>1 DEF EndsOf
<1>9. \A f : FrameOK(f)' <=> FrameOK(f)
  BY <1>1, <1>3, <1>4, <1>5, <1>7, <1>8 DEF FrameOK, Reached, AtEnd, Counted
<1>10. \A q : PathOK(q)' <=> PathOK(q)
  BY <1>5, <1>6, <1>7 DEF PathOK
<1> QED
  BY <1>9, <1>10 DEF IInv

LEMMA StepInvariant == IInv /\ [Next]_vars => IInv'
<1> SUFFICES ASSUME IInv, [Next]_vars PROVE IInv'
  OBVIOUS
<1>0. /\ pc \in {"walk", "done"} /\ limitExceeded \in BOOLEAN
      /\ stack \in Seq(Frame) /\ \A i \in 1 .. Len(stack) : FrameOK(stack[i])
      /\ IsFiniteSet(paths) /\ \A q \in paths : PathOK(q)
  BY DEF IInv
<1>1. ASSUME NEW e \in Edge, Refuse(e) PROVE IInv'
  BY <1>0, <1>1, TriedKeeps, StepKeeps DEF Refuse
<1>2. ASSUME NEW e \in Edge, Retain(e) PROVE IInv'
  <2> DEFINE g == Extend(Top, e)
             r == Retained(Top, g)
  <2>1. FrameOK(Top) /\ e \in Top.todo /\ ~Visited(Top, e) /\ ~OverBudget(Spend(Top, e))
    BY <1>2, TopFrame DEF Retain, IsNext
  <2>2. Reached(g) /\ PathOK(r)
    BY <2>1, OneFurther DEF IInv
  <2>3. paths' = paths \cup {r} /\ input' = input /\ pc' = pc
    BY <1>2 DEF Retain
  <2>4. IsFiniteSet(paths') /\ Cardinality(paths') \in Nat
    BY <1>0, <2>3, FS_AddElement, FS_CardinalityType
  <2>5. limitExceeded' \in BOOLEAN
    BY <1>2 DEF Retain, ReachesLimit
  <2>6. Tried(e) \in Seq(Frame) /\ \A i \in 1 .. Len(Tried(e)) : FrameOK(Tried(e)[i])
    BY <1>2, TriedKeeps DEF Retain
  <2>7. stack' = <<>> \/ stack' = Tried(e) \/ (~AtDepth(g) /\ stack' = Append(Tried(e), g))
    BY <1>2 DEF Retain
  <2>8. stack' \in Seq(Frame) /\ \A i \in 1 .. Len(stack') : FrameOK(stack'[i])
    <3>1. CASE stack' = <<>>
      BY <3>1
    <3>2. CASE stack' = Tried(e)
      BY <2>6, <3>2
    <3>3. CASE ~AtDepth(g) /\ stack' = Append(Tried(e), g)
      <4>1. maxDepth \in Nat /\ g.generalDepth \in Nat /\ g \in Frame
        BY <2>2, InputTyped DEF IInv, Reached, Frame
      <4>2. FrameOK(g)
        BY <2>2, <3>3, <4>1 DEF AtDepth, FrameOK
      <4> HIDE DEF g
      <4>3. /\ stack' \in Seq(Frame) /\ Len(stack') = Len(Tried(e)) + 1 /\ Len(Tried(e)) \in Nat
            /\ \A i \in 1 .. Len(stack') : stack'[i] = IF i <= Len(Tried(e)) THEN Tried(e)[i] ELSE g
        BY <2>6, <3>3, <4>1
      <4> QED
        BY <2>6, <4>2, <4>3
    <3> QED
      BY <2>7, <3>1, <3>2, <3>3
  <2>9. \A q \in paths' : PathOK(q)
    BY <1>0, <2>2, <2>3
  <2> QED
    BY <1>0, <2>3, <2>4, <2>5, <2>8, <2>9, StepKeeps
<1>3. CASE Return
  <2>1. /\ stack' = SubSeq(stack, 1, Len(stack) - 1)
        /\ input' = input /\ pc' = pc /\ paths' = paths /\ limitExceeded' = limitExceeded
    BY <1>3 DEF Return
  <2>2. Len(stack) - 1 \in Nat
    BY <1>3, TopFrame DEF Return
  <2>3. stack' \in Seq(Frame) /\ \A i \in 1 .. Len(stack') : i \in 1 .. Len(stack) /\ stack'[i] = stack[i]
    BY <1>0, <2>1, <2>2
  <2> QED
    BY <1>0, <2>1, <2>3, StepKeeps
<1>4. CASE Finish
  BY <1>0, <1>4, StepKeeps DEF Finish
<1>5. CASE UNCHANGED vars
  BY <1>0, <1>5, StepKeeps DEF vars
<1> QED
  BY <1>1, <1>2, <1>3, <1>4, <1>5 DEF Next

LEMMA Invariant == Spec => []IInv
  BY InitInvariant, StepInvariant, PTL DEF Spec
-----------------------------------------------------------------------------
(* The theorems.                                                           *)

(***************************************************************************)
(* Every part of the walk has its type, for all graphs and limits.         *)
(***************************************************************************)
THEOREM TypeCorrect == Spec => []TypeOK
<1>1. IInv => TypeOK
  BY DEF IInv, TypeOK, PathOK
<1> QED
  BY <1>1, Invariant, PTL

(***************************************************************************)
(* However cyclic the graph, no retained path meets a node twice, and its  *)
(* edges lead from the credential one to the next.                         *)
(***************************************************************************)
THEOREM SimplePathsOnly == Spec => []PathsAreSimple
<1>1. IInv => PathsAreSimple
  BY DEF IInv, PathsAreSimple, PathOK
<1> QED
  BY <1>1, Invariant, PTL

(***************************************************************************)
(* Counted from its edges, a retained path exceeds none of the three       *)
(* budgets: what the recursion passes along is what the path has spent.    *)
(***************************************************************************)
THEOREM BudgetsHold == Spec => []PathsAreWithinBudgets
<1>1. IInv => PathsAreWithinBudgets
  BY DEF IInv, PathsAreWithinBudgets, PathOK
<1> QED
  BY <1>1, Invariant, PTL

(***************************************************************************)
(* A retained path claims no more certainty than any of its edges has.     *)
(***************************************************************************)
THEOREM ClaimsAreModest == Spec => []PathsAreNoStrongerThanEdges
<1>1. IInv => PathsAreNoStrongerThanEdges
  BY DEF IInv, PathsAreNoStrongerThanEdges, PathOK, NoStronger
<1> QED
  BY <1>1, Invariant, PTL
-----------------------------------------------------------------------------
(***************************************************************************)
(* What a traversal leaves out.  The invariant says of every simple path   *)
(* within the hop budgets that it is retained, behind a retained path that *)
(* is marked, or still to come: a frame on the stack is a proper prefix of *)
(* it whose next edge that frame has not tried.  And the walk goes in the  *)
(* order Before: whatever it retains comes before all that is to come.     *)
(***************************************************************************)
Deep == {"plain", "reusable"}

Wanted == {p \in Seq(DOMAIN edges) : p # <<>> /\ IsSimplePath(p) /\ WithinBudgets(p)}

Routes(P) == {q.edges : q \in P}

Marked(p, P) == \E q \in P : q.truncated /\ IsProperPrefix(q.edges, p)

Awaited(p, f) ==
  Len(f.path) < Len(p) /\ SubSeq(p, 1, Len(f.path)) = f.path /\ p[Len(f.path) + 1] \in f.todo

Pending(p, s) == \E k \in 1 .. Len(s) : Awaited(p, s[k])

Complete(s, P) == \A p \in Wanted : p \in Routes(P) \/ Marked(p, P) \/ Pending(p, s)

Ordered(s, P) ==
  \A q \in P : \A k \in 1 .. Len(s) : \A d \in s[k].todo : Before(q.edges, Append(s[k].path, d))

\* Each frame is one edge further than the one below, and that edge is tried.
Chained(s) ==
  \A k \in 1 .. Len(s) :
    /\ Len(s[k].path) = k - 1
    /\ \A j \in 1 .. k - 1 :
         s[j].path = SubSeq(s[k].path, 1, j - 1) /\ \A d \in s[j].todo : s[k].path[j] < d

LeftOut(P) ==
  \A p \in Wanted : p \in Routes(P) \/ Marked(p, P) \/ \A q \in P : Before(q.edges, p)

MarkedAtDepth(P) == \A q \in P : q.truncated => Spent(q.edges, Deep) >= maxDepth

CountOK ==
  /\ IsFiniteSet(Routes(paths)) /\ Cardinality(Routes(paths)) = Cardinality(paths)
  /\ limitExceeded => Cardinality(paths) = maxPaths /\ stack = <<>>
  /\ ~limitExceeded => Cardinality(paths) < maxPaths
  /\ pc = "done" => stack = <<>>

CInv ==
  /\ IInv /\ CountOK
  /\ Chained(stack) /\ Ordered(stack, paths) /\ LeftOut(paths) /\ MarkedAtDepth(paths)
  /\ ~limitExceeded => Complete(stack, paths)
-----------------------------------------------------------------------------
(* Prefixes and their order.                                               *)

LEMMA Prefix ==
  ASSUME NEW S, NEW p \in Seq(S), NEW n \in 0 .. Len(p)
  PROVE  /\ SubSeq(p, 1, n) \in Seq(S) /\ Len(SubSeq(p, 1, n)) = n
         /\ \A i \in 1 .. n : SubSeq(p, 1, n)[i] = p[i]
OBVIOUS

\* Sequences of one length with the same elements are the same.
LEMMA SameSeq ==
  ASSUME NEW S, NEW p \in Seq(S), NEW q \in Seq(S), Len(p) = Len(q), \A i \in 1 .. Len(p) : p[i] = q[i]
  PROVE  p = q
OBVIOUS

LEMMA PrefixOfPrefix ==
  ASSUME NEW S, NEW p \in Seq(S), NEW n \in 0 .. Len(p), NEW m \in 0 .. n
  PROVE  SubSeq(SubSeq(p, 1, n), 1, m) = SubSeq(p, 1, m)
<1> DEFINE q == SubSeq(p, 1, n)
<1>1. q \in Seq(S) /\ Len(q) = n /\ \A i \in 1 .. n : q[i] = p[i]
  BY Prefix
<1>2. n \in Nat /\ m \in Nat /\ m <= n /\ m \in 0 .. Len(p) /\ m \in 0 .. Len(q)
  BY <1>1
<1> HIDE DEF q
<1>3. /\ SubSeq(q, 1, m) \in Seq(S) /\ Len(SubSeq(q, 1, m)) = m
      /\ \A i \in 1 .. m : SubSeq(q, 1, m)[i] = q[i]
  BY <1>1, <1>2, Prefix
<1>4. /\ SubSeq(p, 1, m) \in Seq(S) /\ Len(SubSeq(p, 1, m)) = m
      /\ \A i \in 1 .. m : SubSeq(p, 1, m)[i] = p[i]
  BY <1>2, Prefix
<1>5. \A i \in 1 .. m : SubSeq(q, 1, m)[i] = SubSeq(p, 1, m)[i]
  BY <1>1, <1>2, <1>3, <1>4
<1>6. SubSeq(q, 1, m) = SubSeq(p, 1, m)
  BY <1>3, <1>4, <1>5, SameSeq
<1> QED
  BY <1>6 DEF q

LEMMA PrefixOfAppend ==
  ASSUME NEW S, NEW p \in Seq(S), NEW e \in S, NEW n \in 0 .. Len(p)
  PROVE  SubSeq(Append(p, e), 1, n) = SubSeq(p, 1, n)
<1> DEFINE q == Append(p, e)
<1>1. q \in Seq(S) /\ Len(q) = Len(p) + 1 /\ \A i \in 1 .. Len(p) : q[i] = p[i]
  OBVIOUS
<1>2. n \in 0 .. Len(q) /\ Len(p) \in Nat
  BY <1>1
<1> HIDE DEF q
<1>3. \A i \in 1 .. n : SubSeq(q, 1, n)[i] = SubSeq(p, 1, n)[i]
  BY <1>1, <1>2, Prefix
<1>4. SubSeq(q, 1, n) = SubSeq(p, 1, n)
  BY <1>1, <1>2, <1>3, Prefix, SameSeq
<1> QED
  BY <1>4 DEF q

\* A path and the path one edge further.
LEMMA PrefixAndNext ==
  ASSUME NEW S, NEW p \in Seq(S), NEW n \in 0 .. Len(p) - 1
  PROVE  Append(SubSeq(p, 1, n), p[n + 1]) = SubSeq(p, 1, n + 1)
<1> DEFINE q == SubSeq(p, 1, n)
<1>1. n \in 0 .. Len(p) /\ n + 1 \in 0 .. Len(p) /\ n + 1 \in 1 .. Len(p) /\ n \in Nat
  OBVIOUS
<1>2. q \in Seq(S) /\ Len(q) = n /\ \A i \in 1 .. n : q[i] = p[i]
  BY <1>1, Prefix
<1>3. /\ SubSeq(p, 1, n + 1) \in Seq(S) /\ Len(SubSeq(p, 1, n + 1)) = n + 1
      /\ \A i \in 1 .. n + 1 : SubSeq(p, 1, n + 1)[i] = p[i]
  BY <1>1, Prefix
<1>4. p[n + 1] \in S
  BY <1>1
<1> HIDE DEF q
<1>5. /\ Append(q, p[n + 1]) \in Seq(S) /\ Len(Append(q, p[n + 1])) = n + 1
      /\ \A i \in 1 .. n + 1 : Append(q, p[n + 1])[i] = IF i <= n THEN q[i] ELSE p[n + 1]
  BY <1>1, <1>2, <1>4
<1>6. \A i \in 1 .. n + 1 : Append(q, p[n + 1])[i] = p[i]
  BY <1>1, <1>2, <1>5
<1>7. Append(q, p[n + 1]) = SubSeq(p, 1, n + 1)
  BY <1>3, <1>5, <1>6, SameSeq
<1> QED
  BY <1>7 DEF q

\* What comes before a path comes before everything that continues that path.
LEMMA BeforeFurther ==
  ASSUME NEW S, NEW r \in Seq(S), NEW p \in Seq(S), NEW n \in 0 .. Len(p), Before(r, SubSeq(p, 1, n))
  PROVE  Before(r, p)
<1> DEFINE x == SubSeq(p, 1, n)
<1>1. x \in Seq(S) /\ Len(x) = n /\ n \in Nat /\ n <= Len(p) /\ \A i \in 1 .. n : x[i] = p[i]
  BY Prefix
<1>2. \A m \in 0 .. n : SubSeq(x, 1, m) = SubSeq(p, 1, m)
  BY PrefixOfPrefix
<1> HIDE DEF x
<1>3. CASE IsProperPrefix(r, x)
  <2>1. Len(r) \in 0 .. n /\ Len(r) < Len(p)
    BY <1>1, <1>3 DEF IsProperPrefix
  <2> QED
    BY <1>2, <1>3, <2>1 DEF IsProperPrefix, Before
<1>4. ASSUME NEW i \in DOMAIN r \cap DOMAIN x, SubSeq(r, 1, i - 1) = SubSeq(x, 1, i - 1), r[i] < x[i]
      PROVE  Before(r, p)
  <2>1. i \in 1 .. n /\ i - 1 \in 0 .. n /\ i \in DOMAIN p /\ x[i] = p[i]
    BY <1>1, <1>4
  <2>2. SubSeq(r, 1, i - 1) = SubSeq(p, 1, i - 1) /\ r[i] < p[i]
    BY <1>2, <1>4, <2>1
  <2> QED
    BY <1>4, <2>1, <2>2 DEF Before
<1> QED
  BY <1>3, <1>4 DEF Before, x

\* The order is strict.
LEMMA BeforeIsStrict ==
  ASSUME NEW p \in Seq(Nat), NEW q \in Seq(Nat), Before(p, q), Before(q, p)
  PROVE  FALSE
<1>0. \A i \in DOMAIN p : i \in 1 .. Len(p) /\ p[i] \in Nat
  OBVIOUS
<1>1. \A i \in DOMAIN q : i \in 1 .. Len(q) /\ q[i] \in Nat
  OBVIOUS
<1>2. ASSUME NEW x \in Seq(Nat), NEW y \in Seq(Nat), IsProperPrefix(x, y),
             NEW i \in DOMAIN x \cap DOMAIN y
      PROVE  x[i] = y[i]
  <2>1. Len(x) \in 0 .. Len(y) /\ i \in 1 .. Len(x)
    BY <1>2 DEF IsProperPrefix
  <2> QED
    BY <1>2, <2>1, Prefix DEF IsProperPrefix
<1>3. ASSUME NEW x \in Seq(Nat), NEW y \in Seq(Nat), NEW i \in DOMAIN x \cap DOMAIN y,
             SubSeq(x, 1, i - 1) = SubSeq(y, 1, i - 1), NEW j \in 1 .. i - 1
      PROVE  x[j] = y[j]
  <2>1. i - 1 \in 0 .. Len(x) /\ i - 1 \in 0 .. Len(y)
    <3>1. i \in 1 .. Len(x) /\ i \in 1 .. Len(y)
      BY <1>3
    <3> QED
      BY <3>1
  <2>2. SubSeq(x, 1, i - 1)[j] = x[j]
    BY <2>1, Prefix
  <2>3. SubSeq(y, 1, i - 1)[j] = y[j]
    BY <2>1, Prefix
  <2> QED
    BY <1>3, <2>2, <2>3
<1>4. CASE IsProperPrefix(p, q) /\ IsProperPrefix(q, p)
  BY <1>4 DEF IsProperPrefix
<1>5. ASSUME NEW i \in DOMAIN p \cap DOMAIN q, SubSeq(p, 1, i - 1) = SubSeq(q, 1, i - 1), p[i] < q[i]
      PROVE  FALSE
  <2>1. ~IsProperPrefix(q, p)
    BY <1>0, <1>1, <1>2, <1>5
  <2>2. PICK j \in DOMAIN q \cap DOMAIN p : SubSeq(q, 1, j - 1) = SubSeq(p, 1, j - 1) /\ q[j] < p[j]
    BY <2>1 DEF Before
  <2>3. i \in Nat /\ j \in Nat /\ i > 0 /\ j > 0
    BY <1>0
  <2>4. CASE i < j
    BY <1>0, <1>1, <1>3, <1>5, <2>2, <2>3, <2>4
  <2>5. CASE j < i
    BY <1>0, <1>1, <1>3, <1>5, <2>2, <2>3, <2>5
  <2>6. CASE i = j
    BY <1>0, <1>1, <1>5, <2>2, <2>6
  <2> QED
    BY <2>3, <2>4, <2>5, <2>6
<1>6. CASE IsProperPrefix(p, q) /\ ~IsProperPrefix(q, p)
  <2>1. PICK j \in DOMAIN q \cap DOMAIN p : SubSeq(q, 1, j - 1) = SubSeq(p, 1, j - 1) /\ q[j] < p[j]
    BY <1>6 DEF Before
  <2> QED
    BY <1>0, <1>1, <1>2, <1>6, <2>1
<1> QED
  BY <1>4, <1>5, <1>6 DEF Before
-----------------------------------------------------------------------------
(* Prefixes of simple paths.                                               *)

LEMMA SeqOfMore == ASSUME NEW S, NEW T, S \subseteq T PROVE Seq(S) \subseteq Seq(T)
  OBVIOUS

LEMMA PathsTyped ==
  ASSUME input \in Inputs, NEW p \in Seq(DOMAIN edges)
  PROVE  p \in Seq(Edge) /\ p \in Seq(Nat)
<1>1. DOMAIN edges \subseteq Edge /\ Edge \subseteq Nat
  BY InputTyped, EdgeAssumption
<1> QED
  BY <1>1, SeqOfMore

\* A prefix has spent no more than the path.
LEMMA SpentLess ==
  ASSUME NEW p \in Seq(Edge), NEW n \in 0 .. Len(p), NEW classes
  PROVE  Spent(SubSeq(p, 1, n), classes) <= Spent(p, classes)
<1> DEFINE q == SubSeq(p, 1, n)
           S == {i \in 1 .. Len(q) : edges[q[i]].class \in classes}
           T == {i \in 1 .. Len(p) : edges[p[i]].class \in classes}
<1>1. q \in Seq(Edge) /\ Len(q) = n /\ \A i \in 1 .. n : q[i] = p[i]
  BY Prefix
<1>2. n \in Nat /\ n <= Len(p)
  OBVIOUS
<1>3. IsFiniteSet(T)
  BY SpentIsNat
<1>4. S \subseteq T
  <2> HIDE DEF q
  <2> QED BY <1>1, <1>2
<1>5. Cardinality(S) <= Cardinality(T)
  BY <1>3, <1>4, FS_Subset
<1> QED
  BY <1>5 DEF Spent

LEMMA PrefixIsSimple ==
  ASSUME input \in Inputs, NEW p \in Seq(DOMAIN edges), IsSimplePath(p), NEW n \in 0 .. Len(p)
  PROVE  SubSeq(p, 1, n) \in Seq(DOMAIN edges) /\ IsSimplePath(SubSeq(p, 1, n))
<1> DEFINE q == SubSeq(p, 1, n)
<1>1. q \in Seq(DOMAIN edges) /\ Len(q) = n /\ \A i \in 1 .. n : q[i] = p[i]
  BY Prefix
<1>2. n \in Nat /\ n <= Len(p) /\ Len(p) \in Nat
  OBVIOUS
<1> HIDE DEF q
<1>3. \A i \in 1 .. Len(q) : q[i] \in DOMAIN edges /\ Walkable(q[i]) /\ edges[q[i]].to # start
  BY <1>1, <1>2 DEF IsSimplePath
<1>4. Len(q) > 0 => edges[q[1]].from = start
  BY <1>1, <1>2 DEF IsSimplePath
<1>5. \A i \in 1 .. Len(q) - 1 : edges[q[i + 1]].from = edges[q[i]].to
  <2> TAKE i \in 1 .. Len(q) - 1
  <2>1. i \in 1 .. n /\ i + 1 \in 1 .. n /\ i \in 1 .. Len(p) - 1
    BY <1>1, <1>2
  <2> QED
    BY <1>1, <2>1 DEF IsSimplePath
<1>6. \A i, j \in 1 .. Len(q) : edges[q[i]].to = edges[q[j]].to => i = j
  BY <1>1, <1>2 DEF IsSimplePath
<1>7. IsSimplePath(q)
  BY <1>3, <1>4, <1>5, <1>6 DEF IsSimplePath
<1> QED
  BY <1>1, <1>7 DEF q

LEMMA PrefixIsWanted ==
  ASSUME input \in Inputs, NEW p \in Wanted, NEW n \in 1 .. Len(p)
  PROVE  SubSeq(p, 1, n) \in Wanted
<1>1. p \in Seq(DOMAIN edges) /\ p \in Seq(Edge) /\ IsSimplePath(p) /\ WithinBudgets(p) /\ n \in 0 .. Len(p)
  BY PathsTyped DEF Wanted
<1> DEFINE q == SubSeq(p, 1, n)
<1>2. q \in Seq(DOMAIN edges) /\ IsSimplePath(q) /\ q \in Seq(Edge)
  BY <1>1, PrefixIsSimple, PathsTyped
<1>3. q # <<>>
  BY <1>1, Prefix
<1>4. WithinBudgets(q)
  <2>1. Spent(q, {"reusable"}) <= Spent(p, {"reusable"}) /\ Spent(q, {"crossing"}) <= Spent(p, {"crossing"})
    BY <1>1, SpentLess
  <2>2. /\ Spent(q, {"reusable"}) \in Nat /\ Spent(p, {"reusable"}) \in Nat
        /\ Spent(q, {"crossing"}) \in Nat /\ Spent(p, {"crossing"}) \in Nat
    BY <1>1, <1>2, SpentIsNat
  <2> QED
    BY <1>1, <2>1, <2>2, LimitsAssumption DEF WithinBudgets
<1> QED
  BY <1>2, <1>3, <1>4 DEF Wanted

\* An edge by which a wanted path continues is not refused.
LEMMA WantedIsTaken ==
  ASSUME input \in Inputs, NEW f, FrameOK(f), NEW e \in f.todo, Append(f.path, e) \in Wanted
  PROVE  ~Visited(f, e) /\ ~OverBudget(Spend(f, e))
<1> DEFINE p == f.path
           q == Append(p, e)
<1>1. f \in Frame /\ p \in Seq(Edge) /\ AtEnd(f) /\ Counted(f)
  BY DEF FrameOK, Reached, Frame
<1>2. e \in Edge
  BY <1>1, EdgeTyped DEF AtEnd, Adjacent
<1>3. q \in Seq(Edge) /\ Len(q) = Len(p) + 1 /\ q[Len(p) + 1] = e /\ (\A i \in 1 .. Len(p) : q[i] = p[i]) /\ Len(p) \in Nat
  BY <1>1, <1>2
<1>4. IsSimplePath(q) /\ WithinBudgets(q)
  BY DEF Wanted
<1>5. ~Visited(f, e)
  <2> HIDE DEF p, q
  <2>1. Len(p) + 1 \in 1 .. Len(q) /\ \A i \in 1 .. Len(p) : i \in 1 .. Len(q) /\ i # Len(p) + 1
    BY <1>3
  <2>2. edges[e].to # start /\ \A i \in 1 .. Len(p) : edges[p[i]].to # edges[e].to
    <3>1. edges[q[Len(p) + 1]].to # start
      BY <1>4, <2>1 DEF IsSimplePath
    <3>2. \A i \in 1 .. Len(p) : edges[q[i]].to # edges[q[Len(p) + 1]].to
      BY <1>4, <2>1 DEF IsSimplePath
    <3> QED
      BY <1>3, <3>1, <3>2
  <2> QED
    BY <1>1, <2>2 DEF AtEnd, EndsOf, Visited, p
<1>6. ~OverBudget(Spend(f, e))
  <2>1. /\ Spend(f, e).reusableHops = Spent(q, {"reusable"})
        /\ Spend(f, e).compositeHops = Spent(q, {"crossing"})
    BY <1>1, <1>2, SpendFields, SpentMore DEF Counted
  <2>2. Spent(q, {"reusable"}) \in Nat /\ Spent(q, {"crossing"}) \in Nat
    <3> HIDE DEF q
    <3> QED BY <1>3, SpentIsNat
  <2> QED
    BY <1>4, <2>1, <2>2, LimitsAssumption DEF OverBudget, WithinBudgets
<1> QED
  BY <1>5, <1>6
-----------------------------------------------------------------------------
(* The stack after an edge was tried, and after the walk went further.     *)

\* Trying an edge changes only what is still to try at the top.
LEMMA TriedStack ==
  ASSUME IInv, stack # <<>>, NEW e
  PROVE  /\ Tried(e) \in Seq(Frame) /\ Len(Tried(e)) = Len(stack)
         /\ \A i \in 1 .. Len(stack) :
              /\ Tried(e)[i].path = stack[i].path
              /\ Tried(e)[i].todo = IF i = Len(stack) THEN stack[i].todo \ {e} ELSE stack[i].todo
<1> DEFINE g == [Top EXCEPT !.todo = @ \ {e}]
<1>1. stack \in Seq(Frame) /\ Len(stack) \in 1 .. Len(stack) /\ Top \in Frame
  BY TopFrame DEF IInv, FrameOK, Reached
<1>2. g \in Frame /\ g.path = Top.path /\ g.todo = Top.todo \ {e}
  BY <1>1 DEF Frame
<1>3. Tried(e) = [stack EXCEPT ![Len(stack)] = g]
  BY <1>1 DEF Tried, Top
<1> HIDE DEF g
<1>4. /\ Tried(e) \in Seq(Frame) /\ Len(Tried(e)) = Len(stack)
      /\ \A i \in 1 .. Len(stack) : Tried(e)[i] = IF i = Len(stack) THEN g ELSE stack[i]
  BY <1>1, <1>2, <1>3
<1> QED
  BY <1>2, <1>4 DEF Top

LEMMA TriedKeepsOrder ==
  ASSUME IInv, stack # <<>>, NEW e, NEW P, Chained(stack), Ordered(stack, P)
  PROVE  Chained(Tried(e)) /\ Ordered(Tried(e), P)
<1> DEFINE T == Tried(e)
<1>1. /\ Len(T) = Len(stack) /\ Len(stack) \in Nat
      /\ \A i \in 1 .. Len(stack) : T[i].path = stack[i].path /\ T[i].todo \subseteq stack[i].todo
  <2>1. Len(stack) \in Nat
    BY DEF IInv
  <2>2. \A i \in 1 .. Len(stack) :
          /\ T[i].path = stack[i].path
          /\ T[i].todo = IF i = Len(stack) THEN stack[i].todo \ {e} ELSE stack[i].todo
    BY TriedStack
  <2>3. Len(T) = Len(stack)
    BY TriedStack
  <2> HIDE DEF T
  <2> QED
    BY <2>1, <2>2, <2>3
<1> HIDE DEF T
<1>2. Chained(T)
  <2> SUFFICES ASSUME NEW k \in 1 .. Len(T)
               PROVE  /\ Len(T[k].path) = k - 1
                      /\ \A j \in 1 .. k - 1 :
                           T[j].path = SubSeq(T[k].path, 1, j - 1) /\ \A d \in T[j].todo : T[k].path[j] < d
    BY DEF Chained
  <2>1. /\ Len(stack[k].path) = k - 1
        /\ \A j \in 1 .. k - 1 :
             stack[j].path = SubSeq(stack[k].path, 1, j - 1) /\ \A d \in stack[j].todo : stack[k].path[j] < d
    BY <1>1 DEF Chained
  <2>2. \A j \in 1 .. k - 1 : j \in 1 .. Len(stack)
    BY <1>1
  <2> QED
    BY <1>1, <2>1, <2>2
<1>3. Ordered(T, P)
  <2> SUFFICES ASSUME NEW q \in P, NEW k \in 1 .. Len(T), NEW d \in T[k].todo
               PROVE  Before(q.edges, Append(T[k].path, d))
    BY DEF Ordered
  <2>1. k \in 1 .. Len(stack) /\ T[k].path = stack[k].path /\ d \in stack[k].todo
    BY <1>1
  <2> QED
    BY <2>1 DEF Ordered
<1> QED
  BY <1>2, <1>3 DEF T

\* A path that awaits no longer was awaiting this edge.
LEMMA PendingOrTried ==
  ASSUME IInv, stack # <<>>, NEW e, NEW p, Pending(p, stack), ~Pending(p, Tried(e))
  PROVE  /\ Len(Top.path) < Len(p) /\ SubSeq(p, 1, Len(Top.path)) = Top.path
         /\ p[Len(Top.path) + 1] = e
<1>1. PICK k \in 1 .. Len(stack) : Awaited(p, stack[k])
  BY DEF Pending
<1>2. ~Awaited(p, Tried(e)[k])
  BY TriedStack DEF Pending
<1>3. /\ Tried(e)[k].path = stack[k].path
      /\ Tried(e)[k].todo = IF k = Len(stack) THEN stack[k].todo \ {e} ELSE stack[k].todo
  BY TriedStack
<1>4. k = Len(stack) /\ p[Len(stack[k].path) + 1] = e
  BY <1>1, <1>2, <1>3 DEF Awaited
<1> QED
  BY <1>1, <1>4 DEF Awaited, Top

\* Whatever is to come at a frame is unlike what was retained.
LEMMA OrderedIsFresh ==
  ASSUME IInv, NEW p \in Seq(Nat), \A q \in paths : Before(q.edges, p)
  PROVE  p \notin Routes(paths)
<1> SUFFICES ASSUME NEW q \in paths, p = q.edges PROVE FALSE
  BY DEF Routes
<1>1. Before(p, p)
  OBVIOUS
<1> QED
  BY <1>1, BeforeIsStrict

\* In order and complete, a walk has left out only what comes later.
LEMMA OrderedLeavesOut ==
  ASSUME input \in Inputs, NEW P, \A q \in P : PathOK(q), NEW s, s \in Seq(Frame),
         Complete(s, P), Ordered(s, P)
  PROVE  LeftOut(P)
<1> SUFFICES ASSUME NEW p \in Wanted, p \notin Routes(P), ~Marked(p, P), NEW q \in P
             PROVE  Before(q.edges, p)
  BY DEF LeftOut
<1>1. p \in Seq(Edge) /\ p \in Seq(DOMAIN edges)
  BY PathsTyped DEF Wanted
<1>2. PICK k \in 1 .. Len(s) : Awaited(p, s[k])
  BY DEF Complete, Pending
<1> DEFINE n == Len(s[k].path)
<1>3. s[k] \in Frame /\ s[k].path \in Seq(Edge) /\ n \in Nat
  <2>1. s[k] \in Frame
    OBVIOUS
  <2> QED
    BY <2>1 DEF Frame
<1>4. n \in 0 .. Len(p) - 1 /\ n + 1 \in 0 .. Len(p) /\ SubSeq(p, 1, n) = s[k].path /\ p[n + 1] \in s[k].todo
  BY <1>1, <1>2, <1>3 DEF Awaited
<1>5. Append(s[k].path, p[n + 1]) = SubSeq(p, 1, n + 1)
  BY <1>1, <1>4, PrefixAndNext
<1>6. Before(q.edges, SubSeq(p, 1, n + 1))
  BY <1>4, <1>5 DEF Ordered
<1>7. q.edges \in Seq(Edge)
  BY DEF PathOK, EvidencePath
<1> QED
  BY <1>1, <1>4, <1>6, <1>7, BeforeFurther
-----------------------------------------------------------------------------
(* Retaining a path.                                                       *)

\* When the walk extends a path by edge e, and what it then has.
Extends(e) ==
  CInv /\ stack # <<>> /\ IsNext(e) /\ ~Visited(Top, e) /\ ~OverBudget(Spend(Top, e))

Longer(e) == Extend(Top, e)

NewPaths(e) == paths \cup {Retained(Top, Longer(e))}

Deeper(e) == IF AtDepth(Longer(e)) THEN Tried(e) ELSE Append(Tried(e), Longer(e))

LEMMA LongerFields ==
  ASSUME NEW e, Extends(e)
  PROVE  /\ FrameOK(Top) /\ e \in Top.todo /\ e \in DOMAIN edges /\ e \in Edge
         /\ \A d \in Top.todo : d \in Nat /\ (d # e => e < d)
         /\ Reached(Longer(e)) /\ Longer(e) \in Frame
         /\ PathOK(Retained(Top, Longer(e)))
         /\ Longer(e).node = edges[e].to /\ Longer(e).todo = Adjacent(edges[e].to)
         /\ Longer(e).path = Append(Top.path, e)
         /\ Top.path \in Seq(Edge) /\ Len(Top.path) = Len(stack) - 1
         /\ Longer(e).path \in Seq(Edge) /\ Len(Longer(e).path) = Len(stack)
         /\ Len(stack) \in Nat \ {0}
<1>1. IInv /\ FrameOK(Top) /\ e \in Top.todo /\ Len(stack) \in 1 .. Len(stack) /\ Len(stack) - 1 \in Nat
  BY TopFrame DEF Extends, IsNext, CInv
<1>2. /\ Top \in Frame /\ Top.path \in Seq(Edge) /\ Reached(Top) /\ AtEnd(Top)
  BY <1>1 DEF FrameOK, Reached, Frame
<1>3. input \in Inputs
  BY <1>1 DEF IInv
<1>4. Top.todo \subseteq DOMAIN edges /\ DOMAIN edges \subseteq Edge /\ Edge \subseteq Nat
  BY <1>2, <1>3, InputTyped, EdgeAssumption DEF AtEnd, Adjacent
<1>5. \A d \in Top.todo : d \in Nat /\ e <= d
  BY <1>4 DEF Extends, IsNext
<1>6. Reached(Longer(e)) /\ PathOK(Retained(Top, Longer(e)))
  BY <1>1, <1>3, OneFurther DEF Extends, Longer
<1>7. /\ Longer(e).node = edges[e].to /\ Longer(e).todo = Adjacent(edges[e].to)
      /\ Longer(e).path = Append(Top.path, e)
  <2>1. edges[e].to \in Node /\ Adjacent(edges[e].to) \subseteq Edge
    BY <1>1, <1>3, <1>4, EdgeTyped, InputTyped DEF Adjacent
  <2>2. /\ weakest(Top.confidence, edges[e].confidence) \in Confidence
        /\ combineEvidenceKind(Top.kind, edges[e].kind) \in Kind
    BY <1>1, <1>2, <1>3, <1>4, LongerPathIsNoStronger
  <2> QED
    BY <1>1, <1>2, <1>4, <2>1, <2>2, ExtendFields DEF Longer
<1>8. Len(Top.path) = Len(stack) - 1
  BY <1>1 DEF Extends, CInv, Chained, Top
<1>9. e \in Edge /\ e \in DOMAIN edges /\ e \in Nat
  BY <1>1, <1>4
<1>10. Append(Top.path, e) \in Seq(Edge) /\ Len(Append(Top.path, e)) = Len(Top.path) + 1
  BY <1>2, <1>9
<1>11. \A d \in Top.todo : d # e => e < d
  BY <1>5, <1>9
<1>12. Longer(e) \in Frame
  BY <1>6 DEF Reached
<1> QED
  BY <1>1, <1>2, <1>5, <1>6, <1>7, <1>8, <1>9, <1>10, <1>11, <1>12

\* The new path is one edge further than every frame, by an edge that is tried.
LEMMA LongerIsChained ==
  ASSUME NEW e, Extends(e), NEW j \in 1 .. Len(stack)
  PROVE  /\ Tried(e)[j].path = SubSeq(Longer(e).path, 1, j - 1)
         /\ \A d \in Tried(e)[j].todo : Longer(e).path[j] < d
<1> DEFINE n == Len(stack)
           p == Top.path
           q == Longer(e).path
<1>1. IInv /\ stack # <<>> /\ Chained(stack)
  BY DEF Extends, CInv
<1>2. /\ p \in Seq(Edge) /\ Len(p) = n - 1 /\ q = Append(p, e) /\ e \in Edge /\ n \in Nat \ {0}
      /\ \A d \in Top.todo : d # e => e < d
  BY LongerFields
<1>3. /\ Tried(e)[j].path = stack[j].path
      /\ Tried(e)[j].todo = IF j = n THEN stack[j].todo \ {e} ELSE stack[j].todo
  BY <1>1, TriedStack
<1>4. q[n] = e /\ \A i \in 1 .. n - 1 : q[i] = p[i]
  BY <1>2
<1>5. \A m \in 0 .. n - 1 : SubSeq(q, 1, m) = SubSeq(p, 1, m)
  BY <1>2, PrefixOfAppend
<1>6. CASE j = n
  <2>1. stack[j] = Top
    BY <1>6 DEF Top
  <2>2. SubSeq(q, 1, n - 1) = p
    <3>1. SubSeq(p, 1, n - 1) = p
      BY <1>2
    <3>2. n - 1 \in 0 .. n - 1
      BY <1>2
    <3> QED
      BY <1>5, <3>1, <3>2
  <2>3. \A d \in Top.todo \ {e} : q[n] < d
    BY <1>2, <1>4
  <2> QED
    BY <1>3, <1>6, <2>1, <2>2, <2>3
<1>7. CASE j # n
  <2>1. j \in 1 .. n - 1 /\ j - 1 \in 0 .. n - 1 /\ n \in 1 .. n
    BY <1>2, <1>7
  <2>2. stack[j].path = SubSeq(p, 1, j - 1) /\ \A d \in stack[j].todo : p[j] < d
    BY <1>1, <2>1 DEF Chained, Top
  <2> QED
    BY <1>3, <1>4, <1>5, <1>7, <2>1, <2>2
<1> QED
  BY <1>6, <1>7

\* The frames after the step.
LEMMA DeeperStack ==
  ASSUME NEW e, Extends(e)
  PROVE  /\ Deeper(e) \in Seq(Frame)
         /\ \A k \in 1 .. Len(Deeper(e)) :
              \/ k \in 1 .. Len(stack) /\ Deeper(e)[k] = Tried(e)[k]
              \/ k = Len(stack) + 1 /\ Deeper(e)[k] = Longer(e) /\ ~AtDepth(Longer(e))
         /\ \A k \in 1 .. Len(stack) : k \in 1 .. Len(Deeper(e)) /\ Deeper(e)[k] = Tried(e)[k]
         /\ ~AtDepth(Longer(e)) => Len(stack) + 1 \in 1 .. Len(Deeper(e)) /\ Deeper(e)[Len(stack) + 1] = Longer(e)
<1> DEFINE T == Tried(e)
           g == Longer(e)
<1>1. T \in Seq(Frame) /\ Len(T) = Len(stack) /\ g \in Frame /\ Len(stack) \in Nat
  BY LongerFields, TriedStack DEF Extends, CInv
<1> HIDE DEF T, g
<1>2. CASE AtDepth(g)
  BY <1>1, <1>2 DEF Deeper, T, g
<1>3. CASE ~AtDepth(g)
  <2>1. Deeper(e) = Append(T, g)
    BY <1>3 DEF Deeper, T, g
  <2>2. /\ Append(T, g) \in Seq(Frame) /\ Len(Append(T, g)) = Len(stack) + 1
        /\ \A k \in 1 .. Len(stack) : Append(T, g)[k] = T[k]
        /\ Append(T, g)[Len(stack) + 1] = g
    BY <1>1
  <2> QED
    BY <1>1, <1>3, <2>1, <2>2 DEF T, g
<1> QED
  BY <1>2, <1>3

LEMMA RetainChained == ASSUME NEW e, Extends(e) PROVE Chained(Deeper(e))
<1> DEFINE S == Deeper(e)
           n == Len(stack)
<1>1. n \in Nat /\ Len(Longer(e).path) = n
  BY LongerFields
<1>2. Chained(Tried(e)) /\ Len(Tried(e)) = n
  BY TriedKeepsOrder, TriedStack DEF Extends, CInv
<1> SUFFICES ASSUME NEW k \in 1 .. Len(S)
             PROVE  /\ Len(S[k].path) = k - 1
                    /\ \A j \in 1 .. k - 1 :
                         S[j].path = SubSeq(S[k].path, 1, j - 1) /\ \A d \in S[j].todo : S[k].path[j] < d
  BY DEF Chained
<1>3. k \in Nat /\ \A j \in 1 .. n : S[j] = Tried(e)[j]
  BY DeeperStack
<1> HIDE DEF S
<1>4. CASE k \in 1 .. n
  <2>1. \A j \in 1 .. k - 1 : j \in 1 .. n
    BY <1>1, <1>3, <1>4
  <2> QED
    BY <1>2, <1>3, <1>4, <2>1 DEF Chained
<1>5. CASE k = n + 1 /\ S[k] = Longer(e)
  <2>1. Len(S[k].path) = k - 1 /\ k - 1 = n
    BY <1>1, <1>5
  <2>2. ASSUME NEW j \in 1 .. n
        PROVE  S[j].path = SubSeq(Longer(e).path, 1, j - 1) /\ \A d \in S[j].todo : Longer(e).path[j] < d
    BY <1>3, LongerIsChained
  <2> QED
    BY <1>5, <2>1, <2>2
<1> QED
  BY <1>4, <1>5, DeeperStack DEF S

LEMMA RetainOrdered ==
  ASSUME NEW e, Extends(e)
  PROVE  /\ Ordered(Deeper(e), NewPaths(e))
         /\ Longer(e).path \notin Routes(paths)
<1> DEFINE n == Len(stack)
           p == Longer(e).path
           r == Retained(Top, Longer(e))
<1>1. IInv /\ stack # <<>> /\ Ordered(stack, paths)
  BY DEF Extends, CInv
<1>2. /\ n \in Nat \ {0} /\ p \in Seq(Edge) /\ Len(p) = n /\ p = Append(Top.path, e)
      /\ e \in Top.todo /\ Longer(e).todo = Adjacent(edges[e].to)
  BY LongerFields
<1>3. r.edges = p /\ input \in Inputs /\ Edge \subseteq Nat
  BY <1>1, EdgeAssumption DEF Retained, IInv
<1>4. ASSUME NEW q \in paths PROVE Before(q.edges, p) /\ q.edges \in Seq(Edge)
  <2>1. n \in 1 .. n /\ e \in stack[n].todo
    BY <1>2 DEF Top
  <2>2. q.edges \in Seq(Edge)
    BY <1>1 DEF IInv, PathOK, EvidencePath
  <2> QED
    BY <1>1, <1>2, <2>1, <2>2 DEF Ordered, Top
<1>5. p \in Seq(Nat)
  BY <1>2, <1>3, SeqOfMore
<1>6. p \notin Routes(paths)
  BY <1>1, <1>4, <1>5, OrderedIsFresh
<1>7. Ordered(Tried(e), paths)
  BY TriedKeepsOrder DEF Extends, CInv
<1>8. Tried(e) \in Seq(Frame) /\ Len(Tried(e)) = n
  BY <1>1, TriedStack
<1> HIDE DEF p, r
<1>9. ASSUME NEW k \in 1 .. n, NEW d \in Tried(e)[k].todo PROVE Before(p, Append(Tried(e)[k].path, d))
  <2> DEFINE x == Tried(e)[k].path
             y == Append(x, d)
  <2>1. x = SubSeq(p, 1, k - 1) /\ p[k] < d
    BY <1>9, LongerIsChained DEF p
  <2>2. k \in 0 .. n /\ k - 1 \in 0 .. n /\ k \in 1 .. Len(p) /\ k \in Nat
    BY <1>2
  <2>3. x \in Seq(Edge) /\ Len(x) = k - 1
    BY <1>2, <2>1, <2>2, Prefix
  <2>4. d \in Edge
    <3>1. Tried(e)[k] \in Frame
      BY <1>8
    <3> QED
      BY <1>9, <3>1 DEF Frame
  <2> HIDE DEF x
  <2>5. y \in Seq(Edge) /\ Len(y) = k /\ y[k] = d
    BY <2>2, <2>3, <2>4
  <2>6. SubSeq(y, 1, k - 1) = x
    <3>1. k - 1 \in 0 .. Len(x)
      BY <2>2, <2>3
    <3>2. SubSeq(x, 1, k - 1) = x
      BY <2>2, <2>3
    <3> QED
      BY <2>3, <2>4, <3>1, <3>2, PrefixOfAppend
  <2>7. k \in DOMAIN p /\ k \in DOMAIN y
    BY <1>2, <2>2, <2>5
  <2> HIDE DEF y
  <2>8. Before(p, y)
    BY <2>1, <2>5, <2>6, <2>7 DEF Before
  <2> QED
    BY <2>8 DEF x, y
<1>10. ASSUME NEW d \in Adjacent(edges[e].to), NEW q \in NewPaths(e) PROVE Before(q.edges, Append(p, d))
  <2> DEFINE y == Append(p, d)
  <2>1. d \in Edge
    BY <1>3, InputTyped DEF Adjacent
  <2>2. y \in Seq(Edge) /\ Len(y) = n + 1 /\ n \in 0 .. Len(y) /\ n \in 0 .. Len(p) /\ SubSeq(p, 1, n) = p
    BY <1>2, <2>1
  <2>3. SubSeq(y, 1, n) = p
    BY <1>2, <2>1, <2>2, PrefixOfAppend
  <2> HIDE DEF y
  <2>4. CASE q \in paths
    <3>1. q.edges \in Seq(Edge) /\ Before(q.edges, SubSeq(y, 1, n))
      BY <1>4, <2>3, <2>4
    <3>2. Before(q.edges, y)
      BY <2>2, <3>1, BeforeFurther
    <3> QED
      BY <3>2 DEF y
  <2>5. CASE q = r
    <3>1. IsProperPrefix(p, y)
      BY <1>2, <2>2, <2>3 DEF IsProperPrefix
    <3> QED
      BY <1>3, <2>5, <3>1 DEF Before, y
  <2> QED
    BY <2>4, <2>5 DEF NewPaths, r
<1>11. Ordered(Deeper(e), NewPaths(e))
  <2> SUFFICES ASSUME NEW q \in NewPaths(e), NEW k \in 1 .. Len(Deeper(e)), NEW d \in Deeper(e)[k].todo
               PROVE  Before(q.edges, Append(Deeper(e)[k].path, d))
    BY DEF Ordered
  <2>1. CASE k \in 1 .. n /\ Deeper(e)[k] = Tried(e)[k]
    <3>1. q \in paths \/ q = r
      BY DEF NewPaths, r
    <3>2. CASE q \in paths
      BY <1>7, <1>8, <2>1, <3>2 DEF Ordered
    <3>3. CASE q = r
      BY <1>3, <1>9, <2>1, <3>3
    <3> QED
      BY <3>1, <3>2, <3>3
  <2>2. CASE Deeper(e)[k] = Longer(e)
    BY <1>2, <1>10, <2>2 DEF p
  <2> QED
    BY <2>1, <2>2, DeeperStack
<1> QED
  BY <1>6, <1>11 DEF p

LEMMA RetainMarked == ASSUME NEW e, Extends(e) PROVE MarkedAtDepth(NewPaths(e))
<1> DEFINE g == Longer(e)
           r == Retained(Top, g)
<1>1. \A q \in paths : q.truncated => Spent(q.edges, Deep) >= maxDepth
  BY DEF Extends, CInv, MarkedAtDepth
<1>2. r.truncated = Truncated(Top, g) /\ r.edges = g.path
  BY DEF Retained
<1>3. g.generalDepth = Spent(g.path, Deep)
  BY LongerFields DEF Reached, Counted, Deep
<1>4. r.truncated => Spent(r.edges, Deep) >= maxDepth
  BY <1>2, <1>3 DEF Truncated, AtDepth
<1> HIDE DEF r
<1> QED
  BY <1>1, <1>4 DEF MarkedAtDepth, NewPaths, r

LEMMA RetainComplete == ASSUME NEW e, Extends(e) PROVE Complete(Deeper(e), NewPaths(e))
<1> DEFINE n == Len(stack)
           g == Longer(e)
           r == Retained(Top, g)
<1> SUFFICES ASSUME NEW p \in Wanted
             PROVE  p \in Routes(NewPaths(e)) \/ Marked(p, NewPaths(e)) \/ Pending(p, Deeper(e))
  BY DEF Complete
<1>1. IInv /\ stack # <<>> /\ input \in Inputs
  BY DEF Extends, CInv, IInv
<1>2. /\ n \in Nat \ {0} /\ g.path = Append(Top.path, e) /\ Len(g.path) = n /\ Len(Top.path) = n - 1
      /\ Top.path \in Seq(Edge) /\ g.node = edges[e].to /\ g.todo = Adjacent(edges[e].to)
      /\ FrameOK(Top) /\ Reached(g) /\ e \in Edge
  BY LongerFields
<1>3. r.edges = g.path /\ r.truncated = Truncated(Top, g) /\ r \in NewPaths(e) /\ paths \subseteq NewPaths(e)
  BY DEF Retained, NewPaths
<1>4. p \in Seq(DOMAIN edges) /\ p \in Seq(Edge) /\ IsSimplePath(p)
  BY <1>1, PathsTyped DEF Wanted
<1>5. p \in Routes(paths) \/ Marked(p, paths) \/ Pending(p, stack)
  <2>1. ~limitExceeded
    BY DEF Extends, CInv, CountOK
  <2> QED
    BY <2>1 DEF Extends, CInv, Complete
<1>6. CASE p \in Routes(paths) \/ Marked(p, paths)
  BY <1>3, <1>6 DEF Routes, Marked
<1>7. CASE Pending(p, Tried(e))
  <2>1. PICK k \in 1 .. Len(Tried(e)) : Awaited(p, Tried(e)[k])
    BY <1>7 DEF Pending
  <2>2. Len(Tried(e)) = n
    BY <1>1, TriedStack
  <2>3. k \in 1 .. Len(Deeper(e)) /\ Deeper(e)[k] = Tried(e)[k]
    BY <2>1, <2>2, DeeperStack
  <2> QED
    BY <2>1, <2>3 DEF Pending
<1>8. CASE Pending(p, stack) /\ ~Pending(p, Tried(e))
  <2>1. n - 1 < Len(p) /\ SubSeq(p, 1, n - 1) = Top.path /\ p[n] = e
    <3>1. /\ Len(Top.path) < Len(p) /\ SubSeq(p, 1, Len(Top.path)) = Top.path
          /\ p[Len(Top.path) + 1] = e
      BY <1>1, <1>8, PendingOrTried
    <3> QED
      BY <1>2, <3>1
  <2>2. n - 1 \in 0 .. Len(p) - 1 /\ n \in 1 .. Len(p) /\ Len(p) \in Nat
    BY <1>2, <1>4, <2>1
  <2>3. SubSeq(p, 1, n) = g.path
    <3>1. Append(SubSeq(p, 1, n - 1), p[(n - 1) + 1]) = SubSeq(p, 1, (n - 1) + 1)
      BY <1>4, <2>2, PrefixAndNext
    <3>2. (n - 1) + 1 = n
      BY <1>2
    <3> QED
      BY <1>2, <2>1, <3>1, <3>2
  <2>4. CASE Len(p) = n
    <3>1. SubSeq(p, 1, n) = p
      BY <1>4, <2>2, <2>4
    <3> QED
      BY <1>3, <2>3, <3>1 DEF Routes
  <2>5. CASE Len(p) # n
    <3> DEFINE d == p[n + 1]
    <3>1. n + 1 \in 1 .. Len(p) /\ n \in 1 .. Len(p) - 1 /\ n < Len(p) /\ n \in 0 .. Len(p)
      BY <2>2, <2>5
    <3>2. d \in DOMAIN edges /\ Walkable(d) /\ edges[d].to # start /\ edges[d].from = edges[e].to
      BY <1>4, <2>1, <3>1 DEF IsSimplePath
    <3>3. d \in g.todo
      BY <1>2, <3>2 DEF Adjacent
    <3>4. CASE ~AtDepth(g)
      <4>1. n + 1 \in 1 .. Len(Deeper(e)) /\ Deeper(e)[n + 1] = g
        BY <3>4, DeeperStack
      <4>2. Awaited(p, g)
        BY <1>2, <2>3, <3>1, <3>3 DEF Awaited
      <4> QED
        BY <4>1, <4>2 DEF Pending
    <3>5. CASE AtDepth(g)
      <4>1. \A i \in 1 .. n : edges[p[i]].to # edges[d].to
        <5> TAKE i \in 1 .. n
        <5>1. i \in 1 .. Len(p) /\ i # n + 1
          BY <1>2, <2>2
        <5> QED
          BY <1>4, <3>1, <5>1 DEF IsSimplePath
      <4>2. edges[d].to # g.node
        BY <1>2, <2>1, <4>1
      <4>3. edges[d].to \notin Top.visited
        <5>1. Top.visited = {start} \cup EndsOf(Top.path)
          BY <1>2 DEF FrameOK, Reached, AtEnd
        <5>2. \A i \in 1 .. n - 1 : Top.path[i] = p[i] /\ i \in 1 .. n
          BY <1>2, <1>4, <2>1, <2>2, Prefix
        <5> QED
          BY <1>2, <3>2, <4>1, <5>1, <5>2 DEF EndsOf
      <4>4. r.truncated
        BY <1>3, <3>3, <3>5, <4>2, <4>3 DEF Truncated
      <4>5. IsProperPrefix(r.edges, p)
        BY <1>2, <1>3, <2>3, <3>1 DEF IsProperPrefix
      <4> QED
        BY <1>3, <4>4, <4>5 DEF Marked
    <3> QED
      BY <3>4, <3>5
  <2> QED
    BY <2>4, <2>5
<1> QED
  BY <1>5, <1>6, <1>7, <1>8

\* An edge that is refused continues no wanted path.
LEMMA RefuseComplete ==
  ASSUME CInv, NEW e, stack # <<>>, IsNext(e), Visited(Top, e) \/ OverBudget(Spend(Top, e))
  PROVE  Complete(Tried(e), paths)
<1> SUFFICES ASSUME NEW p \in Wanted, Pending(p, stack), ~Pending(p, Tried(e)) PROVE FALSE
  <2>1. ~limitExceeded
    BY DEF CInv, CountOK
  <2> QED
    BY <2>1 DEF CInv, Complete
<1> DEFINE m == Len(Top.path)
<1>1. IInv /\ input \in Inputs /\ FrameOK(Top) /\ e \in Top.todo
  BY TopFrame DEF CInv, IInv, IsNext
<1>2. m < Len(p) /\ SubSeq(p, 1, m) = Top.path /\ p[m + 1] = e
  BY <1>1, PendingOrTried
<1>3. p \in Seq(DOMAIN edges)
  BY DEF Wanted
<1>4. m \in Nat
  BY <1>1 DEF FrameOK, Reached, Frame
<1>5. m \in 0 .. Len(p) - 1 /\ m + 1 \in 1 .. Len(p)
  BY <1>2, <1>3, <1>4
<1>6. Append(Top.path, e) = SubSeq(p, 1, m + 1)
  BY <1>2, <1>3, <1>5, PrefixAndNext
<1>7. Append(Top.path, e) \in Wanted
  BY <1>1, <1>5, <1>6, PrefixIsWanted
<1> QED
  BY <1>1, <1>7, WantedIsTaken
-----------------------------------------------------------------------------
(* The invariant of completeness.                                          *)

\* What a step that leaves the graph alone has to show.
LEMMA StepKeepsComplete ==
  ASSUME input' = input, IInv', CountOK', Chained(stack'), Ordered(stack', paths'), LeftOut(paths'),
         MarkedAtDepth(paths'), ~limitExceeded' => Complete(stack', paths')
  PROVE  CInv'
<1>1. edges' = edges /\ start' = start /\ maxDepth' = maxDepth
  BY DEF edges, start, maxDepth
<1>2. \A e : Walkable(e)' <=> Walkable(e)
  BY <1>1 DEF Walkable
<1>3. \A p, classes : Spent(p, classes)' = Spent(p, classes)
  BY <1>1 DEF Spent
<1>4. \A p : (IsSimplePath(p)' <=> IsSimplePath(p)) /\ (WithinBudgets(p)' <=> WithinBudgets(p))
  BY <1>1, <1>2, <1>3 DEF IsSimplePath, WithinBudgets
<1>5. Wanted' = Wanted
  BY <1>1, <1>4 DEF Wanted
<1>6. MarkedAtDepth(paths)'
  BY <1>1, <1>3 DEF MarkedAtDepth
<1>7. LeftOut(paths)'
  BY <1>5 DEF LeftOut, Routes, Marked
<1>8. ~limitExceeded' => Complete(stack, paths)'
  BY <1>5 DEF Complete, Routes, Marked, Pending, Awaited
<1>9. Chained(stack)' /\ Ordered(stack, paths)'
  BY DEF Chained, Ordered
<1> QED
  BY <1>6, <1>7, <1>8, <1>9 DEF CInv

LEMMA InitComplete == Init => CInv
<1> SUFFICES ASSUME Init PROVE CInv
  OBVIOUS
<1>1. IInv /\ input \in Inputs
  BY InitInvariant DEF IInv
<1>2. paths = {} /\ limitExceeded = FALSE /\ Routes(paths) = {}
  BY DEF Init, Routes
<1>3. CountOK
  <2>1. maxPaths \in Nat \ {0}
    BY <1>1, InputTyped
  <2>2. pc = "done" => stack = <<>>
    BY DEF Init
  <2> QED
    BY <1>2, <2>1, <2>2, FS_EmptySet DEF CountOK
<1>4. Ordered(stack, paths) /\ MarkedAtDepth(paths)
  BY <1>2 DEF Ordered, MarkedAtDepth
<1>5. LeftOut(paths)
  BY <1>2 DEF LeftOut
<1>6. CASE start \notin input.nodes
  <2>1. stack = <<>>
    BY <1>6 DEF Init
  <2>2. Wanted = {}
    <3> SUFFICES ASSUME NEW p \in Wanted PROVE FALSE
      OBVIOUS
    <3>1. 1 \in 1 .. Len(p) /\ Len(p) > 0
      BY DEF Wanted
    <3>2. Walkable(p[1]) /\ edges[p[1]].from = start
      BY <3>1 DEF Wanted, IsSimplePath
    <3> QED
      BY <1>6, <3>2 DEF Walkable
  <2>3. Chained(stack) /\ Complete(stack, paths)
    BY <2>1, <2>2 DEF Chained, Complete
  <2> QED
    BY <1>1, <1>3, <1>4, <1>5, <2>3 DEF CInv
<1>7. CASE start \in input.nodes
  <2>1. Len(stack) = 1 /\ stack[1].path = <<>> /\ stack[1].todo = Adjacent(start)
    BY <1>7 DEF Init
  <2>2. Chained(stack)
    BY <2>1 DEF Chained
  <2>3. Complete(stack, paths)
    <3> SUFFICES ASSUME NEW p \in Wanted PROVE Pending(p, stack)
      BY DEF Complete
    <3>1. p \in Seq(DOMAIN edges) /\ p # <<>> /\ IsSimplePath(p)
      BY DEF Wanted
    <3>2. 1 \in 1 .. Len(p) /\ Len(p) > 0
      BY <3>1
    <3>3. p[1] \in Adjacent(start)
      BY <3>1, <3>2 DEF IsSimplePath, Adjacent
    <3>4. SubSeq(p, 1, 0) = <<>>
      BY <3>1
    <3>5. Len(<<>>) = 0 /\ 0 + 1 = 1
      OBVIOUS
    <3>6. Awaited(p, stack[1])
      BY <2>1, <3>2, <3>3, <3>4, <3>5 DEF Awaited
    <3> QED
      BY <2>1, <3>6 DEF Pending
  <2> QED
    BY <1>1, <1>3, <1>4, <1>5, <2>2, <2>3 DEF CInv
<1> QED
  BY <1>6, <1>7

LEMMA RetainCounts ==
  ASSUME NEW e, Extends(e), paths' = NewPaths(e), limitExceeded' = ReachesLimit(Cardinality(paths')),
         pc' = pc, input' = input, limitExceeded' => stack' = <<>>
  PROVE  CountOK'
<1> DEFINE r == Retained(Top, Longer(e))
           n == Cardinality(paths)
<1>1. /\ IsFiniteSet(paths) /\ IsFiniteSet(Routes(paths)) /\ Cardinality(Routes(paths)) = n
      /\ n < maxPaths /\ pc # "done" /\ maxPaths \in Nat /\ n \in Nat
  BY InputTyped, FS_CardinalityType DEF Extends, CInv, CountOK, IInv
<1>2. r.edges = Longer(e).path /\ Longer(e).path \notin Routes(paths)
  BY RetainOrdered DEF Retained
<1>3. r \notin paths
  BY <1>2 DEF Routes
<1>4. Routes(paths') = Routes(paths) \cup {Longer(e).path}
  BY <1>2 DEF Routes, NewPaths
<1>5. Cardinality(paths') = n + 1
  BY <1>1, <1>3, FS_AddElement DEF NewPaths
<1>6. IsFiniteSet(Routes(paths')) /\ Cardinality(Routes(paths')) = n + 1
  BY <1>1, <1>2, <1>4, FS_AddElement
<1>7. maxPaths' = maxPaths
  BY DEF maxPaths
<1>8. limitExceeded' <=> n + 1 >= maxPaths
  BY <1>5 DEF ReachesLimit
<1>9. Routes(paths)' = Routes(paths')
  BY DEF Routes
<1> QED
  BY <1>1, <1>5, <1>6, <1>7, <1>8, <1>9 DEF CountOK

LEMMA StepComplete == CInv /\ [Next]_vars => CInv'
<1> SUFFICES ASSUME CInv, [Next]_vars PROVE CInv'
  OBVIOUS
<1>0. /\ IInv /\ IInv' /\ CountOK /\ input \in Inputs
      /\ Chained(stack) /\ Ordered(stack, paths) /\ LeftOut(paths) /\ MarkedAtDepth(paths)
      /\ ~limitExceeded => Complete(stack, paths)
  BY StepInvariant DEF CInv, IInv
<1>1. ASSUME NEW e \in Edge, Refuse(e) PROVE CInv'
  <2>1. /\ stack # <<>> /\ IsNext(e) /\ (Visited(Top, e) \/ OverBudget(Spend(Top, e)))
        /\ stack' = Tried(e) /\ pc = "walk"
        /\ input' = input /\ pc' = pc /\ paths' = paths /\ limitExceeded' = limitExceeded
    BY <1>1 DEF Refuse
  <2>2. Chained(stack') /\ Ordered(stack', paths')
    BY <1>0, <2>1, TriedKeepsOrder
  <2>3. Complete(stack', paths')
    BY <2>1, RefuseComplete
  <2>4. CountOK'
    BY <1>0, <2>1 DEF CountOK, Routes, maxPaths
  <2> QED
    BY <1>0, <2>1, <2>2, <2>3, <2>4, StepKeepsComplete
<1>2. ASSUME NEW e \in Edge, Retain(e) PROVE CInv'
  <2>1. /\ Extends(e) /\ paths' = NewPaths(e) /\ input' = input /\ pc' = pc
        /\ limitExceeded' = ReachesLimit(Cardinality(paths'))
        /\ stack' = IF limitExceeded' THEN <<>> ELSE Deeper(e)
    BY <1>2 DEF Retain, Extends, NewPaths, Deeper, Longer
  <2>2. /\ Chained(Deeper(e)) /\ Ordered(Deeper(e), paths') /\ Complete(Deeper(e), paths')
        /\ MarkedAtDepth(paths') /\ Deeper(e) \in Seq(Frame)
    BY <2>1, RetainChained, RetainOrdered, RetainComplete, RetainMarked, DeeperStack
  <2>3. CountOK'
    BY <2>1, RetainCounts
  <2>4. LeftOut(paths')
    <3>1. \A q \in paths' : PathOK(q)
      BY <1>0, <2>1, LongerFields DEF NewPaths, IInv
    <3> QED
      BY <1>0, <2>2, <3>1, OrderedLeavesOut
  <2>5. CASE limitExceeded'
    <3>1. Chained(<<>>) /\ Ordered(<<>>, paths')
      BY DEF Chained, Ordered
    <3> QED
      BY <1>0, <2>1, <2>2, <2>3, <2>4, <2>5, <3>1, StepKeepsComplete
  <2>6. CASE ~limitExceeded'
    BY <1>0, <2>1, <2>2, <2>3, <2>4, <2>6, StepKeepsComplete
  <2> QED
    BY <2>5, <2>6
<1>3. CASE Return
  <2> DEFINE n == Len(stack)
  <2>1. /\ stack # <<>> /\ Top.todo = {} /\ stack' = SubSeq(stack, 1, n - 1) /\ pc = "walk"
        /\ input' = input /\ pc' = pc /\ paths' = paths /\ limitExceeded' = limitExceeded
    BY <1>3 DEF Return
  <2>2. n \in Nat \ {0} /\ n \in 1 .. n
    BY <1>0, <2>1, TopFrame
  <2>3. Len(stack') = n - 1 /\ \A k \in 1 .. n - 1 : stack'[k] = stack[k] /\ k \in 1 .. n
    <3>1. stack \in Seq(Frame) /\ n - 1 \in 0 .. Len(stack)
      BY <1>0, <2>2 DEF IInv
    <3>2. /\ Len(SubSeq(stack, 1, n - 1)) = n - 1
          /\ \A k \in 1 .. n - 1 : SubSeq(stack, 1, n - 1)[k] = stack[k]
      <4> HIDE DEF n
      <4> QED BY <3>1, Prefix
    <3> QED
      BY <2>1, <2>2, <3>2
  <2>4. Chained(stack')
    <3> SUFFICES ASSUME NEW k \in 1 .. n - 1
                 PROVE  /\ Len(stack'[k].path) = k - 1
                        /\ \A j \in 1 .. k - 1 : /\ stack'[j].path = SubSeq(stack'[k].path, 1, j - 1)
                                                 /\ \A d \in stack'[j].todo : stack'[k].path[j] < d
      BY <2>3 DEF Chained
    <3>1. \A j \in 1 .. k - 1 : j \in 1 .. n - 1
      BY <2>2
    <3> QED
      BY <1>0, <2>3, <3>1 DEF Chained
  <2>5. Ordered(stack', paths')
    BY <1>0, <2>1, <2>3 DEF Ordered
  <2>6. ASSUME NEW p, Pending(p, stack) PROVE Pending(p, stack')
    <3>1. PICK k \in 1 .. n : Awaited(p, stack[k])
      BY <2>6 DEF Pending
    <3>2. k # n
      BY <2>1, <3>1 DEF Awaited, Top
    <3>3. k \in 1 .. n - 1
      BY <2>2, <3>2
    <3> QED
      BY <2>3, <3>1, <3>3 DEF Pending
  <2>7. ~limitExceeded' => Complete(stack', paths')
    BY <1>0, <2>1, <2>6 DEF Complete
  <2>8. CountOK'
    <3>1. ~limitExceeded /\ ~limitExceeded' /\ pc' # "done"
      BY <1>0, <2>1 DEF CountOK
    <3>2. maxPaths' = maxPaths /\ Routes(paths)' = Routes(paths)
      BY <2>1 DEF Routes, maxPaths
    <3>3. /\ IsFiniteSet(Routes(paths)) /\ Cardinality(Routes(paths)) = Cardinality(paths)
          /\ Cardinality(paths) < maxPaths
      BY <1>0, <3>1 DEF CountOK
    <3> QED
      BY <2>1, <3>1, <3>2, <3>3 DEF CountOK
  <2> QED
    BY <1>0, <2>1, <2>4, <2>5, <2>7, <2>8, StepKeepsComplete
<1>4. CASE Finish
  <2>1. /\ stack = <<>> /\ input' = input /\ stack' = stack /\ paths' = paths
        /\ limitExceeded' = limitExceeded
    BY <1>4 DEF Finish
  <2>2. CountOK'
    BY <1>0, <2>1 DEF CountOK, Routes, maxPaths
  <2> QED
    BY <1>0, <2>1, <2>2, StepKeepsComplete
<1>5. CASE UNCHANGED vars
  <2>1. /\ input' = input /\ stack' = stack /\ paths' = paths /\ pc' = pc
        /\ limitExceeded' = limitExceeded
    BY <1>5 DEF vars
  <2>2. CountOK'
    BY <1>0, <2>1 DEF CountOK, Routes, maxPaths
  <2> QED
    BY <1>0, <2>1, <2>2, StepKeepsComplete
<1> QED
  BY <1>1, <1>2, <1>3, <1>4, <1>5 DEF Next

LEMMA CompleteInvariant == Spec => []CInv
  BY InitComplete, StepComplete, PTL DEF Spec
-----------------------------------------------------------------------------
(* The reference definition: which paths there are, and that they are few. *)

\* All functions from one finite set into another are finitely many.
LEMMA FiniteFunctions ==
  ASSUME NEW S, IsFiniteSet(S), NEW T, IsFiniteSet(T)
  PROVE  IsFiniteSet([S -> T])
<1> DEFINE graph == [f \in [S -> T] |-> {<<x, f[x]>> : x \in S}]
<1>1. IsFiniteSet(SUBSET (S \X T))
  BY FS_Product, FS_SUBSET
<1>2. graph \in [[S -> T] -> SUBSET (S \X T)]
  OBVIOUS
<1>3. \A f, g \in [S -> T] : graph[f] = graph[g] => f = g
  <2> TAKE f, g \in [S -> T]
  <2> HAVE graph[f] = graph[g]
  <2>1. {<<x, f[x]>> : x \in S} = {<<x, g[x]>> : x \in S}
    OBVIOUS
  <2>2. ASSUME NEW x \in S PROVE f[x] = g[x]
    <3>1. <<x, f[x]>> \in {<<y, g[y]>> : y \in S}
      BY <2>1
    <3> QED
      BY <3>1
  <2> QED
    BY <2>2
<1>4. graph \in Injection([S -> T], SUBSET (S \X T))
  BY <1>2, <1>3 DEF Injection, IsInjective
<1> QED
  BY <1>1, <1>4, FS_Injection

\* A simple path has fewer edges than the graph has nodes.
LEMMA SimpleIsShort ==
  ASSUME input \in Inputs, NEW p \in Seq(DOMAIN edges), p # <<>>, IsSimplePath(p)
  PROVE  Len(p) \in 1 .. Cardinality(input.nodes) - 1
<1> DEFINE N == input.nodes \ {start}
           end == [i \in 1 .. Len(p) |-> edges[p[i]].to]
<1>1. IsFiniteSet(input.nodes)
  BY InputsAssumption
<1>2. Len(p) \in Nat \ {0} /\ 1 \in 1 .. Len(p)
  OBVIOUS
<1>3. start \in input.nodes
  BY <1>2 DEF IsSimplePath, Walkable
<1>4. IsFiniteSet(N) /\ Cardinality(N) = Cardinality(input.nodes) - 1
  BY <1>1, <1>3, FS_RemoveElement
<1>5. end \in [1 .. Len(p) -> N]
  BY DEF IsSimplePath, Walkable
<1>6. \A i, j \in 1 .. Len(p) : end[i] = end[j] => i = j
  BY DEF IsSimplePath
<1> HIDE DEF end, N
<1>7. end \in Injection(1 .. Len(p), N)
  BY <1>5, <1>6 DEF Injection, IsInjective
<1>8. Cardinality(1 .. Len(p)) <= Cardinality(N)
  BY <1>4, <1>7, FS_Injection
<1>9. Cardinality(1 .. Len(p)) = Len(p)
  BY <1>2, FS_Interval
<1>10. Cardinality(input.nodes) \in Nat
  BY <1>1, FS_CardinalityType
<1> QED
  BY <1>2, <1>4, <1>8, <1>9, <1>10

LEMMA SimplePathsAre ==
  ASSUME input \in Inputs
  PROVE  SimplePaths = {p \in Seq(DOMAIN edges) : p # <<>> /\ IsSimplePath(p)}
<1> DEFINE m == Cardinality(input.nodes) - 1
           Chains == UNION {[1 .. n -> DOMAIN edges] : n \in 1 .. m}
<1>1. SimplePaths = {p \in Chains : IsSimplePath(p)}
  BY DEF SimplePaths
<1>2. m \in Int
  BY FS_CardinalityType, InputsAssumption
<1>3. ASSUME NEW p \in Chains PROVE p \in Seq(DOMAIN edges) /\ p # <<>>
  <2>1. PICK n \in 1 .. m : p \in [1 .. n -> DOMAIN edges]
    OBVIOUS
  <2>2. n \in Nat \ {0}
    BY <1>2
  <2>3. p \in Seq(DOMAIN edges)
    BY <2>1, <2>2
  <2>4. Len(p) = n
    BY <2>1, <2>2, <2>3
  <2> QED
    BY <2>2, <2>3, <2>4
<1>4. ASSUME NEW p \in Seq(DOMAIN edges), p # <<>>, IsSimplePath(p) PROVE p \in Chains
  <2>1. Len(p) \in 1 .. m
    BY <1>4, SimpleIsShort
  <2>2. p \in [1 .. Len(p) -> DOMAIN edges]
    OBVIOUS
  <2> QED
    BY <2>1, <2>2
<1> QED
  BY <1>1, <1>3, <1>4

LEMMA SimplePathsAreFinite == ASSUME input \in Inputs PROVE IsFiniteSet(SimplePaths)
<1> DEFINE m == Cardinality(input.nodes) - 1
           Of(n) == [1 .. n -> DOMAIN edges]
           Lengths == {Of(n) : n \in 1 .. m}
<1>1. IsFiniteSet(DOMAIN edges) /\ m \in Int
  BY FS_CardinalityType, InputsAssumption DEF edges
<1>2. IsFiniteSet(1 .. m) /\ \A n \in 1 .. m : IsFiniteSet(1 .. n)
  BY <1>1, FS_Interval
<1>3. IsFiniteSet(Lengths)
  <2> DEFINE f == [n \in 1 .. m |-> Of(n)]
  <2>1. f \in Surjection(1 .. m, Lengths)
    BY DEF Surjection
  <2> HIDE DEF f, Lengths
  <2> QED BY <1>2, <2>1, FS_Surjection
<1>4. \A T \in Lengths : IsFiniteSet(T)
  <2>1. ASSUME NEW n \in 1 .. m PROVE IsFiniteSet(Of(n))
    BY <1>1, <1>2, FiniteFunctions
  <2> HIDE DEF Of
  <2> QED BY <2>1
<1>5. IsFiniteSet(UNION Lengths)
  <2> HIDE DEF Lengths
  <2> QED BY <1>3, <1>4, FS_UNION
<1>6. SimplePaths \subseteq UNION Lengths
  BY DEF SimplePaths
<1> QED
  BY <1>5, <1>6, FS_Subset
-----------------------------------------------------------------------------
\* What is retained is admissible.
LEMMA RetainedAreAdmissible == ASSUME IInv PROVE Routes(paths) \subseteq Admissible
<1> SUFFICES ASSUME NEW q \in paths PROVE q.edges \in Admissible
  BY DEF Routes
<1>1. /\ input \in Inputs /\ q.edges \in Seq(Edge) /\ q.edges # <<>> /\ IsSimplePath(q.edges)
      /\ WithinBudgets(q.edges) /\ WithinDepth(q.edges)
  BY DEF IInv, PathOK, EvidencePath
<1>2. q.edges \in Seq(DOMAIN edges)
  BY <1>1 DEF IsSimplePath
<1> QED
  BY <1>1, <1>2, SimplePathsAre DEF Admissible

\* Behind a path that is marked, the depth is exceeded.
LEMMA MarkedIsDeep ==
  ASSUME IInv, MarkedAtDepth(paths), NEW p \in Seq(DOMAIN edges), Marked(p, paths)
  PROVE  ~WithinDepth(p)
<1>1. PICK q \in paths : q.truncated /\ IsProperPrefix(q.edges, p)
  BY DEF Marked
<1> DEFINE n == Len(q.edges)
           x == SubSeq(p, 1, Len(p) - 1)
<1>2. input \in Inputs /\ q.edges \in Seq(Edge) /\ p \in Seq(Edge)
  BY PathsTyped DEF IInv, PathOK, EvidencePath
<1>3. n < Len(p) /\ n \in Nat /\ Len(p) - 1 \in 0 .. Len(p) /\ n \in 0 .. Len(p) - 1 /\ q.edges = SubSeq(p, 1, n)
  BY <1>1, <1>2 DEF IsProperPrefix
<1>4. x \in Seq(Edge) /\ Len(x) = Len(p) - 1 /\ SubSeq(x, 1, n) = q.edges
  BY <1>2, <1>3, Prefix, PrefixOfPrefix
<1>5. Spent(q.edges, Deep) <= Spent(x, Deep)
  <2> HIDE DEF x
  <2> QED BY <1>3, <1>4, SpentLess
<1>6. Spent(q.edges, Deep) >= maxDepth
  BY <1>1 DEF MarkedAtDepth
<1>7. Spent(q.edges, Deep) \in Nat /\ Spent(x, Deep) \in Nat /\ maxDepth \in Nat
  BY <1>2, <1>4, SpentIsNat, InputTyped
<1>8. Spent(x, Deep) >= maxDepth
  BY <1>5, <1>6, <1>7
<1> QED
  BY <1>7, <1>8 DEF WithinDepth, Deep

(***************************************************************************)
(* A finished traversal retains exactly the admissible paths, or when that *)
(* many are reached the first maxPaths of them in the order of the walk,   *)
(* and it reports the limit exactly then: for every graph and all limits.  *)
(***************************************************************************)
THEOREM ExactlyAdmissible == Spec => []RetainsExactly
<1>1. ASSUME CInv, pc = "done"
      PROVE  /\ Routes(paths) = {p \in Admissible : Cardinality({r \in Admissible : Before(r, p)}) < maxPaths}
             /\ limitExceeded <=> Cardinality(Admissible) >= maxPaths
  <2> DEFINE A == Admissible
             R == Routes(paths)
             C(p) == {r \in A : Before(r, p)}
  <2>1. IInv /\ input \in Inputs /\ LeftOut(paths) /\ MarkedAtDepth(paths)
    BY <1>1 DEF CInv, IInv
  <2>2. R \subseteq A
    BY <2>1, RetainedAreAdmissible
  <2>3. A \subseteq SimplePaths /\ \A p \in A : WithinBudgets(p) /\ WithinDepth(p)
    BY DEF Admissible
  <2>4. \A p \in A : p \in Wanted /\ p \in Seq(DOMAIN edges) /\ p \in Seq(Nat) /\ WithinDepth(p)
    BY <2>1, <2>3, SimplePathsAre, PathsTyped DEF Wanted
  <2>5. IsFiniteSet(A)
    BY <2>1, <2>3, SimplePathsAreFinite, FS_Subset
  <2>6. IsFiniteSet(R) /\ Cardinality(R) = Cardinality(paths) /\ Cardinality(R) \in Nat /\ maxPaths \in Nat \ {0}
    BY <1>1, <2>1, FS_CardinalityType, InputTyped DEF CInv, CountOK
  <2>7. /\ Cardinality(A) \in Nat
        /\ \A p : IsFiniteSet(C(p)) /\ Cardinality(C(p)) \in Nat /\ Cardinality(C(p)) <= Cardinality(A)
    <3>1. \A p : C(p) \subseteq A
      OBVIOUS
    <3> HIDE DEF C, A
    <3> QED BY <2>5, <3>1, FS_Subset, FS_CardinalityType
  <2>8. \A p \in A : ~Marked(p, paths)
    BY <2>1, <2>4, MarkedIsDeep
  <2>9. CASE ~limitExceeded
    <3>1. Cardinality(paths) < maxPaths /\ stack = <<>> /\ Complete(stack, paths)
      BY <1>1, <2>9 DEF CInv, CountOK
    <3>2. \A p \in A : p \in R
      BY <2>4, <2>8, <3>1 DEF Complete, Pending
    <3>3. R = A
      BY <2>2, <3>2
    <3>4. Cardinality(A) < maxPaths
      BY <2>6, <3>1, <3>3
    <3>5. \A p \in A : Cardinality(C(p)) < maxPaths
      <4> HIDE DEF C, A
      <4> QED BY <2>6, <2>7, <3>4
    <3> QED
      BY <2>6, <2>7, <2>9, <3>3, <3>4, <3>5
  <2>10. CASE limitExceeded
    <3>1. Cardinality(R) = maxPaths
      BY <1>1, <2>6, <2>10 DEF CInv, CountOK
    <3>2. ASSUME NEW p \in A, p \notin R PROVE \A r \in R : Before(r, p)
      BY <2>1, <2>4, <2>8, <3>2 DEF LeftOut, Routes
    <3>3. ASSUME NEW p \in R PROVE Cardinality(C(p)) < maxPaths
      <4>1. p \notin C(p)
        BY <2>2, <2>4, BeforeIsStrict
      <4>2. ASSUME NEW r \in C(p), r \notin R PROVE FALSE
        BY <2>2, <2>4, <3>2, <4>2, BeforeIsStrict
      <4>3. C(p) \subseteq R \ {p}
        BY <4>1, <4>2
      <4>4. IsFiniteSet(R \ {p}) /\ Cardinality(R \ {p}) = maxPaths - 1
        BY <2>6, <3>1, FS_RemoveElement
      <4>5. Cardinality(C(p)) <= maxPaths - 1
        <5> HIDE DEF C, R
        <5> QED BY <4>3, <4>4, FS_Subset
      <4> HIDE DEF C
      <4> QED BY <2>6, <2>7, <4>5
    <3>4. ASSUME NEW p \in A, p \notin R PROVE ~(Cardinality(C(p)) < maxPaths)
      <4>1. R \subseteq C(p)
        BY <2>2, <3>2, <3>4
      <4>2. Cardinality(R) <= Cardinality(C(p))
        <5> HIDE DEF C, R
        <5> QED BY <2>7, <4>1, FS_Subset
      <4> HIDE DEF C, R
      <4> QED BY <2>6, <2>7, <3>1, <4>2
    <3>5. R = {p \in A : Cardinality(C(p)) < maxPaths}
      <4> HIDE DEF C, R, A
      <4> QED BY <2>2, <3>3, <3>4
    <3>6. Cardinality(A) >= maxPaths
      <4>1. Cardinality(R) <= Cardinality(A)
        <5> HIDE DEF A, R
        <5> QED BY <2>2, <2>5, FS_Subset
      <4> QED BY <3>1, <4>1
    <3> QED
      BY <2>10, <3>5, <3>6
  <2> QED
    BY <2>9, <2>10
<1>2. CInv => RetainsExactly
  BY <1>1 DEF RetainsExactly, Routes
<1> QED
  BY <1>2, CompleteInvariant, PTL

(***************************************************************************)
(* Evidence is never dropped silently: a simple path that a finished       *)
(* traversal left out exceeds a hop budget or continues a marked path.     *)
(***************************************************************************)
THEOREM OmissionsAreMarked == Spec => []OmissionIsMarked
<1>1. ASSUME CInv, pc = "done", ~limitExceeded, NEW p \in SimplePaths
      PROVE  \/ \E q \in paths : q.edges = p
             \/ \E q \in paths : q.truncated /\ IsProperPrefix(q.edges, p)
             \/ ~WithinBudgets(p)
  <2>1. stack = <<>> /\ Complete(stack, paths) /\ input \in Inputs
    BY <1>1 DEF CInv, CountOK, IInv
  <2>2. WithinBudgets(p) => p \in Wanted
    BY <2>1, SimplePathsAre DEF Wanted
  <2>3. ~Pending(p, stack)
    BY <2>1 DEF Pending
  <2> QED
    BY <2>1, <2>2, <2>3 DEF Complete, Routes, Marked
<1>2. CInv => OmissionIsMarked
  BY <1>1 DEF OmissionIsMarked
<1> QED
  BY <1>2, CompleteInvariant, PTL
=============================================================================
