-------------------------- MODULE CallChainsProofs --------------------------
(***************************************************************************)
(* For all call graphs, roots and limits: the walks for cycles and for     *)
(* depth keep to a chain of calls from the root they started at, every     *)
(* chain beyond the limit is reported exactly as often as its call sites   *)
(* can be chosen, and the cycles reported are exactly the elementary ones  *)
(* a root reaches, each under the first such root.                         *)
(***************************************************************************)
EXTENDS CallChains, SequenceTheorems, FiniteSetTheorems, WellFoundedInduction, TLAPS

OnStack(s) == {s[i].node : i \in 1 .. Len(s)}

\* With repeats onPath forgets a node too early, and still keeps none too long.
IInv == TypeOK /\ PathIsChain /\ onPath \subseteq OnStack(stack)

FrameType == [node : Node, next : Nat \ {0}]
StackType == Seq(FrameType)
-----------------------------------------------------------------------------
(* The data.                                                               *)

\* A sequence of numbers has a smallest one.
LEMMA LeastExists ==
  ASSUME NEW c \in Seq(Nat), c # <<>>
  PROVE  \E i \in 1 .. Len(c) : \A j \in 1 .. Len(c) : c[i] <= c[j]
<1> DEFINE R == {ss \in Nat \X Nat : ss[1] < ss[2]}
           T == {c[i] : i \in 1 .. Len(c)}
<1>1. IsWellFoundedOn(R, Nat)
  BY NatLessThanWellFounded DEF OpToRel
<1>2. T \subseteq Nat /\ T # {}
  <2>1. 1 \in 1 .. Len(c)
    OBVIOUS
  <2> QED
    BY <2>1
<1> HIDE DEF R
<1>3. \E x \in T : \A y \in T : ~ (<<y, x>> \in R)
  <2> HIDE DEF T
  <2> QED
    BY <1>1, <1>2, WFMin
<1>4. PICK i \in 1 .. Len(c) : \A y \in T : ~ (<<y, c[i]>> \in R)
  BY <1>3
<1>5. ASSUME NEW j \in 1 .. Len(c) PROVE c[i] <= c[j]
  <2>1. ~ (<<c[j], c[i]>> \in R)
    BY <1>4
  <2>2. c[i] \in Nat /\ c[j] \in Nat
    OBVIOUS
  <2> QED
    BY <2>1, <2>2 DEF R
<1> QED
  BY <1>5

\* A rotation has the nodes of the cycle.
LEMMA CanonicalType ==
  ASSUME NEW c \in Seq(Node), c # <<>>
  PROVE  Canonical(c) \in Seq(Node)
<1> DEFINE least == CHOOSE i \in 1 .. Len(c) : \A j \in 1 .. Len(c) : c[i] <= c[j]
<1>1. c \in Seq(Nat)
  BY NodeAssumption, SeqMonotonic
<1>2. least \in 1 .. Len(c)
  BY <1>1, LeastExists
<1>3. Len(c) \in Nat /\ \A i \in 1 .. Len(c) : c[i] \in Node
  BY LenProperties, ElementOfSeq
<1> HIDE DEF least
<1>4. SubSeq(c, least, Len(c)) \in Seq(Node) /\ SubSeq(c, 1, least - 1) \in Seq(Node)
  BY <1>2, <1>3, SubSeqProperties
<1>5. SubSeq(c, least, Len(c)) \o SubSeq(c, 1, least - 1) \in Seq(Node)
  BY <1>4
<1> QED
  BY <1>5 DEF Canonical, least

LEMMA PathType ==
  ASSUME stack \in StackType
  PROVE  /\ Path \in Seq(Node) /\ Len(Path) = Len(stack)
         /\ Len(stack) \in Nat /\ \A i \in 1 .. Len(stack) : Path[i] = stack[i].node /\ Path[i] \in Node
<1>1. Len(stack) \in Nat /\ \A i \in 1 .. Len(stack) : stack[i] \in FrameType
  BY LenProperties, ElementOfSeq DEF StackType
<1>2. \A i \in 1 .. Len(stack) : stack[i].node \in Node
  BY <1>1 DEF FrameType
<1>3. Path \in [1 .. Len(stack) -> Node]
  BY <1>2 DEF Path
<1>4. Path \in Seq(Node)
  BY <1>1, <1>3, SeqDef
<1>5. Len(Path) = Len(stack)
  BY <1>1, <1>3, <1>4
<1> QED
  BY <1>1, <1>2, <1>4, <1>5 DEF Path

\* A cycle closes at a node of the stack.
LEMMA CycleType ==
  ASSUME stack \in StackType, NEW n \in OnStack(stack)
  PROVE  CycleFrom(n) \in Seq(Node) /\ CycleFrom(n) # <<>>
<1> DEFINE first == CHOOSE i \in 1 .. Len(stack) : stack[i].node = n
<1>1. first \in 1 .. Len(stack)
  BY DEF OnStack
<1>2. /\ Path \in Seq(Node) /\ Len(Path) = Len(stack) /\ Len(stack) \in Nat
      /\ \A i \in 1 .. Len(stack) : Path[i] \in Node
  BY PathType
<1> HIDE DEF first
<1>3. SubSeq(Path, first, Len(stack)) \in Seq(Node) /\ SubSeq(Path, first, Len(stack)) # <<>>
  <2>1. \A i \in first .. Len(stack) : Path[i] \in Node
    BY <1>1, <1>2
  <2>2. /\ SubSeq(Path, first, Len(stack)) \in Seq(Node)
        /\ Len(SubSeq(Path, first, Len(stack))) = Len(stack) - first + 1
    BY <1>1, <1>2, <2>1, SubSeqProperties
  <2>3. Len(SubSeq(Path, first, Len(stack))) # 0
    BY <1>1, <1>2, <2>2
  <2>4. Len(<<>>) = 0
    OBVIOUS
  <2> QED
    BY <2>2, <2>3, <2>4
<1> QED
  BY <1>3 DEF CycleFrom, first

\* The call that HasEdge speaks of.
LEMMA ChildType ==
  ASSUME TypeOK, HasEdge
  PROVE  /\ stack # <<>> /\ Len(stack) \in 1 .. Len(stack) /\ Top = stack[Len(stack)]
         /\ Top.node \in Node /\ Top.next \in 1 .. Len(graph[Top.node])
         /\ Child \in Node /\ Child = graph[Top.node][Top.next]
<1>1. /\ stack # <<>> /\ stack \in StackType /\ graph \in [Node -> Seq(Node)]
      /\ Top = stack[Len(stack)] /\ Child = graph[Top.node][Top.next] /\ Top.next <= Len(graph[Top.node])
  BY DEF TypeOK, HasEdge, Top, Child, StackType, FrameType
<1>2. Len(stack) \in 1 .. Len(stack) /\ Top.node \in Node /\ Top.next \in Nat \ {0}
  <2>1. Len(stack) \in Nat \ {0}
    BY <1>1, EmptySeq DEF StackType
  <2>2. Top \in FrameType
    BY <1>1, <2>1, ElementOfSeq DEF StackType
  <2> QED
    BY <2>1, <2>2 DEF FrameType
<1>3. graph[Top.node] \in Seq(Node)
  BY <1>1, <1>2
<1>4. Top.next \in 1 .. Len(graph[Top.node])
  BY <1>1, <1>2, <1>3
<1> QED
  BY <1>1, <1>2, <1>3, <1>4
-----------------------------------------------------------------------------
(* The stack.                                                              *)

\* Moving on in the innermost frame changes no node.
LEMMA NextEdgeKeeps ==
  ASSUME stack \in StackType, stack # <<>>
  PROVE  /\ NextEdge(stack) \in StackType /\ Len(NextEdge(stack)) = Len(stack)
         /\ \A i \in 1 .. Len(stack) : NextEdge(stack)[i].node = stack[i].node
         /\ OnStack(NextEdge(stack)) = OnStack(stack)
<1> DEFINE s == NextEdge(stack)
           n == Len(stack)
           t == [stack[n] EXCEPT !.next = @ + 1]
<1>1. n \in 1 .. Len(stack) /\ stack[n] \in FrameType
  <2>1. n \in Nat \ {0}
    BY EmptySeq DEF StackType
  <2> QED
    BY <2>1, ElementOfSeq DEF StackType
<1>2. t \in FrameType /\ t.node = stack[n].node
  BY <1>1 DEF FrameType
<1>3. s = [stack EXCEPT ![n] = t]
  BY DEF NextEdge
<1> HIDE DEF t, s, n
<1>4. s \in StackType /\ Len(s) = Len(stack) /\ \A i \in 1 .. Len(stack) : s[i].node = stack[i].node
  BY <1>1, <1>2, <1>3, ExceptSeq DEF StackType
<1> QED
  BY <1>4 DEF OnStack, s

\* One node more on the stack.
LEMMA PushKeeps ==
  ASSUME NEW s \in StackType, NEW n \in Node
  PROVE  /\ Push(s, n) \in StackType /\ Len(Push(s, n)) = Len(s) + 1
         /\ \A i \in 1 .. Len(s) : Push(s, n)[i] = s[i]
         /\ Push(s, n)[Len(s) + 1].node = n
         /\ OnStack(Push(s, n)) = OnStack(s) \cup {n}
<1> DEFINE f == [node |-> n, next |-> 1]
           p == Append(s, f)
<1>1. f \in FrameType /\ f.node = n
  BY DEF FrameType
<1> HIDE DEF f
<1>2. /\ p \in StackType /\ Len(p) = Len(s) + 1 /\ Len(s) \in Nat
      /\ \A i \in 1 .. Len(s) : p[i] = s[i]
      /\ p[Len(s) + 1] = f
  BY <1>1 DEF StackType
<1> HIDE DEF p
<1>3. 1 .. Len(p) = 1 .. Len(s) \cup {Len(s) + 1}
  BY <1>2
<1>4. OnStack(p) = OnStack(s) \cup {n}
  BY <1>1, <1>2, <1>3 DEF OnStack
<1>5. Push(s, n) = p
  BY DEF Push, p, f
<1> QED
  BY <1>1, <1>2, <1>4, <1>5

\* What Skip keeps of the invariant, whatever is reported.
LEMMA SkipKeeps ==
  ASSUME IInv, stack # <<>>, Skip, UNCHANGED <<inputVars, phase, root>>
  PROVE  /\ stack' \in StackType /\ PathIsChain' /\ onPath' \subseteq OnStack(stack')
<1>1. stack \in StackType
  BY DEF IInv, TypeOK, StackType, FrameType
<1>2. /\ stack' \in StackType /\ Len(stack') = Len(stack)
      /\ \A i \in 1 .. Len(stack) : stack'[i].node = stack[i].node
      /\ OnStack(stack') = OnStack(stack)
      /\ onPath' = onPath /\ graph' = graph /\ root' = root /\ MayRepeat' = MayRepeat
  BY <1>1, NextEdgeKeeps DEF Skip, inputVars, MayRepeat
<1>3. PathIsChain /\ onPath \subseteq OnStack(stack)
  BY DEF IInv
<1>4. \A i \in 1 .. Len(stack') - 1 :
        \E j \in 1 .. Len(graph'[stack'[i].node]) : graph'[stack'[i].node][j] = stack'[i + 1].node
  <2> SUFFICES ASSUME NEW i \in 1 .. Len(stack) - 1
               PROVE  \E j \in 1 .. Len(graph[stack'[i].node]) : graph[stack'[i].node][j] = stack'[i + 1].node
    BY <1>2
  <2>1. i \in 1 .. Len(stack) /\ i + 1 \in 1 .. Len(stack)
    BY <1>1 DEF StackType
  <2> QED
    BY <1>2, <1>3, <2>1 DEF PathIsChain
<1>5. stack'[1].node = root'
  <2>1. 1 \in 1 .. Len(stack)
    BY <1>1 DEF StackType
  <2> QED
    BY <1>2, <1>3, <2>1 DEF PathIsChain
<1>6. ~MayRepeat' => /\ onPath' = {stack'[i].node : i \in 1 .. Len(stack')}
                     /\ \A i, j \in 1 .. Len(stack') : stack'[i].node = stack'[j].node => i = j
  BY <1>2, <1>3 DEF PathIsChain, OnStack
<1> QED
  BY <1>2, <1>3, <1>4, <1>5, <1>6 DEF PathIsChain

\* And Descend, which finds no repeat where none may be.
LEMMA DescendKeeps ==
  ASSUME IInv, HasEdge, Descend, UNCHANGED <<inputVars, phase, root>>,
         ~MayRepeat => Child \notin onPath
  PROVE  /\ stack' \in StackType /\ PathIsChain' /\ onPath' \subseteq OnStack(stack')
         /\ onPath' \subseteq Node
<1> DEFINE s == NextEdge(stack)
           n == Len(stack)
<1>1. /\ TypeOK /\ PathIsChain /\ onPath \subseteq OnStack(stack) /\ stack \in StackType /\ onPath \subseteq Node
  BY DEF IInv, TypeOK, StackType, FrameType
<1>2. /\ stack # <<>> /\ n \in 1 .. n /\ Child \in Node
      /\ \E j \in 1 .. Len(graph[stack[n].node]) : graph[stack[n].node][j] = Child
  BY <1>1, ChildType
<1>3. /\ s \in StackType /\ Len(s) = n /\ \A i \in 1 .. n : s[i].node = stack[i].node
      /\ OnStack(s) = OnStack(stack)
  BY <1>1, <1>2, NextEdgeKeeps
<1> HIDE DEF s
<1>4. /\ stack' \in StackType /\ Len(stack') = n + 1
      /\ \A i \in 1 .. n : stack'[i].node = stack[i].node
      /\ stack'[n + 1].node = Child
      /\ OnStack(stack') = OnStack(stack) \cup {Child}
      /\ onPath' = onPath \cup {Child} /\ graph' = graph /\ root' = root /\ MayRepeat' = MayRepeat
  BY <1>2, <1>3, PushKeeps DEF Descend, inputVars, MayRepeat, s
<1> HIDE DEF n
<1>5. n \in Nat /\ \A i \in 1 .. n + 1 : i \in 1 .. n \/ i = n + 1
  BY <1>2
<1>6. \A i \in 1 .. Len(stack') - 1 :
        \E j \in 1 .. Len(graph'[stack'[i].node]) : graph'[stack'[i].node][j] = stack'[i + 1].node
  <2>0. Len(stack') - 1 = n
    BY <1>4, <1>5
  <2> SUFFICES ASSUME NEW i \in 1 .. n
               PROVE  \E j \in 1 .. Len(graph[stack'[i].node]) : graph[stack'[i].node][j] = stack'[i + 1].node
    BY <1>4, <2>0
  <2>1. CASE i = n
    BY <1>2, <1>4, <2>1
  <2>2. CASE i # n
    <3>1. i \in 1 .. n - 1 /\ i + 1 \in 1 .. n
      BY <1>5, <2>2
    <3>2. \E j \in 1 .. Len(graph[stack[i].node]) : graph[stack[i].node][j] = stack[i + 1].node
      BY <1>1, <3>1 DEF PathIsChain, n
    <3> QED
      BY <1>4, <3>1, <3>2
  <2> QED
    BY <2>1, <2>2
<1>7. stack'[1].node = root'
  <2>1. 1 \in 1 .. n
    BY <1>2
  <2> QED
    BY <1>1, <1>2, <1>4, <2>1 DEF PathIsChain
<1>8. ASSUME ~MayRepeat
      PROVE  /\ onPath' = {stack'[i].node : i \in 1 .. Len(stack')}
             /\ \A i, j \in 1 .. Len(stack') : stack'[i].node = stack'[j].node => i = j
  <2>1. onPath = OnStack(stack) /\ \A i, j \in 1 .. n : stack[i].node = stack[j].node => i = j
    BY <1>1, <1>8 DEF PathIsChain, OnStack, n
  <2>2. \A i \in 1 .. n : stack[i].node # Child
    BY <1>8, <2>1 DEF OnStack, n
  <2>3. onPath' = OnStack(stack')
    BY <1>4, <2>1
  <2>4. \A i, j \in 1 .. Len(stack') : stack'[i].node = stack'[j].node => i = j
    BY <1>4, <1>5, <2>1, <2>2
  <2> QED
    BY <2>3, <2>4 DEF OnStack
<1> QED
  BY <1>1, <1>2, <1>4, <1>6, <1>7, <1>8 DEF PathIsChain

\* What a step that follows a call leaves alone.
Untouched == UNCHANGED <<inputVars, phase, roots, root>>
-----------------------------------------------------------------------------
(* The invariant.                                                          *)

LEMMA InitInvariant == Init => IInv
<1> SUFFICES ASSUME Init PROVE IInv
  OBVIOUS
<1>1. stack = <<>> /\ <<>> \in Seq([node : Node, next : Nat \ {0}]) /\ Len(<<>>) = 0
  BY EmptySeq DEF Init
<1>2. <<>> \in Seq(Diagnostic)
  BY EmptySeq
<1>3. TypeOK
  BY <1>1, <1>2, GraphsAssumption DEF Init, TypeOK, Feature
<1>4. PathIsChain
  BY <1>1 DEF Init, PathIsChain
<1> QED
  BY <1>3, <1>4 DEF IInv, Init

LEMMA StartKeeps == ASSUME IInv, NEW r \in Node, StartRoot(r) PROVE IInv'
<1>1. /\ stack' = Push(<<>>, r) /\ root' = r /\ onPath' = {r} /\ roots' = roots \ {r}
      /\ UNCHANGED <<inputVars, phase, cycles, tooDeep>>
  BY DEF StartRoot
<1>2. <<>> \in StackType /\ Len(<<>>) = 0 /\ OnStack(<<>>) = {}
  BY EmptySeq DEF StackType, OnStack
<1>3. stack' \in StackType /\ Len(stack') = 1 /\ stack'[1].node = r /\ OnStack(stack') = {r}
  <2>1. /\ Push(<<>>, r) \in StackType /\ Len(Push(<<>>, r)) = Len(<<>>) + 1
        /\ Push(<<>>, r)[Len(<<>>) + 1].node = r
        /\ OnStack(Push(<<>>, r)) = OnStack(<<>>) \cup {r}
    BY <1>2, PushKeeps
  <2> QED
    BY <1>1, <1>2, <2>1
<1>4. TypeOK'
  BY <1>1, <1>3, NodeAssumption DEF IInv, TypeOK, inputVars, StackType, FrameType
<1>5. PathIsChain'
  <2>1. 1 .. Len(stack') - 1 = {} /\ \A i \in 1 .. Len(stack') : i = 1
    BY <1>3
  <2>2. stack'[1].node = root' /\ onPath' = OnStack(stack')
    BY <1>1, <1>3
  <2> QED
    BY <2>1, <2>2 DEF PathIsChain, OnStack
<1> QED
  BY <1>1, <1>3, <1>4, <1>5 DEF IInv

\* Only the diagnostics of the walk are left to be typed.
LEMMA FollowKeeps ==
  ASSUME IInv, HasEdge, Untouched,
         Skip \/ (Descend /\ (~MayRepeat => Child \notin onPath)),
         cycles' \in SUBSET Diagnostic, tooDeep' \in Seq(Diagnostic)
  PROVE  IInv'
<1>1. stack # <<>> /\ onPath \subseteq Node
  BY DEF HasEdge, IInv, TypeOK
<1>2. stack' \in StackType /\ PathIsChain' /\ onPath' \subseteq OnStack(stack') /\ onPath' \subseteq Node
  <2>1. CASE Skip
    BY <1>1, <2>1, SkipKeeps DEF Untouched, Skip
  <2>2. CASE Descend /\ (~MayRepeat => Child \notin onPath)
    BY <2>2, DescendKeeps DEF Untouched
  <2> QED
    BY <2>1, <2>2
<1>3. TypeOK'
  BY <1>2 DEF IInv, TypeOK, Untouched, inputVars, StackType, FrameType
<1> QED
  BY <1>2, <1>3 DEF IInv

\* A walk in progress began at a node.
LEMMA RootIsNode ==
  ASSUME IInv, stack # <<>>
  PROVE  root \in Node /\ Path \in Seq(Node)
<1>1. stack \in StackType /\ root = stack[1].node
  BY DEF IInv, TypeOK, StackType, FrameType, PathIsChain
<1>2. 1 \in 1 .. Len(stack)
  BY <1>1, EmptySeq DEF StackType
<1> QED
  BY <1>1, <1>2, PathType

LEMMA CyclesKeep == ASSUME IInv, FollowForCycles PROVE IInv'
<1>1. /\ HasEdge /\ phase = "cycles" /\ stack # <<>> /\ Untouched /\ tooDeep' = tooDeep
      /\ cycles \in SUBSET Diagnostic /\ tooDeep \in Seq(Diagnostic)
  BY DEF FollowForCycles, Untouched, HasEdge, IInv, TypeOK
<1>2. CASE Child \in onPath
  <2> DEFINE c == Canonical(CycleFrom(Child))
  <2>1. Skip /\ cycles' \in {cycles, cycles \cup {[root |-> root, path |-> c]}}
    BY <1>2 DEF FollowForCycles
  <2>2. c \in Seq(Node)
    BY <1>2, CycleType, CanonicalType DEF IInv, TypeOK, StackType, FrameType
  <2> HIDE DEF c
  <2>3. cycles' \in SUBSET Diagnostic
    BY <1>1, <2>1, <2>2, RootIsNode DEF Diagnostic
  <2> QED
    BY <1>1, <1>2, <2>1, <2>3, FollowKeeps
<1>3. CASE Child \notin onPath
  <2>1. Descend /\ cycles' = cycles
    BY <1>3 DEF FollowForCycles
  <2> QED
    BY <1>1, <1>3, <2>1, FollowKeeps
<1> QED
  BY <1>2, <1>3

LEMMA DepthKeeps == ASSUME IInv, FollowForDepth PROVE IInv'
<1>1. /\ HasEdge /\ phase = "depth" /\ stack # <<>> /\ Untouched /\ cycles' = cycles
      /\ cycles \in SUBSET Diagnostic /\ tooDeep \in Seq(Diagnostic) /\ feature \in Feature
  BY DEF FollowForDepth, Untouched, HasEdge, IInv, TypeOK
<1>2. \/ Skip /\ tooDeep' \in {tooDeep, Append(tooDeep, [root |-> root, path |-> Append(Path, Child)])}
      \/ Descend /\ tooDeep' = tooDeep /\ Follows(Child)
  <2> DEFINE longer == Append(tooDeep, [root |-> root, path |-> Append(Path, Child)])
  <2>1. CASE ~Follows(Child)
    <3>1. Skip /\ tooDeep' = tooDeep
      BY <2>1 DEF FollowForDepth
    <3> QED
      BY <3>1
  <2>2. CASE Follows(Child) /\ Exceeds(Len(stack) + 1)
    <3>1. Skip /\ tooDeep' = longer
      BY <2>2, Zenon DEF FollowForDepth
    <3> QED
      BY <3>1
  <2>3. CASE Follows(Child) /\ ~Exceeds(Len(stack) + 1)
    BY <2>3 DEF FollowForDepth
  <2> QED
    BY <2>1, <2>2, <2>3
<1>3. Append(tooDeep, [root |-> root, path |-> Append(Path, Child)]) \in Seq(Diagnostic)
  <2>1. root \in Node /\ Path \in Seq(Node) /\ Child \in Node
    BY <1>1, RootIsNode, ChildType DEF IInv
  <2>2. Append(Path, Child) \in Seq(Node)
    BY <2>1
  <2>3. [root |-> root, path |-> Append(Path, Child)] \in Diagnostic
    BY <2>1, <2>2 DEF Diagnostic
  <2> HIDE DEF Diagnostic
  <2> QED
    BY <1>1, <2>3
<1>4. tooDeep' \in Seq(Diagnostic)
  BY <1>1, <1>2, <1>3
<1>5. Follows(Child) => (~MayRepeat => Child \notin onPath)
  BY <1>1 DEF MayRepeat, Follows, Feature
<1> QED
  BY <1>1, <1>2, <1>4, <1>5, FollowKeeps

LEMMA ReturnKeeps == ASSUME IInv, Return PROVE IInv'
<1> DEFINE n == Len(stack)
<1>1. /\ stack # <<>> /\ stack' = SubSeq(stack, 1, n - 1) /\ onPath' = onPath \ {stack[n].node}
      /\ UNCHANGED <<inputVars, phase, roots, root, cycles, tooDeep>>
  BY DEF Return, Top
<1>2. stack \in StackType /\ PathIsChain /\ onPath \subseteq OnStack(stack)
  BY DEF IInv, TypeOK, StackType, FrameType
<1>3. n \in Nat \ {0} /\ \A i \in 1 .. n : stack[i] \in FrameType
  BY <1>1, <1>2, EmptySeq, ElementOfSeq DEF StackType
<1> HIDE DEF n
<1>4. /\ stack' \in StackType /\ Len(stack') = n - 1
      /\ \A i \in 1 .. n - 1 : stack'[i] = stack[i]
  <2>1. \A i \in 1 .. n - 1 : stack[i] \in FrameType
    BY <1>3
  <2>2. /\ SubSeq(stack, 1, n - 1) \in Seq(FrameType)
        /\ Len(SubSeq(stack, 1, n - 1)) = IF 1 <= n - 1 THEN n - 1 - 1 + 1 ELSE 0
        /\ \A i \in 1 .. n - 1 - 1 + 1 : SubSeq(stack, 1, n - 1)[i] = stack[1 + i - 1]
    BY <1>3, <2>1, SubSeqProperties
  <2> QED
    BY <1>1, <1>3, <2>2 DEF StackType
<1>5. OnStack(stack) = OnStack(stack') \cup {stack[n].node}
  <2>1. 1 .. n = 1 .. n - 1 \cup {n}
    BY <1>3
  <2> QED
    BY <1>4, <2>1 DEF OnStack, n
<1>6. onPath' \subseteq OnStack(stack')
  BY <1>1, <1>2, <1>5
<1>7. TypeOK'
  BY <1>1, <1>4 DEF IInv, TypeOK, inputVars, StackType, FrameType
<1>8. graph' = graph /\ root' = root /\ (MayRepeat' <=> MayRepeat)
  BY <1>1 DEF inputVars, MayRepeat
<1>9. \A i \in 1 .. Len(stack') - 1 :
        \E j \in 1 .. Len(graph'[stack'[i].node]) : graph'[stack'[i].node][j] = stack'[i + 1].node
  <2> SUFFICES ASSUME NEW i \in 1 .. n - 2
               PROVE  \E j \in 1 .. Len(graph[stack'[i].node]) : graph[stack'[i].node][j] = stack'[i + 1].node
    BY <1>3, <1>4, <1>8
  <2>1. i \in 1 .. n - 1 /\ i + 1 \in 1 .. n - 1
    BY <1>3
  <2>2. \E j \in 1 .. Len(graph[stack[i].node]) : graph[stack[i].node][j] = stack[i + 1].node
    BY <1>2, <2>1 DEF PathIsChain, n
  <2> QED
    BY <1>4, <2>1, <2>2
<1>10. stack' # <<>> => stack'[1].node = root'
  <2>1. stack' # <<>> => n - 1 \in Nat \ {0}
    BY <1>4, EmptySeq DEF StackType
  <2> QED
    BY <1>1, <1>2, <1>3, <1>4, <1>8, <2>1 DEF PathIsChain
<1>11. ASSUME ~MayRepeat
       PROVE  /\ onPath' = OnStack(stack')
              /\ \A i, j \in 1 .. Len(stack') : stack'[i].node = stack'[j].node => i = j
  <2>1. onPath = OnStack(stack) /\ \A i, j \in 1 .. n : stack[i].node = stack[j].node => i = j
    BY <1>2, <1>11 DEF PathIsChain, OnStack, n
  <2>2. \A i \in 1 .. n - 1 : i \in 1 .. n /\ n \in 1 .. n /\ i # n
    BY <1>3
  <2>3. stack[n].node \notin OnStack(stack')
    BY <1>4, <2>1, <2>2 DEF OnStack
  <2>4. onPath' = OnStack(stack')
    BY <1>1, <1>5, <2>1, <2>3
  <2>5. \A i, j \in 1 .. n - 1 : stack'[i].node = stack'[j].node => i = j
    BY <1>4, <2>1, <2>2
  <2> QED
    BY <1>4, <2>4, <2>5
<1>12. PathIsChain'
  BY <1>8, <1>9, <1>10, <1>11 DEF PathIsChain, OnStack
<1> QED
  BY <1>6, <1>7, <1>12 DEF IInv

LEMMA PhaseKeeps == ASSUME IInv, NextPhase PROVE IInv'
<1>1. /\ stack = <<>> /\ UNCHANGED <<inputVars, walkVars, cycles, tooDeep>>
      /\ phase' \in {"depth", "done"} /\ roots' \in {allRoots, {}}
  BY DEF NextPhase
<1>2. TypeOK'
  BY <1>1 DEF IInv, TypeOK, inputVars, walkVars
<1>3. stack' = <<>> /\ Len(<<>>) = 0 /\ OnStack(<<>>) = {}
  BY <1>1 DEF walkVars, OnStack
<1>4. onPath' = {}
  BY <1>1, <1>3 DEF IInv, walkVars
<1>5. PathIsChain'
  BY <1>3, <1>4 DEF PathIsChain
<1> QED
  BY <1>2, <1>4, <1>5 DEF IInv

LEMMA StepInvariant == IInv /\ [Next]_vars => IInv'
<1> SUFFICES ASSUME IInv, [Next]_vars PROVE IInv'
  OBVIOUS
<1>1. ASSUME NEW r \in Node, StartRoot(r) PROVE IInv'
  BY <1>1, StartKeeps
<1>2. CASE FollowForCycles
  BY <1>2, CyclesKeep
<1>3. CASE FollowForDepth
  BY <1>3, DepthKeeps
<1>4. CASE Return
  BY <1>4, ReturnKeeps
<1>5. CASE NextPhase
  BY <1>5, PhaseKeeps
<1>6. CASE UNCHANGED vars
  BY <1>6 DEF vars, inputVars, walkVars, IInv, TypeOK, PathIsChain, MayRepeat, OnStack
<1> QED
  BY <1>1, <1>2, <1>3, <1>4, <1>5, <1>6 DEF Next

LEMMA Invariant == Spec => []IInv
  BY InitInvariant, StepInvariant, PTL DEF Spec
-----------------------------------------------------------------------------
(* The theorems.                                                           *)

(***************************************************************************)
(* Every part of the walks has its type, whatever the calls form: what is  *)
(* reported is a root and a path of nodes.                                 *)
(***************************************************************************)
THEOREM TypeCorrect == Spec => []TypeOK
<1>1. IInv => TypeOK
  BY DEF IInv
<1> QED
  BY <1>1, Invariant, PTL

(***************************************************************************)
(* The recursion is a chain of calls from its root, without a repeat where *)
(* the code relies on there being none.                                    *)
(***************************************************************************)
THEOREM ChainsOnly == Spec => []PathIsChain
<1>1. IInv => PathIsChain
  BY DEF IInv
<1> QED
  BY <1>1, Invariant, PTL
-----------------------------------------------------------------------------
(***************************************************************************)
(* The depth diagnostics are exact.  A choice of call sites along a deep   *)
(* chain still awaits its report while its root is to be walked, or while  *)
(* some frame has yet to come to the site chosen there.  Reports count the *)
(* choices that await nothing.                                             *)
(***************************************************************************)
Awaits(p, w) ==
  \/ p[1] \in roots
  \/ \E k \in 1 .. Len(stack) :
       /\ \A j \in 1 .. k : p[j] = stack[j].node
       /\ \A j \in 1 .. k - 1 : w[j] = stack[j].next - 1
       /\ w[k] >= stack[k].next

Settled(p) == {w \in Ways(p) : ~Awaits(p, w)}

\* The call site by which the walk left each frame but the innermost.
LeftBySite ==
  \A j \in 1 .. Len(stack) - 1 :
    stack[j].next - 1 \in CallSites(stack[j].node, stack[j + 1].node)

WalkOK ==
  /\ roots \subseteq allRoots
  /\ stack # <<>> => root \in allRoots /\ root \notin roots
  /\ LeftBySite
  /\ phase = "cycles" => tooDeep = <<>>
  /\ phase = "depth" => Len(stack) <= Limit
  /\ phase = "done" => stack = <<>> /\ roots = {}

ReportsCount ==
  phase # "cycles" => \A p \in DeepChains : Reports(p) = Cardinality(Settled(p))

ReportsAreDeep == \A i \in 1 .. Len(tooDeep) : tooDeep[i].path \in DeepChains

DInv == IInv /\ WalkOK /\ ReportsAreDeep /\ ReportsCount

\* The frames of a stack.
LEMMA Frames ==
  ASSUME IInv
  PROVE  /\ stack \in StackType /\ Len(stack) \in Nat
         /\ \A i \in 1 .. Len(stack) : /\ stack[i] \in FrameType
                                       /\ stack[i].node \in Node /\ stack[i].next \in Nat \ {0}
         /\ stack # <<>> => Len(stack) \in Nat \ {0} /\ Len(stack) \in 1 .. Len(stack)
                            /\ stack[1].node = root
<1>1. stack \in StackType /\ PathIsChain
  BY DEF IInv, TypeOK, StackType, FrameType
<1>2. Len(stack) \in Nat /\ \A i \in 1 .. Len(stack) : stack[i] \in FrameType
  BY <1>1, LenProperties, ElementOfSeq DEF StackType
<1>3. stack # <<>> => Len(stack) \in Nat \ {0}
  BY <1>1, EmptySeq DEF StackType
<1>4. stack # <<>> => stack[1].node = root
  BY <1>1 DEF PathIsChain
<1> QED
  BY <1>1, <1>2, <1>3, <1>4 DEF FrameType

LEMMA MovedFrames ==
  ASSUME IInv, stack # <<>>
  PROVE  /\ NextEdge(stack) \in StackType /\ Len(NextEdge(stack)) = Len(stack)
         /\ \A i \in 1 .. Len(stack) - 1 : NextEdge(stack)[i] = stack[i]
         /\ NextEdge(stack)[Len(stack)].node = stack[Len(stack)].node
         /\ NextEdge(stack)[Len(stack)].next = stack[Len(stack)].next + 1
<1> DEFINE n == Len(stack)
           t == [stack[n] EXCEPT !.next = @ + 1]
<1>1. stack \in StackType /\ n \in Nat \ {0} /\ stack[n] \in FrameType
  BY Frames
<1>2. t \in FrameType /\ t.node = stack[n].node /\ t.next = stack[n].next + 1
  BY <1>1 DEF FrameType
<1>3. NextEdge(stack) = [stack EXCEPT ![n] = t]
  BY DEF NextEdge
<1> HIDE DEF t
<1>4. n \in 1 .. Len(stack)
  BY <1>1
<1>5. /\ NextEdge(stack) \in StackType /\ Len(NextEdge(stack)) = Len(stack)
      /\ \A i \in 1 .. Len(stack) : NextEdge(stack)[i] = IF i = n THEN t ELSE stack[i]
  BY <1>1, <1>2, <1>3, <1>4, ExceptSeq DEF StackType
<1> QED
  BY <1>1, <1>2, <1>4, <1>5

LEMMA PushedFrames ==
  ASSUME IInv, HasEdge, Descend
  PROVE  /\ Len(stack') = Len(stack) + 1
         /\ \A i \in 1 .. Len(stack) - 1 : stack'[i] = stack[i]
         /\ stack'[Len(stack)].node = stack[Len(stack)].node
         /\ stack'[Len(stack)].next = stack[Len(stack)].next + 1
         /\ stack'[Len(stack) + 1] = [node |-> Child, next |-> 1]
<1> DEFINE s == NextEdge(stack)
           f == [node |-> Child, next |-> 1]
<1>1. stack # <<>> /\ Len(stack) \in Nat \ {0}
  BY Frames DEF HasEdge
<1>2. /\ s \in StackType /\ Len(s) = Len(stack)
      /\ \A i \in 1 .. Len(stack) - 1 : s[i] = stack[i]
      /\ s[Len(stack)].node = stack[Len(stack)].node
      /\ s[Len(stack)].next = stack[Len(stack)].next + 1
  BY <1>1, MovedFrames
<1>3. f \in FrameType
  BY ChildType DEF FrameType, IInv
<1>4. stack' = Append(s, f)
  BY DEF Descend, Push
<1> HIDE DEF s, f
<1>5. /\ Len(stack') = Len(s) + 1
      /\ \A i \in 1 .. Len(s) : stack'[i] = s[i]
      /\ stack'[Len(s) + 1] = f
  BY <1>2, <1>3, <1>4 DEF StackType
<1> QED
  BY <1>1, <1>2, <1>5 DEF f

LEMMA PoppedFrames ==
  ASSUME IInv, Return
  PROVE  /\ Len(stack') = Len(stack) - 1
         /\ \A i \in 1 .. Len(stack) - 1 : stack'[i] = stack[i]
<1> DEFINE n == Len(stack)
<1>1. /\ stack # <<>> /\ stack' = SubSeq(stack, 1, n - 1)
  BY DEF Return
<1>2. n \in Nat \ {0} /\ \A i \in 1 .. n - 1 : stack[i] \in FrameType
  BY <1>1, Frames
<1> HIDE DEF n
<1>3. /\ Len(SubSeq(stack, 1, n - 1)) = IF 1 <= n - 1 THEN n - 1 - 1 + 1 ELSE 0
      /\ \A i \in 1 .. n - 1 - 1 + 1 : SubSeq(stack, 1, n - 1)[i] = stack[1 + i - 1]
  BY <1>2, SubSeqProperties
<1>4. Len(stack') = n - 1 /\ \A i \in 1 .. n - 1 : stack'[i] = stack[i]
  BY <1>1, <1>2, <1>3
<1> QED
  BY <1>4 DEF n

LEMMA ChildIsCalled ==
  ASSUME IInv, HasEdge
  PROVE  Top.next \in CallSites(Top.node, Child) /\ Top = stack[Len(stack)] /\ stack # <<>>
  BY ChildType DEF CallSites, IInv

\* The steps keep the record of the sites the walk went by.
LEMMA SkipSites ==
  ASSUME IInv, stack # <<>>, LeftBySite, Skip, graph' = graph PROVE LeftBySite'
<1>1. /\ Len(stack') = Len(stack) /\ \A i \in 1 .. Len(stack) - 1 : stack'[i] = stack[i]
      /\ stack'[Len(stack)].node = stack[Len(stack)].node
  BY MovedFrames DEF Skip
<1>2. Len(stack) \in Nat
  BY Frames
<1>3. \A u, v : CallSites(u, v)' = CallSites(u, v)
  BY DEF CallSites
<1>4. ASSUME NEW j \in 1 .. Len(stack) - 1
      PROVE  stack'[j].next - 1 \in CallSites(stack'[j].node, stack'[j + 1].node)
  <2>1. stack'[j] = stack[j] /\ (j + 1 \in 1 .. Len(stack) - 1 \/ j + 1 = Len(stack))
    BY <1>1, <1>2
  <2>2. stack'[j + 1].node = stack[j + 1].node
    BY <1>1, <2>1
  <2> QED
    BY <2>1, <2>2 DEF LeftBySite
<1> QED
  BY <1>1, <1>3, <1>4 DEF LeftBySite

LEMMA DescendSites ==
  ASSUME IInv, HasEdge, LeftBySite, Descend, graph' = graph PROVE LeftBySite'
<1> DEFINE n == Len(stack)
<1>1. /\ Len(stack') = n + 1
      /\ \A i \in 1 .. n - 1 : stack'[i] = stack[i]
      /\ stack'[n].node = stack[n].node /\ stack'[n].next = stack[n].next + 1
      /\ stack'[n + 1].node = Child
  BY PushedFrames
<1>2. n \in Nat \ {0} /\ stack[n].next \in Nat /\ stack[n].next \in CallSites(stack[n].node, Child)
  BY Frames, ChildIsCalled
<1>3. \A u, v : CallSites(u, v)' = CallSites(u, v)
  BY DEF CallSites
<1>4. ASSUME NEW j \in 1 .. n
      PROVE  stack'[j].next - 1 \in CallSites(stack'[j].node, stack'[j + 1].node)
  <2>1. CASE j = n
    BY <1>1, <1>2, <2>1
  <2>2. CASE j # n
    <3>1. j \in 1 .. n - 1 /\ (j + 1 \in 1 .. n - 1 \/ j + 1 = n)
      BY <1>2, <2>2
    <3>2. stack'[j] = stack[j] /\ stack'[j + 1].node = stack[j + 1].node
      BY <1>1, <3>1
    <3> QED
      BY <3>1, <3>2 DEF LeftBySite
  <2> QED
    BY <2>1, <2>2
<1>5. Len(stack') - 1 = n
  BY <1>1, <1>2
<1> QED
  BY <1>3, <1>4, <1>5 DEF LeftBySite

LEMMA ReturnSites ==
  ASSUME IInv, LeftBySite, Return PROVE LeftBySite'
<1>1. /\ Len(stack') = Len(stack) - 1 /\ \A i \in 1 .. Len(stack) - 1 : stack'[i] = stack[i]
  BY PoppedFrames
<1>2. Len(stack) \in Nat /\ graph' = graph
  BY Frames DEF Return, inputVars
<1>3. \A u, v : CallSites(u, v)' = CallSites(u, v)
  BY <1>2 DEF CallSites
<1>4. ASSUME NEW j \in 1 .. Len(stack) - 1 - 1
      PROVE  stack'[j].next - 1 \in CallSites(stack'[j].node, stack'[j + 1].node)
  <2>1. j \in 1 .. Len(stack) - 1 /\ j + 1 \in 1 .. Len(stack) - 1
    BY <1>2
  <2> QED
    BY <1>1, <2>1 DEF LeftBySite
<1> QED
  BY <1>1, <1>3, <1>4 DEF LeftBySite
-----------------------------------------------------------------------------
(* Which choices of call sites await their report.                         *)

\* A choice names, for every transition, one of its call sites.
LEMMA WayFacts ==
  ASSUME IInv, NEW p \in DeepChains, NEW w \in Ways(p)
  PROVE  /\ w \in [1 .. Limit -> Nat \ {0}]
         /\ \A i \in 1 .. Limit : /\ w[i] \in CallSites(p[i], p[i + 1])
                                  /\ w[i] \in Nat \ {0} /\ w[i] <= Len(graph[p[i]])
                                  /\ graph[p[i]][w[i]] = p[i + 1]
<1>1. \A i \in 1 .. Limit : i + 1 \in 1 .. Limit + 1 /\ i \in 1 .. Limit + 1
  BY LimitAssumption
<1>2. \A i \in 1 .. Limit : w[i] \in CallSites(p[i], p[i + 1])
  BY DEF Ways
<1>3. \A i \in 1 .. Limit : w[i] \in 1 .. Len(graph[p[i]]) /\ graph[p[i]][w[i]] = p[i + 1]
  BY <1>2 DEF CallSites
<1>4. \A i \in 1 .. Limit : Len(graph[p[i]]) \in Nat
  BY <1>1 DEF IInv, TypeOK, DeepChains
<1>5. \A i \in 1 .. Limit : w[i] \in Nat \ {0} /\ w[i] <= Len(graph[p[i]])
  BY <1>3, <1>4
<1>6. w \in [1 .. Limit -> Nat \ {0}]
  BY <1>5 DEF Ways
<1> QED
  BY <1>2, <1>3, <1>5, <1>6

LEMMA SameReference ==
  ASSUME UNCHANGED inputVars
  PROVE  DeepChains' = DeepChains /\ \A p : Ways(p)' = Ways(p)
BY DEF inputVars, DeepChains, Ways, CallSites, IsChain, IsSimple

\* A step after which the same choices await, and that reports nothing.
LEMMA CountKept ==
  ASSUME ReportsAreDeep, ReportsCount, phase # "cycles", phase' # "cycles",
         UNCHANGED inputVars, tooDeep' = tooDeep,
         \A p \in DeepChains : \A w \in Ways(p) : Awaits(p, w)' <=> Awaits(p, w)
  PROVE  ReportsAreDeep' /\ ReportsCount'
<1>1. \A p : Reports(p)' = Reports(p)
  BY DEF Reports
<1>2. \A p \in DeepChains : Settled(p)' = Settled(p)
  BY SameReference DEF Settled
<1>3. ReportsAreDeep'
  BY SameReference DEF ReportsAreDeep
<1>4. ReportsCount'
  BY <1>1, <1>2, SameReference DEF ReportsCount
<1> QED
  BY <1>3, <1>4

LEMMA StartAwaits ==
  ASSUME DInv, NEW r \in Node, StartRoot(r), NEW p \in DeepChains, NEW w \in Ways(p)
  PROVE  Awaits(p, w)' <=> Awaits(p, w)
<1>1. /\ r \in roots /\ roots' = roots \ {r} /\ stack = <<>> /\ Len(stack) = 0
      /\ stack' = Push(<<>>, r)
  BY DEF StartRoot
<1>2. Len(stack') = 1 /\ stack'[1] = [node |-> r, next |-> 1]
  BY <1>1 DEF Push
<1>3. w[1] \in Nat \ {0}
  BY WayFacts, LimitAssumption DEF DInv
<1>4. Awaits(p, w) <=> p[1] \in roots
  BY <1>1 DEF Awaits
<1>5. Awaits(p, w)' <=> p[1] \in roots' \/ p[1] = r
  BY <1>2, <1>3 DEF Awaits
<1> QED
  BY <1>1, <1>4, <1>5

LEMMA ReturnAwaits ==
  ASSUME DInv, Return, phase = "depth", NEW p \in DeepChains, NEW w \in Ways(p)
  PROVE  Awaits(p, w)' <=> Awaits(p, w)
<1> DEFINE n == Len(stack)
<1>1. IInv /\ WalkOK
  BY DEF DInv
<1>2. /\ Len(stack') = n - 1 /\ (\A i \in 1 .. n - 1 : stack'[i] = stack[i])
      /\ roots' = roots
  BY <1>1, PoppedFrames DEF Return
<1>3. /\ n \in Nat \ {0} /\ n <= Limit /\ stack[n].next > Len(graph[stack[n].node])
      /\ stack[n].next \in Nat
  <2>1. n \in Nat \ {0} /\ stack[n].next \in Nat /\ stack[n].node \in Node
    BY <1>1, Frames DEF Return
  <2>2. n <= Limit
    BY <1>1 DEF WalkOK
  <2>3. Len(graph[stack[n].node]) \in Nat
    BY <1>1, <2>1 DEF IInv, TypeOK
  <2>4. ~ (stack[n].next <= Len(graph[stack[n].node]))
    BY DEF Return, HasEdge, Top
  <2> QED
    BY <2>1, <2>2, <2>3, <2>4
<1>4. ASSUME \A j \in 1 .. n : p[j] = stack[j].node, w[n] >= stack[n].next PROVE FALSE
  <2>1. n \in 1 .. Limit /\ n \in 1 .. n
    BY <1>3, LimitAssumption
  <2>2. w[n] \in Nat /\ w[n] <= Len(graph[stack[n].node]) /\ Len(graph[stack[n].node]) \in Nat
    <3>1. w[n] \in Nat /\ w[n] <= Len(graph[p[n]]) /\ p[n] = stack[n].node
      BY <1>1, <1>4, <2>1, WayFacts
    <3>2. stack[n].node \in Node
      BY <1>1, <1>3, <2>1, Frames
    <3>3. Len(graph[stack[n].node]) \in Nat
      BY <1>1, <3>2 DEF IInv, TypeOK
    <3> QED
      BY <3>1, <3>3
  <2> QED
    BY <1>3, <1>4, <2>2
<1> HIDE DEF n
<1>5. ASSUME NEW k \in 1 .. n - 1
      PROVE  /\ (\A j \in 1 .. k : p[j] = stack'[j].node)
                <=> (\A j \in 1 .. k : p[j] = stack[j].node)
             /\ (\A j \in 1 .. k - 1 : w[j] = stack'[j].next - 1)
                <=> (\A j \in 1 .. k - 1 : w[j] = stack[j].next - 1)
             /\ stack'[k] = stack[k]
  <2>1. \A j \in 1 .. k : j \in 1 .. n - 1
    BY <1>3
  <2>2. \A j \in 1 .. k - 1 : j \in 1 .. n - 1
    BY <1>3
  <2> QED
    BY <1>2, <2>1, <2>2
<1>6. \A k \in 1 .. n : k \in 1 .. n - 1 \/ k = n
  BY <1>3
<1>7. \A k \in 1 .. n - 1 : k \in 1 .. n
  BY <1>3
<1> QED
  BY <1>2, <1>4, <1>5, <1>6, <1>7 DEF Awaits, n

\* The chain that a choice has in common with the stack, and goes past it.
Meets(p, w) ==
  /\ \A j \in 1 .. Len(stack) : p[j] = stack[j].node
  /\ \A j \in 1 .. Len(stack) - 1 : w[j] = stack[j].next - 1
  /\ w[Len(stack)] = stack[Len(stack)].next

\* Moving on in the innermost frame settles the choices of that call site.
LEMMA SkipAwaits ==
  ASSUME DInv, stack # <<>>, phase = "depth", Skip, roots' = roots,
         NEW p \in DeepChains, NEW w \in Ways(p)
  PROVE  /\ Awaits(p, w) <=> Awaits(p, w)' \/ Meets(p, w)
         /\ ~ (Awaits(p, w)' /\ Meets(p, w))
<1> DEFINE n == Len(stack)
           Same(k) == \A j \in 1 .. k : p[j] = stack[j].node
           By(k) == \A j \in 1 .. k - 1 : w[j] = stack[j].next - 1
<1>1. IInv /\ WalkOK
  BY DEF DInv
<1>2. /\ n \in Nat \ {0} /\ n <= Limit /\ stack[n].next \in Nat /\ w[n] \in Nat
      /\ stack[1].node = root /\ root \notin roots
  <2>1. n \in Nat \ {0} /\ stack[n].next \in Nat /\ n <= Limit
        /\ stack[1].node = root /\ root \notin roots
    BY <1>1, Frames DEF WalkOK
  <2>2. n \in 1 .. Limit
    BY <2>1, LimitAssumption
  <2> QED
    BY <1>1, <2>1, <2>2, WayFacts
<1>3. /\ Len(stack') = n /\ (\A i \in 1 .. n - 1 : stack'[i] = stack[i])
      /\ stack'[n].node = stack[n].node /\ stack'[n].next = stack[n].next + 1
  BY <1>1, MovedFrames DEF Skip
<1> HIDE DEF n
<1>4. ASSUME NEW k \in 1 .. n
      PROVE  /\ (\A j \in 1 .. k : p[j] = stack'[j].node) <=> Same(k)
             /\ (\A j \in 1 .. k - 1 : w[j] = stack'[j].next - 1) <=> By(k)
  <2>1. \A j \in 1 .. k : j \in 1 .. n - 1 \/ j = n
    BY <1>2
  <2>2. \A j \in 1 .. k - 1 : j \in 1 .. n - 1
    BY <1>2
  <2> QED
    BY <1>3, <2>1, <2>2
<1>5. Awaits(p, w)' <=> p[1] \in roots \/ \E k \in 1 .. n : Same(k) /\ By(k) /\ w[k] >= stack'[k].next
  BY <1>3, <1>4 DEF Awaits
<1>6. Awaits(p, w) <=> p[1] \in roots \/ \E k \in 1 .. n : Same(k) /\ By(k) /\ w[k] >= stack[k].next
  BY DEF Awaits, n
<1>7. Meets(p, w) <=> Same(n) /\ By(n) /\ w[n] = stack[n].next
  BY DEF Meets, n
<1>8. \A k \in 1 .. n : k = n \/ stack'[k].next = stack[k].next
  <2>1. \A k \in 1 .. n : k \in 1 .. n - 1 \/ k = n
    BY <1>2
  <2> QED
    BY <1>3, <2>1
<1>9. n \in 1 .. n /\ 1 \in 1 .. n
  BY <1>2
<1>10. w[n] >= stack[n].next <=> w[n] >= stack'[n].next \/ w[n] = stack[n].next
  BY <1>2, <1>3
<1>11. ASSUME Meets(p, w), Awaits(p, w)' PROVE FALSE
  <2>1. Same(n) /\ By(n) /\ w[n] = stack[n].next
    BY <1>7, <1>11
  <2>2. p[1] \notin roots
    BY <1>2, <1>9, <2>1
  <2>3. PICK k \in 1 .. n : w[k] >= stack'[k].next
    BY <1>5, <1>11, <2>2
  <2>4. CASE k = n
    BY <1>2, <1>3, <2>1, <2>3, <2>4
  <2>5. CASE k # n
    <3>1. k \in 1 .. n - 1
      BY <1>2, <2>5
    <3>2. w[k] = stack[k].next - 1 /\ stack'[k].next = stack[k].next
      BY <1>3, <2>1, <3>1
    <3>3. stack[k].next \in Nat
      BY <1>1, Frames DEF n
    <3> QED
      BY <2>3, <3>2, <3>3
  <2> QED
    BY <2>4, <2>5
<1> HIDE DEF Same, By
<1>12. Awaits(p, w) <=> Awaits(p, w)' \/ Meets(p, w)
  BY <1>5, <1>6, <1>7, <1>8, <1>9, <1>10
<1> QED
  BY <1>11, <1>12

\* A choice that goes by the site of the call goes to its callee.
LEMMA MeetsChild ==
  ASSUME IInv, HasEdge, Len(stack) <= Limit, NEW p \in DeepChains, NEW w \in Ways(p), Meets(p, w)
  PROVE  p[Len(stack) + 1] = Child
<1> DEFINE n == Len(stack)
<1>1. n \in Nat \ {0} /\ n \in 1 .. Limit /\ n \in 1 .. n
  <2>1. n \in Nat \ {0}
    BY Frames DEF HasEdge
  <2> QED
    BY <2>1, LimitAssumption
<1>2. p[n] = stack[n].node /\ w[n] = stack[n].next
  BY <1>1 DEF Meets
<1>3. graph[p[n]][w[n]] = p[n + 1]
  BY <1>1, WayFacts
<1>4. Child = graph[stack[n].node][stack[n].next]
  BY DEF Child, Top
<1> QED
  BY <1>2, <1>3, <1>4

LEMMA DescendAwaits ==
  ASSUME DInv, HasEdge, phase = "depth", Descend, roots' = roots, Len(stack) + 1 <= Limit,
         NEW p \in DeepChains, NEW w \in Ways(p)
  PROVE  Awaits(p, w)' <=> Awaits(p, w)
<1> DEFINE n == Len(stack)
           Same(k) == \A j \in 1 .. k : p[j] = stack[j].node
           By(k) == \A j \in 1 .. k - 1 : w[j] = stack[j].next - 1
<1>1. IInv /\ WalkOK
  BY DEF DInv
<1>2. n \in Nat \ {0} /\ n + 1 <= Limit /\ n <= Limit /\ stack[n].next \in Nat
  <2>1. n \in Nat \ {0} /\ stack[n].next \in Nat
    BY <1>1, Frames DEF HasEdge
  <2> QED
    BY <2>1, LimitAssumption
<1>3. w[n] \in Nat /\ w[n + 1] \in Nat \ {0}
  <2>1. n \in 1 .. Limit /\ n + 1 \in 1 .. Limit
    BY <1>2, LimitAssumption
  <2> QED
    BY <1>1, <2>1, WayFacts
<1>4. Meets(p, w) => p[n + 1] = Child
  BY <1>1, <1>2, MeetsChild
<1>5. /\ Len(stack') = n + 1 /\ (\A i \in 1 .. n - 1 : stack'[i] = stack[i])
      /\ stack'[n].node = stack[n].node /\ stack'[n].next = stack[n].next + 1
      /\ stack'[n + 1].node = Child /\ stack'[n + 1].next = 1
  BY <1>1, PushedFrames
<1>6. Meets(p, w) <=> Same(n) /\ By(n) /\ w[n] = stack[n].next
  BY DEF Meets
<1> HIDE DEF n
<1>7. ASSUME NEW k \in 1 .. n
      PROVE  /\ (\A j \in 1 .. k : p[j] = stack'[j].node) <=> Same(k)
             /\ (\A j \in 1 .. k - 1 : w[j] = stack'[j].next - 1) <=> By(k)
  <2>1. \A j \in 1 .. k : j \in 1 .. n - 1 \/ j = n
    BY <1>2
  <2>2. \A j \in 1 .. k - 1 : j \in 1 .. n - 1
    BY <1>2
  <2> QED
    BY <1>5, <2>1, <2>2
<1>8. /\ (\A j \in 1 .. n + 1 : p[j] = stack'[j].node) <=> Same(n) /\ p[n + 1] = Child
      /\ (\A j \in 1 .. n : w[j] = stack'[j].next - 1) <=> By(n) /\ w[n] = stack[n].next
  <2>1. \A j \in 1 .. n + 1 : j \in 1 .. n - 1 \/ j = n \/ j = n + 1
    BY <1>2
  <2>2. \A j \in 1 .. n : j \in 1 .. n - 1 \/ j = n
    BY <1>2
  <2>3. \A j \in 1 .. n - 1 : j \in 1 .. n /\ j \in 1 .. n + 1
    BY <1>2
  <2>4. n \in 1 .. n /\ n \in 1 .. n + 1 /\ n + 1 \in 1 .. n + 1
    BY <1>2
  <2>5. (\A j \in 1 .. n + 1 : p[j] = stack'[j].node) <=> Same(n) /\ p[n + 1] = Child
    BY <1>5, <2>1, <2>2, <2>3, <2>4
  <2>6. /\ stack'[n].next - 1 = stack[n].next
        /\ \A j \in 1 .. n - 1 : stack'[j].next - 1 = stack[j].next - 1
    BY <1>2, <1>5
  <2>7. (\A j \in 1 .. n : w[j] = stack'[j].next - 1) <=> By(n) /\ w[n] = stack[n].next
    <3>1. ASSUME \A j \in 1 .. n : w[j] = stack'[j].next - 1
          PROVE  By(n) /\ w[n] = stack[n].next
      BY <2>3, <2>4, <2>6, <3>1
    <3>2. ASSUME By(n), w[n] = stack[n].next, NEW j \in 1 .. n
          PROVE  w[j] = stack'[j].next - 1
      BY <2>2, <2>6, <3>2
    <3> QED
      BY <3>1, <3>2
  <2> QED
    BY <2>5, <2>7
<1>9. Awaits(p, w) <=> p[1] \in roots \/ \E k \in 1 .. n : Same(k) /\ By(k) /\ w[k] >= stack[k].next
  BY DEF Awaits, n
<1>10. Awaits(p, w)' <=> \/ p[1] \in roots
                         \/ \E k \in 1 .. n : Same(k) /\ By(k) /\ w[k] >= stack'[k].next
                         \/ Meets(p, w)
  <2>1. \A k \in 1 .. n + 1 : k \in 1 .. n \/ k = n + 1
    BY <1>2
  <2>2. (\A k \in 1 .. n : k \in 1 .. n + 1) /\ n + 1 \in 1 .. n + 1 /\ n + 1 - 1 = n
    BY <1>2
  <2>3. w[n + 1] >= stack'[n + 1].next
    BY <1>3, <1>5
  <2> DEFINE New(k) == /\ \A j \in 1 .. k : p[j] = stack'[j].node
                       /\ \A j \in 1 .. k - 1 : w[j] = stack'[j].next - 1
                       /\ w[k] >= stack'[k].next
  <2>6. Awaits(p, w)' <=> p[1] \in roots \/ \E k \in 1 .. n + 1 : New(k)
    BY <1>5 DEF Awaits
  <2>7. New(n + 1) <=> Meets(p, w)
    <3>1. New(n + 1) <=> /\ \A j \in 1 .. n + 1 : p[j] = stack'[j].node
                         /\ \A j \in 1 .. n : w[j] = stack'[j].next - 1
      <4> DEFINE m == n + 1
      <4>1. 1 .. m - 1 = 1 .. n
        BY <1>2
      <4>2. w[m] >= stack'[m].next
        BY <2>3
      <4> HIDE DEF m
      <4>3. New(m) <=> /\ \A j \in 1 .. m : p[j] = stack'[j].node
                       /\ \A j \in 1 .. n : w[j] = stack'[j].next - 1
        BY <4>1, <4>2
      <4> QED
        BY <4>3 DEF m
    <3> HIDE DEF New, Same, By
    <3> QED
      BY <1>4, <1>6, <1>8, <3>1
  <2>8. \A k \in 1 .. n : New(k) <=> Same(k) /\ By(k) /\ w[k] >= stack'[k].next
    <3> HIDE DEF Same, By
    <3> QED
      BY <1>7
  <2> HIDE DEF Same, By, New
  <2> QED
    BY <2>1, <2>2, <2>6, <2>7, <2>8
<1>11. \A k \in 1 .. n : k = n \/ stack'[k].next = stack[k].next
  <2>1. \A k \in 1 .. n : k \in 1 .. n - 1 \/ k = n
    BY <1>2
  <2> QED
    BY <1>5, <2>1
<1>12. n \in 1 .. n
  BY <1>2
<1>13. w[n] >= stack[n].next <=> w[n] >= stack'[n].next \/ w[n] = stack[n].next
  BY <1>2, <1>3, <1>5
<1> HIDE DEF Same, By
<1> QED
  BY <1>6, <1>9, <1>10, <1>11, <1>12, <1>13

\* No simple chain goes back onto the path.
LEMMA RefusedIsNotSimple ==
  ASSUME DInv, HasEdge, phase = "depth", ~Follows(Child),
         NEW p \in DeepChains, NEW w \in Ways(p), Meets(p, w)
  PROVE  FALSE
<1> DEFINE n == Len(stack)
<1>1. IInv /\ WalkOK /\ feature = "nested" /\ Child \in onPath
  BY DEF DInv, Follows
<1>2. n \in Nat \ {0} /\ n <= Limit
  BY <1>1, Frames DEF WalkOK, HasEdge
<1>3. p[n + 1] = Child
  BY <1>1, <1>2, MeetsChild
<1>4. PICK j \in 1 .. n : stack[j].node = Child
  BY <1>1 DEF IInv, OnStack
<1>5. p[j] = Child
  BY <1>4 DEF Meets
<1>6. j \in 1 .. Limit + 1 /\ n + 1 \in 1 .. Limit + 1 /\ j # n + 1
  BY <1>2, LimitAssumption
<1>7. Len(p) = Limit + 1
  <2>1. Limit + 1 \in Nat /\ p \in [1 .. Limit + 1 -> Node]
    BY LimitAssumption DEF DeepChains
  <2>2. p \in Seq(Node)
    BY <2>1, SeqDef
  <2> QED
    BY <2>1, <2>2, LenProperties
<1>8. IsSimple(p)
  BY <1>1 DEF DeepChains
<1> QED
  BY <1>3, <1>5, <1>6, <1>7, <1>8 DEF IsSimple
-----------------------------------------------------------------------------
(* What a report settles.                                                  *)

\* Finitely many choices lead along a chain.
LEMMA FiniteFunctions ==
  ASSUME NEW S, IsFiniteSet(S), NEW T, IsFiniteSet(T)
  PROVE  IsFiniteSet([S -> T])
<1> DEFINE pairs == [f \in [S -> T] |-> {<<x, f[x]>> : x \in S}]
<1>1. IsFiniteSet(SUBSET (S \X T))
  BY FS_Product, FS_SUBSET
<1>2. pairs \in [[S -> T] -> SUBSET (S \X T)]
  OBVIOUS
<1>3. \A f, g \in [S -> T] : pairs[f] = pairs[g] => f = g
  <2> TAKE f, g \in [S -> T]
  <2> HAVE pairs[f] = pairs[g]
  <2>1. {<<x, f[x]>> : x \in S} = {<<x, g[x]>> : x \in S}
    OBVIOUS
  <2>2. ASSUME NEW x \in S PROVE f[x] = g[x]
    <3>1. <<x, f[x]>> \in {<<y, g[y]>> : y \in S}
      BY <2>1
    <3> QED
      BY <3>1
  <2> QED
    BY <2>2
<1>4. pairs \in Injection([S -> T], SUBSET (S \X T))
  BY <1>2, <1>3 DEF Injection, IsInjective
<1> QED
  BY <1>1, <1>4, FS_Injection

LEMMA FiniteWays == ASSUME IInv, NEW p \in DeepChains PROVE IsFiniteSet(Ways(p))
<1> DEFINE I == 1 .. Limit
           sites == [i \in I |-> CallSites(p[i], p[i + 1])]
           S == {sites[i] : i \in I}
<1>1. IsFiniteSet(I)
  BY LimitAssumption, FS_Interval
<1>2. IsFiniteSet(S)
  <2>1. sites \in Surjection(I, S)
    BY DEF Surjection
  <2> HIDE DEF sites, S, I
  <2> QED
    BY <1>1, <2>1, FS_Surjection
<1>3. \A x \in S : IsFiniteSet(x)
  <2> SUFFICES ASSUME NEW i \in I PROVE IsFiniteSet(CallSites(p[i], p[i + 1]))
    OBVIOUS
  <2>1. i \in 1 .. Limit + 1
    BY LimitAssumption
  <2>2. Len(graph[p[i]]) \in Nat
    BY <2>1 DEF IInv, TypeOK, DeepChains
  <2>3. IsFiniteSet(1 .. Len(graph[p[i]]))
    BY <2>2, FS_Interval
  <2> QED
    BY <2>3, FS_Subset DEF CallSites
<1>4. IsFiniteSet(UNION S)
  <2> HIDE DEF S
  <2> QED
    BY <1>2, <1>3, FS_UNION
<1>5. UNION S = UNION {CallSites(p[i], p[i + 1]) : i \in I}
  OBVIOUS
<1>6. IsFiniteSet([I -> UNION S])
  <2> HIDE DEF I, S
  <2> QED
    BY <1>1, <1>4, FiniteFunctions
<1>7. Ways(p) \subseteq [I -> UNION S]
  BY <1>5 DEF Ways
<1> QED
  BY <1>6, <1>7, FS_Subset

\* The chain that is too deep, and the call sites the walk went by.
Deepest  == Append(Path, Child)
ItsSites == [j \in 1 .. Limit |-> IF j < Len(stack) THEN stack[j].next - 1 ELSE stack[j].next]

LEMMA DeepestFacts ==
  ASSUME DInv, HasEdge, phase = "depth", Follows(Child), Exceeds(Len(stack) + 1)
  PROVE  /\ Len(stack) = Limit
         /\ Deepest \in DeepChains /\ Deepest[1] = root
         /\ ItsSites \in Ways(Deepest)
         /\ Meets(Deepest, ItsSites)
         /\ \A p \in DeepChains : \A w \in Ways(p) : Meets(p, w) => p = Deepest /\ w = ItsSites
<1> DEFINE n == Len(stack)
<1>1. IInv /\ WalkOK /\ feature \in Feature
  BY DEF DInv, IInv, TypeOK
<1>2. /\ n = Limit /\ n \in Nat \ {0} /\ n \in 1 .. n
      /\ \A i \in 1 .. n : stack[i].node \in Node /\ stack[i].next \in Nat \ {0}
      /\ stack[1].node = root /\ root \in allRoots
  <2>1. /\ n \in Nat \ {0} /\ n \in 1 .. n
        /\ \A i \in 1 .. n : stack[i].node \in Node /\ stack[i].next \in Nat \ {0}
        /\ stack[1].node = root
    BY <1>1, Frames DEF HasEdge
  <2>2. root \in allRoots /\ n <= Limit /\ n + 1 > Limit
    BY <1>1 DEF WalkOK, HasEdge, Exceeds
  <2> QED
    BY <2>1, <2>2, LimitAssumption
<1>3. /\ Deepest \in [1 .. n + 1 -> Node] /\ Len(Deepest) = n + 1
      /\ (\A i \in 1 .. n : Deepest[i] = stack[i].node) /\ Deepest[n + 1] = Child
  <2>1. /\ Path \in Seq(Node) /\ Len(Path) = n /\ Child \in Node
        /\ \A i \in 1 .. n : Path[i] = stack[i].node
    BY <1>1, Frames, PathType, ChildType DEF IInv
  <2>2. /\ Deepest \in Seq(Node) /\ Len(Deepest) = n + 1
        /\ (\A i \in 1 .. n : Deepest[i] = Path[i]) /\ Deepest[n + 1] = Child
    BY <1>2, <2>1 DEF Deepest
  <2>3. Deepest \in [1 .. Len(Deepest) -> Node]
    BY <2>2, LenProperties
  <2> QED
    BY <2>1, <2>2, <2>3
<1>4. Top = stack[n] /\ stack[n].next \in CallSites(stack[n].node, Child)
  BY <1>1, ChildIsCalled
<1>5. \A i \in 1 .. n : i = n \/ i \in 1 .. n - 1
  BY <1>2
<1>6. \A i \in 1 .. n : ItsSites[i] \in CallSites(Deepest[i], Deepest[i + 1])
  <2> SUFFICES ASSUME NEW i \in 1 .. n PROVE ItsSites[i] \in CallSites(Deepest[i], Deepest[i + 1])
    OBVIOUS
  <2>1. CASE i = n
    BY <1>2, <1>3, <1>4, <2>1 DEF ItsSites
  <2>2. CASE i # n
    <3>1. i \in 1 .. n - 1 /\ i < n /\ i + 1 \in 1 .. n
      BY <1>2, <2>2
    <3>2. ItsSites[i] = stack[i].next - 1
      BY <1>2, <3>1 DEF ItsSites
    <3> QED
      BY <1>1, <1>3, <3>1, <3>2 DEF WalkOK, LeftBySite
  <2> QED
    BY <2>1, <2>2
<1>7. Deepest \in DeepChains
  <2>1. IsChain(Deepest)
    <3>1. Len(Deepest) - 1 = n
      BY <1>2, <1>3
    <3> QED
      BY <1>6, <3>1 DEF IsChain
  <2>2. ASSUME feature = "nested" PROVE IsSimple(Deepest)
    <3>1. ~MayRepeat /\ Child \notin onPath
      BY <2>2 DEF MayRepeat, Follows
    <3>2. /\ \A i \in 1 .. n : stack[i].node # Child
          /\ \A i, j \in 1 .. n : stack[i].node = stack[j].node => i = j
      BY <1>1, <3>1 DEF IInv, PathIsChain
    <3>3. \A i \in 1 .. n + 1 : i \in 1 .. n \/ i = n + 1
      BY <1>2
    <3> QED
      BY <1>3, <3>2, <3>3 DEF IsSimple
  <2>3. Deepest[1] \in allRoots
    BY <1>2, <1>3
  <2> QED
    BY <1>2, <1>3, <2>1, <2>2, <2>3 DEF DeepChains
<1>8. ItsSites \in Ways(Deepest)
  <2>1. ItsSites \in [1 .. Limit -> UNION {CallSites(Deepest[i], Deepest[i + 1]) : i \in 1 .. Limit}]
    <3>1. ItsSites = [j \in 1 .. Limit |-> ItsSites[j]]
      BY DEF ItsSites
    <3>2. \A j \in 1 .. Limit :
            ItsSites[j] \in UNION {CallSites(Deepest[i], Deepest[i + 1]) : i \in 1 .. Limit}
      BY <1>2, <1>6
    <3> HIDE DEF ItsSites
    <3> QED
      BY <3>1, <3>2
  <2> QED
    BY <1>2, <1>6, <2>1 DEF Ways
<1>9. \A j \in 1 .. n - 1 : ItsSites[j] = stack[j].next - 1
  <2> SUFFICES ASSUME NEW j \in 1 .. n - 1 PROVE ItsSites[j] = stack[j].next - 1
    OBVIOUS
  <2>1. j \in 1 .. Limit /\ j < n
    BY <1>2
  <2> QED
    BY <2>1 DEF ItsSites
<1>10. ItsSites[n] = stack[n].next
  BY <1>2 DEF ItsSites
<1>11. Meets(Deepest, ItsSites)
  BY <1>3, <1>9, <1>10 DEF Meets
<1>12. ASSUME NEW p \in DeepChains, NEW w \in Ways(p), Meets(p, w)
       PROVE  p = Deepest /\ w = ItsSites
  <2>1. p[n + 1] = Child
    BY <1>1, <1>2, <1>12, MeetsChild
  <2>2. p \in [1 .. n + 1 -> Node] /\ \A i \in 1 .. n : p[i] = stack[i].node
    BY <1>2, <1>12 DEF DeepChains, Meets
  <2>3. \A i \in 1 .. n + 1 : i \in 1 .. n \/ i = n + 1
    BY <1>2
  <2>4. \A i \in 1 .. n + 1 : p[i] = Deepest[i]
    BY <1>3, <2>1, <2>2, <2>3
  <2>5. \A i \in 1 .. n : w[i] = ItsSites[i]
    BY <1>5, <1>9, <1>10, <1>12 DEF Meets
  <2>6. ItsSites \in [1 .. n -> Nat \ {0}] /\ w \in [1 .. n -> Nat \ {0}]
    BY <1>1, <1>2, <1>7, <1>8, WayFacts
  <2> QED
    BY <1>3, <2>2, <2>4, <2>5, <2>6
<1> QED
  BY <1>2, <1>3, <1>7, <1>8, <1>11, <1>12

\* The report of a chain settles one choice, and is counted once.
LEMMA ReportSettles ==
  ASSUME DInv, HasEdge, phase = "depth", Follows(Child), Exceeds(Len(stack) + 1),
         Skip, UNCHANGED <<inputVars, phase, roots, root>>,
         tooDeep' = Append(tooDeep, [root |-> root, path |-> Deepest])
  PROVE  ReportsAreDeep' /\ ReportsCount'
<1> DEFINE r == [root |-> root, path |-> Deepest]
           m == Len(tooDeep)
<1>1. IInv /\ WalkOK /\ ReportsAreDeep /\ ReportsCount /\ stack # <<>>
  BY DEF DInv, HasEdge
<1>2. /\ Deepest \in DeepChains /\ ItsSites \in Ways(Deepest) /\ Meets(Deepest, ItsSites)
      /\ Deepest[1] = root
      /\ \A p \in DeepChains : \A w \in Ways(p) : Meets(p, w) => p = Deepest /\ w = ItsSites
  BY DeepestFacts
<1>3. /\ m \in Nat /\ Len(tooDeep') = m + 1
      /\ \A i \in 1 .. m : tooDeep'[i] = tooDeep[i]
      /\ tooDeep'[m + 1] = r
  <2>1. tooDeep \in Seq(Diagnostic) /\ tooDeep' = Append(tooDeep, r)
    BY <1>1 DEF IInv, TypeOK
  <2> HIDE DEF r
  <2> QED
    BY <2>1
<1>4. DeepChains' = DeepChains /\ \A p : Ways(p)' = Ways(p)
  BY SameReference
<1> HIDE DEF m
<1>5. 1 .. m + 1 = 1 .. m \cup {m + 1} /\ m + 1 \notin 1 .. m
  BY <1>3
<1>6. ReportsAreDeep'
  <2>1. \A i \in 1 .. m : tooDeep[i].path \in DeepChains
    BY <1>1 DEF ReportsAreDeep, m
  <2> QED
    BY <1>2, <1>3, <1>4, <1>5, <2>1 DEF ReportsAreDeep
<1>7. ASSUME NEW p \in DeepChains PROVE Reports(p)' = Cardinality(Settled(p)')
  <2> DEFINE Before == {i \in 1 .. m : tooDeep[i].path = p /\ tooDeep[i].root = p[1]}
             After == {i \in 1 .. m + 1 : tooDeep'[i].path = p /\ tooDeep'[i].root = p[1]}
  <2>1. Reports(p) = Cardinality(Before) /\ Reports(p)' = Cardinality(After)
    BY <1>3 DEF Reports, m
  <2>2. IsFiniteSet(Before) /\ m + 1 \notin Before
    <3>1. Before \subseteq 1 .. m
      OBVIOUS
    <3> HIDE DEF Before
    <3>2. IsFiniteSet(1 .. m)
      BY <1>3, FS_Interval
    <3> QED
      BY <1>5, <3>1, <3>2, FS_Subset
  <2>3. Reports(p) = Cardinality(Settled(p))
    BY <1>1 DEF ReportsCount
  <2>4. /\ \A w \in Ways(p) : Awaits(p, w) <=> Awaits(p, w)' \/ Meets(p, w)
        /\ \A w \in Ways(p) : ~ (Awaits(p, w)' /\ Meets(p, w))
    BY <1>1, SkipAwaits
  <2>5. Settled(p)' = {w \in Ways(p) : ~Awaits(p, w)'}
    BY <1>4 DEF Settled
  <2>6. CASE p = Deepest
    <3>1. After = Before \cup {m + 1}
      BY <1>2, <1>3, <1>5, <2>6
    <3>2. Settled(p)' = Settled(p) \cup {ItsSites} /\ ItsSites \notin Settled(p)
      <4>1. \A w \in Ways(p) : ~Awaits(p, w)' <=> ~Awaits(p, w) \/ w = ItsSites
        BY <1>2, <2>4, <2>6
      <4>2. ItsSites \in Ways(p) /\ Awaits(p, ItsSites)
        BY <1>2, <2>4, <2>6
      <4> QED
        BY <2>5, <4>1, <4>2 DEF Settled
    <3>3. IsFiniteSet(Settled(p))
      <4>1. IsFiniteSet(Ways(p)) /\ Settled(p) \subseteq Ways(p)
        BY <1>1, FiniteWays DEF Settled
      <4> QED
        BY <4>1, FS_Subset
    <3> HIDE DEF Before, After
    <3>4. Cardinality(After) = Cardinality(Before) + 1
      BY <2>2, <3>1, FS_AddElement
    <3>5. Cardinality(Settled(p)') = Cardinality(Settled(p)) + 1
      BY <3>2, <3>3, FS_AddElement
    <3> QED
      BY <2>1, <2>3, <3>4, <3>5
  <2>7. CASE p # Deepest
    <3>1. After = Before
      BY <1>3, <1>5, <2>7
    <3>2. Settled(p)' = Settled(p)
      BY <1>2, <2>4, <2>5, <2>7 DEF Settled
    <3> HIDE DEF Before, After
    <3> QED
      BY <2>1, <2>3, <3>1, <3>2
  <2> QED
    BY <2>6, <2>7
<1>8. ReportsCount'
  BY <1>4, <1>7 DEF ReportsCount
<1> QED
  BY <1>6, <1>8

LEMMA InitDepth == Init => DInv
<1> SUFFICES ASSUME Init PROVE DInv
  OBVIOUS
<1>1. IInv
  BY InitInvariant
<1>2. /\ phase = "cycles" /\ roots = allRoots /\ stack = <<>> /\ tooDeep = <<>>
      /\ Len(stack) = 0 /\ Len(tooDeep) = 0
  BY DEF Init
<1>3. WalkOK
  BY <1>2 DEF WalkOK, LeftBySite
<1>4. ReportsAreDeep /\ ReportsCount
  BY <1>2 DEF ReportsAreDeep, ReportsCount
<1> QED
  BY <1>1, <1>3, <1>4 DEF DInv

LEMMA StartDepth == ASSUME DInv, NEW r \in Node, StartRoot(r) PROVE DInv'
<1>1. /\ IInv /\ WalkOK /\ ReportsAreDeep /\ ReportsCount
      /\ stack = <<>> /\ r \in roots /\ roots' = roots \ {r} /\ root' = r /\ stack' = Push(<<>>, r)
      /\ UNCHANGED <<inputVars, phase, cycles, tooDeep>> /\ allRoots' = allRoots /\ phase # "done"
  BY DEF DInv, StartRoot, inputVars
<1>2. IInv'
  BY <1>1, StartKeeps
<1>3. Len(stack') = 1 /\ 1 .. Len(stack') - 1 = {}
  BY <1>1 DEF Push
<1>4. WalkOK'
  <2>1. LeftBySite'
    BY <1>3 DEF LeftBySite
  <2>2. roots' \subseteq allRoots' /\ root' \in allRoots' /\ root' \notin roots'
    BY <1>1 DEF WalkOK
  <2>3. 1 <= Limit
    BY LimitAssumption
  <2> QED
    BY <1>1, <1>3, <2>1, <2>2, <2>3 DEF WalkOK
<1>5. ReportsAreDeep' /\ ReportsCount'
  <2>1. CASE phase = "cycles"
    <3>1. tooDeep' = <<>> /\ Len(tooDeep') = 0
      BY <1>1, <2>1 DEF WalkOK
    <3> QED
      BY <1>1, <2>1, <3>1 DEF ReportsAreDeep, ReportsCount
  <2>2. CASE phase # "cycles"
    BY <1>1, <2>2, StartAwaits, CountKept
  <2> QED
    BY <2>1, <2>2
<1> QED
  BY <1>2, <1>4, <1>5 DEF DInv

LEMMA CyclesDepth == ASSUME DInv, FollowForCycles PROVE DInv'
<1>1. /\ IInv /\ WalkOK /\ HasEdge /\ stack # <<>> /\ phase = "cycles" /\ (Skip \/ Descend)
      /\ UNCHANGED <<inputVars, phase, roots, root, tooDeep>> /\ graph' = graph /\ allRoots' = allRoots
  BY DEF DInv, FollowForCycles, HasEdge, inputVars
<1>2. IInv'
  BY <1>1, CyclesKeep
<1>3. LeftBySite'
  <2>1. LeftBySite
    BY <1>1 DEF WalkOK
  <2>2. CASE Skip
    BY <1>1, <2>1, <2>2, SkipSites
  <2>3. CASE Descend
    BY <1>1, <2>1, <2>3, DescendSites
  <2> QED
    BY <1>1, <2>2, <2>3
<1>4. tooDeep' = <<>> /\ Len(tooDeep') = 0
  BY <1>1 DEF WalkOK
<1>5. WalkOK'
  BY <1>1, <1>3, <1>4 DEF WalkOK
<1>6. ReportsAreDeep' /\ ReportsCount'
  BY <1>1, <1>4 DEF ReportsAreDeep, ReportsCount
<1> QED
  BY <1>2, <1>5, <1>6 DEF DInv

LEMMA DepthDepth == ASSUME DInv, FollowForDepth PROVE DInv'
<1>1. /\ IInv /\ WalkOK /\ ReportsAreDeep /\ ReportsCount
      /\ HasEdge /\ stack # <<>> /\ phase = "depth"
      /\ UNCHANGED <<inputVars, phase, roots, root, cycles>> /\ graph' = graph /\ allRoots' = allRoots
  BY DEF DInv, FollowForDepth, HasEdge, inputVars
<1>2. IInv'
  BY <1>1, DepthKeeps
<1>3. /\ Len(stack) \in Nat /\ Len(stack) <= Limit /\ LeftBySite
      /\ root \in allRoots /\ root \notin roots
  BY <1>1, Frames DEF WalkOK
<1>4. CASE ~Follows(Child)
  <2>1. Skip /\ tooDeep' = tooDeep
    BY <1>4 DEF FollowForDepth
  <2>2. Len(stack') = Len(stack) /\ LeftBySite'
    BY <1>1, <1>3, <2>1, MovedFrames, SkipSites DEF Skip
  <2>3. WalkOK'
    BY <1>1, <1>3, <2>2 DEF WalkOK
  <2>4. \A p \in DeepChains : \A w \in Ways(p) : Awaits(p, w)' <=> Awaits(p, w)
    BY <1>1, <1>4, <2>1, SkipAwaits, RefusedIsNotSimple
  <2>5. ReportsAreDeep' /\ ReportsCount'
    BY <1>1, <2>1, <2>4, CountKept
  <2> QED
    BY <1>2, <2>3, <2>5 DEF DInv
<1>5. CASE Follows(Child) /\ Exceeds(Len(stack) + 1)
  <2>1. Skip /\ tooDeep' = Append(tooDeep, [root |-> root, path |-> Deepest])
    BY <1>5, Zenon DEF FollowForDepth, Deepest
  <2>2. Len(stack') = Len(stack) /\ LeftBySite'
    BY <1>1, <1>3, <2>1, MovedFrames, SkipSites DEF Skip
  <2>3. WalkOK'
    BY <1>1, <1>3, <2>2 DEF WalkOK
  <2>4. ReportsAreDeep' /\ ReportsCount'
    BY <1>1, <1>5, <2>1, ReportSettles
  <2> QED
    BY <1>2, <2>3, <2>4 DEF DInv
<1>6. CASE Follows(Child) /\ ~Exceeds(Len(stack) + 1)
  <2>1. Descend /\ tooDeep' = tooDeep /\ Len(stack) + 1 <= Limit
    <3>1. Descend /\ tooDeep' = tooDeep
      BY <1>6 DEF FollowForDepth
    <3> QED
      BY <1>3, <1>6, <3>1, LimitAssumption DEF Exceeds
  <2>2. Len(stack') = Len(stack) + 1 /\ LeftBySite'
    BY <1>1, <1>3, <2>1, PushedFrames, DescendSites
  <2>3. WalkOK'
    BY <1>1, <1>3, <2>1, <2>2 DEF WalkOK
  <2>4. \A p \in DeepChains : \A w \in Ways(p) : Awaits(p, w)' <=> Awaits(p, w)
    BY <1>1, <2>1, DescendAwaits
  <2>5. ReportsAreDeep' /\ ReportsCount'
    BY <1>1, <2>1, <2>4, CountKept
  <2> QED
    BY <1>2, <2>3, <2>5 DEF DInv
<1> QED
  BY <1>4, <1>5, <1>6

LEMMA ReturnDepth == ASSUME DInv, Return PROVE DInv'
<1>1. /\ IInv /\ WalkOK /\ ReportsAreDeep /\ ReportsCount /\ stack # <<>>
      /\ UNCHANGED <<inputVars, phase, roots, root, cycles, tooDeep>> /\ allRoots' = allRoots
  BY DEF DInv, Return, inputVars
<1>2. IInv'
  BY <1>1, ReturnKeeps
<1>3. /\ Len(stack') = Len(stack) - 1 /\ Len(stack) \in Nat /\ LeftBySite'
      /\ phase # "done"
  BY <1>1, PoppedFrames, Frames, ReturnSites DEF WalkOK
<1>4. WalkOK'
  BY <1>1, <1>3, LimitAssumption DEF WalkOK
<1>5. ReportsAreDeep' /\ ReportsCount'
  <2>1. CASE phase = "cycles"
    <3>1. tooDeep' = <<>> /\ Len(tooDeep') = 0
      BY <1>1, <2>1 DEF WalkOK
    <3> QED
      BY <1>1, <2>1, <3>1 DEF ReportsAreDeep, ReportsCount
  <2>2. CASE phase = "depth"
    BY <1>1, <2>2, ReturnAwaits, CountKept
  <2> QED
    BY <1>1, <1>3, <2>1, <2>2 DEF IInv, TypeOK
<1> QED
  BY <1>2, <1>4, <1>5 DEF DInv

LEMMA PhaseDepth == ASSUME DInv, NextPhase PROVE DInv'
<1>1. /\ IInv /\ WalkOK /\ ReportsAreDeep /\ ReportsCount /\ stack = <<>> /\ roots = {}
      /\ stack' = stack /\ root' = root /\ allRoots' = allRoots /\ tooDeep' = tooDeep
      /\ UNCHANGED inputVars /\ phase \in {"cycles", "depth"}
      /\ phase' = (IF phase = "cycles" THEN "depth" ELSE "done")
      /\ roots' = (IF phase = "cycles" THEN allRoots ELSE {})
  BY DEF DInv, NextPhase, inputVars, walkVars, IInv, TypeOK
<1>2. IInv'
  BY <1>1, PhaseKeeps
<1>3. Len(stack) = 0 /\ 1 .. Len(stack') - 1 = {}
  BY <1>1
<1>4. WalkOK'
  BY <1>1, <1>3, LimitAssumption DEF WalkOK, LeftBySite
<1>5. CASE phase = "cycles"
  <2>1. tooDeep' = <<>> /\ 1 .. Len(tooDeep') = {} /\ roots' = allRoots
    BY <1>1, <1>5 DEF WalkOK
  <2>2. ASSUME NEW p \in DeepChains PROVE Reports(p)' = Cardinality(Settled(p)')
    <3>1. p[1] \in roots'
      BY <2>1 DEF DeepChains
    <3>2. Settled(p)' = {}
      BY <3>1 DEF Settled, Awaits
    <3>3. Reports(p)' = Cardinality({})
      BY <2>1 DEF Reports
    <3> QED
      BY <3>2, <3>3
  <2>3. ReportsAreDeep' /\ ReportsCount'
    BY <1>1, <2>1, <2>2, SameReference DEF ReportsAreDeep, ReportsCount
  <2> QED
    BY <1>2, <1>4, <2>3 DEF DInv
<1>6. CASE phase = "depth"
  <2>1. \A p \in DeepChains : \A w \in Ways(p) : Awaits(p, w)' <=> Awaits(p, w)
    BY <1>1, <1>3, <1>6 DEF Awaits
  <2>2. ReportsAreDeep' /\ ReportsCount'
    BY <1>1, <1>6, <2>1, CountKept
  <2> QED
    BY <1>2, <1>4, <2>2 DEF DInv
<1> QED
  BY <1>1, <1>5, <1>6

LEMMA StepDepth == DInv /\ [Next]_vars => DInv'
<1> SUFFICES ASSUME DInv, [Next]_vars PROVE DInv'
  OBVIOUS
<1>1. ASSUME NEW r \in Node, StartRoot(r) PROVE DInv'
  BY <1>1, StartDepth
<1>2. CASE FollowForCycles
  BY <1>2, CyclesDepth
<1>3. CASE FollowForDepth
  BY <1>3, DepthDepth
<1>4. CASE Return
  BY <1>4, ReturnDepth
<1>5. CASE NextPhase
  BY <1>5, PhaseDepth
<1>6. CASE UNCHANGED vars
  <2>1. /\ IInv /\ WalkOK /\ ReportsAreDeep /\ ReportsCount
        /\ UNCHANGED inputVars /\ UNCHANGED <<graph, allRoots, phase, roots, root, stack, tooDeep>>
    BY <1>6 DEF DInv, vars, inputVars, walkVars
  <2>2. IInv'
    BY <1>6, <2>1, StepInvariant
  <2>3. WalkOK'
    BY <2>1 DEF WalkOK, LeftBySite, CallSites
  <2>4. \A p \in DeepChains : \A w \in Ways(p) : Awaits(p, w)' <=> Awaits(p, w)
    BY <2>1 DEF Awaits
  <2>5. ReportsAreDeep' /\ ReportsCount'
    <3>1. CASE phase = "cycles"
      BY <2>1, <3>1, SameReference DEF ReportsAreDeep, ReportsCount
    <3>2. CASE phase # "cycles"
      BY <2>1, <2>4, <3>2, CountKept
    <3> QED
      BY <3>1, <3>2
  <2> QED
    BY <2>2, <2>3, <2>5 DEF DInv
<1> QED
  BY <1>1, <1>2, <1>3, <1>4, <1>5, <1>6 DEF Next

LEMMA DepthInvariant == Spec => []DInv
  BY InitDepth, StepDepth, PTL DEF Spec

(***************************************************************************)
(* When the walks are done, each chain of Limit + 1 nodes from a root has  *)
(* been reported exactly once for each choice of the call sites along it,  *)
(* and nothing but such chains was: no deep chain of nested actions or     *)
(* reusable workflows goes unreported.                                     *)
(***************************************************************************)
THEOREM DepthExact == Spec => []DepthIsExact
<1>1. DInv => DepthIsExact
  <2> SUFFICES ASSUME DInv, phase = "done" PROVE DepthIsExact
    BY DEF DepthIsExact
  <2>1. /\ WalkOK /\ ReportsAreDeep /\ ReportsCount /\ stack = <<>> /\ roots = {} /\ Len(stack) = 0
    BY DEF DInv, WalkOK
  <2>2. \A p \in DeepChains : Settled(p) = Ways(p)
    BY <2>1 DEF Settled, Awaits
  <2> QED
    BY <2>1, <2>2 DEF DepthIsExact, ReportsCount, ReportsAreDeep
<1> QED
  BY <1>1, DepthInvariant, PTL
-----------------------------------------------------------------------------
(***************************************************************************)
(* The cycle diagnostics are exact.  First the data: simple chains, and    *)
(* the rotations of the circles that close them.                           *)
(***************************************************************************)
Circle(c) ==
  /\ c \in Seq(Node) /\ c # <<>>
  /\ IsSimple(c) /\ IsChain(c) /\ CallSites(c[Len(c)], c[1]) # {}

\* The circle from its a-th node on.
Turn(c, a) == SubSeq(c, a, Len(c)) \o SubSeq(c, 1, a - 1)

\* Where the j-th node of a turned circle of n nodes was before.
Was(n, a, j) == IF j <= n - a + 1 THEN a + j - 1 ELSE j - (n - a + 1)

LEMMA LeastOf ==
  ASSUME NEW T, T \subseteq Nat, T # {}
  PROVE  \E x \in T : \A y \in T : x <= y
<1> DEFINE R == {ss \in Nat \X Nat : ss[1] < ss[2]}
<1>1. IsWellFoundedOn(R, Nat)
  BY NatLessThanWellFounded DEF OpToRel
<1> HIDE DEF R
<1>2. PICK x \in T : \A y \in T : ~ (<<y, x>> \in R)
  BY <1>1, WFMin
<1>3. ASSUME NEW y \in T PROVE x <= y
  <2>1. ~ (<<y, x>> \in R)
    BY <1>2
  <2> QED
    BY <2>1 DEF R
<1> QED
  BY <1>3

LEMMA TurnElements ==
  ASSUME NEW c \in Seq(Node), NEW a \in 1 .. Len(c)
  PROVE  /\ Turn(c, a) \in Seq(Node) /\ Len(Turn(c, a)) = Len(c)
         /\ \A j \in 1 .. Len(c) : /\ Was(Len(c), a, j) \in 1 .. Len(c)
                                   /\ Turn(c, a)[j] = c[Was(Len(c), a, j)]
<1> DEFINE n == Len(c)
           u == SubSeq(c, a, n)
           v == SubSeq(c, 1, a - 1)
<1>1. n \in Nat /\ a \in 1 .. n /\ a \in Nat /\ \A i \in 1 .. n : c[i] \in Node
  BY LenProperties, ElementOfSeq
<1> HIDE DEF n
<1>2. u \in Seq(Node) /\ Len(u) = n - a + 1 /\ \A j \in 1 .. n - a + 1 : u[j] = c[a + j - 1]
  <2>1. \A i \in a .. n : c[i] \in Node
    BY <1>1
  <2>2. a <= n
    BY <1>1
  <2> QED
    BY <1>1, <2>1, <2>2, SubSeqProperties
<1>3. v \in Seq(Node) /\ Len(v) = a - 1 /\ \A j \in 1 .. a - 1 : v[j] = c[j]
  <2>1. \A i \in 1 .. a - 1 : c[i] \in Node
    BY <1>1
  <2>2. /\ v \in Seq(Node) /\ Len(v) = (IF 1 <= a - 1 THEN a - 1 - 1 + 1 ELSE 0)
        /\ \A j \in 1 .. a - 1 - 1 + 1 : v[j] = c[1 + j - 1]
    BY <1>1, <2>1, SubSeqProperties
  <2> QED
    BY <1>1, <2>2
<1> HIDE DEF u, v
<1>4. /\ u \o v \in Seq(Node) /\ Len(u \o v) = n
      /\ \A j \in 1 .. n : (u \o v)[j] = IF j <= n - a + 1 THEN u[j] ELSE v[j - (n - a + 1)]
  <2>1. /\ u \o v \in Seq(Node) /\ Len(u \o v) = Len(u) + Len(v)
        /\ \A j \in 1 .. Len(u) + Len(v) : (u \o v)[j] = IF j <= Len(u) THEN u[j] ELSE v[j - Len(u)]
    BY <1>2, <1>3, ConcatProperties
  <2>2. Len(u) + Len(v) = n
    BY <1>1, <1>2, <1>3
  <2> QED
    BY <1>2, <2>1, <2>2
<1>5. Turn(c, a) = u \o v
  BY DEF Turn, u, v, n
<1>6. ASSUME NEW j \in 1 .. n
      PROVE  Was(n, a, j) \in 1 .. n /\ Turn(c, a)[j] = c[Was(n, a, j)]
  <2>1. Was(n, a, j) \in 1 .. n
    BY <1>1 DEF Was
  <2>2. CASE j <= n - a + 1
    <3>1. j \in 1 .. n - a + 1
      BY <1>1, <2>2
    <3> QED
      BY <1>2, <1>4, <1>5, <2>1, <2>2, <3>1 DEF Was
  <2>3. CASE ~ (j <= n - a + 1)
    <3>1. j - (n - a + 1) \in 1 .. a - 1
      BY <1>1, <2>3
    <3> QED
      BY <1>3, <1>4, <1>5, <2>1, <2>3, <3>1 DEF Was
  <2> QED
    BY <2>2, <2>3
<1> QED
  BY <1>4, <1>5, <1>6 DEF n

\* A circle is one from wherever it is walked.
LEMMA TurnIsCircle ==
  ASSUME NEW c, Circle(c), NEW a \in 1 .. Len(c) PROVE Circle(Turn(c, a))
<1> DEFINE n == Len(c)
           t == Turn(c, a)
<1>1. /\ c \in Seq(Node) /\ n \in Nat \ {0} /\ a \in 1 .. n
      /\ \A i, j \in 1 .. n : c[i] = c[j] => i = j
      /\ \A i \in 1 .. n - 1 : CallSites(c[i], c[i + 1]) # {}
      /\ CallSites(c[n], c[1]) # {}
  BY DEF Circle, IsSimple, IsChain
<1>2. /\ t \in Seq(Node) /\ Len(t) = n
      /\ \A j \in 1 .. n : Was(n, a, j) \in 1 .. n /\ t[j] = c[Was(n, a, j)]
  BY <1>1, TurnElements
<1> HIDE DEF n, t
<1>3. IsSimple(t)
  <2> SUFFICES ASSUME NEW i \in 1 .. n, NEW j \in 1 .. n, t[i] = t[j] PROVE i = j
    BY <1>2 DEF IsSimple
  <2>1. Was(n, a, i) = Was(n, a, j)
    <3>1. Was(n, a, i) \in 1 .. n /\ Was(n, a, j) \in 1 .. n
      BY <1>2
    <3>2. c[Was(n, a, i)] = c[Was(n, a, j)]
      BY <1>2
    <3> QED
      BY <1>1, <3>1, <3>2
  <2> QED
    BY <1>1, <2>1 DEF Was
<1>4. IsChain(t)
  <2> SUFFICES ASSUME NEW j \in 1 .. n - 1 PROVE CallSites(t[j], t[j + 1]) # {}
    BY <1>2 DEF IsChain
  <2>1. j \in 1 .. n /\ j + 1 \in 1 .. n
    BY <1>1
  <2>2. Was(n, a, j + 1) = IF Was(n, a, j) = n THEN 1 ELSE Was(n, a, j) + 1
    BY <1>1, <2>1 DEF Was
  <2>3. Was(n, a, j) \in 1 .. n
    BY <1>2, <2>1
  <2>4. t[j] = c[Was(n, a, j)] /\ t[j + 1] = c[Was(n, a, j + 1)]
    BY <1>2, <2>1
  <2>5. CASE Was(n, a, j) = n
    <3>1. Was(n, a, j + 1) = 1
      BY <2>2, <2>5
    <3>2. t[j] = c[n] /\ t[j + 1] = c[1]
      BY <2>4, <2>5, <3>1
    <3> QED
      BY <1>1, <3>2
  <2>6. CASE Was(n, a, j) # n
    <3> DEFINE k == Was(n, a, j)
    <3>1. k \in 1 .. n - 1
      BY <1>1, <2>3, <2>6
    <3>2. Was(n, a, j + 1) = k + 1
      BY <2>2, <2>6
    <3>3. t[j] = c[k] /\ t[j + 1] = c[k + 1]
      BY <2>4, <3>2
    <3> HIDE DEF k
    <3>4. CallSites(c[k], c[k + 1]) # {}
      BY <1>1, <3>1
    <3> QED
      BY <3>3, <3>4
  <2> QED
    BY <2>5, <2>6
<1>5. CallSites(t[n], t[1]) # {}
  <2>1. n \in 1 .. n /\ 1 \in 1 .. n
    BY <1>1
  <2>2. Was(n, a, 1) = a /\ Was(n, a, n) = IF a = 1 THEN n ELSE a - 1
    BY <1>1 DEF Was
  <2>3. CASE a = 1
    BY <1>1, <1>2, <2>1, <2>2, <2>3
  <2>4. CASE a # 1
    <3>1. a - 1 \in 1 .. n - 1 /\ a - 1 + 1 = a
      BY <1>1, <2>4
    <3>2. CallSites(c[a - 1], c[a]) # {}
      BY <1>1, <3>1
    <3> QED
      BY <1>2, <2>1, <2>2, <2>4, <3>2
  <2> QED
    BY <2>3, <2>4
<1>6. t # <<>>
  BY <1>1, <1>2
<1> QED
  BY <1>2, <1>3, <1>4, <1>5, <1>6 DEF Circle, t

LEMMA CanonicalIsTurn ==
  ASSUME NEW c, Circle(c)
  PROVE  \E a \in 1 .. Len(c) : Canonical(c) = Turn(c, a) /\ \A j \in 1 .. Len(c) : c[a] <= c[j]
<1> DEFINE least == CHOOSE i \in 1 .. Len(c) : \A j \in 1 .. Len(c) : c[i] <= c[j]
<1>1. c \in Seq(Nat) /\ c # <<>>
  BY NodeAssumption, SeqMonotonic DEF Circle
<1>2. least \in 1 .. Len(c) /\ \A j \in 1 .. Len(c) : c[least] <= c[j]
  BY <1>1, LeastExists
<1>3. Canonical(c) = Turn(c, least)
  BY DEF Canonical, Turn
<1> HIDE DEF least
<1> QED
  BY <1>2, <1>3

\* A circle turned is still known as the same cycle.
LEMMA CanonicalOfTurn ==
  ASSUME NEW c, Circle(c), \A j \in 1 .. Len(c) : c[1] <= c[j], NEW a \in 1 .. Len(c)
  PROVE  Canonical(Turn(c, a)) = c
<1> DEFINE n == Len(c)
           t == Turn(c, a)
<1>1. /\ c \in Seq(Node) /\ n \in Nat \ {0} /\ a \in 1 .. n
      /\ \A i, j \in 1 .. n : c[i] = c[j] => i = j
      /\ \A i \in 1 .. n : c[i] \in Nat
  <2>1. c \in Seq(Node) /\ c # <<>> /\ \A i, j \in 1 .. n : c[i] = c[j] => i = j
    BY DEF Circle, IsSimple
  <2>2. n \in Nat \ {0} /\ \A i \in 1 .. n : c[i] \in Node
    BY <2>1, EmptySeq, LenProperties, ElementOfSeq
  <2> QED
    BY <2>1, <2>2, NodeAssumption
<1>2. /\ t \in Seq(Node) /\ Len(t) = n /\ Circle(t)
      /\ \A j \in 1 .. n : Was(n, a, j) \in 1 .. n /\ t[j] = c[Was(n, a, j)]
  BY <1>1, TurnElements, TurnIsCircle
<1>3. \A j \in 1 .. n : c[1] <= c[j]
  OBVIOUS
<1> HIDE DEF n, t
<1>4. PICK b \in 1 .. n : Canonical(t) = Turn(t, b) /\ \A j \in 1 .. n : t[b] <= t[j]
  BY <1>2, CanonicalIsTurn
<1>5. b = IF a = 1 THEN 1 ELSE n - a + 2
  <2> DEFINE f == IF a = 1 THEN 1 ELSE n - a + 2
  <2>1. f \in 1 .. n /\ Was(n, a, f) = 1
    BY <1>1 DEF Was
  <2> HIDE DEF f
  <2>2. t[b] <= c[1]
    BY <1>2, <1>4, <2>1
  <2>3. Was(n, a, b) \in 1 .. n /\ t[b] = c[Was(n, a, b)]
    BY <1>2
  <2>4. 1 \in 1 .. n
    BY <1>1
  <2>5. c[Was(n, a, b)] = c[1]
    <3>1. c[1] <= c[Was(n, a, b)] /\ c[Was(n, a, b)] <= c[1]
      BY <1>3, <2>2, <2>3
    <3>2. c[1] \in Nat /\ c[Was(n, a, b)] \in Nat
      BY <1>1, <2>3, <2>4
    <3> QED
      BY <3>1, <3>2
  <2>6. Was(n, a, b) = Was(n, a, f)
    BY <1>1, <2>1, <2>3, <2>4, <2>5
  <2>7. b = f
    BY <1>1, <2>1, <2>6 DEF Was
  <2> QED
    BY <2>7 DEF f
<1>6. /\ Turn(t, b) \in Seq(Node) /\ Len(Turn(t, b)) = n
      /\ \A j \in 1 .. n : Was(n, b, j) \in 1 .. n /\ Turn(t, b)[j] = t[Was(n, b, j)]
  BY <1>2, TurnElements
<1>7. ASSUME NEW j \in 1 .. n PROVE Turn(t, b)[j] = c[j]
  <2>1. Was(n, a, Was(n, b, j)) = j
    BY <1>1, <1>5 DEF Was
  <2> QED
    BY <1>2, <1>6, <2>1
<1>8. Turn(t, b) = c
  BY <1>1, <1>6, <1>7, SeqEqual DEF n
<1> QED
  BY <1>4, <1>8 DEF t

\* A simple chain visits no more nodes than there are.
LEMMA SimpleChainsAre ==
  SimpleChains = {p \in Seq(Node) : p # <<>> /\ IsSimple(p) /\ IsChain(p)}
<1> DEFINE m == Cardinality(Node)
           Chains == UNION {[1 .. n -> Node] : n \in 1 .. m}
<1>1. SimpleChains = {p \in Chains : IsSimple(p) /\ IsChain(p)}
  BY DEF SimpleChains
<1>2. m \in Nat /\ IsFiniteSet(Node)
  BY FS_CardinalityType, NodeAssumption
<1>3. ASSUME NEW p \in Chains PROVE p \in Seq(Node) /\ p # <<>>
  <2>1. PICK n \in 1 .. m : p \in [1 .. n -> Node]
    OBVIOUS
  <2>2. n \in Nat \ {0}
    BY <1>2
  <2>3. p \in Seq(Node)
    BY <2>1, <2>2
  <2>4. Len(p) = n
    BY <2>1, <2>2, <2>3
  <2> QED
    BY <2>2, <2>3, <2>4
<1>4. ASSUME NEW p \in Seq(Node), p # <<>>, IsSimple(p) PROVE p \in Chains
  <2>1. Len(p) \in Nat \ {0} /\ p \in [1 .. Len(p) -> Node]
    BY <1>4, EmptySeq, LenProperties
  <2>2. p \in Injection(1 .. Len(p), Node)
    BY <1>4, <2>1 DEF Injection, IsInjective, IsSimple
  <2>3. Cardinality(1 .. Len(p)) <= m
    BY <1>2, <2>2, FS_Injection
  <2>4. Cardinality(1 .. Len(p)) = Len(p)
    BY <2>1, FS_Interval
  <2>5. Len(p) \in 1 .. m
    BY <1>2, <2>1, <2>3, <2>4
  <2> QED
    BY <2>1, <2>5
<1> HIDE DEF Chains
<1> QED
  BY <1>1, <1>3, <1>4

\* What is diagnosed is an elementary cycle, from its smallest node on.
LEMMA CanonicalIsElementary ==
  ASSUME NEW c, Circle(c)
  PROVE  /\ Canonical(c) \in ElementaryCycles
         /\ \E a \in 1 .. Len(c) : Canonical(c)[1] = c[a]
<1>1. PICK a \in 1 .. Len(c) : Canonical(c) = Turn(c, a) /\ \A j \in 1 .. Len(c) : c[a] <= c[j]
  BY CanonicalIsTurn
<1> DEFINE n == Len(c)
           t == Turn(c, a)
<1>2. c \in Seq(Node) /\ n \in Nat \ {0} /\ a \in 1 .. n
  BY EmptySeq DEF Circle
<1>3. /\ t \in Seq(Node) /\ Len(t) = n /\ Circle(t)
      /\ \A j \in 1 .. n : Was(n, a, j) \in 1 .. n /\ t[j] = c[Was(n, a, j)]
  BY <1>2, TurnElements, TurnIsCircle
<1>4. t \in SimpleChains /\ CallSites(t[n], t[1]) # {}
  BY <1>3, SimpleChainsAre DEF Circle
<1>5. 1 \in 1 .. n /\ Was(n, a, 1) = a
  BY <1>2 DEF Was
<1>6. t[1] = c[a] /\ \A j \in 1 .. n : t[1] <= t[j]
  BY <1>1, <1>3, <1>5
<1>7. t \in ElementaryCycles
  BY <1>3, <1>4, <1>6 DEF ElementaryCycles
<1> HIDE DEF t
<1> QED
  BY <1>1, <1>6, <1>7 DEF t

LEMMA ElementaryIsCircle ==
  ASSUME NEW c \in ElementaryCycles
  PROVE  Circle(c) /\ c # <<>> /\ c \in Seq(Node) /\ Len(c) \in Nat \ {0}
         /\ \A j \in 1 .. Len(c) : c[1] <= c[j]
<1>1. c \in SimpleChains /\ CallSites(c[Len(c)], c[1]) # {} /\ \A j \in 1 .. Len(c) : c[1] <= c[j]
  BY DEF ElementaryCycles
<1>2. c \in Seq(Node) /\ c # <<>> /\ IsSimple(c) /\ IsChain(c)
  BY <1>1, SimpleChainsAre
<1> QED
  BY <1>1, <1>2, EmptySeq DEF Circle

\* A part of a simple chain is one.
LEMMA PartOfChain ==
  ASSUME NEW p \in SimpleChains, NEW a \in 1 .. Len(p), NEW b \in a .. Len(p)
  PROVE  /\ SubSeq(p, a, b) \in SimpleChains /\ Len(SubSeq(p, a, b)) = b - a + 1
         /\ \A j \in 1 .. b - a + 1 : SubSeq(p, a, b)[j] = p[a + j - 1]
<1> DEFINE u == SubSeq(p, a, b)
           n == Len(p)
<1>1. /\ p \in Seq(Node) /\ n \in Nat /\ a \in 1 .. n /\ b \in a .. n
      /\ \A i, j \in 1 .. n : p[i] = p[j] => i = j
      /\ \A i \in 1 .. n - 1 : CallSites(p[i], p[i + 1]) # {}
      /\ \A i \in 1 .. n : p[i] \in Node
  <2>1. p \in Seq(Node) /\ IsSimple(p) /\ IsChain(p)
    BY SimpleChainsAre
  <2> QED
    BY <2>1, LenProperties, ElementOfSeq DEF IsSimple, IsChain
<1> HIDE DEF n
<1>2. /\ u \in Seq(Node) /\ Len(u) = b - a + 1
      /\ \A j \in 1 .. b - a + 1 : u[j] = p[a + j - 1]
  <2>1. \A i \in a .. b : p[i] \in Node
    BY <1>1
  <2>2. a \in Int /\ b \in Int /\ a <= b
    BY <1>1
  <2> QED
    BY <2>1, <2>2, SubSeqProperties
<1> HIDE DEF u
<1>3. IsSimple(u)
  <2> SUFFICES ASSUME NEW i \in 1 .. b - a + 1, NEW j \in 1 .. b - a + 1, u[i] = u[j] PROVE i = j
    BY <1>2 DEF IsSimple
  <2>1. a + i - 1 \in 1 .. n /\ a + j - 1 \in 1 .. n
    BY <1>1
  <2>2. a + i - 1 = a + j - 1
    BY <1>1, <1>2, <2>1
  <2> QED
    BY <1>1, <2>2
<1>4. IsChain(u)
  <2>0. Len(u) - 1 = b - a
    BY <1>1, <1>2
  <2> SUFFICES ASSUME NEW j \in 1 .. b - a PROVE CallSites(u[j], u[j + 1]) # {}
    BY <2>0 DEF IsChain
  <2>1. a + j - 1 \in 1 .. n - 1 /\ j \in 1 .. b - a + 1 /\ j + 1 \in 1 .. b - a + 1
        /\ a + (j + 1) - 1 = a + j - 1 + 1
    BY <1>1
  <2>2. u[j] = p[a + j - 1] /\ u[j + 1] = p[a + j - 1 + 1]
    BY <1>2, <2>1
  <2> QED
    BY <1>1, <2>1, <2>2
<1>5. u # <<>>
  BY <1>1, <1>2
<1> QED
  BY <1>2, <1>3, <1>4, <1>5, SimpleChainsAre DEF u

(***************************************************************************)
(* A lasso: a simple chain whose last node calls the i-th one.  A root     *)
(* that reaches a cycle reaches it by a lasso: the chain up to where it    *)
(* first touches the cycle, then once around.                              *)
(***************************************************************************)
Lasso(q, i) == q \in SimpleChains /\ i \in 1 .. Len(q) /\ CallSites(q[Len(q)], q[i]) # {}

Loop(q, i) == SubSeq(q, i, Len(q))

LEMMA LoopIsCircle ==
  ASSUME NEW q, NEW i, Lasso(q, i)
  PROVE  Circle(Loop(q, i))
<1> DEFINE n == Len(q)
           u == SubSeq(q, i, n)
<1>1. q \in SimpleChains /\ i \in 1 .. n /\ n \in Nat /\ CallSites(q[n], q[i]) # {}
  BY SimpleChainsAre, LenProperties DEF Lasso
<1> HIDE DEF n
<1>2. u \in SimpleChains /\ Len(u) = n - i + 1 /\ \A j \in 1 .. n - i + 1 : u[j] = q[i + j - 1]
  <2>1. n \in i .. n
    BY <1>1
  <2> QED
    BY <1>1, <2>1, PartOfChain DEF n
<1> HIDE DEF u
<1>3. u[1] = q[i] /\ u[Len(u)] = q[n]
  <2>1. 1 \in 1 .. n - i + 1 /\ n - i + 1 \in 1 .. n - i + 1 /\ i + (n - i + 1) - 1 = n /\ i + 1 - 1 = i
    BY <1>1
  <2> QED
    BY <1>2, <2>1
<1>4. u \in Seq(Node) /\ u # <<>> /\ IsSimple(u) /\ IsChain(u)
  BY <1>2, SimpleChainsAre
<1> QED
  BY <1>1, <1>3, <1>4 DEF Circle, Loop, u, n

LEMMA LassoExists ==
  ASSUME NEW p \in SimpleChains, NEW c \in ElementaryCycles, p[Len(p)] = c[1]
  PROVE  \E q, i : Lasso(q, i) /\ q[1] = p[1] /\ Canonical(Loop(q, i)) = c
<1> DEFINE n == Len(c)
           touch == {m \in 1 .. Len(p) : \E a \in 1 .. n : p[m] = c[a]}
<1>1. /\ p \in Seq(Node) /\ Len(p) \in Nat \ {0}
      /\ \A i, j \in 1 .. Len(p) : p[i] = p[j] => i = j
      /\ \A i \in 1 .. Len(p) - 1 : CallSites(p[i], p[i + 1]) # {}
      /\ \A i \in 1 .. Len(p) : p[i] \in Node
  <2>1. p \in Seq(Node) /\ p # <<>> /\ IsSimple(p) /\ IsChain(p)
    BY SimpleChainsAre
  <2> QED
    BY <2>1, EmptySeq, LenProperties, ElementOfSeq DEF IsSimple, IsChain
<1>2. Circle(c) /\ c \in Seq(Node) /\ n \in Nat \ {0} /\ \A j \in 1 .. n : c[1] <= c[j]
  BY ElementaryIsCircle
<1> HIDE DEF n
<1>3. PICK m \in touch : \A x \in touch : m <= x
  <2>1. Len(p) \in touch
    BY <1>1, <1>2
  <2>2. touch \subseteq Nat
    BY <1>1
  <2> HIDE DEF touch
  <2> QED
    BY <2>1, <2>2, LeastOf
<1>4. PICK a \in 1 .. n : p[m] = c[a]
  BY <1>3
<1> DEFINE t == Turn(c, a)
           u == SubSeq(p, 1, m - 1)
           q == u \o t
<1>5. /\ t \in Seq(Node) /\ Len(t) = n /\ Circle(t)
      /\ (\A j \in 1 .. n : \E k \in 1 .. n : t[j] = c[k]) /\ t[1] = p[m]
  <2>1. /\ t \in Seq(Node) /\ Len(t) = n /\ Circle(t)
        /\ \A j \in 1 .. n : Was(n, a, j) \in 1 .. n /\ t[j] = c[Was(n, a, j)]
    BY <1>2, TurnElements, TurnIsCircle DEF n
  <2>2. 1 \in 1 .. n /\ Was(n, a, 1) = a
    BY <1>2 DEF Was
  <2> HIDE DEF t
  <2> QED
    BY <1>4, <2>1, <2>2
<1>6. Canonical(t) = c
  BY <1>2, CanonicalOfTurn DEF n
<1>7. m \in 1 .. Len(p) /\ m \in Nat \ {0} /\ \A x \in 1 .. m - 1 : x \in 1 .. Len(p) /\ x \notin touch
  <2>1. m \in 1 .. Len(p)
    BY <1>3
  <2> HIDE DEF touch
  <2> QED
    BY <1>1, <1>3, <2>1
<1>8. u \in Seq(Node) /\ Len(u) = m - 1 /\ \A j \in 1 .. m - 1 : u[j] = p[j]
  <2>1. \A i \in 1 .. m - 1 : p[i] \in Node
    BY <1>1, <1>7
  <2>2. /\ u \in Seq(Node) /\ Len(u) = (IF 1 <= m - 1 THEN m - 1 - 1 + 1 ELSE 0)
        /\ \A j \in 1 .. m - 1 - 1 + 1 : u[j] = p[1 + j - 1]
    BY <1>7, <2>1, SubSeqProperties
  <2> QED
    BY <1>7, <2>2
<1> HIDE DEF t, u
<1>9. /\ q \in Seq(Node) /\ Len(q) = m - 1 + n
      /\ \A j \in 1 .. m - 1 + n : q[j] = IF j <= m - 1 THEN p[j] ELSE t[j - (m - 1)]
  <2>1. /\ q \in Seq(Node) /\ Len(q) = Len(u) + Len(t)
        /\ \A j \in 1 .. Len(u) + Len(t) : q[j] = IF j <= Len(u) THEN u[j] ELSE t[j - Len(u)]
    <3>1. u \in Seq(Node) /\ t \in Seq(Node)
      BY <1>5, <1>8
    <3> QED
      BY <3>1, ConcatProperties
  <2>2. \A j \in 1 .. m - 1 + n : j <= m - 1 => j \in 1 .. m - 1
    BY <1>7
  <2> QED
    BY <1>5, <1>8, <2>1, <2>2
<1> HIDE DEF q
<1>10. \A j \in 1 .. m - 1 + n : j \in 1 .. m - 1 \/ (j \notin 1 .. m - 1 /\ j - (m - 1) \in 1 .. n)
  BY <1>2, <1>7
<1>11. /\ \A i, j \in 1 .. n : t[i] = t[j] => i = j
       /\ \A i \in 1 .. n - 1 : CallSites(t[i], t[i + 1]) # {}
       /\ CallSites(t[n], t[1]) # {}
  BY <1>5 DEF Circle, IsSimple, IsChain
<1>12. IsSimple(q)
  <2> SUFFICES ASSUME NEW i \in 1 .. m - 1 + n, NEW j \in 1 .. m - 1 + n, q[i] = q[j] PROVE i = j
    BY <1>9 DEF IsSimple
  <2>1. ASSUME NEW x \in 1 .. m - 1, NEW y \in 1 .. n PROVE p[x] # t[y]
    <3>1. x \in 1 .. Len(p) /\ x \notin touch
      BY <1>7
    <3>2. PICK k \in 1 .. n : t[y] = c[k]
      BY <1>5
    <3> QED
      BY <3>1, <3>2
  <2>2. CASE i \in 1 .. m - 1 /\ j \in 1 .. m - 1
    BY <1>1, <1>7, <1>9, <2>2
  <2>3. CASE i \in 1 .. m - 1 /\ j \notin 1 .. m - 1
    <3>1. q[i] = p[i] /\ q[j] = t[j - (m - 1)] /\ j - (m - 1) \in 1 .. n
      BY <1>7, <1>9, <1>10, <2>3
    <3> QED
      BY <2>1, <2>3, <3>1
  <2>4. CASE i \notin 1 .. m - 1 /\ j \in 1 .. m - 1
    <3>1. q[j] = p[j] /\ q[i] = t[i - (m - 1)] /\ i - (m - 1) \in 1 .. n
      BY <1>7, <1>9, <1>10, <2>4
    <3> QED
      BY <2>1, <2>4, <3>1
  <2>5. CASE i \notin 1 .. m - 1 /\ j \notin 1 .. m - 1
    <3>1. /\ q[j] = t[j - (m - 1)] /\ j - (m - 1) \in 1 .. n
          /\ q[i] = t[i - (m - 1)] /\ i - (m - 1) \in 1 .. n
      BY <1>7, <1>9, <1>10, <2>5
    <3>2. i - (m - 1) = j - (m - 1)
      BY <1>11, <3>1
    <3> QED
      BY <1>7, <3>2
  <2> QED
    BY <2>2, <2>3, <2>4, <2>5
<1>13. IsChain(q)
  <2>0. Len(q) - 1 = m - 1 + n - 1
    BY <1>2, <1>7, <1>9
  <2> SUFFICES ASSUME NEW j \in 1 .. m - 1 + n - 1 PROVE CallSites(q[j], q[j + 1]) # {}
    BY <2>0 DEF IsChain
  <2>1. j \in 1 .. m - 1 + n /\ j + 1 \in 1 .. m - 1 + n
    BY <1>2, <1>7
  <2>2. CASE j + 1 <= m - 1
    <3>1. q[j] = p[j] /\ q[j + 1] = p[j + 1] /\ j \in 1 .. Len(p) - 1
      BY <1>1, <1>7, <1>9, <2>1, <2>2
    <3> QED
      BY <1>1, <3>1
  <2>3. CASE j = m - 1
    <3>1. q[j] = p[j] /\ q[j + 1] = t[j + 1 - (m - 1)] /\ j + 1 - (m - 1) = 1 /\ j \in 1 .. Len(p) - 1 /\ j + 1 = m
      BY <1>1, <1>7, <1>9, <2>1, <2>3
    <3>2. q[j + 1] = p[j + 1]
      BY <1>5, <3>1
    <3> QED
      BY <1>1, <3>1, <3>2
  <2>4. CASE j > m - 1
    <3>1. /\ q[j] = t[j - (m - 1)] /\ q[j + 1] = t[j - (m - 1) + 1]
          /\ j - (m - 1) \in 1 .. n - 1
      BY <1>2, <1>7, <1>9, <2>1, <2>4
    <3> QED
      BY <1>11, <3>1
  <2> QED
    BY <1>7, <2>2, <2>3, <2>4
<1>14. q \in SimpleChains
  <2>1. q # <<>>
    BY <1>2, <1>7, <1>9
  <2> QED
    BY <1>9, <1>12, <1>13, <2>1, SimpleChainsAre
<1>15. m \in 1 .. Len(q) /\ q[m] = t[1] /\ q[Len(q)] = t[n]
  BY <1>2, <1>7, <1>9
<1>16. Lasso(q, m)
  BY <1>11, <1>14, <1>15 DEF Lasso
<1>17. q[1] = p[1]
  <2>1. CASE m = 1
    BY <1>5, <1>15, <2>1
  <2>2. CASE m # 1
    <3>1. 1 \in 1 .. m - 1 + n /\ 1 <= m - 1
      BY <1>2, <1>7, <2>2
    <3> QED
      BY <1>9, <3>1
  <2> QED
    BY <2>1, <2>2
<1>18. Loop(q, m) = t
  <2>1. /\ Loop(q, m) \in SimpleChains /\ Len(Loop(q, m)) = Len(q) - m + 1
        /\ \A j \in 1 .. Len(q) - m + 1 : Loop(q, m)[j] = q[m + j - 1]
    <3>1. Len(q) \in m .. Len(q)
      BY <1>7, <1>9, <1>15
    <3> QED
      BY <1>14, <1>15, <3>1, PartOfChain DEF Loop
  <2>2. Len(q) - m + 1 = n
    BY <1>2, <1>7, <1>9
  <2>3. \A j \in 1 .. n : q[m + j - 1] = t[j]
    <3> SUFFICES ASSUME NEW j \in 1 .. n PROVE q[m + j - 1] = t[j]
      OBVIOUS
    <3>1. m + j - 1 \in 1 .. m - 1 + n /\ ~ (m + j - 1 <= m - 1) /\ m + j - 1 - (m - 1) = j
      BY <1>2, <1>7
    <3> QED
      BY <1>9, <3>1
  <2>4. Loop(q, m) \in Seq(Node)
    BY <2>1, SimpleChainsAre
  <2> QED
    BY <1>5, <2>1, <2>2, <2>3, <2>4, SeqEqual
<1> QED
  BY <1>6, <1>16, <1>17, <1>18
-----------------------------------------------------------------------------
(***************************************************************************)
(* A lasso from the root of the walk is open while the walk stands on it   *)
(* and has yet to follow a call that goes on along it.  Every lasso is     *)
(* open until its cycle is known.                                          *)
(***************************************************************************)
OnwardFrom(q, i, k) == IF k < Len(q) THEN q[k + 1] ELSE q[i]

Open(q, i) ==
  \E k \in 1 .. Len(stack) :
    /\ k <= Len(q)
    /\ \A j \in 1 .. k : q[j] = stack[j].node
    /\ \E site \in CallSites(stack[k].node, OnwardFrom(q, i, k)) : site >= stack[k].next

AllKnown(r) == \A c \in ElementaryCycles : Reaches(r, c[1]) => Known(c)

Found ==
  \A d \in cycles :
    /\ d.path \in ElementaryCycles
    /\ d.root \in allRoots /\ Reaches(d.root, d.path[1])
    /\ \A s \in allRoots : Reaches(s, d.path[1]) => d.root <= s

Walked ==
  /\ stack # <<>> => \A s \in roots : root < s
  /\ phase = "cycles" => \A r \in allRoots \ roots : stack = <<>> \/ r # root => AllKnown(r)
  /\ phase # "cycles" => \A r \in allRoots : AllKnown(r)

NoneLost ==
  phase = "cycles" /\ stack # <<>> =>
    \A q, i : Lasso(q, i) /\ q[1] = root => Known(Canonical(Loop(q, i))) \/ Open(q, i)

XInv == DInv /\ Found /\ Walked /\ NoneLost

LEMMA SameChains ==
  ASSUME UNCHANGED inputVars
  PROVE  /\ SimpleChains' = SimpleChains /\ ElementaryCycles' = ElementaryCycles
         /\ \A u, v : CallSites(u, v)' = CallSites(u, v)
         /\ \A u, v : Reaches(u, v)' <=> Reaches(u, v)
         /\ \A q, i : Lasso(q, i)' <=> Lasso(q, i)
<1>1. \A u, v : CallSites(u, v)' = CallSites(u, v)
  BY DEF inputVars, CallSites
<1>2. SimpleChains' = SimpleChains
  BY <1>1 DEF SimpleChains, IsChain, IsSimple
<1> QED
  BY <1>1, <1>2 DEF ElementaryCycles, Reaches, Lasso

\* The walk stands at the last node of the lasso it has in common with it.
At(q, i) ==
  /\ Len(stack) <= Len(q)
  /\ \A j \in 1 .. Len(stack) : q[j] = stack[j].node
  /\ OnwardFrom(q, i, Len(stack)) = Child

LEMMA LassoFacts ==
  ASSUME NEW q, NEW i, Lasso(q, i)
  PROVE  /\ q \in SimpleChains /\ q \in Seq(Node) /\ Len(q) \in Nat \ {0} /\ i \in 1 .. Len(q)
         /\ \A x, y \in 1 .. Len(q) : q[x] = q[y] => x = y
         /\ \A k \in 1 .. Len(q) : CallSites(q[k], OnwardFrom(q, i, k)) # {}
<1>1. q \in SimpleChains /\ i \in 1 .. Len(q) /\ CallSites(q[Len(q)], q[i]) # {}
  BY DEF Lasso
<1>2. q \in Seq(Node) /\ q # <<>> /\ IsSimple(q) /\ IsChain(q)
  BY <1>1, SimpleChainsAre
<1>3. Len(q) \in Nat \ {0}
  BY <1>2, EmptySeq
<1>4. ASSUME NEW k \in 1 .. Len(q) PROVE CallSites(q[k], OnwardFrom(q, i, k)) # {}
  <2>1. CASE k < Len(q)
    <3>1. k \in 1 .. Len(q) - 1
      BY <1>3, <2>1
    <3> QED
      BY <1>2, <2>1, <3>1 DEF IsChain, OnwardFrom
  <2>2. CASE ~ (k < Len(q))
    <3>1. k = Len(q)
      BY <1>3, <2>2
    <3> QED
      BY <1>1, <2>2, <3>1 DEF OnwardFrom
  <2> QED
    BY <2>1, <2>2
<1> QED
  BY <1>1, <1>2, <1>3, <1>4 DEF IsSimple

LEMMA SiteIsNumber ==
  ASSUME IInv, NEW u \in Node, NEW v, NEW s \in CallSites(u, v)
  PROVE  s \in Nat \ {0} /\ s <= Len(graph[u]) /\ Len(graph[u]) \in Nat /\ graph[u][s] = v
<1>1. Len(graph[u]) \in Nat
  BY DEF IInv, TypeOK
<1> QED
  BY <1>1 DEF CallSites

LEMMA OpenNext ==
  ASSUME UNCHANGED inputVars, NEW q, NEW i, NEW k \in 1 .. Len(stack'), k <= Len(q),
         \A j \in 1 .. k : q[j] = stack'[j].node,
         NEW site \in CallSites(stack'[k].node, OnwardFrom(q, i, k)), site >= stack'[k].next
  PROVE  Open(q, i)'
BY DEF Open, CallSites, OnwardFrom, inputVars

\* Following a call leaves a lasso open, or is the call that goes on along it.
LEMMA FollowOpen ==
  ASSUME IInv, HasEdge, Skip \/ Descend, UNCHANGED inputVars, NEW q, NEW i, Lasso(q, i), Open(q, i)
  PROVE  Open(q, i)' \/ At(q, i)
<1> DEFINE n == Len(stack)
<1>1. PICK k \in 1 .. n :
        /\ k <= Len(q)
        /\ \A j \in 1 .. k : q[j] = stack[j].node
        /\ \E site \in CallSites(stack[k].node, OnwardFrom(q, i, k)) : site >= stack[k].next
  BY DEF Open
<1>2. PICK site \in CallSites(stack[k].node, OnwardFrom(q, i, k)) : site >= stack[k].next
  BY <1>1
<1>3. /\ n \in Nat \ {0} /\ stack # <<>>
      /\ \A x \in 1 .. n : stack[x].node \in Node /\ stack[x].next \in Nat \ {0}
  BY Frames DEF HasEdge
<1>4. site \in Nat /\ graph[stack[k].node][site] = OnwardFrom(q, i, k)
  BY <1>2, <1>3, SiteIsNumber
<1>5. /\ n <= Len(stack') /\ Len(stack') \in Nat
      /\ \A x \in 1 .. n - 1 : stack'[x] = stack[x]
      /\ stack'[n].node = stack[n].node /\ stack'[n].next = stack[n].next + 1
  <2>1. CASE Skip
    BY <1>3, <2>1, MovedFrames DEF Skip
  <2>2. CASE Descend
    BY <1>3, <2>2, PushedFrames
  <2> QED
    BY <2>1, <2>2
<1> HIDE DEF n
<1>7. k \in 1 .. Len(stack')
  BY <1>3, <1>5
<1>8. \A x \in 1 .. n : x \in 1 .. n - 1 \/ x = n
  BY <1>3
<1>9. \A x \in 1 .. n : stack'[x].node = stack[x].node
  BY <1>5, <1>8
<1>10. \A j \in 1 .. k : q[j] = stack'[j].node
  <2>1. \A j \in 1 .. k : j \in 1 .. n
    BY <1>3
  <2> QED
    BY <1>1, <1>9, <2>1
<1>12. CASE site >= stack'[k].next
  <2>1. site \in CallSites(stack'[k].node, OnwardFrom(q, i, k))
    BY <1>2, <1>9
  <2> QED
    BY <1>1, <1>7, <1>10, <1>12, <2>1, OpenNext
<1>13. CASE ~ (site >= stack'[k].next)
  <2>1. k = n /\ site = stack[n].next
    <3>1. k = n
      BY <1>2, <1>5, <1>8, <1>13
    <3>2. stack[n].next \in Nat /\ stack'[n].next = stack[n].next + 1 /\ site >= stack[n].next
      BY <1>2, <1>3, <1>5, <3>1
    <3> QED
      BY <1>4, <1>13, <3>1, <3>2
  <2>2. Child = graph[stack[n].node][stack[n].next]
    BY DEF Child, Top, n
  <2>3. OnwardFrom(q, i, n) = Child
    BY <1>4, <2>1, <2>2
  <2> QED
    BY <1>1, <2>1, <2>3 DEF At, n
<1> QED
  BY <1>12, <1>13

\* Descending goes on along the lasso.
LEMMA DescendOpen ==
  ASSUME IInv, HasEdge, phase = "cycles", Child \notin onPath, Descend, UNCHANGED inputVars,
         NEW q, NEW i, Lasso(q, i), At(q, i)
  PROVE  Open(q, i)'
<1> DEFINE n == Len(stack)
<1>1. /\ n \in Nat \ {0} /\ n \in 1 .. n
  BY Frames DEF HasEdge
<1>2. /\ Len(stack') = n + 1
      /\ \A x \in 1 .. n - 1 : stack'[x] = stack[x]
      /\ stack'[n].node = stack[n].node
      /\ stack'[n + 1].node = Child /\ stack'[n + 1].next = 1
  BY PushedFrames
<1>3. /\ Len(q) \in Nat \ {0} /\ i \in 1 .. Len(q) /\ q \in Seq(Node)
      /\ \A k \in 1 .. Len(q) : CallSites(q[k], OnwardFrom(q, i, k)) # {}
  BY LassoFacts
<1>4. n <= Len(q) /\ (\A j \in 1 .. n : q[j] = stack[j].node) /\ OnwardFrom(q, i, n) = Child
  BY DEF At
<1>5. \A j \in 1 .. n : stack[j].node # Child
  BY DEF IInv, PathIsChain, MayRepeat
<1> HIDE DEF n
<1>6. n < Len(q) /\ q[n + 1] = Child
  <2>1. CASE n < Len(q)
    BY <1>4, <2>1 DEF OnwardFrom
  <2>2. CASE ~ (n < Len(q))
    <3>1. n = Len(q)
      BY <1>1, <1>3, <1>4, <2>2
    <3>2. q[i] = Child
      BY <1>4, <2>2 DEF OnwardFrom
    <3> QED
      BY <1>3, <1>4, <1>5, <3>1, <3>2
  <2> QED
    BY <2>1, <2>2
<1>7. n + 1 \in 1 .. Len(q) /\ n + 1 <= Len(q) /\ n + 1 \in 1 .. Len(stack')
  BY <1>1, <1>2, <1>3, <1>6
<1>8. \A j \in 1 .. n + 1 : q[j] = stack'[j].node
  <2>1. \A j \in 1 .. n + 1 : j \in 1 .. n - 1 \/ j = n \/ j = n + 1
    BY <1>1
  <2>2. \A j \in 1 .. n - 1 : j \in 1 .. n
    BY <1>1
  <2> QED
    BY <1>1, <1>2, <1>4, <1>6, <2>1, <2>2
<1>9. PICK site : site \in CallSites(Child, OnwardFrom(q, i, n + 1))
  BY <1>3, <1>6, <1>7
<1>10. site \in Nat \ {0}
  <2>1. Child \in Node
    BY ChildType DEF IInv
  <2> QED
    BY <1>9, <2>1, SiteIsNumber
<1>11. site \in CallSites(stack'[n + 1].node, OnwardFrom(q, i, n + 1)) /\ site >= stack'[n + 1].next
  BY <1>2, <1>9, <1>10
<1> QED
  BY <1>7, <1>8, <1>11, OpenNext

\* A frame is left when no call is left that could go on along a lasso.
LEMMA ReturnOpen ==
  ASSUME IInv, Return, NEW q, NEW i, Lasso(q, i), Open(q, i)
  PROVE  Open(q, i)'
<1> DEFINE n == Len(stack)
<1>1. PICK k \in 1 .. n :
        /\ k <= Len(q)
        /\ \A j \in 1 .. k : q[j] = stack[j].node
        /\ \E site \in CallSites(stack[k].node, OnwardFrom(q, i, k)) : site >= stack[k].next
  BY DEF Open
<1>2. PICK site \in CallSites(stack[k].node, OnwardFrom(q, i, k)) : site >= stack[k].next
  BY <1>1
<1>3. /\ n \in Nat \ {0}
      /\ \A x \in 1 .. n : stack[x].node \in Node /\ stack[x].next \in Nat \ {0}
  BY Frames DEF Return
<1>4. site \in Nat /\ site <= Len(graph[stack[k].node]) /\ Len(graph[stack[k].node]) \in Nat
  BY <1>2, <1>3, SiteIsNumber
<1>5. k # n
  <2>1. ~ (stack[n].next <= Len(graph[stack[n].node]))
    BY DEF Return, HasEdge, Top
  <2>2. stack[k].next \in Nat
    BY <1>3
  <2> QED
    BY <1>2, <1>4, <2>1, <2>2
<1>6. Len(stack') = n - 1 /\ \A x \in 1 .. n - 1 : stack'[x] = stack[x]
  BY PoppedFrames
<1> HIDE DEF n
<1>7. k \in 1 .. n - 1 /\ \A j \in 1 .. k : j \in 1 .. n - 1
  BY <1>3, <1>5
<1>8. stack'[k] = stack[k] /\ \A j \in 1 .. k : q[j] = stack'[j].node
  BY <1>1, <1>6, <1>7
<1>9. UNCHANGED inputVars
  BY DEF Return
<1>10. site \in CallSites(stack'[k].node, OnwardFrom(q, i, k)) /\ site >= stack'[k].next
  BY <1>2, <1>8
<1> QED
  BY <1>1, <1>6, <1>7, <1>8, <1>9, <1>10, OpenNext
-----------------------------------------------------------------------------
(* The steps.                                                              *)

\* In the cycle walk the stack is a simple chain from the root.
LEMMA StackIsSimple ==
  ASSUME IInv, phase = "cycles", stack # <<>>
  PROVE  /\ Path \in SimpleChains /\ Len(Path) = Len(stack) /\ Path[1] = root
         /\ onPath = OnStack(stack)
         /\ \A i \in 1 .. Len(stack) : Path[i] = stack[i].node
         /\ \A i, j \in 1 .. Len(stack) : stack[i].node = stack[j].node => i = j
<1>1. /\ stack \in StackType /\ Len(stack) \in Nat \ {0} /\ stack[1].node = root /\ PathIsChain
  BY Frames DEF IInv
<1>2. /\ Path \in Seq(Node) /\ Len(Path) = Len(stack)
      /\ \A i \in 1 .. Len(stack) : Path[i] = stack[i].node
  BY <1>1, PathType
<1>3. /\ onPath = OnStack(stack)
      /\ \A i, j \in 1 .. Len(stack) : stack[i].node = stack[j].node => i = j
  BY <1>1 DEF PathIsChain, MayRepeat, OnStack
<1>4. IsSimple(Path)
  BY <1>2, <1>3 DEF IsSimple
<1>5. IsChain(Path)
  <2> SUFFICES ASSUME NEW i \in 1 .. Len(stack) - 1 PROVE CallSites(Path[i], Path[i + 1]) # {}
    BY <1>2 DEF IsChain
  <2>1. i \in 1 .. Len(stack) /\ i + 1 \in 1 .. Len(stack)
    BY <1>1
  <2>2. CallSites(stack[i].node, stack[i + 1].node) # {}
    BY <1>1 DEF PathIsChain, CallSites
  <2> QED
    BY <1>2, <2>1, <2>2
<1>6. Path # <<>> /\ 1 \in 1 .. Len(stack)
  BY <1>1, <1>2, EmptySeq
<1> QED
  BY <1>1, <1>2, <1>3, <1>4, <1>5, <1>6, SimpleChainsAre

\* The call back onto the path closes a lasso.
LEMMA ClosedFacts ==
  ASSUME IInv, HasEdge, phase = "cycles", Child \in onPath
  PROVE  \E f \in 1 .. Len(stack) :
           /\ stack[f].node = Child
           /\ CycleFrom(Child) = SubSeq(Path, f, Len(stack))
           /\ Lasso(Path, f) /\ CycleFrom(Child) = Loop(Path, f)
<1> DEFINE f == CHOOSE i \in 1 .. Len(stack) : stack[i].node = Child
<1>1. /\ stack # <<>> /\ Len(stack) \in Nat \ {0}
      /\ Path \in SimpleChains /\ Len(Path) = Len(stack) /\ onPath = OnStack(stack)
      /\ \A i \in 1 .. Len(stack) : Path[i] = stack[i].node
  BY StackIsSimple, Frames DEF HasEdge
<1>2. f \in 1 .. Len(stack) /\ stack[f].node = Child
  BY <1>1 DEF OnStack
<1>3. CycleFrom(Child) = SubSeq(Path, f, Len(stack))
  BY DEF CycleFrom
<1> HIDE DEF f
<1>4. Lasso(Path, f)
  <2>1. Len(stack) \in 1 .. Len(stack)
    BY <1>1
  <2>2. CallSites(Path[Len(stack)], Path[f]) # {}
    BY <1>1, <1>2, <2>1, ChildIsCalled
  <2> QED
    BY <1>1, <1>2, <2>2 DEF Lasso
<1>5. CycleFrom(Child) = Loop(Path, f)
  BY <1>1, <1>3 DEF Loop
<1> QED
  BY <1>2, <1>3, <1>4, <1>5

\* Standing at the end of a lasso, the walk reports its cycle.
LEMMA AtCloses ==
  ASSUME IInv, HasEdge, phase = "cycles", Child \in onPath, NEW q, NEW i, Lasso(q, i), At(q, i)
  PROVE  Loop(q, i) = CycleFrom(Child)
<1> DEFINE n == Len(stack)
<1>1. PICK f \in 1 .. n : stack[f].node = Child /\ CycleFrom(Child) = SubSeq(Path, f, n)
  BY ClosedFacts
<1>2. /\ n \in Nat \ {0} /\ Path \in Seq(Node) /\ Len(Path) = n
      /\ \A j \in 1 .. n : Path[j] = stack[j].node
      /\ \A x, y \in 1 .. n : stack[x].node = stack[y].node => x = y
  BY StackIsSimple, SimpleChainsAre, Frames DEF HasEdge
<1>3. /\ q \in Seq(Node) /\ Len(q) \in Nat \ {0} /\ i \in 1 .. Len(q)
      /\ \A x, y \in 1 .. Len(q) : q[x] = q[y] => x = y
  BY LassoFacts
<1>4. n <= Len(q) /\ (\A j \in 1 .. n : q[j] = stack[j].node) /\ OnwardFrom(q, i, n) = Child
  BY DEF At
<1> HIDE DEF n
<1>5. ~ (n < Len(q))
  <2> SUFFICES ASSUME n < Len(q) PROVE FALSE
    OBVIOUS
  <2>1. q[n + 1] = q[f]
    BY <1>1, <1>4 DEF OnwardFrom
  <2>2. n + 1 \in 1 .. Len(q) /\ f \in 1 .. Len(q) /\ n + 1 # f
    BY <1>2, <1>3
  <2> QED
    BY <1>3, <2>1, <2>2
<1>6. n = Len(q) /\ q[i] = Child
  BY <1>2, <1>3, <1>4, <1>5 DEF OnwardFrom
<1>7. i = f
  BY <1>1, <1>2, <1>3, <1>4, <1>6
<1>8. q = Path
  BY <1>2, <1>3, <1>4, <1>6, SeqEqual
<1> QED
  BY <1>1, <1>6, <1>7, <1>8 DEF Loop, n

\* A cycle that is reported is elementary, and no earlier root reaches it.
LEMMA ReportedIsFound ==
  ASSUME XInv, HasEdge, phase = "cycles", Child \in onPath, ~Known(Canonical(CycleFrom(Child)))
  PROVE  LET c == Canonical(CycleFrom(Child)) IN
         /\ c \in ElementaryCycles
         /\ root \in allRoots /\ Reaches(root, c[1])
         /\ \A s \in allRoots : Reaches(s, c[1]) => root <= s
<1> DEFINE c == Canonical(CycleFrom(Child))
           n == Len(stack)
<1>1. IInv /\ WalkOK /\ Walked /\ stack # <<>>
  BY DEF XInv, DInv, HasEdge
<1>2. PICK f \in 1 .. n : /\ CycleFrom(Child) = SubSeq(Path, f, n)
                          /\ Lasso(Path, f) /\ CycleFrom(Child) = Loop(Path, f)
  BY <1>1, ClosedFacts
<1>3. c \in ElementaryCycles /\ \E a \in 1 .. Len(CycleFrom(Child)) : c[1] = CycleFrom(Child)[a]
  BY <1>2, LoopIsCircle, CanonicalIsElementary
<1>4. PICK a \in 1 .. Len(CycleFrom(Child)) : c[1] = CycleFrom(Child)[a]
  BY <1>3
<1> HIDE DEF c
<1>5. Path \in SimpleChains /\ Len(Path) = n /\ Path[1] = root /\ n \in Nat \ {0}
  BY <1>1, StackIsSimple, Frames
<1>6. /\ Len(CycleFrom(Child)) = n - f + 1
      /\ \A j \in 1 .. n - f + 1 : CycleFrom(Child)[j] = Path[f + j - 1]
  <2> PICK p : p = Path
    OBVIOUS
  <2>1. p \in SimpleChains /\ f \in 1 .. Len(p) /\ n \in f .. Len(p)
    BY <1>5
  <2>2. /\ Len(SubSeq(p, f, n)) = n - f + 1
        /\ \A j \in 1 .. n - f + 1 : SubSeq(p, f, n)[j] = p[f + j - 1]
    BY <2>1, PartOfChain
  <2> QED
    BY <1>2, <2>2
<1> HIDE DEF n
<1>7. Reaches(root, c[1])
  <2> DEFINE m == f + a - 1
             u == SubSeq(Path, 1, m)
  <2>1. m \in 1 .. n /\ c[1] = Path[m] /\ 1 \in 1 .. n
    BY <1>4, <1>5, <1>6
  <2> HIDE DEF m
  <2>2. u \in SimpleChains /\ Len(u) = m - 1 + 1 /\ \A j \in 1 .. m - 1 + 1 : u[j] = Path[1 + j - 1]
    BY <1>5, <2>1, PartOfChain
  <2>3. 1 \in 1 .. m - 1 + 1 /\ m \in 1 .. m - 1 + 1 /\ Len(u) = m /\ 1 + m - 1 = m /\ 1 + 1 - 1 = 1
    BY <2>1, <2>2
  <2>4. u[1] = root /\ u[Len(u)] = c[1]
    BY <1>5, <2>1, <2>2, <2>3
  <2> QED
    BY <2>2, <2>4 DEF Reaches
<1>8. root \in allRoots /\ root \notin roots
  BY <1>1 DEF WalkOK
<1>9. ASSUME NEW s \in allRoots, Reaches(s, c[1]) PROVE root <= s
  <2>1. s \in Nat /\ root \in Nat
    BY <1>1, <1>8, NodeAssumption DEF IInv, TypeOK
  <2> SUFFICES ASSUME s < root PROVE FALSE
    BY <2>1
  <2>2. s \notin roots
    BY <1>1, <2>1 DEF Walked
  <2>3. AllKnown(s)
    BY <1>1, <2>1, <2>2 DEF Walked
  <2> QED
    BY <1>3, <1>9, <2>3 DEF AllKnown, c
<1> QED
  BY <1>3, <1>7, <1>8, <1>9 DEF c

LEMMA KnownKept ==
  ASSUME cycles \subseteq cycles', UNCHANGED inputVars
  PROVE  /\ \A c : Known(c) => Known(c)'
         /\ \A r : AllKnown(r) => AllKnown(r)'
<1>1. \A c : Known(c) => Known(c)'
  BY DEF Known
<1> QED
  BY <1>1, SameChains DEF AllKnown

LEMMA FoundKept ==
  ASSUME Found, UNCHANGED inputVars, cycles' = cycles PROVE Found'
<1>1. allRoots' = allRoots
  BY DEF inputVars
<1> QED
  BY <1>1, SameChains DEF Found

LEMMA InitCycles == Init => XInv
<1> SUFFICES ASSUME Init PROVE XInv
  OBVIOUS
<1>1. DInv
  BY InitDepth
<1>2. stack = <<>> /\ phase = "cycles" /\ roots = allRoots /\ cycles = {}
  BY DEF Init
<1> QED
  BY <1>1, <1>2 DEF XInv, Found, Walked, NoneLost

LEMMA StartCycles == ASSUME XInv, NEW r \in Node, StartRoot(r) PROVE XInv'
<1>1. /\ IInv /\ DInv /\ Found /\ Walked
      /\ stack = <<>> /\ r \in roots /\ roots' = roots \ {r} /\ root' = r /\ stack' = Push(<<>>, r)
      /\ phase # "done" /\ \A s \in roots : r <= s
      /\ UNCHANGED <<phase, cycles, tooDeep>> /\ UNCHANGED inputVars /\ allRoots' = allRoots
  BY DEF XInv, DInv, StartRoot, inputVars
<1>2. DInv' /\ IInv'
  BY <1>1, StartDepth DEF DInv
<1>3. Found'
  BY <1>1, FoundKept
<1>4. Len(stack') = 1 /\ stack'[1].node = r /\ stack'[1].next = 1
  BY <1>1 DEF Push
<1>5. \A q : AllKnown(q) => AllKnown(q)'
  BY <1>1, KnownKept
<1>6. Walked'
  <2>1. \A s \in roots' : root' < s
    <3> SUFFICES ASSUME NEW s \in roots, s # r PROVE r < s
      BY <1>1
    <3>1. s \in Nat /\ r \in Nat /\ r <= s
      BY <1>1, NodeAssumption DEF IInv, TypeOK
    <3> QED
      BY <3>1
  <2>2. stack' # <<>>
    <3>1. Len(<<>>) = 0
      OBVIOUS
    <3>2. Len(stack') # Len(<<>>)
      BY <1>4, <3>1
    <3> QED
      BY <3>2, Zenon
  <2> QED
    BY <1>1, <1>5, <2>1, <2>2 DEF Walked
<1>7. NoneLost'
  <2> SUFFICES ASSUME NEW q, NEW i, Lasso(q, i), q[1] = r PROVE Open(q, i)'
    BY <1>1, SameChains DEF NoneLost
  <2>1. Len(q) \in Nat \ {0} /\ 1 \in 1 .. Len(q) /\ CallSites(q[1], OnwardFrom(q, i, 1)) # {}
    BY LassoFacts
  <2>2. PICK site : site \in CallSites(r, OnwardFrom(q, i, 1))
    BY <2>1
  <2>3. site \in Nat \ {0}
    BY <1>1, <2>2, SiteIsNumber
  <2>4. \A j \in 1 .. 1 : q[j] = stack'[j].node
    BY <1>4
  <2>5. site \in CallSites(stack'[1].node, OnwardFrom(q, i, 1)) /\ site >= stack'[1].next
    BY <1>4, <2>2, <2>3
  <2>6. 1 <= Len(q) /\ 1 \in 1 .. Len(stack')
    BY <1>4, <2>1
  <2> QED
    BY <1>1, <2>4, <2>5, <2>6, OpenNext
<1> QED
  BY <1>2, <1>3, <1>6, <1>7 DEF XInv

LEMMA CyclesCycles == ASSUME XInv, FollowForCycles PROVE XInv'
<1>1. /\ IInv /\ DInv /\ Found /\ Walked /\ NoneLost
      /\ HasEdge /\ stack # <<>> /\ phase = "cycles"
      /\ UNCHANGED <<phase, roots, root, tooDeep>> /\ UNCHANGED inputVars /\ allRoots' = allRoots
  BY DEF XInv, DInv, FollowForCycles, HasEdge, inputVars
<1>2. DInv'
  BY <1>1, CyclesDepth
<1>0. PICK c : c = Canonical(CycleFrom(Child))
  OBVIOUS
<1>3. /\ cycles \subseteq cycles' /\ (Skip \/ Descend)
      /\ Child \in onPath => Known(c)'
      /\ Child \notin onPath => Descend
      /\ cycles' # cycles => Child \in onPath /\ ~Known(c) /\ cycles' = cycles \cup {[root |-> root, path |-> c]}
  <2>1. CASE Child \in onPath
    <3>1. Skip /\ cycles' = IF Known(c) THEN cycles ELSE cycles \cup {[root |-> root, path |-> c]}
      BY <1>0, <2>1 DEF FollowForCycles
    <3>2. Known(c)'
      <4>1. CASE Known(c)
        BY <3>1, <4>1 DEF Known
      <4>2. CASE ~Known(c)
        <5>1. [root |-> root, path |-> c] \in cycles' /\ [root |-> root, path |-> c].path = c
          BY <3>1, <4>2
        <5>2. \E d \in cycles' : d.path = c
          BY <5>1
        <5> QED
          BY <5>2 DEF Known
      <4> QED
        BY <4>1, <4>2
    <3> QED
      BY <2>1, <3>1, <3>2
  <2>2. CASE Child \notin onPath
    BY <2>2 DEF FollowForCycles
  <2> QED
    BY <2>1, <2>2
<1>4. /\ \A d : Known(d) => Known(d)'
      /\ \A r : AllKnown(r) => AllKnown(r)'
  BY <1>1, <1>3, KnownKept
<1>5. Found'
  <2>1. CASE cycles' = cycles
    BY <1>1, <2>1, FoundKept
  <2>2. CASE cycles' # cycles
    <3>1. /\ c \in ElementaryCycles
          /\ root \in allRoots /\ Reaches(root, c[1])
          /\ \A s \in allRoots : Reaches(s, c[1]) => root <= s
      BY <1>0, <1>1, <1>3, <2>2, ReportedIsFound
    <3>2. cycles' = cycles \cup {[root |-> root, path |-> c]}
      BY <1>3, <2>2
    <3> QED
      BY <1>1, <3>1, <3>2, SameChains DEF Found
  <2> QED
    BY <2>1, <2>2
<1>6. Walked'
  <2>1. Len(stack') \in Nat \ {0}
    <3>1. Len(stack) \in Nat \ {0}
      BY <1>1, Frames
    <3>2. CASE Skip
      BY <1>1, <3>1, <3>2, MovedFrames DEF Skip
    <3>3. CASE Descend
      BY <1>1, <3>1, <3>3, PushedFrames
    <3> QED
      BY <1>3, <3>2, <3>3
  <2>2. stack' # <<>>
    BY <2>1
  <2> QED
    BY <1>1, <1>4, <2>2 DEF Walked
<1>7. NoneLost'
  <2> SUFFICES ASSUME NEW q, NEW i, Lasso(q, i), q[1] = root
               PROVE  Known(Canonical(Loop(q, i)))' \/ Open(q, i)'
    BY <1>1, SameChains DEF NoneLost
  <2>1. CASE Known(Canonical(Loop(q, i)))
    BY <1>4, <2>1
  <2>2. CASE Open(q, i)
    <3>1. Open(q, i)' \/ At(q, i)
      BY <1>1, <1>3, <2>2, FollowOpen
    <3>2. CASE At(q, i) /\ Child \in onPath
      <4>1. Loop(q, i) = CycleFrom(Child)
        BY <1>1, <3>2, AtCloses
      <4> QED
        BY <1>0, <1>3, <3>2, <4>1
    <3>3. CASE At(q, i) /\ Child \notin onPath
      BY <1>1, <1>3, <3>3, DescendOpen
    <3> QED
      BY <3>1, <3>2, <3>3
  <2> QED
    BY <1>1, <2>1, <2>2 DEF NoneLost
<1> QED
  BY <1>2, <1>5, <1>6, <1>7 DEF XInv

\* The steps of the depth walk leave the cycles as they are.
LEMMA DepthCycles == ASSUME XInv, FollowForDepth PROVE XInv'
<1>1. /\ DInv /\ Found /\ Walked /\ phase = "depth" /\ HasEdge /\ stack # <<>>
      /\ UNCHANGED <<phase, roots, root, cycles>> /\ UNCHANGED inputVars /\ allRoots' = allRoots
  BY DEF XInv, FollowForDepth, HasEdge, inputVars
<1>2. DInv' /\ Found' /\ \A r : AllKnown(r) => AllKnown(r)'
  BY <1>1, DepthDepth, FoundKept, KnownKept
<1>3. Walked' /\ NoneLost'
  BY <1>1, <1>2 DEF Walked, NoneLost
<1> QED
  BY <1>2, <1>3 DEF XInv

\* The walk from a root is over when every cycle it reaches is known.
LEMMA ReturnCycles == ASSUME XInv, Return PROVE XInv'
<1>1. /\ IInv /\ DInv /\ Found /\ Walked /\ NoneLost /\ stack # <<>>
      /\ UNCHANGED <<phase, roots, root, cycles, tooDeep>> /\ UNCHANGED inputVars /\ allRoots' = allRoots
  BY DEF XInv, DInv, Return, inputVars
<1>2. DInv' /\ Found'
  BY <1>1, ReturnDepth, FoundKept
<1>3. /\ \A d : Known(d) => Known(d)'
      /\ \A r : AllKnown(r) => AllKnown(r)'
  BY <1>1, KnownKept
<1>4. ASSUME phase = "cycles", NEW q, NEW i, Lasso(q, i), q[1] = root
      PROVE  Known(Canonical(Loop(q, i))) \/ Open(q, i)'
  BY <1>1, <1>4, ReturnOpen DEF NoneLost
<1>5. NoneLost'
  BY <1>1, <1>3, <1>4, SameChains DEF NoneLost
<1>6. ASSUME phase = "cycles", stack' = <<>> PROVE AllKnown(root)
  <2> SUFFICES ASSUME NEW c \in ElementaryCycles, Reaches(root, c[1]) PROVE Known(c)
    BY DEF AllKnown
  <2>1. PICK p \in SimpleChains : p[1] = root /\ p[Len(p)] = c[1]
    BY DEF Reaches
  <2>2. PICK q, i : Lasso(q, i) /\ q[1] = root /\ Canonical(Loop(q, i)) = c
    BY <2>1, LassoExists
  <2>3. ~ Open(q, i)'
    <3>1. 1 .. Len(stack') = {}
      BY <1>6
    <3> QED
      BY <3>1 DEF Open
  <2> QED
    BY <1>4, <1>6, <2>2, <2>3
<1>7. Walked'
  <2>1. stack' # <<>> => \A s \in roots' : root' < s
    BY <1>1 DEF Walked
  <2>2. ASSUME phase = "cycles", NEW r \in allRoots \ roots, stack' = <<>> \/ r # root
        PROVE  AllKnown(r)
    BY <1>1, <1>6, <2>2 DEF Walked
  <2>3. phase # "cycles" => \A r \in allRoots : AllKnown(r)
    BY <1>1 DEF Walked
  <2> QED
    BY <1>1, <1>3, <2>1, <2>2, <2>3 DEF Walked
<1> QED
  BY <1>2, <1>5, <1>7 DEF XInv

LEMMA PhaseCycles == ASSUME XInv, NextPhase PROVE XInv'
<1>1. /\ DInv /\ Found /\ Walked /\ stack = <<>> /\ stack' = <<>> /\ roots = {} /\ phase' # "cycles"
      /\ cycles' = cycles /\ UNCHANGED inputVars /\ allRoots' = allRoots
  BY DEF XInv, NextPhase, inputVars, walkVars
<1>2. DInv' /\ Found' /\ \A r : AllKnown(r) => AllKnown(r)'
  BY <1>1, PhaseDepth, FoundKept, KnownKept
<1>3. \A r \in allRoots : AllKnown(r)
  BY <1>1 DEF Walked
<1>4. Walked' /\ NoneLost'
  BY <1>1, <1>2, <1>3 DEF Walked, NoneLost
<1> QED
  BY <1>2, <1>4 DEF XInv

LEMMA StepCycles == XInv /\ [Next]_vars => XInv'
<1> SUFFICES ASSUME XInv, [Next]_vars PROVE XInv'
  OBVIOUS
<1>1. ASSUME NEW r \in Node, StartRoot(r) PROVE XInv'
  BY <1>1, StartCycles
<1>2. CASE FollowForCycles
  BY <1>2, CyclesCycles
<1>3. CASE FollowForDepth
  BY <1>3, DepthCycles
<1>4. CASE Return
  BY <1>4, ReturnCycles
<1>5. CASE NextPhase
  BY <1>5, PhaseCycles
<1>6. CASE UNCHANGED vars
  <2>1. /\ DInv /\ Found /\ Walked /\ NoneLost
        /\ UNCHANGED inputVars /\ UNCHANGED <<graph, allRoots, phase, roots, root, stack, cycles>>
    BY <1>6 DEF XInv, vars, inputVars, walkVars
  <2>2. DInv' /\ Found'
    BY <1>6, <2>1, StepDepth, FoundKept
  <2>3. /\ \A d : Known(d)' <=> Known(d)
        /\ \A q, i : Open(q, i)' <=> Open(q, i)
    BY <2>1, SameChains DEF Known, Open, OnwardFrom, CallSites
  <2>4. \A r : AllKnown(r)' <=> AllKnown(r)
    BY <2>1, <2>3, SameChains DEF AllKnown
  <2>5. Walked' /\ NoneLost'
    BY <2>1, <2>3, <2>4, SameChains DEF Walked, NoneLost
  <2> QED
    BY <2>2, <2>5 DEF XInv
<1> QED
  BY <1>1, <1>2, <1>3, <1>4, <1>5, <1>6 DEF Next

LEMMA CyclesInvariant == Spec => []XInv
  BY InitCycles, StepCycles, PTL DEF Spec

(***************************************************************************)
(* When the cycle walks are done, what they reported is exactly the        *)
(* elementary cycles that some root reaches, each from its smallest node   *)
(* on and under the first root that reaches it: no cycle is missed, and    *)
(* none is made up from a shared callee.                                   *)
(***************************************************************************)
THEOREM CyclesExact == Spec => []CyclesAreExact
<1>1. XInv => CyclesAreExact
  <2> SUFFICES ASSUME XInv, phase # "cycles" PROVE CyclesAreExact
    BY DEF CyclesAreExact
  <2> DEFINE Met == {d \in ElementaryCycles : \E r \in allRoots : Reaches(r, d[1])}
             All == {[root |-> FirstRoot(c), path |-> c] : c \in Met}
  <2>1. /\ IInv /\ Found /\ \A r \in allRoots : AllKnown(r)
        /\ allRoots \subseteq Nat /\ cycles \in SUBSET Diagnostic
    BY NodeAssumption DEF XInv, DInv, IInv, TypeOK, Walked
  <2>2. ASSUME NEW d \in cycles PROVE d.path \in Met /\ d = [root |-> FirstRoot(d.path), path |-> d.path]
    <3>1. /\ d.path \in ElementaryCycles
          /\ d.root \in allRoots /\ Reaches(d.root, d.path[1])
          /\ \A s \in allRoots : Reaches(s, d.path[1]) => d.root <= s
      BY <2>1 DEF Found
    <3>2. /\ FirstRoot(d.path) \in allRoots /\ Reaches(FirstRoot(d.path), d.path[1])
          /\ \A s \in allRoots : Reaches(s, d.path[1]) => FirstRoot(d.path) <= s
      BY <3>1 DEF FirstRoot
    <3>3. FirstRoot(d.path) = d.root
      <4>1. FirstRoot(d.path) <= d.root /\ d.root <= FirstRoot(d.path)
        BY <3>1, <3>2
      <4>2. FirstRoot(d.path) \in Nat /\ d.root \in Nat
        BY <2>1, <3>1, <3>2
      <4> QED
        BY <4>1, <4>2
    <3>4. d = [root |-> d.root, path |-> d.path]
      BY <2>1 DEF Diagnostic
    <3> QED
      BY <3>1, <3>3, <3>4
  <2>3. cycles \subseteq All
    BY <2>2
  <2>4. ASSUME NEW c \in Met PROVE [root |-> FirstRoot(c), path |-> c] \in cycles
    <3>1. PICK d \in cycles : d.path = c
      BY <2>1 DEF AllKnown, Known
    <3> QED
      BY <2>2, <3>1
  <2>5. cycles = All
    BY <2>3, <2>4
  <2> QED
    BY <2>5 DEF CyclesAreExact
<1> QED
  BY <1>1, CyclesInvariant, PTL
=============================================================================
