--------------------------- MODULE InputFlowProofs ---------------------------
(***************************************************************************)
(* Theorems about InputFlow, for all programs, names and nesting depths:   *)
(* what is confirmed is sound, and a result is exact.                      *)
(***************************************************************************)
EXTENDS InputFlow, SequenceTheorems, TLAPS

StepsOf(d) == 1 .. Len(action(d).steps)
CallAt(d, i) == action(d).steps[i].call

\* Confirmed root flows belong to workflow steps that call an action.
RootsOK ==
  /\ \A f \in rootFlows : f.step \in 1 .. Len(program.steps) /\ RootDir(f) \in Dir
  /\ todo \subseteq rootFlows
  /\ stack # <<>> => root \in rootFlows /\ stack[1].dir = RootDir(root)

\* The frames below a frame are its call path.
PathsOK ==
  \A k \in 1 .. Len(stack) :
    /\ Len(stack[k].path) = k - 1
    /\ \A j \in 1 .. k - 1 :
         stack[k].path[j] = [parent |-> stack[j].dir, at |-> stack[j].at, child |-> stack[j + 1].dir]

\* Each frame was entered by a call of the frame below.
CallsOK ==
  \A j \in 1 .. Len(stack) - 1 :
    /\ stack[j].at \in StepsOf(stack[j].dir)
    /\ CallAt(stack[j].dir, stack[j].at) = stack[j + 1].dir

\* No action is on the stack twice, and onPath tells which are on it.
DirsOK ==
  /\ \A j, k \in 1 .. Len(stack) : stack[j].dir = stack[k].dir => j = k
  /\ onPath = {stack[k].dir : k \in 1 .. Len(stack)}
  /\ Len(stack) <= MaxCompositeActionNestingDepth

\* What a frame still has to look at is in its action.
FramesOK ==
  \A k \in 1 .. Len(stack) :
    /\ stack[k].usages \subseteq StepsOf(stack[k].dir)
    /\ stack[k].with # <<>> =>
         /\ stack[k].at \in StepsOf(stack[k].dir)
         /\ CallAt(stack[k].dir, stack[k].at) \in Dir
         /\ \A i \in 1 .. Len(stack[k].with) :
              stack[k].with[i] \in Bindings(action(stack[k].dir).steps[stack[k].at])

\* The call being looked at may be followed.
TopOK ==
  stack # <<>> /\ InUsage =>
    Child \notin onPath /\ Len(stack) + 1 <= MaxCompositeActionNestingDepth

IInv == TypeOK /\ RootsOK /\ PathsOK /\ CallsOK /\ DirsOK /\ FramesOK /\ TopOK /\ FlowsAreSound
-----------------------------------------------------------------------------
\* The parts of a program have their types.
LEMMA ProgramTypes ==
  ASSUME TypeOK
  PROVE  /\ program.steps \in Seq(Step)
         /\ \A d \in Dir : /\ action(d).inputs \subseteq Name /\ action(d).demanded \subseteq Name
                           /\ action(d).steps \in Seq(Step)
<1>1. program \in Program
  BY ProgramsAssumption DEF TypeOK
<1>2. QED  BY <1>1 DEF Program, Action, action

\* Only a value that is one name forwards that name.
LEMMA Classification ==
  ASSUME NEW v \in Value
  PROVE  /\ Classify(v) = "forwards" => ~v.dynamic /\ v.refs = {v.whole} /\ v.whole \in Name
         /\ IsProblem(v) => Classify(v) \in Kind
<1>1. Classify(v) = "forwards" => ~v.dynamic /\ v.refs = {v.whole}
  BY DEF Classify
<1>2. QED  BY <1>1 DEF Value, IsProblem, Kind

LEMMA InternalUsagesType ==
  ASSUME NEW d, NEW n  PROVE InternalUsages(d, n) \subseteq StepsOf(d)
BY DEF InternalUsages, StepsOf

LEMMA InitIInv == Init => IInv
<1> SUFFICES ASSUME Init PROVE IInv
  OBVIOUS
<1>1. TypeOK
  <2>1. stack \in Seq(Frame)
    BY DEF Init
  <2>2. root \in RootFlow \cup {NoCall} /\ onPath \in SUBSET Dir
    BY DEF Init
  <2>3. program \in Programs /\ pc \in {"link", "nested", "done", "cancelled"} /\ nextStep \in Nat \ {0}
    BY DEF Init
  <2>4. ctxDone \in BOOLEAN
    BY DEF Init
  <2>5. /\ rootFlows \in SUBSET RootFlow /\ todo \in SUBSET RootFlow
        /\ rootDiagnostics \in SUBSET [kind : Kind, step : Nat, input : Name]
        /\ flows \in SUBSET NestedFlow /\ diagnostics \in SUBSET Diagnostic
    BY DEF Init
  <2>6. QED  BY <2>1, <2>2, <2>3, <2>4, <2>5 DEF TypeOK
<1>2. stack = <<>> /\ Len(stack) = 0 /\ onPath = {} /\ flows = {} /\ rootFlows = {} /\ todo = {}
  BY DEF Init
<1>3. RootsOK /\ PathsOK /\ CallsOK /\ FramesOK /\ TopOK /\ FlowsAreSound
  BY <1>2 DEF RootsOK, PathsOK, CallsOK, FramesOK, TopOK, FlowsAreSound
<1>4. DirsOK
  BY <1>2, DepthAssumption DEF DirsOK
<1>5. QED  BY <1>1, <1>3, <1>4 DEF IInv

\* A step that leaves the recursion and its results alone.
LEMMA QuietIInv ==
  ASSUME IInv, TypeOK', UNCHANGED <<program, root, stack, onPath, flows>>,
         rootFlows \subseteq rootFlows', todo' \subseteq rootFlows',
         \A f \in rootFlows' : f.step \in 1 .. Len(program.steps) /\ RootDir(f) \in Dir
  PROVE  IInv'
<1>1. RootsOK'
  BY DEF IInv, RootsOK, RootDir
<1>2. PathsOK' /\ CallsOK' /\ DirsOK'
  BY DEF IInv, PathsOK, CallsOK, DirsOK, StepsOf, CallAt, action
<1>3. FramesOK'
  BY DEF IInv, FramesOK, StepsOf, CallAt, action
<1>4. TopOK'
  BY DEF IInv, TopOK, InUsage, Top, Child, StepAt, action
<1>5. FlowsAreSound'
  BY DEF IInv, FlowsAreSound, RootDir, IsCallPath, HandsOver, InternalUsages, action
<1>6. QED  BY <1>1, <1>2, <1>3, <1>4, <1>5 DEF IInv

LEMMA LinkStepIInv == ASSUME IInv, LinkStep PROVE IInv'
<1> DEFINE i == nextStep
           s == program.steps[i]
<1>1. i \in 1 .. Len(program.steps) /\ s \in Step
  <2>1. program.steps \in Seq(Step)
    BY ProgramTypes DEF IInv
  <2>2. i \in Nat /\ i <= Len(program.steps) /\ i # 0
    BY DEF IInv, TypeOK, LinkStep
  <2>3. QED  BY <2>1, <2>2
<1>2. CASE s.call = NoCall
  <2>1. rootFlows' = rootFlows /\ rootDiagnostics' = rootDiagnostics
    BY <1>2 DEF LinkStep
  <2>2. TypeOK'
    BY <2>1 DEF IInv, TypeOK, LinkStep, walkVars, resultVars
  <2>3. QED  BY <2>1, <2>2, QuietIInv DEF LinkStep, walkVars, resultVars, IInv, RootsOK
<1>3. CASE s.call # NoCall
  <2>1. s.call \in Dir /\ \A b \in Bindings(s) : b \in Binding
    BY <1>1, <1>3 DEF Step, Bindings
  <2>2. /\ StepFlows(i) \subseteq RootFlow
        /\ \A f \in StepFlows(i) : f.step = i
    <3>1. \A b \in Bindings(s) : b.name \in Name /\ b.value \in Value
      BY <2>1 DEF Binding
    <3>2. \A b \in Bindings(s) : Classify(b.value) = "forwards" => b.value.whole \in Name
      BY <3>1, Classification
    <3>3. QED  BY <1>1, <3>1, <3>2 DEF StepFlows, RootFlow
  <2>3. StepDiagnostics(i) \subseteq [kind : Kind, step : Nat, input : Name]
    <3>1. \A b \in Bindings(s) : b.name \in Name /\ (IsProblem(b.value) => Classify(b.value) \in Kind)
      BY <2>1, Classification DEF Binding
    <3>2. Missing(s.call, s) \subseteq Name
      BY <2>1, ProgramTypes DEF Missing, IInv
    <3>3. QED  BY <1>1, <3>1, <3>2 DEF StepDiagnostics, Kind
  <2>4. /\ rootFlows' = rootFlows \cup StepFlows(i)
        /\ rootDiagnostics' = rootDiagnostics \cup StepDiagnostics(i)
    BY <1>3 DEF LinkStep
  <2>5. TypeOK'
    BY <2>2, <2>3, <2>4 DEF IInv, TypeOK, LinkStep, walkVars, resultVars
  <2>6. \A f \in rootFlows' : f.step \in 1 .. Len(program.steps) /\ RootDir(f) \in Dir
    BY <1>1, <2>1, <2>2, <2>4 DEF IInv, RootsOK, RootDir
  <2>7. QED  BY <2>4, <2>5, <2>6, QuietIInv DEF LinkStep, walkVars, resultVars, IInv, RootsOK
<1>4. QED  BY <1>2, <1>3

\* Steps that change neither the flows nor the recursion.
LEMMA OtherIInv ==
  ASSUME IInv, LinkNested \/ Finish \/ Abort \/ Cancel \/ UNCHANGED vars PROVE IInv'
<1>1. TypeOK'
  BY DEF IInv, TypeOK, LinkNested, Finish, Abort, Cancel, vars, inputVars, walkVars, resultVars
<1>2. /\ UNCHANGED <<program, root, stack, onPath, flows, rootFlows>>
      /\ todo' \subseteq rootFlows
  BY DEF IInv, RootsOK, LinkNested, Finish, Abort, Cancel, vars, inputVars, walkVars, resultVars
<1>3. QED  BY <1>1, <1>2, QuietIInv DEF IInv, RootsOK

LEMMA NewFrameType ==
  ASSUME NEW d \in Dir, NEW n \in Name, NEW p \in Seq(Segment)
  PROVE  /\ NewFrame(d, n, p) \in Frame
         /\ NewFrame(d, n, p).dir = d /\ NewFrame(d, n, p).path = p
         /\ NewFrame(d, n, p).with = <<>> /\ NewFrame(d, n, p).usages \subseteq StepsOf(d)
<1>1. InternalUsages(d, n) \in SUBSET Nat
  BY DEF InternalUsages
<1>2. QED  BY <1>1, InternalUsagesType DEF NewFrame, Frame

LEMMA StartFlowIInv == ASSUME IInv, NEW f \in todo, StartFlow(f) PROVE IInv'
<1> DEFINE new == NewFrame(RootDir(f), f.input, <<>>)
<1>1. f \in rootFlows /\ f \in RootFlow /\ RootDir(f) \in Dir /\ f.input \in Name
  BY DEF IInv, RootsOK, TypeOK, RootFlow
<1>2. new \in Frame /\ new.dir = RootDir(f) /\ new.path = <<>> /\ new.with = <<>>
      /\ new.usages \subseteq StepsOf(RootDir(f))
  <2>1. <<>> \in Seq(Segment)
    OBVIOUS
  <2>2. QED  BY <1>1, <2>1, NewFrameType
<1>3. stack' = <<new>> /\ Len(stack') = 1 /\ stack'[1] = new /\ root' = f
      /\ onPath' = {RootDir(f)}
  BY DEF StartFlow
<1>4. UNCHANGED <<program, rootFlows, rootDiagnostics, nextStep, flows, diagnostics, ctxDone, pc>>
      /\ todo' \subseteq todo
  BY DEF StartFlow, inputVars, resultVars
<1>5. TypeOK'
  BY <1>1, <1>2, <1>3, <1>4 DEF IInv, TypeOK
<1>6. RootsOK'
  BY <1>1, <1>2, <1>3, <1>4 DEF IInv, RootsOK, RootDir
<1>7. PathsOK' /\ CallsOK'
  BY <1>2, <1>3 DEF PathsOK, CallsOK
<1>8. DirsOK'
  BY <1>2, <1>3, DepthAssumption DEF DirsOK
<1>9. FramesOK' /\ TopOK'
  BY <1>2, <1>3, <1>4 DEF FramesOK, TopOK, InUsage, Top, StepsOf, action
<1>10. FlowsAreSound'
  BY <1>4 DEF IInv, FlowsAreSound, RootDir, IsCallPath, HandsOver, InternalUsages, action
<1>11. QED  BY <1>5, <1>6, <1>7, <1>8, <1>9, <1>10 DEF IInv

LEMMA SetTopFacts ==
  ASSUME TypeOK, stack # <<>>, NEW g \in Frame
  PROVE  /\ Len(stack) \in Nat \ {0} /\ stack \in Seq(Frame) /\ Top \in Frame
         /\ SetTop(g) \in Seq(Frame) /\ Len(SetTop(g)) = Len(stack)
         /\ SetTop(g)[Len(stack)] = g
         /\ \A k \in 1 .. Len(stack) - 1 : SetTop(g)[k] = stack[k]
BY DEF TypeOK, SetTop, Top

\* What the innermost frame has yet to do after it became g.
Remains(g) ==
  g.with # <<>> =>
    /\ g.at \in StepsOf(Top.dir) /\ CallAt(Top.dir, g.at) \in Dir
    /\ \A i \in 1 .. Len(g.with) : g.with[i] \in Bindings(action(Top.dir).steps[g.at])

\* The innermost frame moves on.
LEMMA SetTopOK ==
  ASSUME IInv, stack # <<>>, NEW g \in Frame, stack' = SetTop(g),
         g.dir = Top.dir, g.path = Top.path, g.usages \subseteq Top.usages, Remains(g),
         g.with # <<>> => /\ CallAt(Top.dir, g.at) \notin onPath
                          /\ Len(stack) + 1 <= MaxCompositeActionNestingDepth,
         UNCHANGED <<program, rootFlows, todo, root, onPath>>
  PROVE  RootsOK' /\ PathsOK' /\ CallsOK' /\ DirsOK' /\ FramesOK' /\ TopOK' /\ stack' \in Seq(Frame)
<1> DEFINE n == Len(stack)
<1>1. /\ n \in Nat \ {0} /\ Len(stack') = n /\ stack' \in Seq(Frame)
      /\ stack'[n] = g /\ \A k \in 1 .. n - 1 : stack'[k] = stack[k]
  BY SetTopFacts DEF IInv
<1>2. \A k \in 1 .. n : stack'[k].dir = stack[k].dir /\ stack'[k].path = stack[k].path
  BY <1>1 DEF Top
<1>3. RootsOK'
  BY <1>1, <1>2 DEF IInv, RootsOK, RootDir
<1>4. PathsOK'
  <2> SUFFICES ASSUME NEW k \in 1 .. n
               PROVE  /\ Len(stack'[k].path) = k - 1
                      /\ \A j \in 1 .. k - 1 : stack'[k].path[j] =
                           [parent |-> stack'[j].dir, at |-> stack'[j].at, child |-> stack'[j + 1].dir]
    BY <1>1 DEF PathsOK
  <2>1. Len(stack'[k].path) = k - 1
    BY <1>1, <1>2 DEF IInv, PathsOK
  <2>2. ASSUME NEW j \in 1 .. k - 1
        PROVE  stack'[k].path[j] =
                 [parent |-> stack'[j].dir, at |-> stack'[j].at, child |-> stack'[j + 1].dir]
    <3>1. j \in 1 .. n - 1 /\ j + 1 \in 1 .. n
      BY <1>1
    <3>2. stack'[j] = stack[j] /\ stack'[j + 1].dir = stack[j + 1].dir /\ stack'[k].path = stack[k].path
      BY <1>1, <1>2, <3>1
    <3>3. QED  BY <3>2 DEF IInv, PathsOK
  <2>3. QED  BY <2>1, <2>2
<1>5. CallsOK'
  <2> SUFFICES ASSUME NEW j \in 1 .. n - 1
               PROVE  /\ stack'[j].at \in StepsOf(stack'[j].dir)
                      /\ CallAt(stack'[j].dir, stack'[j].at) = stack'[j + 1].dir
    BY <1>1 DEF CallsOK, StepsOf, CallAt, action
  <2>1. stack'[j] = stack[j] /\ stack'[j + 1].dir = stack[j + 1].dir
    BY <1>1, <1>2
  <2>2. stack[j].at \in StepsOf(stack[j].dir) /\ CallAt(stack[j].dir, stack[j].at) = stack[j + 1].dir
    BY DEF IInv, CallsOK
  <2>3. QED  BY <2>1, <2>2
<1>6. DirsOK'
  BY <1>1, <1>2 DEF IInv, DirsOK
<1>7. FramesOK'
  <2>1. ASSUME NEW k \in 1 .. n - 1
        PROVE  /\ stack[k].usages \subseteq StepsOf(stack[k].dir)
               /\ stack[k].with # <<>> =>
                    /\ stack[k].at \in StepsOf(stack[k].dir)
                    /\ CallAt(stack[k].dir, stack[k].at) \in Dir
                    /\ \A i \in 1 .. Len(stack[k].with) :
                         stack[k].with[i] \in Bindings(action(stack[k].dir).steps[stack[k].at])
    BY <1>1 DEF IInv, FramesOK
  <2>2. g.usages \subseteq StepsOf(g.dir)
    BY <1>1 DEF IInv, FramesOK, Top
  <2> SUFFICES ASSUME NEW k \in 1 .. n
               PROVE  /\ stack'[k].usages \subseteq StepsOf(stack'[k].dir)
                      /\ stack'[k].with # <<>> =>
                           /\ stack'[k].at \in StepsOf(stack'[k].dir)
                           /\ CallAt(stack'[k].dir, stack'[k].at) \in Dir
                           /\ \A i \in 1 .. Len(stack'[k].with) :
                                stack'[k].with[i] \in Bindings(action(stack'[k].dir).steps[stack'[k].at])
    BY <1>1 DEF FramesOK, StepsOf, CallAt, action
  <2>3. CASE k \in 1 .. n - 1
    BY <1>1, <2>1, <2>3
  <2>4. CASE k = n
    BY <1>1, <2>2, <2>4 DEF Remains
  <2>5. QED  BY <1>1, <2>3, <2>4
<1>8. TopOK'
  BY <1>1 DEF TopOK, InUsage, Top, Child, StepAt, CallAt, action
<1>9. QED  BY <1>1, <1>3, <1>4, <1>5, <1>6, <1>7, <1>8

\* What FlowsAreSound says of one flow.
IsSound(f) ==
  /\ f.root \in rootFlows
  /\ f.path # <<>> /\ f.path[1].parent = RootDir(f.root)
  /\ IsCallPath(f.path) /\ IsSimple(f.path)
  /\ Len(f.path) < MaxCompositeActionNestingDepth
  /\ HandsOver(f.path[Len(f.path)], f.parentInput, f.input)

LEMMA SoundKept ==
  ASSUME UNCHANGED <<program, rootFlows>>, \A f \in flows' : IsSound(f)
  PROVE  FlowsAreSound'
BY DEF IsSound, FlowsAreSound, RootDir, IsCallPath, HandsOver, InternalUsages, action

\* Steps that change neither what was confirmed nor the program.
LEMMA FlowsKept ==
  ASSUME IInv, UNCHANGED <<program, rootFlows, flows>> PROVE FlowsAreSound'
BY SoundKept DEF IInv, FlowsAreSound, IsSound

LEMMA ExpandUsageIInv == ASSUME IInv, stack # <<>>, NEW i \in Top.usages, ExpandUsage(i) PROVE IInv'
<1> DEFINE g == IF Expands(i)
                  THEN [Top EXCEPT !.usages = @ \ {i}, !.at = i, !.with = StepAt(i).with]
                  ELSE [Top EXCEPT !.usages = @ \ {i}]
<1>1. /\ Top \in Frame /\ Top.dir \in Dir /\ Top.path \in Seq(Segment)
      /\ i \in Nat /\ i \in StepsOf(Top.dir) /\ Top.usages \subseteq StepsOf(Top.dir)
  <2>1. Top \in Frame /\ Top.usages \subseteq StepsOf(Top.dir)
    BY DEF IInv, TypeOK, FramesOK, Top
  <2>2. QED  BY <2>1 DEF Frame, StepsOf
<1>2. StepAt(i) \in Step
  <2>1. action(Top.dir).steps \in Seq(Step)
    BY <1>1, ProgramTypes DEF IInv
  <2>2. QED  BY <1>1, <2>1 DEF StepAt, StepsOf
<1>3. /\ g \in Frame /\ g.dir = Top.dir /\ g.path = Top.path /\ g.usages \subseteq Top.usages
      /\ Expands(i) => g.at = i /\ g.with = StepAt(i).with
      /\ ~Expands(i) => g.with = Top.with
  BY <1>1, <1>2 DEF Frame, Step
<1>4. stack' = SetTop(g) /\ Top.with = <<>>
  BY DEF ExpandUsage, InUsage
<1>5. /\ UNCHANGED <<program, nextStep, rootFlows, rootDiagnostics, todo, root, onPath, flows, ctxDone, pc>>
  BY DEF ExpandUsage, inputVars
<1>6. g.with # <<>> =>
        /\ Expands(i) /\ CallAt(Top.dir, g.at) \in Dir \ onPath
        /\ Len(stack) + 1 <= MaxCompositeActionNestingDepth
  BY <1>2, <1>3, <1>4 DEF Expands, CallAt, StepAt, Step
<1>7. Remains(g)
  BY <1>1, <1>3, <1>6 DEF Remains, StepAt, Bindings
<1>8. RootsOK' /\ PathsOK' /\ CallsOK' /\ DirsOK' /\ FramesOK' /\ TopOK' /\ stack' \in Seq(Frame)
  BY <1>3, <1>4, <1>5, <1>6, <1>7, SetTopOK
<1>9. diagnostics' \in SUBSET Diagnostic
  <2>1. CASE ~Expands(i)
    BY <2>1 DEF ExpandUsage, IInv, TypeOK
  <2>2. CASE Expands(i)
    <3>1. StepAt(i).call \in Dir
      BY <1>2, <2>2 DEF Expands, Step
    <3>2. Missing(StepAt(i).call, StepAt(i)) \subseteq Name
      BY <3>1, ProgramTypes DEF Missing, IInv
    <3>3. root.step \in Nat
      BY DEF IInv, RootsOK, TypeOK, RootFlow
    <3>4. {Notice("missing", i, m) : m \in Missing(StepAt(i).call, StepAt(i))} \subseteq Diagnostic
      BY <1>1, <3>1, <3>2, <3>3 DEF Notice, Diagnostic, Kind
    <3>5. QED  BY <2>2, <3>4 DEF ExpandUsage, Emit, IInv, TypeOK
  <2>3. QED  BY <2>1, <2>2
<1>10. TypeOK'
  BY <1>5, <1>8, <1>9 DEF IInv, TypeOK
<1>11. QED  BY <1>5, <1>8, <1>10, FlowsKept DEF IInv

LEMMA ReturnIInv == ASSUME IInv, Return PROVE IInv'
<1> DEFINE n == Len(stack)
<1>1. /\ stack # <<>> /\ stack' = SubSeq(stack, 1, n - 1) /\ onPath' = onPath \ {stack[n].dir}
      /\ UNCHANGED <<program, nextStep, rootFlows, rootDiagnostics, todo, root, flows, diagnostics, ctxDone, pc>>
  BY DEF Return, LeavesPath, Top, inputVars, resultVars
<1>2. /\ n \in Nat \ {0} /\ Len(stack') = n - 1 /\ stack' \in Seq(Frame)
      /\ \A k \in 1 .. n - 1 : stack'[k] = stack[k]
  <2>1. stack \in Seq(Frame) /\ n \in Nat \ {0}
    BY <1>1 DEF IInv, TypeOK
  <2>2. Len(SubSeq(stack, 1, n - 1)) = n - 1
    BY <2>1
  <2>3. \A k \in 1 .. n - 1 : SubSeq(stack, 1, n - 1)[k] = stack[k]
    BY <2>1
  <2>4. SubSeq(stack, 1, n - 1) \in Seq(Frame)
    BY <2>1, SubSeqProperties
  <2>5. QED  BY <1>1, <2>1, <2>2, <2>3, <2>4
<1>3. TypeOK'
  BY <1>1, <1>2 DEF IInv, TypeOK
<1>4. RootsOK'
  BY <1>1, <1>2 DEF IInv, RootsOK, RootDir
<1>5. PathsOK'
  <2> SUFFICES ASSUME NEW k \in 1 .. n - 1
               PROVE  /\ Len(stack'[k].path) = k - 1
                      /\ \A j \in 1 .. k - 1 : stack'[k].path[j] =
                           [parent |-> stack'[j].dir, at |-> stack'[j].at, child |-> stack'[j + 1].dir]
    BY <1>2 DEF PathsOK
  <2>1. stack'[k] = stack[k] /\ k \in 1 .. n /\ \A j \in 1 .. k - 1 : j + 1 \in 1 .. n - 1 /\ j \in 1 .. n - 1
    BY <1>2
  <2>2. QED  BY <1>2, <2>1 DEF IInv, PathsOK
<1>6. CallsOK'
  <2> SUFFICES ASSUME NEW j \in 1 .. Len(stack') - 1
               PROVE  /\ stack'[j].at \in 1 .. Len(program'.actions[stack'[j].dir].steps)
                      /\ program'.actions[stack'[j].dir].steps[stack'[j].at].call = stack'[j + 1].dir
    BY DEF CallsOK, StepsOf, CallAt, action
  <2>1. j \in 1 .. n - 1 /\ stack'[j].dir = stack[j].dir /\ stack'[j].at = stack[j].at
        /\ stack'[j + 1].dir = stack[j + 1].dir
    <3>1. j \in 1 .. n - 1 /\ j + 1 \in 1 .. n - 1
      BY <1>2
    <3>2. QED  BY <1>2, <3>1
  <2>2. /\ stack[j].at \in 1 .. Len(program.actions[stack[j].dir].steps)
        /\ program.actions[stack[j].dir].steps[stack[j].at].call = stack[j + 1].dir
    BY <2>1 DEF IInv, CallsOK, StepsOf, CallAt, action
  <2>3. QED  BY <1>1, <2>1, <2>2
<1>7. DirsOK'
  BY <1>1, <1>2, DepthAssumption DEF IInv, DirsOK
<1>8. FramesOK'
  <2>1. FramesOK /\ Len(stack') = n - 1 /\ \A k \in 1 .. Len(stack') : k \in 1 .. Len(stack) /\ stack'[k] = stack[k]
    BY <1>2 DEF IInv
  <2>2. QED  BY <1>1, <2>1 DEF FramesOK, StepsOf, CallAt, action
<1>9. TopOK'
  <2> SUFFICES ASSUME n > 1, stack[n - 1].with # <<>>
               PROVE  CallAt(stack[n - 1].dir, stack[n - 1].at) \notin onPath' /\ n <= MaxCompositeActionNestingDepth
    <3>1. stack' # <<>> => Len(stack') = n - 1 /\ n - 1 >= 1 /\ n - 1 \in 1 .. n - 1
      BY <1>2
    <3>2. stack' # <<>> => Top'.dir = stack[n - 1].dir /\ Top'.at = stack[n - 1].at /\ Top'.with = stack[n - 1].with
      BY <1>2, <3>1 DEF Top
    <3>3. stack' # <<>> => Child' = CallAt(stack[n - 1].dir, stack[n - 1].at)
      BY <1>1, <3>2 DEF Child, StepAt, CallAt, action
    <3>4. QED  BY <1>2, <3>1, <3>2, <3>3 DEF TopOK, InUsage
  <2>1. CallAt(stack[n - 1].dir, stack[n - 1].at) = stack[n].dir
    BY <1>2 DEF IInv, CallsOK
  <2>2. QED  BY <1>1, <2>1 DEF IInv, DirsOK
<1>10. QED  BY <1>1, <1>3, <1>4, <1>5, <1>6, <1>7, <1>8, <1>9, FlowsKept DEF IInv

\* The path of the innermost frame, after a step, is a simple path of calls.
LEMMA TopPath ==
  ASSUME TypeOK', RootsOK', PathsOK', CallsOK', DirsOK', Len(stack') > 1, UNCHANGED <<program, root>>,
         NEW p, p = stack'[Len(stack')].path
  PROVE  /\ p # <<>> /\ p[1].parent = RootDir(root) /\ IsCallPath(p) /\ IsSimple(p)
         /\ Len(p) < MaxCompositeActionNestingDepth
<1> DEFINE n == Len(stack')
           S == stack'
<1>1. /\ n \in Nat /\ n > 1 /\ S \in Seq(Frame) /\ p \in Seq(Segment) /\ Len(p) = n - 1
      /\ \A j \in 1 .. n - 1 : p[j] = [parent |-> S[j].dir, at |-> S[j].at, child |-> S[j + 1].dir]
  <2>1. S \in Seq(Frame) /\ n \in Nat /\ n \in 1 .. n
    BY DEF TypeOK
  <2>2. S[n] \in Frame
    BY <2>1
  <2>3. QED  BY <2>1, <2>2 DEF PathsOK, Frame
<1>2. p # <<>> /\ Len(p) < MaxCompositeActionNestingDepth
  BY <1>1, DepthAssumption DEF DirsOK
<1>3. \A j \in 1 .. n - 1 : p[j].parent = S[j].dir /\ p[j].at = S[j].at /\ p[j].child = S[j + 1].dir
  <2> SUFFICES ASSUME NEW j \in 1 .. n - 1
               PROVE  p[j].parent = S[j].dir /\ p[j].at = S[j].at /\ p[j].child = S[j + 1].dir
    OBVIOUS
  <2> HIDE DEF n, S
  <2>1. p[j] = [parent |-> S[j].dir, at |-> S[j].at, child |-> S[j + 1].dir]
    BY <1>1
  <2> DEFINE r == p[j]
             x == S[j].dir
             y == S[j].at
             z == S[j + 1].dir
  <2>2. r = [parent |-> x, at |-> y, child |-> z]
    BY <2>1
  <2>3. r.parent = x /\ r.at = y /\ r.child = z
    <3> HIDE DEF r, x, y, z
    <3>1. QED  BY <2>2
  <2>4. QED  BY <2>3
<1>4. p[1].parent = RootDir(root)
  <2>1. S # <<>> /\ 1 \in 1 .. n - 1
    BY <1>1
  <2>2. S[1].dir = RootDir(root)
    BY <2>1 DEF RootsOK, RootDir
  <2>3. QED  BY <1>3, <2>1, <2>2
<1>5. \A j \in 1 .. n - 1 : S[j].at \in StepsOf(S[j].dir) /\ CallAt(S[j].dir, S[j].at) = S[j + 1].dir
  BY DEF CallsOK, StepsOf, CallAt, action
<1>6. IsCallPath(p)
  <2>1. \A k \in 1 .. n - 1 : p[k].at \in StepsOf(p[k].parent) /\ CallAt(p[k].parent, p[k].at) = p[k].child
    BY <1>3, <1>5
  <2>2. \A k \in 1 .. n - 2 : p[k + 1].parent = p[k].child
    <3> SUFFICES ASSUME NEW k \in 1 .. n - 2 PROVE p[k + 1].parent = p[k].child
      OBVIOUS
    <3>1. k \in 1 .. n - 1 /\ k + 1 \in 1 .. n - 1
      BY <1>1
    <3>2. QED  BY <1>3, <3>1
  <2>3. Len(p) = n - 1 /\ Len(p) - 1 = n - 2
    BY <1>1
  <2>4. QED  BY <2>1, <2>2, <2>3 DEF IsCallPath, StepsOf, CallAt
<1>7. IsSimple(p)
  <2> DEFINE d(k) == S[k].dir
  <2>1. \A j, k \in 1 .. n : d(j) = d(k) => j = k
    BY DEF DirsOK
  <2>2. \A k \in 1 .. n - 1 : p[k].child = d(k + 1)
    BY <1>3
  <2>3. p[1].parent = d(1)
    BY <1>1, <1>3
  <2> HIDE DEF d
  <2>4. \A j, k \in 1 .. n - 1 : p[j].child = p[k].child => j = k
    <3> SUFFICES ASSUME NEW j \in 1 .. n - 1, NEW k \in 1 .. n - 1, p[j].child = p[k].child PROVE j = k
      OBVIOUS
    <3>1. j + 1 \in 1 .. n /\ k + 1 \in 1 .. n /\ d(j + 1) = d(k + 1)
      BY <1>1, <2>2
    <3>2. QED  BY <1>1, <2>1, <3>1
  <2>5. \A k \in 1 .. n - 1 : p[k].child # p[1].parent
    <3> SUFFICES ASSUME NEW k \in 1 .. n - 1 PROVE p[k].child # p[1].parent
      OBVIOUS
    <3>1. 1 \in 1 .. n /\ k + 1 \in 1 .. n /\ 1 # k + 1
      BY <1>1
    <3>2. QED  BY <2>1, <2>2, <2>3, <3>1
  <2>6. QED  BY <1>1, <2>4, <2>5 DEF IsSimple
<1>8. QED  BY <1>2, <1>4, <1>6, <1>7

\* The innermost frame moves on to g and a callee is entered.
LEMMA PushOK ==
  ASSUME IInv, stack # <<>>, NEW g \in Frame, NEW new \in Frame,
         stack' = Append(SetTop(g), new), onPath' = onPath \cup {new.dir},
         g.dir = Top.dir, g.path = Top.path, g.usages \subseteq Top.usages, Remains(g),
         g.at \in StepsOf(Top.dir), CallAt(Top.dir, g.at) = new.dir, new.dir \notin onPath,
         Len(stack) + 1 <= MaxCompositeActionNestingDepth,
         new.path = Append(Top.path, [parent |-> Top.dir, at |-> g.at, child |-> new.dir]),
         new.with = <<>>, new.usages \subseteq StepsOf(new.dir),
         UNCHANGED <<program, rootFlows, todo, root>>
  PROVE  RootsOK' /\ PathsOK' /\ CallsOK' /\ DirsOK' /\ FramesOK' /\ TopOK' /\ stack' \in Seq(Frame)
<1> DEFINE n == Len(stack)
<1>1. /\ n \in Nat \ {0} /\ Len(stack') = n + 1 /\ stack' \in Seq(Frame)
      /\ stack'[n + 1] = new /\ stack'[n] = g /\ \A k \in 1 .. n - 1 : stack'[k] = stack[k]
  <2>1. /\ n \in Nat \ {0} /\ Len(SetTop(g)) = n /\ SetTop(g) \in Seq(Frame)
        /\ SetTop(g)[n] = g /\ \A k \in 1 .. n - 1 : SetTop(g)[k] = stack[k]
    BY SetTopFacts DEF IInv
  <2>2. \A k \in 1 .. n : Append(SetTop(g), new)[k] = SetTop(g)[k]
    BY <2>1
  <2>3. QED  BY <2>1, <2>2
<1>2. \A k \in 1 .. n : stack'[k].dir = stack[k].dir /\ stack'[k].path = stack[k].path
  <2>1. stack'[n].dir = stack[n].dir /\ stack'[n].path = stack[n].path
    BY <1>1 DEF Top
  <2>2. \A k \in 1 .. n : k = n \/ k \in 1 .. n - 1
    BY <1>1
  <2>3. QED  BY <1>1, <2>1, <2>2
<1>3. RootsOK'
  BY <1>1, <1>2 DEF IInv, RootsOK, RootDir
<1>4. PathsOK'
  <2> SUFFICES ASSUME NEW k \in 1 .. n + 1
               PROVE  /\ Len(stack'[k].path) = k - 1
                      /\ \A j \in 1 .. k - 1 : stack'[k].path[j] =
                           [parent |-> stack'[j].dir, at |-> stack'[j].at, child |-> stack'[j + 1].dir]
    BY <1>1 DEF PathsOK
  <2>1. Top = stack[n] /\ Top.path \in Seq(Segment) /\ Len(Top.path) = n - 1
    <3>1. Top \in Frame /\ Top = stack[n] /\ n \in 1 .. n
      BY <1>1, SetTopFacts DEF IInv, Top
    <3>2. QED  BY <3>1 DEF IInv, PathsOK, Frame
  <2>2. ASSUME NEW m \in 1 .. n, NEW j \in 1 .. m - 1
        PROVE  stack[m].path[j] = [parent |-> stack'[j].dir, at |-> stack'[j].at, child |-> stack'[j + 1].dir]
    <3>1. j \in 1 .. n - 1 /\ j + 1 \in 1 .. n
      BY <1>1
    <3>2. stack'[j] = stack[j] /\ stack'[j + 1].dir = stack[j + 1].dir
      BY <1>1, <1>2, <3>1
    <3>3. QED  BY <3>2 DEF IInv, PathsOK
  <2>3. CASE k \in 1 .. n
    <3>1. Len(stack[k].path) = k - 1 /\ stack'[k].path = stack[k].path
      BY <1>2, <2>3 DEF IInv, PathsOK
    <3>2. QED  BY <2>2, <2>3, <3>1
  <2>4. CASE k = n + 1
    <3>1. /\ Len(new.path) = n
          /\ new.path[n] = [parent |-> Top.dir, at |-> g.at, child |-> new.dir]
          /\ \A j \in 1 .. n - 1 : new.path[j] = Top.path[j]
      BY <1>1, <2>1
    <3>2. new.path[n] = [parent |-> stack'[n].dir, at |-> stack'[n].at, child |-> stack'[n + 1].dir]
      BY <1>1, <3>1
    <3>3. \A j \in 1 .. n - 1 : new.path[j] =
             [parent |-> stack'[j].dir, at |-> stack'[j].at, child |-> stack'[j + 1].dir]
      BY <1>1, <2>1, <2>2, <3>1
    <3>4. \A j \in 1 .. n : j = n \/ j \in 1 .. n - 1
      BY <1>1
    <3>5. \A j \in 1 .. n : new.path[j] =
             [parent |-> stack'[j].dir, at |-> stack'[j].at, child |-> stack'[j + 1].dir]
      BY <3>2, <3>3, <3>4
    <3>6. stack'[k].path = new.path /\ k - 1 = n
      BY <1>1, <2>4
    <3>7. QED  BY <3>1, <3>5, <3>6
  <2>5. QED  BY <1>1, <2>3, <2>4
<1>5. CallsOK'
  <2>0. Len(stack') - 1 = n /\ program' = program
    BY <1>1
  <2> SUFFICES ASSUME NEW j \in 1 .. n
               PROVE  /\ stack'[j].at \in StepsOf(stack'[j].dir)
                      /\ CallAt(stack'[j].dir, stack'[j].at) = stack'[j + 1].dir
    BY <2>0 DEF CallsOK, StepsOf, CallAt, action
  <2>1. CASE j = n
    <3>1. stack'[j] = g /\ stack'[j + 1] = new /\ g.dir = Top.dir
      BY <1>1, <2>1
    <3>2. QED  BY <3>1
  <2>2. CASE j \in 1 .. n - 1
    <3>1. stack'[j] = stack[j] /\ stack'[j + 1].dir = stack[j + 1].dir
      BY <1>1, <1>2, <2>2
    <3>2. QED  BY <2>2, <3>1 DEF IInv, CallsOK
  <2>3. QED  BY <1>1, <2>1, <2>2
<1>6. DirsOK'
  <2>1. \A k \in 1 .. n : stack'[k].dir # new.dir
    BY <1>2 DEF IInv, DirsOK
  <2>2. \A j, k \in 1 .. n + 1 : stack'[j].dir = stack'[k].dir => j = k
    <3> SUFFICES ASSUME NEW j \in 1 .. n + 1, NEW k \in 1 .. n + 1, stack'[j].dir = stack'[k].dir
                 PROVE  j = k
      OBVIOUS
    <3>1. CASE j \in 1 .. n /\ k \in 1 .. n
      BY <1>2, <3>1 DEF IInv, DirsOK
    <3>2. CASE j = n + 1 \/ k = n + 1
      BY <1>1, <2>1, <3>2
    <3>3. QED  BY <1>1, <3>1, <3>2
  <2>3. onPath' = {stack'[k].dir : k \in 1 .. n + 1}
    <3>1. {stack'[k].dir : k \in 1 .. n + 1} = {stack'[k].dir : k \in 1 .. n} \cup {stack'[n + 1].dir}
      BY <1>1
    <3>2. {stack'[k].dir : k \in 1 .. n} = {stack[k].dir : k \in 1 .. n}
      BY <1>2
    <3>3. QED  BY <1>1, <3>1, <3>2 DEF IInv, DirsOK
  <2>4. QED  BY <1>1, <2>2, <2>3 DEF DirsOK
<1>7. FramesOK'
  <2> SUFFICES ASSUME NEW k \in 1 .. n + 1
               PROVE  /\ stack'[k].usages \subseteq StepsOf(stack'[k].dir)
                      /\ stack'[k].with # <<>> =>
                           /\ stack'[k].at \in StepsOf(stack'[k].dir)
                           /\ CallAt(stack'[k].dir, stack'[k].at) \in Dir
                           /\ \A i \in 1 .. Len(stack'[k].with) :
                                stack'[k].with[i] \in Bindings(action(stack'[k].dir).steps[stack'[k].at])
    BY <1>1 DEF FramesOK, StepsOf, CallAt, action
  <2>1. CASE k \in 1 .. n - 1
    <3>1. stack'[k] = stack[k] /\ k \in 1 .. n
      BY <1>1, <2>1
    <3>2. QED  BY <3>1 DEF IInv, FramesOK
  <2>2. CASE k = n
    <3>1. Top.usages \subseteq StepsOf(Top.dir)
      BY <1>1 DEF IInv, FramesOK, Top
    <3>2. QED  BY <1>1, <2>2, <3>1 DEF Remains
  <2>3. CASE k = n + 1
    BY <1>1, <2>3
  <2>4. QED  BY <1>1, <2>1, <2>2, <2>3
<1>8. TopOK'
  BY <1>1 DEF TopOK, InUsage, Top
<1>9. QED  BY <1>1, <1>3, <1>4, <1>5, <1>6, <1>7, <1>8

LEMMA ExpandBindingIInv == ASSUME IInv, ExpandBinding PROVE IInv'
<1> DEFINE b       == Head(Top.with)
           s       == StepAt(Top.at)
           g       == [Top EXCEPT !.with = Tail(@)]
           segment == [parent |-> Top.dir, at |-> Top.at, child |-> Child]
           path    == Append(Top.path, segment)
           new     == NewFrame(Child, b.name, path)
           flow    == [root |-> root, path |-> path, parentInput |-> Top.input, input |-> b.name]
<1>1. /\ stack # <<>> /\ Top.with # <<>>
      /\ UNCHANGED <<program, nextStep, rootFlows, rootDiagnostics, todo, root, ctxDone, pc>>
      /\ diagnostics' = diagnostics \cup Problems(b)
  BY DEF ExpandBinding, InUsage, inputVars, Emit
<1>2. /\ Top \in Frame /\ Top.dir \in Dir /\ Top.input \in Name /\ Top.path \in Seq(Segment)
      /\ Top.with \in Seq(Binding) /\ Top.at \in Nat /\ Top.usages \subseteq Nat
  <2>1. Top \in Frame
    BY <1>1 DEF IInv, TypeOK, Top
  <2>2. QED  BY <2>1 DEF Frame
<1>3. /\ Top.at \in StepsOf(Top.dir) /\ Child \in Dir /\ Child = CallAt(Top.dir, Top.at)
      /\ \A i \in 1 .. Len(Top.with) : Top.with[i] \in Bindings(s)
      /\ Child \notin onPath /\ Len(stack) + 1 <= MaxCompositeActionNestingDepth
  <2>1. Len(stack) \in 1 .. Len(stack) /\ Top = stack[Len(stack)]
    BY <1>1, SetTopFacts, <1>2 DEF IInv, Top
  <2>2. QED  BY <1>1, <2>1 DEF IInv, FramesOK, TopOK, InUsage, Child, CallAt, StepAt
<1>4. /\ b \in Bindings(s) /\ b \in Binding /\ b.name \in Name /\ b.value \in Value
      /\ Tail(Top.with) \in Seq(Binding)
      /\ \A i \in 1 .. Len(Tail(Top.with)) : Tail(Top.with)[i] \in Bindings(s)
  <2>1. b = Top.with[1] /\ 1 \in 1 .. Len(Top.with)
    BY <1>1, <1>2
  <2>2. b \in Bindings(s) /\ b \in Binding
    BY <1>2, <1>3, <2>1
  <2>3. /\ Tail(Top.with) \in Seq(Binding) /\ Len(Tail(Top.with)) = Len(Top.with) - 1
        /\ \A i \in 1 .. Len(Tail(Top.with)) : Tail(Top.with)[i] = Top.with[i + 1]
    BY <1>1, <1>2
  <2>4. \A i \in 1 .. Len(Tail(Top.with)) : i + 1 \in 1 .. Len(Top.with)
    BY <1>1, <1>2, <2>3
  <2>5. QED  BY <1>3, <2>2, <2>3, <2>4 DEF Binding
<1>5. /\ g \in Frame /\ g.dir = Top.dir /\ g.path = Top.path /\ g.usages = Top.usages
      /\ g.at = Top.at /\ g.with = Tail(Top.with)
  BY <1>2, <1>4 DEF Frame
<1>6. Remains(g)
  BY <1>3, <1>4, <1>5 DEF Remains, StepAt
<1>7. diagnostics' \in SUBSET Diagnostic
  <2>1. root.step \in Nat
    BY <1>1 DEF IInv, RootsOK, TypeOK, RootFlow
  <2>2. \A kind \in Kind : Notice(kind, Top.at, b.name) \in Diagnostic
    BY <1>2, <1>3, <1>4, <2>1 DEF Notice, Diagnostic, Child
  <2>3. Problems(b) \subseteq Diagnostic
    BY <1>4, <2>2, Classification DEF Problems, Kind
  <2>4. QED  BY <1>1, <2>3 DEF IInv, TypeOK
<1>8. CASE ~Confirmed(b)
  <2>1. stack' = SetTop(g) /\ UNCHANGED <<flows, onPath>>
    BY <1>8 DEF ExpandBinding, NextBinding
  <2>2. RootsOK' /\ PathsOK' /\ CallsOK' /\ DirsOK' /\ FramesOK' /\ TopOK' /\ stack' \in Seq(Frame)
    BY <1>1, <1>3, <1>5, <1>6, <2>1, SetTopOK
  <2>3. TypeOK'
    BY <1>1, <1>7, <2>1, <2>2 DEF IInv, TypeOK
  <2>4. QED  BY <1>1, <2>1, <2>2, <2>3, FlowsKept DEF IInv
<1>9. CASE Confirmed(b)
  <2>1. /\ stack' = Append(SetTop(g), new) /\ onPath' = onPath \cup {Child}
        /\ flows' = flows \cup {flow}
    BY <1>9 DEF ExpandBinding, NextBinding
  <2>2. segment \in Segment /\ path \in Seq(Segment)
    BY <1>2, <1>3 DEF Segment
  <2>3. /\ new \in Frame /\ new.dir = Child /\ new.path = path /\ new.with = <<>>
        /\ new.usages \subseteq StepsOf(Child)
    <3> HIDE DEF path, b
    <3>1. QED  BY <1>3, <1>4, <2>2, NewFrameType
  <2>4. RootsOK' /\ PathsOK' /\ CallsOK' /\ DirsOK' /\ FramesOK' /\ TopOK' /\ stack' \in Seq(Frame)
    <3>1. new.path = Append(Top.path, [parent |-> Top.dir, at |-> g.at, child |-> new.dir])
      BY <1>5, <2>3
    <3>2. g.at \in StepsOf(Top.dir) /\ CallAt(Top.dir, g.at) = new.dir /\ new.dir \notin onPath
          /\ onPath' = onPath \cup {new.dir}
      BY <1>3, <1>5, <2>1, <2>3
    <3> HIDE DEF g, new
    <3>3. QED  BY <1>1, <1>3, <1>5, <1>6, <2>1, <2>3, <3>1, <3>2, PushOK
  <2>5. root \in rootFlows /\ root \in RootFlow /\ flow \in NestedFlow
    BY <1>1, <1>2, <1>4, <2>2 DEF IInv, RootsOK, TypeOK, NestedFlow
  <2>6. TypeOK'
    BY <1>1, <1>3, <1>7, <2>1, <2>4, <2>5 DEF IInv, TypeOK
  <2>7. Len(stack') > 1 /\ stack'[Len(stack')] = new
    <3> HIDE DEF g, new
    <3>1. /\ Len(stack) \in Nat \ {0} /\ SetTop(g) \in Seq(Frame) /\ Len(SetTop(g)) = Len(stack)
      BY <1>1, <1>5, SetTopFacts DEF IInv
    <3>2. QED  BY <2>1, <2>3, <3>1
  <2>8. /\ path # <<>> /\ path[1].parent = RootDir(root) /\ IsCallPath(path) /\ IsSimple(path)
        /\ Len(path) < MaxCompositeActionNestingDepth
    <3>1. path = stack'[Len(stack')].path
      BY <2>3, <2>7
    <3> HIDE DEF path, new
    <3>2. QED  BY <1>1, <2>4, <2>6, <2>7, <3>1, TopPath
  <2>9. path[Len(path)] = segment
    BY <1>2, <2>2
  <2>10. HandsOver(segment, Top.input, b.name)
    <3>1. ~b.value.dynamic /\ b.value.refs = {Top.input} /\ b.value.whole = Top.input
      BY <1>4, <1>9, Classification DEF Confirmed
    <3>2. b.name \in action(Child).inputs /\ InternalUsages(Child, b.name) # {}
      BY <1>9 DEF Confirmed
    <3>3. QED  BY <1>4, <3>1, <3>2 DEF HandsOver, StepAt
  <2>11. FlowsAreSound'
    <3>1. IsSound(flow)
      BY <2>5, <2>8, <2>9, <2>10 DEF IsSound
    <3> HIDE DEF flow
    <3>2. \A f \in flows' : IsSound(f)
      BY <2>1, <3>1 DEF IInv, FlowsAreSound, IsSound
    <3>3. QED  BY <1>1, <3>2, SoundKept
  <2>12. QED  BY <2>4, <2>6, <2>11 DEF IInv
<1>10. QED  BY <1>8, <1>9

LEMMA NextIInv == IInv /\ [Next]_vars => IInv'
<1> SUFFICES ASSUME IInv, [Next]_vars PROVE IInv'
  OBVIOUS
<1>1. CASE LinkStep
  BY <1>1, LinkStepIInv
<1>2. CASE \E f \in todo : StartFlow(f)
  BY <1>2, StartFlowIInv
<1>3. CASE stack # <<>> /\ \E i \in Top.usages : ExpandUsage(i)
  BY <1>3, ExpandUsageIInv
<1>4. CASE ExpandBinding
  BY <1>4, ExpandBindingIInv
<1>5. CASE Return
  BY <1>5, ReturnIInv
<1>6. CASE LinkNested \/ Finish \/ Abort \/ Cancel \/ UNCHANGED vars
  BY <1>6, OtherIInv
<1>7. QED  BY <1>1, <1>2, <1>3, <1>4, <1>5, <1>6 DEF Next, Link
-----------------------------------------------------------------------------
\* The invariant holds for every set of programs.
THEOREM Inductive == Spec => []IInv
<1>1. Init => IInv
  BY InitIInv
<1>2. IInv /\ [Next]_vars => IInv'
  BY NextIInv
<1>3. QED  BY <1>1, <1>2, PTL DEF Spec

\* Every reachable state of the linkers has its type.
THEOREM TypeCorrect == Spec => []TypeOK
<1>1. IInv => TypeOK
  BY DEF IInv
<1>2. QED  BY <1>1, Inductive, PTL

\* A secret is said to reach a nested action only along calls that hand it over.
THEOREM FlowSoundness == Spec => []FlowsAreSound
<1>1. IInv => FlowsAreSound
  BY DEF IInv
<1>2. QED  BY <1>1, Inductive, PTL
-----------------------------------------------------------------------------
(***************************************************************************)
(* That the result is exact.  The recursion S of a root flow r is a chain  *)
(* of the reference, and every chain and notice of the reference that the  *)
(* results do not hold yet is still on the way: its root flow is in todo,  *)
(* or a frame has the step, or the binding, that leads on yet to look at.  *)
(***************************************************************************)
SegmentIn(S, j) == [parent |-> S[j].dir, at |-> S[j].at, child |-> S[j + 1].dir]

StackOK(S, r) ==
  /\ S \in Seq(Frame) /\ S # <<>> /\ Len(S) <= MaxCompositeActionNestingDepth
  /\ r \in rootFlows /\ S[1].dir = RootDir(r) /\ S[1].input = r.input
  /\ \A k \in 1 .. Len(S) : /\ Len(S[k].path) = k - 1
                            /\ \A j \in 1 .. k - 1 : S[k].path[j] = SegmentIn(S, j)
  /\ \A j \in 1 .. Len(S) - 1 :
       /\ S[j].at \in StepsOf(S[j].dir) /\ CallAt(S[j].dir, S[j].at) = S[j + 1].dir
       /\ S[j].at \in InternalUsages(S[j].dir, S[j].input)
       /\ HandsOver(SegmentIn(S, j), S[j].input, S[j + 1].input)
  /\ \A j, k \in 1 .. Len(S) : S[j].dir = S[k].dir => j = k

StackHops(S)     == [j \in 1 .. Len(S) - 1 |-> [segment |-> SegmentIn(S, j), input |-> S[j + 1].input]]
StackChain(S, r) == [root |-> r, hops |-> StackHops(S)]

\* What a frame has yet to look at is a use of its input.
FramesRead ==
  \A k \in 1 .. Len(stack) :
    /\ stack[k].usages \subseteq InternalUsages(stack[k].dir, stack[k].input)
    /\ stack[k].with # <<>> => stack[k].at \in InternalUsages(stack[k].dir, stack[k].input)

\* A frame was entered by a call that hands over its input.
StackHandsOver ==
  /\ stack # <<>> => stack[1].input = root.input
  /\ \A k \in 1 .. Len(stack) - 1 :
       /\ stack[k].at \in InternalUsages(stack[k].dir, stack[k].input)
       /\ HandsOver(SegmentIn(stack, k), stack[k].input, stack[k + 1].input)

PhaseOK ==
  /\ pc = "link" => todo = {} /\ stack = <<>> /\ flows = {} /\ diagnostics = {}
  /\ pc = "done" => todo = {} /\ stack = <<>>

FlowsFound   == \A f \in flows : \E c \in Chains : c.hops # <<>> /\ f = ChainFlow(c)
NoticesFound == \A x \in diagnostics : \E c \in Chains : \E i \in EndCalls(c) : x \in CallNotices(c, i)

\* The first k frames of S are the first k actions of chain c.
Reached(S, r, c, k) ==
  /\ c.root = r /\ k \in 1 .. Len(S)
  /\ \A j \in 1 .. k : /\ S[j].dir = DirAt(c.root, c.hops, j - 1)
                       /\ S[j].input = InputAt(c.root, c.hops, j - 1)
  /\ \A j \in 1 .. k - 1 : S[j].at = c.hops[j].segment.at

Hands(b, from, to) == b.name = to /\ ~b.value.dynamic /\ b.value.refs = {from} /\ b.value.whole = from

\* Frame k has the call of hop yet to look at, or its binding.
ToTake(S, k, hop) ==
  \/ hop.segment.at \in S[k].usages
  \/ /\ hop.segment.at = S[k].at
     /\ \E j \in 1 .. Len(S[k].with) : Hands(S[k].with[j], S[k].input, hop.input)

OnWay(T, S, r, c) ==
  \/ c.root \in T
  \/ \E k \in 1 .. Len(c.hops) : Reached(S, r, c, k) /\ ToTake(S, k, c.hops[k])

\* What a binding b of step i gives rise to at the end of c.
BindingNotices(c, i, b) ==
  {x \in {ChainNotice(c, i, Classify(b.value), b.name)} : IsProblem(b.value)}
  \cup {x \in {ChainNotice(c, i, "undeclared", b.name)} : HandsUndeclared(c, i, b)}

\* Notice x about call i is still to be given at the end of c.
AtEnd(S, r, c, i, x) ==
  LET k == Len(c.hops) + 1 IN
  /\ Reached(S, r, c, k)
  /\ \/ i \in S[k].usages
     \/ /\ i = S[k].at
        /\ \E j \in 1 .. Len(S[k].with) : x \in BindingNotices(c, i, S[k].with[j])

\* Chain c was walked to its end, whose uses are all to be looked at.
Arrived(F, S, r, c) ==
  /\ c.hops # <<>> => ChainFlow(c) \in F
  /\ Reached(S, r, c, Len(c.hops) + 1)
  /\ InternalUsages(EndDir(c), EndInput(c)) \subseteq S[Len(c.hops) + 1].usages

Accounted(F, D, T, S, r) ==
  \A c \in Chains :
    /\ c.hops # <<>> => ChainFlow(c) \in F \/ OnWay(T, S, r, c)
    /\ \A i \in EndCalls(c) : \A x \in CallNotices(c, i) :
         x \in D \/ OnWay(T, S, r, c) \/ AtEnd(S, r, c, i, x)

Complete == pc \in {"nested", "done"} => Accounted(flows, diagnostics, todo, stack, root)

LInv == IInv /\ FramesRead /\ StackHandsOver /\ PhaseOK /\ FlowsFound /\ NoticesFound /\ Complete
-----------------------------------------------------------------------------
\* Facts about a chain that its definition spreads out.
LEMMA ChainFacts ==
  ASSUME NEW c \in Chains
  PROVE  /\ c = [root |-> c.root, hops |-> c.hops] /\ c.root \in rootFlows
         /\ Len(c.hops) \in 0 .. MaxCompositeActionNestingDepth - 1
         /\ c.hops \in [1 .. Len(c.hops) -> Hop]
         /\ \A k \in 1 .. Len(c.hops) :
              /\ c.hops[k] = [segment |-> c.hops[k].segment, input |-> c.hops[k].input]
              /\ c.hops[k].segment = [parent |-> DirAt(c.root, c.hops, k - 1),
                                      at |-> c.hops[k].segment.at,
                                      child |-> DirAt(c.root, c.hops, k)]
              /\ c.hops[k].segment.child \in Dir
              /\ c.hops[k].input = InputAt(c.root, c.hops, k)
              /\ c.hops[k].segment.at \in InternalUsages(DirAt(c.root, c.hops, k - 1), InputAt(c.root, c.hops, k - 1))
              /\ CallAt(DirAt(c.root, c.hops, k - 1), c.hops[k].segment.at) = DirAt(c.root, c.hops, k)
              /\ HandsOver(c.hops[k].segment, InputAt(c.root, c.hops, k - 1), c.hops[k].input)
<1>1. /\ c \in [root : rootFlows, hops : Hops] /\ IsChain(c.root, c.hops)
  BY DEF Chains
<1>2. PICK n \in 0 .. MaxCompositeActionNestingDepth - 1 : c.hops \in [1 .. n -> Hop]
  BY <1>1 DEF Hops
<1>3. Len(c.hops) = n /\ n \in Nat
  BY <1>2, DepthAssumption, LenProperties
<1>4. ASSUME NEW k \in 1 .. n
      PROVE  /\ c.hops[k] = [segment |-> c.hops[k].segment, input |-> c.hops[k].input]
             /\ c.hops[k].segment = [parent |-> DirAt(c.root, c.hops, k - 1),
                                     at |-> c.hops[k].segment.at,
                                     child |-> DirAt(c.root, c.hops, k)]
             /\ c.hops[k].segment.child \in Dir
             /\ c.hops[k].input = InputAt(c.root, c.hops, k)
             /\ c.hops[k].segment.at \in InternalUsages(DirAt(c.root, c.hops, k - 1), InputAt(c.root, c.hops, k - 1))
             /\ CallAt(DirAt(c.root, c.hops, k - 1), c.hops[k].segment.at) = DirAt(c.root, c.hops, k)
             /\ HandsOver(c.hops[k].segment, InputAt(c.root, c.hops, k - 1), c.hops[k].input)
  <2> DEFINE g == c.hops[k].segment
  <2>1. c.hops[k] \in Hop
    BY <1>2
  <2>2. g \in CallSegments /\ c.hops[k] = [segment |-> g, input |-> c.hops[k].input]
    BY <2>1 DEF Hop
  <2>3. /\ g = [parent |-> g.parent, at |-> g.at, child |-> g.child] /\ g.child \in Dir
        /\ action(g.parent).steps[g.at].call = g.child
    BY <2>2 DEF CallSegments
  <2>4. /\ g.parent = DirAt(c.root, c.hops, k - 1)
        /\ g.at \in InternalUsages(DirAt(c.root, c.hops, k - 1), InputAt(c.root, c.hops, k - 1))
        /\ HandsOver(g, InputAt(c.root, c.hops, k - 1), c.hops[k].input)
    BY <1>1, <1>3 DEF IsChain
  <2>5. g.child = DirAt(c.root, c.hops, k) /\ c.hops[k].input = InputAt(c.root, c.hops, k)
    BY <1>3 DEF DirAt, InputAt
  <2> QED
    BY <2>2, <2>3, <2>4, <2>5 DEF CallAt
<1> QED
  BY <1>1, <1>2, <1>3, <1>4

\* The actions of a chain are distinct.
LEMMA ChainIsSimple ==
  ASSUME NEW c \in Chains, NEW j \in 0 .. Len(c.hops), NEW k \in 0 .. Len(c.hops),
         DirAt(c.root, c.hops, j) = DirAt(c.root, c.hops, k)
  PROVE  j = k
<1> DEFINE n == Len(c.hops)
           p == PathOf(c.hops)
<1>1. n \in Nat /\ p \in [1 .. n -> CallSegments] /\ \A i \in 1 .. n : p[i] = c.hops[i].segment
  <2>1. n \in Nat /\ c.hops \in [1 .. n -> Hop]
    BY ChainFacts, DepthAssumption
  <2> QED
    BY <2>1 DEF PathOf, Hop
<1>2. Len(p) = n /\ IsSimple(p)
  BY <1>1, LenProperties DEF Chains, IsChain
<1> HIDE DEF p, n
<1>3. \A i \in 1 .. n : p[i].child = DirAt(c.root, c.hops, i)
  BY <1>1 DEF DirAt
<1>4. n # 0 => p[1].parent = DirAt(c.root, c.hops, 0)
  <2> SUFFICES ASSUME n # 0 PROVE p[1].parent = DirAt(c.root, c.hops, 0)
    OBVIOUS
  <2>1. 1 \in 1 .. n
    BY <1>1
  <2>2. c.hops[1].segment.parent = DirAt(c.root, c.hops, 1 - 1)
    BY <2>1 DEF Chains, IsChain, n
  <2> QED
    BY <1>1, <2>1, <2>2
<1>5. j \in 0 .. n /\ k \in 0 .. n
  BY DEF n
<1> QED
  BY <1>1, <1>2, <1>3, <1>4, <1>5 DEF IsSimple

\* A recursion is a chain: its actions are the frames', its path the innermost one's.
LEMMA StackIsChain ==
  ASSUME TypeOK, NEW S, NEW r, StackOK(S, r)
  PROVE  LET c == StackChain(S, r) IN
         /\ c \in Chains /\ c.root = r /\ Len(c.hops) = Len(S) - 1
         /\ \A k \in 1 .. Len(S) : DirAt(r, c.hops, k - 1) = S[k].dir /\ InputAt(r, c.hops, k - 1) = S[k].input
         /\ PathOf(c.hops) = S[Len(S)].path
         /\ Seen(c) = {S[k].dir : k \in 1 .. Len(S)}
<1> DEFINE n == Len(S)
           h == StackHops(S)
           c == StackChain(S, r)
<1>1. n \in Nat \ {0} /\ S \in Seq(Frame) /\ \A k \in 1 .. n : S[k] \in Frame
  BY DEF StackOK
<1>2. \A k \in 1 .. n : S[k].dir \in Dir /\ S[k].input \in Name /\ S[k].path \in Seq(Segment)
  BY <1>1 DEF Frame
<1>3. /\ h = [j \in 1 .. n - 1 |-> [segment |-> SegmentIn(S, j), input |-> S[j + 1].input]]
      /\ c = [root |-> r, hops |-> h] /\ c.root = r /\ c.hops = h /\ r \in rootFlows
  BY DEF StackHops, StackChain, StackOK
<1>4. \A j \in 1 .. n - 1 : /\ h[j].segment = SegmentIn(S, j) /\ h[j].input = S[j + 1].input
                            /\ SegmentIn(S, j).parent = S[j].dir /\ SegmentIn(S, j).at = S[j].at
                            /\ SegmentIn(S, j).child = S[j + 1].dir
  BY <1>3 DEF SegmentIn
<1>5. n - 1 \in Nat /\ Len(h) = n - 1
  BY <1>1, <1>3
<1>6. \A k \in 1 .. n : DirAt(r, h, k - 1) = S[k].dir /\ InputAt(r, h, k - 1) = S[k].input
  <2> SUFFICES ASSUME NEW k \in 1 .. n PROVE DirAt(r, h, k - 1) = S[k].dir /\ InputAt(r, h, k - 1) = S[k].input
    OBVIOUS
  <2>1. CASE k = 1
    BY <2>1 DEF DirAt, InputAt, StackOK
  <2>2. CASE k # 1
    <3>1. k - 1 \in 1 .. n - 1 /\ (k - 1) + 1 = k /\ k - 1 # 0
      BY <1>1, <2>2
    <3>2. h[k - 1].segment.child = S[k].dir /\ h[k - 1].input = S[k].input
      BY <1>4, <3>1
    <3> QED
      BY <3>1, <3>2 DEF DirAt, InputAt
  <2> QED
    BY <2>1, <2>2
<1>7. PathOf(h) = S[n].path
  <2> DEFINE p == S[n].path
             q == PathOf(h)
  <2>1. p \in Seq(Segment) /\ Len(p) = n - 1 /\ \A j \in 1 .. n - 1 : p[j] = SegmentIn(S, j)
    BY <1>1, <1>2 DEF StackOK
  <2>2. q = [j \in 1 .. n - 1 |-> SegmentIn(S, j)]
    BY <1>4, <1>5 DEF PathOf
  <2>3. p = [j \in 1 .. n - 1 |-> p[j]]
    <3> HIDE DEF p, n
    <3> QED  BY <2>1
  <2> HIDE DEF p, q, n
  <2> QED
    BY <2>1, <2>2, <2>3 DEF p, q, n
<1>8. h \in Hops
  <2>1. \A j \in 1 .. n - 1 : SegmentIn(S, j) \in CallSegments
    <3> SUFFICES ASSUME NEW j \in 1 .. n - 1 PROVE SegmentIn(S, j) \in CallSegments
      OBVIOUS
    <3>1. S[j].dir \in Dir /\ S[j + 1].dir \in Dir
      BY <1>1, <1>2
    <3>2. S[j].at \in StepsOf(S[j].dir) /\ CallAt(S[j].dir, S[j].at) = S[j + 1].dir
      BY DEF StackOK
    <3> QED
      BY <3>1, <3>2 DEF CallSegments, SegmentIn, StepsOf, CallAt
  <2>2. \A j \in 1 .. n - 1 : [segment |-> SegmentIn(S, j), input |-> S[j + 1].input] \in Hop
    BY <1>1, <1>2, <2>1 DEF Hop
  <2>3. h \in [1 .. n - 1 -> Hop]
    BY <1>3, <2>2
  <2>4. n - 1 \in 0 .. MaxCompositeActionNestingDepth - 1
    BY <1>1, DepthAssumption DEF StackOK
  <2> HIDE DEF h, n
  <2> QED
    BY <2>3, <2>4 DEF Hops
<1>9. IsChain(r, h)
  <2>1. ASSUME NEW i \in 1 .. n - 1
        PROVE  /\ h[i].segment.parent = DirAt(r, h, i - 1)
               /\ h[i].segment.at \in InternalUsages(DirAt(r, h, i - 1), InputAt(r, h, i - 1))
               /\ HandsOver(h[i].segment, InputAt(r, h, i - 1), h[i].input)
    <3>1. i \in 1 .. n
      BY <1>1
    <3>2. DirAt(r, h, i - 1) = S[i].dir /\ InputAt(r, h, i - 1) = S[i].input
      BY <1>6, <3>1
    <3>3. /\ S[i].at \in InternalUsages(S[i].dir, S[i].input)
          /\ HandsOver(SegmentIn(S, i), S[i].input, S[i + 1].input)
      BY DEF StackOK
    <3> QED
      BY <1>4, <3>2, <3>3
  <2>2. IsSimple(PathOf(h))
    <3> DEFINE p == PathOf(h)
               d(k) == S[k].dir
    <3>1. Len(p) = n - 1 /\ \A k \in 1 .. n - 1 : p[k].child = d(k + 1) /\ p[k].parent = d(k)
      BY <1>4, <1>5 DEF PathOf
    <3>2. \A j, k \in 1 .. n : d(j) = d(k) => j = k
      BY DEF StackOK
    <3> HIDE DEF p, d, n, h
    <3>3. \A j, k \in 1 .. n - 1 : p[j].child = p[k].child => j = k
      <4> SUFFICES ASSUME NEW j \in 1 .. n - 1, NEW k \in 1 .. n - 1, p[j].child = p[k].child PROVE j = k
        OBVIOUS
      <4>1. j + 1 \in 1 .. n /\ k + 1 \in 1 .. n /\ d(j + 1) = d(k + 1)
        BY <1>1, <3>1
      <4> QED
        BY <1>1, <3>2, <4>1
    <3>4. \A k \in 1 .. n - 1 : p[k].child # p[1].parent
      <4> SUFFICES ASSUME NEW k \in 1 .. n - 1 PROVE p[k].child # p[1].parent
        OBVIOUS
      <4>1. 1 \in 1 .. n - 1 /\ 1 \in 1 .. n /\ k + 1 \in 1 .. n /\ 1 # k + 1
        BY <1>1
      <4> QED
        BY <3>1, <3>2, <4>1
    <3> QED
      BY <3>1, <3>3, <3>4 DEF IsSimple, p
  <2> QED
    BY <1>5, <2>1, <2>2 DEF IsChain
<1>10. c \in Chains
  <2> HIDE DEF h, c
  <2> QED
    BY <1>3, <1>8, <1>9 DEF Chains
<1>11. Seen(c) = {S[k].dir : k \in 1 .. n}
  <2>1. Seen(c) = {DirAt(r, h, i) : i \in 0 .. n - 1}
    BY <1>3, <1>5 DEF Seen
  <2>2. \A i \in 0 .. n - 1 : i + 1 \in 1 .. n /\ (i + 1) - 1 = i
    BY <1>1
  <2>3. \A k \in 1 .. n : k - 1 \in 0 .. n - 1
    BY <1>1
  <2> HIDE DEF c, h, n
  <2> QED
    BY <1>6, <2>1, <2>2, <2>3
<1> QED
  BY <1>3, <1>5, <1>6, <1>7, <1>10, <1>11 DEF c, h, n

\* A chain that S has reached the end of is its call path, and its actions are on it.
LEMMA ReachedPath ==
  ASSUME TypeOK, NEW S, NEW r, StackOK(S, r), NEW c \in Chains, NEW k,
         Reached(S, r, c, k), k \in 1 .. Len(c.hops) + 1
  PROVE  /\ S[k].path \in Seq(Segment) /\ Len(S[k].path) = k - 1
         /\ \A j \in 1 .. k - 1 : S[k].path[j] = c.hops[j].segment
         /\ k = Len(c.hops) + 1 => S[k].path = PathOf(c.hops)
<1> DEFINE h == c.hops
           p == S[k].path
<1>1. k \in 1 .. Len(S) /\ k \in Nat \ {0} /\ S \in Seq(Frame) /\ Len(h) \in Nat
  BY ChainFacts, DepthAssumption DEF Reached, StackOK
<1>2. p \in Seq(Segment) /\ Len(p) = k - 1 /\ \A j \in 1 .. k - 1 : p[j] = SegmentIn(S, j)
  <2>1. S[k] \in Frame
    BY <1>1
  <2> QED
    BY <1>1, <2>1 DEF StackOK, Frame
<1>3. ASSUME NEW j \in 1 .. k - 1 PROVE p[j] = h[j].segment
  <2>1. j \in 1 .. k /\ j + 1 \in 1 .. k /\ (j + 1) - 1 = j /\ j \in 1 .. Len(h)
    BY <1>1
  <2>2. S[j].dir = DirAt(c.root, h, j - 1) /\ S[j + 1].dir = DirAt(c.root, h, j) /\ S[j].at = h[j].segment.at
    BY <2>1 DEF Reached
  <2>3. h[j].segment = [parent |-> DirAt(c.root, h, j - 1), at |-> h[j].segment.at, child |-> DirAt(c.root, h, j)]
    BY <2>1, ChainFacts
  <2> HIDE DEF h
  <2> QED
    BY <1>2, <2>2, <2>3 DEF SegmentIn
<1>4. k = Len(h) + 1 => p = PathOf(h)
  <2> SUFFICES ASSUME k = Len(h) + 1 PROVE p = PathOf(h)
    OBVIOUS
  <2>1. Len(p) = Len(h) /\ k - 1 = Len(h)
    BY <1>1, <1>2
  <2>2. PathOf(h) = [i \in 1 .. Len(h) |-> h[i].segment]
    BY DEF PathOf
  <2>3. p = [i \in 1 .. Len(h) |-> p[i]]
    <3> HIDE DEF p, h
    <3> QED  BY <1>2, <2>1
  <2> HIDE DEF p, h
  <2> QED
    BY <1>3, <2>1, <2>2, <2>3
<1> QED
  BY <1>2, <1>3, <1>4

\* The actions before a place of a chain are those of the frames that reached it.
LEMMA ReachedDirs ==
  ASSUME NEW S, NEW r, NEW c \in Chains, NEW k, Reached(S, r, c, k), Len(S) \in Nat, k = Len(S)
  PROVE  {S[j].dir : j \in 1 .. Len(S)} = {DirAt(c.root, c.hops, j) : j \in 0 .. k - 1}
<1>1. \A j \in 1 .. k : S[j].dir = DirAt(c.root, c.hops, j - 1) /\ j - 1 \in 0 .. k - 1
  BY DEF Reached
<1>2. \A j \in 0 .. k - 1 : j + 1 \in 1 .. k /\ (j + 1) - 1 = j
  OBVIOUS
<1> QED
  BY <1>1, <1>2

LEMMA StackIsOK ==
  ASSUME IInv, StackHandsOver, stack # <<>> PROVE StackOK(stack, root)
<1>1. stack \in Seq(Frame) /\ RootsOK /\ PathsOK /\ CallsOK /\ DirsOK
  BY DEF IInv, TypeOK
<1>2. \A k \in 1 .. Len(stack) :
        /\ Len(stack[k].path) = k - 1
        /\ \A j \in 1 .. k - 1 : stack[k].path[j] = SegmentIn(stack, j)
  BY <1>1 DEF PathsOK, SegmentIn
<1> QED
  BY <1>1, <1>2 DEF StackOK, RootsOK, CallsOK, DirsOK, StackHandsOver

\* The same of the next state, while the workflow and its root flows stay.
LEMMA StackIsOKNext ==
  ASSUME IInv', StackHandsOver', stack' # <<>>, UNCHANGED <<program, rootFlows>>
  PROVE  StackOK(stack', root')
<1>1. stack' \in Seq(Frame) /\ RootsOK' /\ PathsOK' /\ CallsOK' /\ DirsOK'
  BY DEF IInv, TypeOK
<1>2. \A k \in 1 .. Len(stack') :
        /\ Len(stack'[k].path) = k - 1
        /\ \A j \in 1 .. k - 1 : stack'[k].path[j] = SegmentIn(stack', j)
  BY <1>1 DEF PathsOK, SegmentIn
<1>3. /\ Len(stack') <= MaxCompositeActionNestingDepth
      /\ \A j, k \in 1 .. Len(stack') : stack'[j].dir = stack'[k].dir => j = k
  BY <1>1 DEF DirsOK
<1>4. root' \in rootFlows /\ stack'[1].dir = RootDir(root')
  BY <1>1 DEF RootsOK, RootDir
<1>5. \A j \in 1 .. Len(stack') - 1 :
        stack'[j].at \in StepsOf(stack'[j].dir) /\ CallAt(stack'[j].dir, stack'[j].at) = stack'[j + 1].dir
  BY <1>1 DEF CallsOK, StepsOf, CallAt, action
<1>6. /\ stack'[1].input = root'.input
      /\ \A j \in 1 .. Len(stack') - 1 :
           /\ stack'[j].at \in InternalUsages(stack'[j].dir, stack'[j].input)
           /\ HandsOver(SegmentIn(stack', j), stack'[j].input, stack'[j + 1].input)
  <2>1. stack'[1].input = root'.input
    BY DEF StackHandsOver
  <2>2. \A j \in 1 .. Len(stack') - 1 : stack'[j].at \in InternalUsages(stack'[j].dir, stack'[j].input)
    BY DEF StackHandsOver, InternalUsages, action
  <2>3. \A s, from, to : HandsOver(s, from, to)' <=> HandsOver(s, from, to)
    BY DEF HandsOver, Bindings, InternalUsages, action
  <2>4. \A j \in 1 .. Len(stack') - 1 : HandsOver(SegmentIn(stack', j), stack'[j].input, stack'[j + 1].input)
    <3> SUFFICES ASSUME NEW j \in 1 .. Len(stack') - 1
                 PROVE  HandsOver(SegmentIn(stack', j), stack'[j].input, stack'[j + 1].input)
      OBVIOUS
    <3>1. PICK s, from, to : s = SegmentIn(stack', j) /\ from = stack'[j].input /\ to = stack'[j + 1].input
      OBVIOUS
    <3>2. HandsOver(s, from, to)'
      BY <3>1 DEF StackHandsOver, SegmentIn
    <3> QED
      BY <2>3, <3>1, <3>2
  <2> QED
    BY <2>1, <2>2, <2>4
<1> QED
  BY <1>1, <1>2, <1>3, <1>4, <1>5, <1>6 DEF StackOK

\* The reference depends on the program and the root flows alone.
LEMMA SameReference ==
  ASSUME UNCHANGED <<program, rootFlows>>
  PROVE  /\ Chains' = Chains
         /\ \A c : ChainFlow(c)' = ChainFlow(c) /\ EndCalls(c)' = EndCalls(c)
         /\ \A c, i : CallNotices(c, i)' = CallNotices(c, i)
<1>1. \A d : action(d)' = action(d)
  BY DEF action
<1>2. \A f, h, i : DirAt(f, h, i)' = DirAt(f, h, i) /\ InputAt(f, h, i)' = InputAt(f, h, i)
  BY DEF DirAt, InputAt, RootDir
<1>3. \A d, n : InternalUsages(d, n)' = InternalUsages(d, n)
  BY DEF InternalUsages, action
<1>4. \A s, x, y : HandsOver(s, x, y)' <=> HandsOver(s, x, y)
  BY DEF HandsOver, InternalUsages, action
<1>5. Hops' = Hops
  BY DEF Hops, Hop, CallSegments, action
<1>6. \A f, h : IsChain(f, h)' <=> IsChain(f, h)
  BY <1>2, <1>3, <1>4 DEF IsChain
<1>7. Chains' = Chains
  BY <1>5, <1>6 DEF Chains
<1>8. \A c : EndDir(c)' = EndDir(c) /\ EndInput(c)' = EndInput(c) /\ ChainFlow(c)' = ChainFlow(c) /\ Seen(c)' = Seen(c)
  BY <1>2 DEF EndDir, EndInput, ChainFlow, Seen
<1>9. \A c, i : EndStep(c, i)' = EndStep(c, i)
  BY <1>1, <1>8 DEF EndStep
<1>10. \A c : EndCalls(c)' = EndCalls(c)
  BY <1>3, <1>8, <1>9 DEF EndCalls
<1>11. \A c, i, k, n : ChainNotice(c, i, k, n)' = ChainNotice(c, i, k, n)
  BY <1>8, <1>9 DEF ChainNotice
<1>12. \A d, s : Missing(d, s)' = Missing(d, s)
  BY DEF Missing, action
<1>13. \A c, i, b : HandsUndeclared(c, i, b)' <=> HandsUndeclared(c, i, b)
  BY <1>1, <1>8, <1>9 DEF HandsUndeclared
<1>14. \A c, i : CallNotices(c, i)' = CallNotices(c, i)
  BY <1>9, <1>11, <1>12, <1>13 DEF CallNotices
<1> QED
  BY <1>7, <1>8, <1>10, <1>14

LEMMA CompleteNext ==
  ASSUME UNCHANGED <<program, rootFlows>>, Accounted(flows', diagnostics', todo', stack', root')
  PROVE  Complete'
<1>1. \A f, h, i : DirAt(f, h, i)' = DirAt(f, h, i) /\ InputAt(f, h, i)' = InputAt(f, h, i)
  BY DEF DirAt, InputAt, RootDir
<1>2. \A c, k : Reached(stack', root', c, k) <=> Reached(stack, root, c, k)'
  BY <1>1 DEF Reached
<1>3. \A c : OnWay(todo', stack', root', c) <=> OnWay(todo, stack, root, c)'
  BY <1>2 DEF OnWay, ToTake
<1>4. \A c : EndDir(c)' = EndDir(c) /\ EndInput(c)' = EndInput(c)
  BY <1>1 DEF EndDir, EndInput
<1>5. \A c, i : EndStep(c, i)' = EndStep(c, i)
  BY <1>4 DEF EndStep, action
<1>6. \A c, i, b : BindingNotices(c, i, b)' = BindingNotices(c, i, b)
  BY <1>4, <1>5 DEF BindingNotices, ChainNotice, HandsUndeclared, action
<1>7. \A c, i, x : AtEnd(stack', root', c, i, x) <=> AtEnd(stack, root, c, i, x)'
  BY <1>2, <1>6 DEF AtEnd
<1> QED
  BY <1>3, <1>7, SameReference DEF Accounted, Complete

LEMMA ReachedKept ==
  ASSUME NEW S, NEW U, NEW r, NEW c, NEW k, Reached(S, r, c, k), k \in 1 .. Len(U),
         \A j \in 1 .. k : U[j].dir = S[j].dir /\ U[j].input = S[j].input,
         \A j \in 1 .. k - 1 : U[j].at = S[j].at
  PROVE  Reached(U, r, c, k)
BY DEF Reached

\* What is on the way stays so below the innermost frame.
LEMMA BelowStays ==
  ASSUME NEW S, NEW U, NEW r, NEW n, n = Len(S), n \in Nat \ {0}, Len(U) \in Nat, n <= Len(U),
         \A j \in 1 .. n - 1 : U[j] = S[j], U[n].dir = S[n].dir, U[n].input = S[n].input
  PROVE  /\ \A c, k : Reached(S, r, c, k) => k \in 1 .. n /\ Reached(U, r, c, k)
         /\ \A c, T : OnWay(T, S, r, c) =>
              \/ OnWay(T, U, r, c)
              \/ n \in 1 .. Len(c.hops) /\ Reached(S, r, c, n) /\ ToTake(S, n, c.hops[n])
         /\ \A c, i, x : AtEnd(S, r, c, i, x) => AtEnd(U, r, c, i, x) \/ Len(c.hops) + 1 = n
<1>1. ASSUME NEW c, NEW k, Reached(S, r, c, k) PROVE k \in 1 .. n /\ Reached(U, r, c, k)
  <2>1. k \in 1 .. n
    BY <1>1 DEF Reached
  <2>2. \A j \in 1 .. k : U[j].dir = S[j].dir /\ U[j].input = S[j].input
    <3>1. \A j \in 1 .. k : j = n \/ j \in 1 .. n - 1
      BY <2>1
    <3> QED  BY <3>1
  <2>3. k \in 1 .. Len(U) /\ \A j \in 1 .. k - 1 : U[j].at = S[j].at
    BY <2>1
  <2> QED
    BY <1>1, <2>1, <2>2, <2>3, ReachedKept
<1>2. ASSUME NEW c, NEW T, OnWay(T, S, r, c), ~OnWay(T, U, r, c)
      PROVE  n \in 1 .. Len(c.hops) /\ Reached(S, r, c, n) /\ ToTake(S, n, c.hops[n])
  <2>1. PICK k \in 1 .. Len(c.hops) : Reached(S, r, c, k) /\ ToTake(S, k, c.hops[k])
    BY <1>2 DEF OnWay
  <2>2. k \in 1 .. n /\ Reached(U, r, c, k)
    BY <1>1, <2>1
  <2>3. ~ToTake(U, k, c.hops[k])
    BY <1>2, <2>2 DEF OnWay
  <2>4. k = n
    <3> SUFFICES ASSUME k # n PROVE FALSE
      OBVIOUS
    <3>1. U[k] = S[k]
      BY <2>2
    <3> QED
      BY <2>1, <2>3, <3>1 DEF ToTake
  <2> QED
    BY <2>1, <2>4
<1>3. ASSUME NEW c, NEW i, NEW x, AtEnd(S, r, c, i, x), ~AtEnd(U, r, c, i, x) PROVE Len(c.hops) + 1 = n
  <2> DEFINE k == Len(c.hops) + 1
  <2>1. Reached(S, r, c, k)
    BY <1>3 DEF AtEnd
  <2>2. k \in 1 .. n /\ Reached(U, r, c, k)
    BY <1>1, <2>1
  <2> SUFFICES ASSUME k # n PROVE FALSE
    OBVIOUS
  <2>3. U[k] = S[k]
    BY <2>2
  <2> QED
    BY <1>3, <2>2, <2>3 DEF AtEnd
<1> QED
  BY <1>1, <1>2, <1>3

\* What ExpandUsage makes of the innermost frame.
LEMMA UsageFacts ==
  ASSUME IInv, stack # <<>>, NEW i \in Top.usages, ExpandUsage(i)
  PROVE  /\ Len(stack) \in Nat \ {0} /\ Len(stack') = Len(stack) /\ Top = stack[Len(stack)]
         /\ \A k \in 1 .. Len(stack) - 1 : stack'[k] = stack[k]
         /\ LET g == stack'[Len(stack)] IN
            /\ g.dir = Top.dir /\ g.input = Top.input /\ g.usages = Top.usages \ {i}
            /\ IF Expands(i) THEN g.at = i /\ g.with = StepAt(i).with
                             ELSE g.at = Top.at /\ g.with = <<>>
         /\ Top.with = <<>> /\ Top \in Frame /\ pc = "nested"
         /\ UNCHANGED <<program, rootFlows, todo, root, flows, pc>>
         /\ diagnostics' = diagnostics \cup
              (IF Expands(i) THEN {Notice("missing", i, n) : n \in Missing(StepAt(i).call, StepAt(i))} ELSE {})
<1> DEFINE g == IF Expands(i)
                  THEN [Top EXCEPT !.usages = @ \ {i}, !.at = i, !.with = StepAt(i).with]
                  ELSE [Top EXCEPT !.usages = @ \ {i}]
<1>1. /\ Top \in Frame /\ i \in Nat /\ i \in StepsOf(Top.dir) /\ Top.dir \in Dir
  <2>1. Top \in Frame /\ Top.usages \subseteq StepsOf(Top.dir)
    BY DEF IInv, TypeOK, FramesOK, Top
  <2> QED  BY <2>1 DEF Frame, StepsOf
<1>2. StepAt(i) \in Step
  BY <1>1, ProgramTypes DEF IInv, StepAt, StepsOf
<1>3. /\ g \in Frame /\ g.dir = Top.dir /\ g.input = Top.input /\ g.usages = Top.usages \ {i}
      /\ IF Expands(i) THEN g.at = i /\ g.with = StepAt(i).with ELSE g.at = Top.at /\ g.with = Top.with
  BY <1>1, <1>2 DEF Frame, Step
<1>4. stack' = SetTop(g) /\ Top.with = <<>> /\ pc = "nested"
  BY DEF ExpandUsage, InUsage
<1>5. /\ UNCHANGED <<program, rootFlows, todo, root, flows, pc>>
      /\ diagnostics' = diagnostics \cup
           (IF Expands(i) THEN {Notice("missing", i, n) : n \in Missing(StepAt(i).call, StepAt(i))} ELSE {})
  BY DEF ExpandUsage, inputVars, Emit
<1>6. /\ Len(stack) \in Nat \ {0} /\ Len(stack') = Len(stack) /\ stack'[Len(stack)] = g
      /\ \A k \in 1 .. Len(stack) - 1 : stack'[k] = stack[k]
  <2> HIDE DEF g
  <2> QED
    BY <1>3, <1>4, SetTopFacts DEF IInv
<1> HIDE DEF g
<1> QED
  BY <1>1, <1>3, <1>4, <1>5, <1>6 DEF Top

\* A call that the next hop of a chain makes may be expanded.
LEMMA HopExpands ==
  ASSUME IInv, stack # <<>>, NEW c \in Chains, Len(stack) \in 1 .. Len(c.hops),
         Reached(stack, root, c, Len(stack))
  PROVE  LET i == c.hops[Len(stack)].segment.at IN
         /\ Expands(i) /\ StepAt(i) = action(c.hops[Len(stack)].segment.parent).steps[i]
         /\ StepAt(i).call = c.hops[Len(stack)].segment.child
         /\ c.hops[Len(stack)].segment.parent = Top.dir
<1> DEFINE n == Len(stack)
           s == c.hops[n].segment
           h == c.hops
<1>1. n \in Nat \ {0} /\ n \in 1 .. Len(h) /\ Len(h) \in 0 .. MaxCompositeActionNestingDepth - 1
  BY ChainFacts
<1>2. /\ s.parent = DirAt(c.root, h, n - 1) /\ s.child = DirAt(c.root, h, n) /\ s.child \in Dir
      /\ CallAt(DirAt(c.root, h, n - 1), s.at) = DirAt(c.root, h, n)
  <2>1. s = [parent |-> DirAt(c.root, h, n - 1), at |-> s.at, child |-> DirAt(c.root, h, n)]
        /\ s.child \in Dir /\ CallAt(DirAt(c.root, h, n - 1), s.at) = DirAt(c.root, h, n)
    BY <1>1, ChainFacts
  <2> HIDE DEF s, h
  <2> QED
    BY <2>1
<1>3. Top.dir = DirAt(c.root, h, n - 1)
  BY <1>1 DEF Reached, Top
<1>4. StepAt(s.at) = action(s.parent).steps[s.at] /\ StepAt(s.at).call = s.child
  BY <1>2, <1>3 DEF StepAt, CallAt
<1>5. s.child \notin onPath
  <2>1. onPath = {DirAt(c.root, h, j) : j \in 0 .. n - 1}
    <3>1. onPath = {stack[k].dir : k \in 1 .. Len(stack)}
      BY DEF IInv, DirsOK
    <3>2. {stack[j].dir : j \in 1 .. Len(stack)} = {DirAt(c.root, c.hops, j) : j \in 0 .. Len(stack) - 1}
      BY <1>1, ReachedDirs
    <3> QED
      BY <3>1, <3>2
  <2>2. ASSUME NEW j \in 0 .. n - 1 PROVE DirAt(c.root, h, j) # DirAt(c.root, h, n)
    <3>1. j \in 0 .. Len(h) /\ n \in 0 .. Len(h) /\ j # n
      BY <1>1
    <3> QED
      BY <3>1, ChainIsSimple
  <2> QED
    BY <1>2, <2>1, <2>2
<1>6. s.child # NoCall /\ Len(stack) + 1 <= MaxCompositeActionNestingDepth
  BY <1>1, <1>2, CallAssumption, DepthAssumption
<1> QED
  BY <1>2, <1>3, <1>4, <1>5, <1>6 DEF Expands

LEMMA UsageOnWay ==
  ASSUME IInv, stack # <<>>, NEW i \in Top.usages, ExpandUsage(i), NEW c \in Chains,
         OnWay(todo, stack, root, c)
  PROVE  OnWay(todo', stack', root', c)
<1> SUFFICES ASSUME ~OnWay(todo, stack', root, c) PROVE FALSE
  BY UsageFacts
<1> DEFINE n == Len(stack)
           hop == c.hops[n]
           s == hop.segment
<1>1. n \in Nat \ {0} /\ Len(stack') = n /\ \A k \in 1 .. n - 1 : stack'[k] = stack[k]
  BY UsageFacts
<1>2. /\ Top = stack[n] /\ Top.with = <<>> /\ stack'[n].dir = Top.dir /\ stack'[n].input = Top.input
      /\ stack'[n].usages = Top.usages \ {i}
      /\ Expands(i) => stack'[n].at = i /\ stack'[n].with = StepAt(i).with
  BY UsageFacts
<1>3. /\ \A d, k : Reached(stack, root, d, k) => k \in 1 .. n /\ Reached(stack', root, d, k)
      /\ n \in 1 .. Len(c.hops) /\ Reached(stack, root, c, n) /\ ToTake(stack, n, hop)
  <2>1. stack'[n].dir = stack[n].dir /\ stack'[n].input = stack[n].input
    BY <1>2
  <2>2. n \in Nat \ {0} /\ Len(stack') \in Nat /\ n <= Len(stack')
    BY <1>1
  <2>3. /\ \A d, k : Reached(stack, root, d, k) => k \in 1 .. n /\ Reached(stack', root, d, k)
        /\ \A d, T : OnWay(T, stack, root, d) =>
              \/ OnWay(T, stack', root, d)
              \/ n \in 1 .. Len(d.hops) /\ Reached(stack, root, d, n) /\ ToTake(stack, n, d.hops[n])
    BY <1>1, <2>1, <2>2, BelowStays
  <2> QED
    BY <2>3
<1>4. s.at \in Top.usages
  <2>1. Len(stack[n].with) = 0
    BY <1>2
  <2>2. s.at \in stack[n].usages
    BY <1>3, <2>1 DEF ToTake
  <2> QED
    BY <1>2, <2>2
<1>5. ~ToTake(stack', n, hop)
  BY <1>3 DEF OnWay
<1>6. s.at = i
  BY <1>2, <1>4, <1>5 DEF ToTake
<1>7. Expands(i) /\ StepAt(i) = action(s.parent).steps[s.at] /\ s.parent = Top.dir
  BY <1>3, <1>6, HopExpands
<1>8. PICK b \in Bindings(StepAt(i)) : Hands(b, InputAt(c.root, c.hops, n - 1), hop.input)
  <2>1. HandsOver(s, InputAt(c.root, c.hops, n - 1), hop.input)
    BY <1>3, ChainFacts
  <2> QED
    BY <1>7, <2>1 DEF HandsOver, Hands
<1>9. PICK j \in 1 .. Len(StepAt(i).with) : b = StepAt(i).with[j]
  BY <1>8 DEF Bindings
<1>10. InputAt(c.root, c.hops, n - 1) = stack'[n].input
  BY <1>2, <1>3 DEF Reached
<1> QED
  BY <1>2, <1>5, <1>6, <1>7, <1>8, <1>9, <1>10 DEF ToTake

LEMMA UsageAtEnd ==
  ASSUME IInv, StackHandsOver, stack # <<>>, NEW i \in Top.usages, ExpandUsage(i), NEW c \in Chains,
         NEW e \in EndCalls(c), NEW x \in CallNotices(c, e), AtEnd(stack, root, c, e, x)
  PROVE  x \in diagnostics' \/ AtEnd(stack', root', c, e, x)
<1> SUFFICES ASSUME ~AtEnd(stack', root, c, e, x) PROVE x \in diagnostics'
  BY UsageFacts
<1> DEFINE n == Len(stack)
<1>1. n \in Nat \ {0} /\ Len(stack') = n /\ \A k \in 1 .. n - 1 : stack'[k] = stack[k]
  BY UsageFacts
<1>2. /\ Top = stack[n] /\ Top.with = <<>> /\ stack'[n].dir = Top.dir /\ stack'[n].input = Top.input
      /\ stack'[n].usages = Top.usages \ {i}
      /\ Expands(i) => stack'[n].at = i /\ stack'[n].with = StepAt(i).with
  BY UsageFacts
<1>3. /\ \A d, k : Reached(stack, root, d, k) => k \in 1 .. n /\ Reached(stack', root, d, k)
      /\ Len(c.hops) + 1 = n
  <2>1. stack'[n].dir = stack[n].dir /\ stack'[n].input = stack[n].input
    BY <1>2
  <2>2. n \in Nat \ {0} /\ Len(stack') \in Nat /\ n <= Len(stack')
    BY <1>1
  <2>3. /\ \A d, k : Reached(stack, root, d, k) => k \in 1 .. n /\ Reached(stack', root, d, k)
        /\ \A d, m, v : AtEnd(stack, root, d, m, v) => AtEnd(stack', root, d, m, v) \/ Len(d.hops) + 1 = n
    BY <1>1, <2>1, <2>2, BelowStays
  <2> QED
    BY <2>3
<1>4. Reached(stack, root, c, n) /\ Reached(stack', root, c, n)
  BY <1>3 DEF AtEnd
<1>5. e \in Top.usages
  <2>1. Len(stack[n].with) = 0
    BY <1>2
  <2> QED
    BY <1>2, <1>3, <2>1 DEF AtEnd
<1>6. e = i
  BY <1>2, <1>3, <1>4, <1>5 DEF AtEnd
<1>7. /\ Top.dir = EndDir(c) /\ Top.input = EndInput(c) /\ root = c.root
      /\ onPath = Seen(c)
  <2>1. Top.dir = DirAt(c.root, c.hops, n - 1) /\ Top.input = InputAt(c.root, c.hops, n - 1) /\ root = c.root
    BY <1>1, <1>2, <1>4 DEF Reached
  <2>2. onPath = {DirAt(c.root, c.hops, j) : j \in 0 .. n - 1}
    <3>1. n = Len(stack) /\ Len(stack) \in Nat
      BY <1>1
    <3>2. {stack[j].dir : j \in 1 .. Len(stack)} = {DirAt(c.root, c.hops, j) : j \in 0 .. n - 1}
      BY <1>4, <3>1, ReachedDirs
    <3> QED
      BY <3>2 DEF IInv, DirsOK
  <2>3. n - 1 = Len(c.hops)
    BY <1>3, ChainFacts, DepthAssumption
  <2> QED
    BY <2>1, <2>2, <2>3 DEF EndDir, EndInput, Seen
<1>8. StepAt(i) = EndStep(c, e)
  BY <1>6, <1>7 DEF StepAt, EndStep
<1>9. Expands(i)
  BY <1>3, <1>7, <1>8, ChainFacts, DepthAssumption DEF Expands, EndCalls
<1>10. Top.path = PathOf(c.hops)
  <2>1. StackOK(stack, root) /\ TypeOK
    BY StackIsOK DEF IInv
  <2> QED
    BY <1>1, <1>2, <1>3, <1>4, <2>1, ReachedPath
<1>11. CASE \E m \in Missing(EndStep(c, e).call, EndStep(c, e)) : x = ChainNotice(c, e, "missing", m)
  <2>1. PICK m \in Missing(EndStep(c, e).call, EndStep(c, e)) : x = ChainNotice(c, e, "missing", m)
    BY <1>11
  <2>2. x = Notice("missing", i, m)
    BY <1>6, <1>7, <1>8, <1>10, <2>1 DEF ChainNotice, Notice
  <2>3. diagnostics' = diagnostics \cup {Notice("missing", i, k) : k \in Missing(StepAt(i).call, StepAt(i))}
    BY <1>9, UsageFacts
  <2> QED
    BY <1>8, <2>1, <2>2, <2>3
<1>12. ASSUME NEW b \in Bindings(EndStep(c, e)), x \in BindingNotices(c, e, b) PROVE FALSE
  <2>1. PICK j \in 1 .. Len(StepAt(i).with) : b = StepAt(i).with[j]
    BY <1>8 DEF Bindings
  <2> QED
    BY <1>2, <1>3, <1>4, <1>6, <1>9, <1>12, <2>1 DEF AtEnd
<1> QED
  BY <1>11, <1>12 DEF CallNotices, BindingNotices

\* What ExpandBinding makes of the recursion.
LEMMA BindingFacts ==
  ASSUME IInv, ExpandBinding
  PROVE  LET b == Head(Top.with)
             n == Len(stack)
         IN
         /\ stack # <<>> /\ n \in Nat \ {0} /\ Top = stack[n] /\ Top \in Frame /\ pc = "nested"
         /\ Top.with # <<>> /\ Top.with \in Seq(Binding) /\ b = Top.with[1] /\ b \in Bindings(StepAt(Top.at))
         /\ b \in Binding
         /\ \A k \in 1 .. n - 1 : stack'[k] = stack[k]
         /\ stack'[n].dir = Top.dir /\ stack'[n].input = Top.input /\ stack'[n].usages = Top.usages
         /\ stack'[n].at = Top.at /\ stack'[n].with = Tail(Top.with)
         /\ UNCHANGED <<program, rootFlows, todo, root, pc>>
         /\ diagnostics' = diagnostics \cup Problems(b)
         /\ ~Confirmed(b) => Len(stack') = n /\ flows' = flows
         /\ Confirmed(b) =>
              /\ Len(stack') = n + 1
              /\ stack'[n + 1].dir = Child /\ stack'[n + 1].input = b.name
              /\ stack'[n + 1].usages = InternalUsages(Child, b.name) /\ stack'[n + 1].with = <<>>
              /\ flows' = flows \cup {[root |-> root, path |-> stack'[n + 1].path, parentInput |-> Top.input,
                                       input |-> b.name]}
<1> DEFINE b   == Head(Top.with)
           n   == Len(stack)
           g   == [Top EXCEPT !.with = Tail(@)]
           segment == [parent |-> Top.dir, at |-> Top.at, child |-> Child]
           path    == Append(Top.path, segment)
           new     == NewFrame(Child, b.name, path)
<1>1. /\ stack # <<>> /\ Top.with # <<>> /\ pc = "nested"
      /\ UNCHANGED <<program, rootFlows, todo, root, pc>>
      /\ diagnostics' = diagnostics \cup Problems(b)
  BY DEF ExpandBinding, InUsage, inputVars, Emit
<1>2. /\ Top \in Frame /\ n \in Nat \ {0} /\ n \in 1 .. n /\ Top = stack[n]
      /\ Top.with \in Seq(Binding)
  <2>1. stack \in Seq(Frame)
    BY DEF IInv, TypeOK
  <2>2. Top \in Frame /\ n \in Nat \ {0}
    BY <1>1, <2>1 DEF Top
  <2> QED  BY <2>2 DEF Frame, Top
<1>3. b = Top.with[1] /\ 1 \in 1 .. Len(Top.with) /\ b \in Binding /\ Tail(Top.with) \in Seq(Binding)
  BY <1>1, <1>2
<1>4. b \in Bindings(StepAt(Top.at)) /\ Child \in Dir
  BY <1>1, <1>2, <1>3 DEF IInv, FramesOK, StepAt, Child, CallAt
<1>5. /\ g \in Frame /\ g.dir = Top.dir /\ g.input = Top.input /\ g.usages = Top.usages
      /\ g.at = Top.at /\ g.with = Tail(Top.with)
  BY <1>2, <1>3 DEF Frame
<1>6. /\ SetTop(g) \in Seq(Frame) /\ Len(SetTop(g)) = n /\ SetTop(g)[n] = g
      /\ \A k \in 1 .. n - 1 : SetTop(g)[k] = stack[k]
  <2> HIDE DEF g
  <2> QED
    BY <1>1, <1>5, SetTopFacts DEF IInv
<1>7. CASE ~Confirmed(b)
  <2>1. stack' = SetTop(g) /\ flows' = flows
    BY <1>7 DEF ExpandBinding, NextBinding
  <2> HIDE DEF g, b
  <2>2. /\ Len(stack') = n /\ stack'[n] = g
        /\ \A k \in 1 .. n - 1 : stack'[k] = stack[k]
    BY <1>6, <2>1
  <2> QED
    BY <1>1, <1>2, <1>3, <1>4, <1>5, <1>7, <2>1, <2>2 DEF b
<1>8. CASE Confirmed(b)
  <2>1. /\ stack' = Append(SetTop(g), new)
        /\ flows' = flows \cup {[root |-> root, path |-> path, parentInput |-> Top.input, input |-> b.name]}
    BY <1>8 DEF ExpandBinding, NextBinding
  <2>2. /\ new.dir = Child /\ new.input = b.name /\ new.path = path /\ new.with = <<>>
        /\ new.usages = InternalUsages(Child, b.name)
    BY DEF NewFrame
  <2> HIDE DEF g, b, new, path
  <2>3. /\ Len(stack') = n + 1 /\ stack'[n + 1] = new /\ stack'[n] = g
        /\ \A k \in 1 .. n - 1 : stack'[k] = stack[k]
    <3>1. \A k \in 1 .. n : Append(SetTop(g), new)[k] = SetTop(g)[k]
      BY <1>2, <1>6
    <3> QED
      BY <1>2, <1>6, <2>1, <3>1
  <2> QED
    BY <1>1, <1>2, <1>3, <1>4, <1>5, <1>8, <2>1, <2>2, <2>3 DEF b
<1> QED
  BY <1>7, <1>8

\* A binding that hands over the frame's input, of the call that a chain's hop makes, is confirmed.
LEMMA HopConfirmed ==
  ASSUME IInv, stack # <<>>, NEW c \in Chains, Len(stack) \in 1 .. Len(c.hops),
         Reached(stack, root, c, Len(stack)), Top.at = c.hops[Len(stack)].segment.at,
         NEW b \in Binding, Hands(b, Top.input, c.hops[Len(stack)].input)
  PROVE  Confirmed(b) /\ Child = c.hops[Len(stack)].segment.child /\ b.name = c.hops[Len(stack)].input
<1> DEFINE hop == c.hops[Len(stack)]
<1>1. Child = hop.segment.child
  BY HopExpands DEF Child
<1>2. HandsOver(hop.segment, InputAt(c.root, c.hops, Len(stack) - 1), hop.input)
  BY ChainFacts
<1>3. Classify(b.value) = "forwards" /\ b.value.whole = Top.input
  BY DEF Hands, Classify
<1> QED
  BY <1>1, <1>2, <1>3 DEF Confirmed, Hands, HandsOver

LEMMA BindingOnWay ==
  ASSUME IInv, IInv', StackHandsOver', ExpandBinding, NEW c \in Chains, OnWay(todo, stack, root, c)
  PROVE  OnWay(todo', stack', root', c) \/ Arrived(flows', stack', root', c)
<1> SUFFICES ASSUME ~OnWay(todo, stack', root, c) PROVE Arrived(flows', stack', root, c)
  BY BindingFacts
<1> DEFINE n == Len(stack)
           hop == c.hops[n]
           b == Head(Top.with)
<1>1. /\ stack # <<>> /\ n \in Nat \ {0} /\ Top = stack[n] /\ Top \in Frame
      /\ Top.with # <<>> /\ Top.with \in Seq(Binding) /\ b = Top.with[1] /\ b \in Binding
      /\ \A k \in 1 .. n - 1 : stack'[k] = stack[k]
      /\ stack'[n].dir = Top.dir /\ stack'[n].input = Top.input /\ stack'[n].usages = Top.usages
      /\ stack'[n].at = Top.at /\ stack'[n].with = Tail(Top.with)
      /\ UNCHANGED <<program, rootFlows, todo, root>>
  BY BindingFacts
<1>2. Len(stack') \in {n, n + 1}
  BY BindingFacts
<1>3. /\ \A d, k : Reached(stack, root, d, k) => k \in 1 .. n /\ Reached(stack', root, d, k)
      /\ n \in 1 .. Len(c.hops) /\ Reached(stack, root, c, n) /\ ToTake(stack, n, hop)
  <2>1. stack'[n].dir = stack[n].dir /\ stack'[n].input = stack[n].input
    BY <1>1
  <2>2. n \in Nat \ {0} /\ Len(stack') \in Nat /\ n <= Len(stack')
    BY <1>1, <1>2
  <2>3. /\ \A d, k : Reached(stack, root, d, k) => k \in 1 .. n /\ Reached(stack', root, d, k)
        /\ \A d, T : OnWay(T, stack, root, d) =>
              \/ OnWay(T, stack', root, d)
              \/ n \in 1 .. Len(d.hops) /\ Reached(stack, root, d, n) /\ ToTake(stack, n, d.hops[n])
    BY <1>1, <2>1, <2>2, BelowStays
  <2> QED
    BY <2>3
<1>4. ~ToTake(stack', n, hop)
  BY <1>3 DEF OnWay
<1>5. hop.segment.at = Top.at /\ Hands(b, Top.input, hop.input)
  <2>1. PICK j \in 1 .. Len(Top.with) : hop.segment.at = Top.at /\ Hands(Top.with[j], Top.input, hop.input)
    BY <1>1, <1>3, <1>4 DEF ToTake
  <2>2. j = 1
    <3> SUFFICES ASSUME j # 1 PROVE FALSE
      OBVIOUS
    <3>1. j - 1 \in 1 .. Len(Tail(Top.with)) /\ Tail(Top.with)[j - 1] = Top.with[j]
      BY <1>1
    <3> QED
      BY <1>1, <1>4, <2>1, <3>1 DEF ToTake
  <2> QED
    BY <1>1, <2>1, <2>2
<1>6. Confirmed(b) /\ Child = hop.segment.child /\ b.name = hop.input
  BY <1>1, <1>3, <1>5, HopConfirmed
<1>7. /\ Len(stack') = n + 1
      /\ stack'[n + 1].dir = Child /\ stack'[n + 1].input = b.name
      /\ stack'[n + 1].usages = InternalUsages(Child, b.name)
      /\ flows' = flows \cup {[root |-> root, path |-> stack'[n + 1].path, parentInput |-> Top.input,
                               input |-> b.name]}
  BY <1>6, BindingFacts
<1>8. Child = DirAt(c.root, c.hops, n) /\ b.name = InputAt(c.root, c.hops, n)
  BY <1>1, <1>3, <1>6 DEF DirAt, InputAt
<1>9. Reached(stack', root, c, n + 1)
  <2>1. Reached(stack', root, c, n)
    BY <1>3
  <2>2. \A j \in 1 .. n : /\ stack'[j].dir = DirAt(c.root, c.hops, j - 1)
                          /\ stack'[j].input = InputAt(c.root, c.hops, j - 1)
    BY <2>1 DEF Reached
  <2>3. \A j \in 1 .. n + 1 : j = n + 1 \/ j \in 1 .. n
    BY <1>1
  <2>4. (n + 1) - 1 = n /\ n + 1 \in 1 .. Len(stack')
    BY <1>1, <1>7
  <2>5. \A j \in 1 .. n + 1 : /\ stack'[j].dir = DirAt(c.root, c.hops, j - 1)
                              /\ stack'[j].input = InputAt(c.root, c.hops, j - 1)
    BY <1>7, <1>8, <2>2, <2>3, <2>4
  <2>6. \A j \in 1 .. n : j = n \/ j \in 1 .. n - 1
    BY <1>1
  <2>7. \A j \in 1 .. n : stack'[j].at = c.hops[j].segment.at
    BY <1>1, <1>5, <2>1, <2>6 DEF Reached
  <2> QED
    BY <2>1, <2>4, <2>5, <2>7 DEF Reached
<1>10. CASE n = Len(c.hops)
  <2>1. StackOK(stack', root) /\ TypeOK
    <3>1. stack' # <<>>
      <4>1. Len(stack') # Len(<<>>)
        BY <1>1, <1>7
      <4> QED  BY <4>1, Zenon
    <3> QED
      BY <1>1, <3>1, StackIsOKNext DEF IInv
  <2>2. stack'[n + 1].path = PathOf(c.hops)
    BY <1>1, <1>9, <1>10, <2>1, ReachedPath
  <2>3. Top.input = InputAt(c.root, c.hops, n - 1) /\ c.root = root
    BY <1>1, <1>3 DEF Reached
  <2>4. ChainFlow(c) \in flows'
    BY <1>7, <1>8, <1>10, <2>2, <2>3 DEF ChainFlow
  <2>5. InternalUsages(EndDir(c), EndInput(c)) \subseteq stack'[Len(c.hops) + 1].usages
    BY <1>7, <1>8, <1>10 DEF EndDir, EndInput
  <2> QED
    BY <1>9, <1>10, <2>4, <2>5 DEF Arrived
<1>11. CASE n # Len(c.hops)
  <2>1. n + 1 \in 1 .. Len(c.hops) /\ (n + 1) - 1 = n
    BY <1>1, <1>3, <1>11, ChainFacts, DepthAssumption
  <2>2. c.hops[n + 1].segment.at \in InternalUsages(DirAt(c.root, c.hops, n), InputAt(c.root, c.hops, n))
    <3>1. c.hops[n + 1].segment.at \in
            InternalUsages(DirAt(c.root, c.hops, (n + 1) - 1), InputAt(c.root, c.hops, (n + 1) - 1))
      BY <2>1, ChainFacts
    <3> QED
      BY <2>1, <3>1
  <2>3. ToTake(stack', n + 1, c.hops[n + 1])
    BY <1>7, <1>8, <2>2 DEF ToTake
  <2> QED
    BY <1>9, <2>1, <2>3 DEF OnWay
<1> QED
  BY <1>10, <1>11

LEMMA BindingAtEnd ==
  ASSUME IInv, StackHandsOver, ExpandBinding, NEW c \in Chains,
         NEW e \in EndCalls(c), NEW x \in CallNotices(c, e), AtEnd(stack, root, c, e, x)
  PROVE  x \in diagnostics' \/ AtEnd(stack', root', c, e, x)
<1> SUFFICES ASSUME ~AtEnd(stack', root, c, e, x) PROVE x \in diagnostics'
  BY BindingFacts
<1> DEFINE n == Len(stack)
           b == Head(Top.with)
<1>1. /\ stack # <<>> /\ n \in Nat \ {0} /\ Top = stack[n] /\ Top \in Frame
      /\ Top.with # <<>> /\ Top.with \in Seq(Binding) /\ b = Top.with[1] /\ b \in Binding
      /\ \A k \in 1 .. n - 1 : stack'[k] = stack[k]
      /\ stack'[n].dir = Top.dir /\ stack'[n].input = Top.input /\ stack'[n].usages = Top.usages
      /\ stack'[n].at = Top.at /\ stack'[n].with = Tail(Top.with)
      /\ diagnostics' = diagnostics \cup Problems(b)
  BY BindingFacts
<1>2. Len(stack') \in {n, n + 1}
  BY BindingFacts
<1>3. /\ \A d, k : Reached(stack, root, d, k) => k \in 1 .. n /\ Reached(stack', root, d, k)
      /\ Len(c.hops) + 1 = n
  <2>1. stack'[n].dir = stack[n].dir /\ stack'[n].input = stack[n].input
    BY <1>1
  <2>2. n \in Nat \ {0} /\ Len(stack') \in Nat /\ n <= Len(stack')
    BY <1>1, <1>2
  <2>3. /\ \A d, k : Reached(stack, root, d, k) => k \in 1 .. n /\ Reached(stack', root, d, k)
        /\ \A d, m, v : AtEnd(stack, root, d, m, v) => AtEnd(stack', root, d, m, v) \/ Len(d.hops) + 1 = n
    BY <1>1, <2>1, <2>2, BelowStays
  <2> QED
    BY <2>3
<1>4. Reached(stack, root, c, n) /\ Reached(stack', root, c, n)
  BY <1>3 DEF AtEnd
<1>5. e = Top.at /\ x \in BindingNotices(c, e, b)
  <2>1. PICK j \in 1 .. Len(Top.with) : e = Top.at /\ x \in BindingNotices(c, e, Top.with[j])
    BY <1>1, <1>3, <1>4 DEF AtEnd
  <2>2. j = 1
    <3> SUFFICES ASSUME j # 1 PROVE FALSE
      OBVIOUS
    <3>1. j - 1 \in 1 .. Len(Tail(Top.with)) /\ Tail(Top.with)[j - 1] = Top.with[j]
      BY <1>1
    <3>2. /\ j - 1 \in 1 .. Len(stack'[n].with) /\ e = stack'[n].at
          /\ x \in BindingNotices(c, e, stack'[n].with[j - 1])
      BY <1>1, <2>1, <3>1
    <3> QED
      BY <1>3, <1>4, <3>2 DEF AtEnd
  <2> QED
    BY <1>1, <2>1, <2>2
<1>6. Top.dir = EndDir(c) /\ Top.input = EndInput(c) /\ root = c.root
  <2>1. Top.dir = DirAt(c.root, c.hops, n - 1) /\ Top.input = InputAt(c.root, c.hops, n - 1) /\ root = c.root
    BY <1>1, <1>4 DEF Reached
  <2>2. n - 1 = Len(c.hops)
    BY <1>3, ChainFacts, DepthAssumption
  <2> QED
    BY <2>1, <2>2 DEF EndDir, EndInput
<1>7. Top.path = PathOf(c.hops)
  <2>1. StackOK(stack, root) /\ TypeOK
    BY <1>1, StackIsOK DEF IInv
  <2> QED
    BY <1>1, <1>3, <1>4, <2>1, ReachedPath
<1>8. StepAt(Top.at) = EndStep(c, e) /\ Child = EndStep(c, e).call
  BY <1>5, <1>6 DEF StepAt, EndStep, Child
<1>9. \A kind : Notice(kind, Top.at, b.name) = ChainNotice(c, e, kind, b.name)
  BY <1>5, <1>6, <1>7, <1>8 DEF Notice, ChainNotice
<1>10. CASE IsProblem(b.value) /\ x = ChainNotice(c, e, Classify(b.value), b.name)
  BY <1>1, <1>9, <1>10 DEF Problems
<1>11. CASE HandsUndeclared(c, e, b) /\ x = ChainNotice(c, e, "undeclared", b.name)
  <2>1. Classify(b.value) = "forwards"
    BY <1>11 DEF HandsUndeclared, Classify
  <2>2. ~IsProblem(b.value)
    BY <2>1 DEF IsProblem
  <2>3. b.value.whole = Top.input /\ b.name \notin action(Child).inputs
    BY <1>6, <1>8, <1>11 DEF HandsUndeclared
  <2> QED
    BY <1>1, <1>9, <1>11, <2>1, <2>2, <2>3 DEF Problems
<1> QED
  BY <1>5, <1>10, <1>11 DEF BindingNotices

LEMMA StartOnWay ==
  ASSUME IInv, NEW f \in todo, StartFlow(f), NEW c \in Chains, OnWay(todo, stack, root, c)
  PROVE  OnWay(todo', stack', root', c) \/ Arrived(flows', stack', root', c)
<1>1. stack = <<>> /\ todo' = todo \ {f} /\ root' = f /\ stack' = <<NewFrame(RootDir(f), f.input, <<>>)>>
  BY DEF StartFlow
<1>2. /\ Len(stack') = 1 /\ stack'[1].dir = RootDir(f) /\ stack'[1].input = f.input
      /\ stack'[1].usages = InternalUsages(RootDir(f), f.input)
  BY <1>1 DEF NewFrame
<1>3. c.root \in todo
  <2>1. Len(stack) = 0
    BY <1>1
  <2> QED
    BY <2>1 DEF OnWay, Reached
<1>4. CASE c.root # f
  BY <1>1, <1>3, <1>4 DEF OnWay
<1>5. CASE c.root = f
  <2>1. Reached(stack', root', c, 1)
    BY <1>1, <1>2, <1>5 DEF Reached, DirAt, InputAt
  <2>2. Len(c.hops) \in Nat
    BY ChainFacts, DepthAssumption
  <2>3. CASE Len(c.hops) = 0
    <3>1. c.hops = <<>>
      <4>1. c.hops \in [1 .. 0 -> Hop]
        BY <2>3, ChainFacts
      <4> QED  BY <4>1
    <3>2. EndDir(c) = RootDir(f) /\ EndInput(c) = f.input
      BY <1>5, <2>3 DEF EndDir, EndInput, DirAt, InputAt
    <3> QED
      BY <1>2, <2>1, <2>3, <3>1, <3>2 DEF Arrived
  <2>4. CASE Len(c.hops) # 0
    <3>1. 1 \in 1 .. Len(c.hops) /\ 1 - 1 = 0
      BY <2>2, <2>4
    <3>2. c.hops[1].segment.at \in InternalUsages(DirAt(c.root, c.hops, 1 - 1), InputAt(c.root, c.hops, 1 - 1))
      BY <3>1, ChainFacts
    <3>3. c.hops[1].segment.at \in InternalUsages(RootDir(f), f.input)
      BY <1>5, <3>1, <3>2 DEF DirAt, InputAt
    <3> QED
      BY <1>2, <2>1, <3>1, <3>3 DEF OnWay, ToTake
  <2> QED
    BY <2>3, <2>4
<1> QED
  BY <1>4, <1>5

\* The frame that returns has nothing left to look at.
LEMMA ReturnKeeps ==
  ASSUME IInv, Return
  PROVE  /\ \A c : OnWay(todo, stack, root, c) => OnWay(todo', stack', root', c)
         /\ \A c, i, x : AtEnd(stack, root, c, i, x) => AtEnd(stack', root', c, i, x)
<1> DEFINE n == Len(stack)
<1>1. /\ stack \in Seq(Frame) /\ n \in Nat \ {0} /\ stack[n].usages = {} /\ stack[n].with = <<>>
      /\ root' = root /\ todo' = todo
  <2>1. stack \in Seq(Frame) /\ stack # <<>>
    BY DEF Return, IInv, TypeOK
  <2> QED
    BY <2>1 DEF Return, InUsage, Top
<1>2. Len(stack[n].with) = 0
  BY <1>1
<1>3. Len(stack') = n - 1 /\ \A k \in 1 .. n - 1 : stack'[k] = stack[k]
  <2>1. stack' = SubSeq(stack, 1, n - 1)
    BY DEF Return
  <2> HIDE DEF n
  <2> QED
    BY <1>1, <2>1, SubSeqProperties
<1>4. ASSUME NEW c, NEW k, Reached(stack, root, c, k), k # n
      PROVE  Reached(stack', root, c, k) /\ stack'[k] = stack[k]
  <2>1. k \in 1 .. n - 1
    BY <1>1, <1>4 DEF Reached
  <2>2. k \in 1 .. Len(stack') /\ \A j \in 1 .. k : stack'[j] = stack[j]
    BY <1>1, <1>3, <2>1
  <2>3. /\ \A j \in 1 .. k : stack'[j].dir = stack[j].dir /\ stack'[j].input = stack[j].input
        /\ \A j \in 1 .. k - 1 : stack'[j].at = stack[j].at
    BY <2>1, <2>2
  <2> QED
    BY <1>3, <1>4, <2>1, <2>2, <2>3, ReachedKept
<1>5. ASSUME NEW c, OnWay(todo, stack, root, c) PROVE OnWay(todo', stack', root', c)
  <2>1. CASE c.root \in todo
    BY <1>1, <2>1 DEF OnWay
  <2>2. CASE c.root \notin todo
    <3>1. PICK k \in 1 .. Len(c.hops) : Reached(stack, root, c, k) /\ ToTake(stack, k, c.hops[k])
      BY <1>5, <2>2 DEF OnWay
    <3>2. k # n
      BY <1>1, <1>2, <3>1 DEF ToTake
    <3>3. Reached(stack', root, c, k) /\ stack'[k] = stack[k]
      BY <1>4, <3>1, <3>2
    <3>4. ToTake(stack', k, c.hops[k])
      BY <3>1, <3>3 DEF ToTake
    <3> QED
      BY <1>1, <3>3, <3>4 DEF OnWay
  <2> QED
    BY <2>1, <2>2
<1>6. ASSUME NEW c, NEW i, NEW x, AtEnd(stack, root, c, i, x) PROVE AtEnd(stack', root', c, i, x)
  <2> DEFINE k == Len(c.hops) + 1
  <2>1. Reached(stack, root, c, k)
    BY <1>6 DEF AtEnd
  <2>2. k # n
    <3> SUFFICES ASSUME k = n PROVE FALSE
      OBVIOUS
    <3> QED
      BY <1>1, <1>2, <1>6 DEF AtEnd
  <2>3. Reached(stack', root, c, k) /\ stack'[k] = stack[k]
    BY <1>4, <2>1, <2>2
  <2> QED
    BY <1>1, <1>6, <2>3 DEF AtEnd
<1> QED
  BY <1>5, <1>6

\* A step of the recursion loses nothing, if it loses nothing of any one chain.
LEMMA CompleteKept ==
  ASSUME Complete, pc = "nested", UNCHANGED <<program, rootFlows>>,
         flows \subseteq flows', diagnostics \subseteq diagnostics',
         \A c \in Chains : OnWay(todo, stack, root, c) =>
           OnWay(todo', stack', root', c) \/ Arrived(flows', stack', root', c),
         \A c \in Chains : \A e \in EndCalls(c) : \A x \in CallNotices(c, e) :
           AtEnd(stack, root, c, e, x) => x \in diagnostics' \/ AtEnd(stack', root', c, e, x)
  PROVE  Complete'
<1>1. Accounted(flows, diagnostics, todo, stack, root)
  BY DEF Complete
<1>2. ASSUME NEW c \in Chains, c.hops # <<>>
      PROVE  ChainFlow(c) \in flows' \/ OnWay(todo', stack', root', c)
  BY <1>1, <1>2 DEF Accounted, Arrived
<1>3. ASSUME NEW c \in Chains, NEW e \in EndCalls(c), Arrived(flows', stack', root', c), NEW x
      PROVE  AtEnd(stack', root', c, e, x)
  <2>1. e \in InternalUsages(EndDir(c), EndInput(c))
    BY DEF EndCalls
  <2> QED
    BY <1>3, <2>1 DEF Arrived, AtEnd
<1>4. ASSUME NEW c \in Chains, NEW e \in EndCalls(c), NEW x \in CallNotices(c, e)
      PROVE  x \in diagnostics' \/ OnWay(todo', stack', root', c) \/ AtEnd(stack', root', c, e, x)
  <2>1. x \in diagnostics \/ OnWay(todo, stack, root, c) \/ AtEnd(stack, root, c, e, x)
    BY <1>1 DEF Accounted
  <2> QED
    BY <1>3, <2>1
<1>5. Accounted(flows', diagnostics', todo', stack', root')
  BY <1>2, <1>4 DEF Accounted
<1> QED
  BY <1>5, CompleteNext

LEMMA FlowsFoundKept ==
  ASSUME FlowsFound, UNCHANGED <<program, rootFlows>>,
         \A f \in flows' \ flows : \E c \in Chains : c.hops # <<>> /\ f = ChainFlow(c)
  PROVE  FlowsFound'
<1>1. \A f \in flows' : \E c \in Chains : c.hops # <<>> /\ f = ChainFlow(c)
  BY DEF FlowsFound
<1> QED
  BY <1>1, SameReference DEF FlowsFound

LEMMA NoticesFoundKept ==
  ASSUME NoticesFound, UNCHANGED <<program, rootFlows>>,
         \A x \in diagnostics' \ diagnostics : \E c \in Chains : \E i \in EndCalls(c) : x \in CallNotices(c, i)
  PROVE  NoticesFound'
<1>1. \A x \in diagnostics' : \E c \in Chains : \E i \in EndCalls(c) : x \in CallNotices(c, i)
  BY DEF NoticesFound
<1> QED
  BY <1>1, SameReference DEF NoticesFound

LEMMA FramesReadNext ==
  ASSUME UNCHANGED program,
         \A k \in 1 .. Len(stack') :
           /\ stack'[k].usages \subseteq InternalUsages(stack'[k].dir, stack'[k].input)
           /\ stack'[k].with # <<>> => stack'[k].at \in InternalUsages(stack'[k].dir, stack'[k].input)
  PROVE  FramesRead'
<1>1. \A d, n : InternalUsages(d, n)' = InternalUsages(d, n)
  BY DEF InternalUsages, action
<1> QED
  BY <1>1 DEF FramesRead

LEMMA HandsOverNext ==
  ASSUME UNCHANGED program, stack' # <<>> => stack'[1].input = root'.input,
         \A k \in 1 .. Len(stack') - 1 :
           /\ stack'[k].at \in InternalUsages(stack'[k].dir, stack'[k].input)
           /\ HandsOver(SegmentIn(stack', k), stack'[k].input, stack'[k + 1].input)
  PROVE  StackHandsOver'
<1>1. \A d, n : InternalUsages(d, n)' = InternalUsages(d, n)
  BY DEF InternalUsages, action
<1>2. \A s, x, y : HandsOver(s, x, y)' <=> HandsOver(s, x, y)
  BY DEF HandsOver, InternalUsages, action
<1>3. \A k : SegmentIn(stack', k) = SegmentIn(stack, k)'
  BY DEF SegmentIn
<1> QED
  BY <1>1, <1>2, <1>3 DEF StackHandsOver

\* The calls below the innermost frame hand over what they did.
LEMMA BelowHandsOver ==
  ASSUME StackHandsOver, NEW n, n = Len(stack), n \in Nat \ {0}, stack \in Seq(Frame),
         \A k \in 1 .. n - 1 : stack'[k] = stack[k],
         stack'[n].dir = stack[n].dir, stack'[n].input = stack[n].input, root' = root
  PROVE  /\ stack'[1].input = root'.input
         /\ \A k \in 1 .. n - 1 :
              /\ stack'[k].at \in InternalUsages(stack'[k].dir, stack'[k].input)
              /\ HandsOver(SegmentIn(stack', k), stack'[k].input, stack'[k + 1].input)
<1>1. stack # <<>>
  OBVIOUS
<1>2. stack'[1].input = root'.input
  <2>1. n = 1 \/ 1 \in 1 .. n - 1
    OBVIOUS
  <2> QED
    BY <1>1, <2>1 DEF StackHandsOver
<1>3. ASSUME NEW k \in 1 .. n - 1
      PROVE  /\ stack'[k].at \in InternalUsages(stack'[k].dir, stack'[k].input)
             /\ HandsOver(SegmentIn(stack', k), stack'[k].input, stack'[k + 1].input)
  <2>1. k + 1 = n \/ k + 1 \in 1 .. n - 1
    OBVIOUS
  <2>2. stack'[k] = stack[k] /\ stack'[k + 1].dir = stack[k + 1].dir /\ stack'[k + 1].input = stack[k + 1].input
    BY <2>1
  <2>3. SegmentIn(stack', k) = SegmentIn(stack, k)
    BY <2>2 DEF SegmentIn
  <2>4. /\ stack[k].at \in InternalUsages(stack[k].dir, stack[k].input)
        /\ HandsOver(SegmentIn(stack, k), stack[k].input, stack[k + 1].input)
    BY DEF StackHandsOver
  <2> QED
    BY <2>2, <2>3, <2>4
<1> QED
  BY <1>2, <1>3

\* The chain of the recursion, at whose end the innermost frame looks.
LEMMA TopChain ==
  ASSUME IInv, StackHandsOver, stack # <<>>
  PROVE  \E c \in Chains :
           /\ c.root = root /\ Len(c.hops) + 1 = Len(stack)
           /\ EndDir(c) = Top.dir /\ EndInput(c) = Top.input /\ PathOf(c.hops) = Top.path /\ Seen(c) = onPath
<1> DEFINE c == StackChain(stack, root)
           n == Len(stack)
<1>1. TypeOK /\ StackOK(stack, root) /\ n \in Nat \ {0}
  <2>1. stack \in Seq(Frame)
    BY DEF IInv, TypeOK
  <2> QED
    BY <2>1, StackIsOK DEF IInv
<1>2. /\ c \in Chains /\ c.root = root /\ Len(c.hops) = n - 1
      /\ \A k \in 1 .. n : DirAt(root, c.hops, k - 1) = stack[k].dir /\ InputAt(root, c.hops, k - 1) = stack[k].input
      /\ PathOf(c.hops) = stack[n].path
      /\ Seen(c) = {stack[k].dir : k \in 1 .. n}
  BY <1>1, StackIsChain
<1> HIDE DEF c
<1>3. n \in 1 .. n /\ Len(c.hops) + 1 = n
  BY <1>1, <1>2
<1>4. EndDir(c) = Top.dir /\ EndInput(c) = Top.input /\ PathOf(c.hops) = Top.path
  BY <1>2, <1>3 DEF EndDir, EndInput, Top
<1>5. Seen(c) = onPath
  BY <1>2 DEF IInv, DirsOK
<1> QED
  BY <1>2, <1>3, <1>4, <1>5

LEMMA StartLInv == ASSUME LInv, NEW f \in todo, StartFlow(f) PROVE LInv'
<1>1. IInv /\ IInv' /\ Complete /\ FlowsFound /\ NoticesFound
  BY StartFlowIInv DEF LInv
<1>2. /\ stack = <<>> /\ pc = "nested" /\ UNCHANGED <<program, rootFlows, flows, diagnostics, pc>>
      /\ stack' = <<NewFrame(RootDir(f), f.input, <<>>)>> /\ root' = f
  BY DEF StartFlow, inputVars, resultVars
<1>3. /\ Len(stack') = 1 /\ stack'[1].dir = RootDir(f) /\ stack'[1].input = f.input
      /\ stack'[1].usages = InternalUsages(RootDir(f), f.input) /\ stack'[1].with = <<>>
  BY <1>2 DEF NewFrame
<1>4. FramesRead'
  BY <1>2, <1>3, FramesReadNext
<1>5. StackHandsOver'
  BY <1>2, <1>3, HandsOverNext
<1>6. PhaseOK'
  BY <1>2 DEF PhaseOK
<1>7. FlowsFound' /\ NoticesFound'
  BY <1>1, <1>2, FlowsFoundKept, NoticesFoundKept
<1>8. Complete'
  <2>1. \A c, e, x : ~AtEnd(stack, root, c, e, x)
    <3>1. Len(stack) = 0
      BY <1>2
    <3> QED
      BY <3>1 DEF AtEnd, Reached
  <2>2. \A c \in Chains : OnWay(todo, stack, root, c) =>
          OnWay(todo', stack', root', c) \/ Arrived(flows', stack', root', c)
    BY <1>1, StartOnWay
  <2> QED
    BY <1>1, <1>2, <2>1, <2>2, CompleteKept
<1> QED
  BY <1>1, <1>4, <1>5, <1>6, <1>7, <1>8 DEF LInv

LEMMA UsageLInv == ASSUME LInv, stack # <<>>, NEW i \in Top.usages, ExpandUsage(i) PROVE LInv'
<1> DEFINE n == Len(stack)
<1>1. /\ IInv /\ IInv' /\ Complete /\ FlowsFound /\ NoticesFound /\ FramesRead /\ StackHandsOver
      /\ stack \in Seq(Frame)
  BY ExpandUsageIInv DEF LInv, IInv, TypeOK
<1>2. /\ n \in Nat \ {0} /\ Len(stack') = n /\ Top = stack[n] /\ \A k \in 1 .. n - 1 : stack'[k] = stack[k]
      /\ stack'[n].dir = stack[n].dir /\ stack'[n].input = stack[n].input
      /\ stack'[n].usages = Top.usages \ {i} /\ pc = "nested"
      /\ UNCHANGED <<program, rootFlows, todo, root, flows, pc>>
      /\ diagnostics' = diagnostics \cup
           (IF Expands(i) THEN {Notice("missing", i, m) : m \in Missing(StepAt(i).call, StepAt(i))} ELSE {})
  BY <1>1, UsageFacts
<1>3. IF Expands(i) THEN stack'[n].at = i /\ stack'[n].with = StepAt(i).with
                    ELSE stack'[n].with = <<>>
  BY <1>1, UsageFacts
<1>4. FramesRead'
  <2>1. n \in 1 .. n /\ \A k \in 1 .. n : k = n \/ k \in 1 .. n - 1
    BY <1>2
  <2>2. Top.usages \subseteq InternalUsages(stack[n].dir, stack[n].input)
    BY <1>1, <1>2, <2>1 DEF FramesRead
  <2>3. /\ stack'[n].usages \subseteq InternalUsages(stack'[n].dir, stack'[n].input)
        /\ stack'[n].with # <<>> => stack'[n].at \in InternalUsages(stack'[n].dir, stack'[n].input)
    BY <1>2, <1>3, <2>2
  <2>4. \A k \in 1 .. n - 1 :
          /\ stack'[k].usages \subseteq InternalUsages(stack'[k].dir, stack'[k].input)
          /\ stack'[k].with # <<>> => stack'[k].at \in InternalUsages(stack'[k].dir, stack'[k].input)
    BY <1>1, <1>2 DEF FramesRead
  <2> QED
    BY <1>2, <2>1, <2>3, <2>4, FramesReadNext
<1>5. StackHandsOver'
  <2>1. /\ stack'[1].input = root'.input
        /\ \A k \in 1 .. n - 1 :
             /\ stack'[k].at \in InternalUsages(stack'[k].dir, stack'[k].input)
             /\ HandsOver(SegmentIn(stack', k), stack'[k].input, stack'[k + 1].input)
    BY <1>1, <1>2, BelowHandsOver
  <2> QED
    BY <1>2, <2>1, HandsOverNext
<1>6. PhaseOK'
  BY <1>2 DEF PhaseOK
<1>7. FlowsFound'
  BY <1>1, <1>2, FlowsFoundKept
<1>8. NoticesFound'
  <2> SUFFICES ASSUME NEW x \in diagnostics' \ diagnostics
               PROVE  \E c \in Chains : \E e \in EndCalls(c) : x \in CallNotices(c, e)
    BY <1>1, <1>2, NoticesFoundKept
  <2>1. Expands(i) /\ x \in {Notice("missing", i, m) : m \in Missing(StepAt(i).call, StepAt(i))}
    BY <1>2
  <2>2. PICK m \in Missing(StepAt(i).call, StepAt(i)) : x = Notice("missing", i, m)
    BY <2>1
  <2>3. PICK c \in Chains :
          /\ c.root = root /\ Len(c.hops) + 1 = Len(stack)
          /\ EndDir(c) = Top.dir /\ EndInput(c) = Top.input /\ PathOf(c.hops) = Top.path /\ Seen(c) = onPath
    BY <1>1, TopChain
  <2>4. StepAt(i) = EndStep(c, i)
    BY <2>3 DEF StepAt, EndStep
  <2>5. i \in EndCalls(c)
    <3>1. i \in InternalUsages(Top.dir, Top.input)
      BY <1>1, <1>2 DEF FramesRead
    <3>2. StepAt(i).call \notin onPath \cup {NoCall} /\ Len(c.hops) + 1 < MaxCompositeActionNestingDepth
      BY <1>2, <2>1, <2>3, DepthAssumption DEF Expands
    <3> QED
      BY <2>3, <2>4, <3>1, <3>2 DEF EndCalls
  <2>6. x = ChainNotice(c, i, "missing", m)
    BY <2>2, <2>3, <2>4 DEF ChainNotice, Notice
  <2> QED
    BY <2>2, <2>4, <2>5, <2>6 DEF CallNotices
<1>9. Complete'
  <2>1. \A c \in Chains : OnWay(todo, stack, root, c) => OnWay(todo', stack', root', c)
    BY <1>1, UsageOnWay
  <2>2. \A c \in Chains : \A e \in EndCalls(c) : \A x \in CallNotices(c, e) :
          AtEnd(stack, root, c, e, x) => x \in diagnostics' \/ AtEnd(stack', root', c, e, x)
    BY <1>1, UsageAtEnd
  <2> QED
    BY <1>1, <1>2, <2>1, <2>2, CompleteKept
<1> QED
  BY <1>1, <1>4, <1>5, <1>6, <1>7, <1>8, <1>9 DEF LInv

LEMMA BindingLInv == ASSUME LInv, ExpandBinding PROVE LInv'
<1> DEFINE n == Len(stack)
           b == Head(Top.with)
<1>1. /\ IInv /\ IInv' /\ Complete /\ FlowsFound /\ NoticesFound /\ FramesRead /\ StackHandsOver
      /\ stack \in Seq(Frame)
  BY ExpandBindingIInv DEF LInv, IInv, TypeOK
<1>2. /\ stack # <<>> /\ n \in Nat \ {0} /\ Top = stack[n] /\ Top \in Frame /\ pc = "nested"
      /\ Top.with # <<>> /\ b \in Bindings(StepAt(Top.at)) /\ b \in Binding
      /\ \A k \in 1 .. n - 1 : stack'[k] = stack[k]
      /\ stack'[n].dir = stack[n].dir /\ stack'[n].input = stack[n].input
      /\ stack'[n].usages = Top.usages /\ stack'[n].at = Top.at
      /\ UNCHANGED <<program, rootFlows, todo, root, pc>>
      /\ diagnostics' = diagnostics \cup Problems(b)
  BY <1>1, BindingFacts
<1>3. ~Confirmed(b) => Len(stack') = n /\ flows' = flows
  BY <1>1, BindingFacts
<1>4. Confirmed(b) =>
        /\ Len(stack') = n + 1
        /\ stack'[n + 1].dir = Child /\ stack'[n + 1].input = b.name
        /\ stack'[n + 1].usages = InternalUsages(Child, b.name) /\ stack'[n + 1].with = <<>>
        /\ flows' = flows \cup {[root |-> root, path |-> stack'[n + 1].path, parentInput |-> Top.input,
                                 input |-> b.name]}
  BY <1>1, BindingFacts
<1> HIDE DEF b
<1>5. /\ Top.usages \subseteq InternalUsages(Top.dir, Top.input)
      /\ Top.at \in InternalUsages(Top.dir, Top.input)
  <2>1. n \in 1 .. n
    BY <1>2
  <2> QED
    BY <1>1, <1>2, <2>1 DEF FramesRead
<1>6. FramesRead'
  <2>1. \A k \in 1 .. n - 1 :
          /\ stack'[k].usages \subseteq InternalUsages(stack'[k].dir, stack'[k].input)
          /\ stack'[k].with # <<>> => stack'[k].at \in InternalUsages(stack'[k].dir, stack'[k].input)
    BY <1>1, <1>2 DEF FramesRead
  <2>2. /\ stack'[n].usages \subseteq InternalUsages(stack'[n].dir, stack'[n].input)
        /\ stack'[n].at \in InternalUsages(stack'[n].dir, stack'[n].input)
    BY <1>2, <1>5
  <2>3. CASE ~Confirmed(b)
    <3>1. Len(stack') = n /\ \A k \in 1 .. n : k = n \/ k \in 1 .. n - 1
      BY <1>2, <1>3, <2>3
    <3> QED
      BY <1>2, <2>1, <2>2, <3>1, FramesReadNext
  <2>4. CASE Confirmed(b)
    <3>1. Len(stack') = n + 1 /\ \A k \in 1 .. n + 1 : k = n + 1 \/ k = n \/ k \in 1 .. n - 1
      BY <1>2, <1>4, <2>4
    <3>2. /\ stack'[n + 1].usages \subseteq InternalUsages(stack'[n + 1].dir, stack'[n + 1].input)
          /\ stack'[n + 1].with = <<>>
      BY <1>4, <2>4
    <3> QED
      BY <1>2, <2>1, <2>2, <3>1, <3>2, FramesReadNext
  <2> QED
    BY <2>3, <2>4
<1>7. StackHandsOver'
  <2>1. /\ stack'[1].input = root'.input
        /\ \A k \in 1 .. n - 1 :
             /\ stack'[k].at \in InternalUsages(stack'[k].dir, stack'[k].input)
             /\ HandsOver(SegmentIn(stack', k), stack'[k].input, stack'[k + 1].input)
    BY <1>1, <1>2, BelowHandsOver
  <2>2. CASE ~Confirmed(b)
    BY <1>2, <1>3, <2>1, <2>2, HandsOverNext
  <2>3. CASE Confirmed(b)
    <3>1. Len(stack') - 1 = n /\ \A k \in 1 .. n : k = n \/ k \in 1 .. n - 1
      BY <1>2, <1>4, <2>3
    <3>2. stack'[n].at \in InternalUsages(stack'[n].dir, stack'[n].input)
      BY <1>2, <1>5
    <3>3. HandsOver(SegmentIn(stack', n), stack'[n].input, stack'[n + 1].input)
      <4>1. SegmentIn(stack', n) = [parent |-> Top.dir, at |-> Top.at, child |-> Child]
        BY <1>2, <1>4, <2>3 DEF SegmentIn
      <4>2. b.value \in Value
        BY <1>2 DEF Binding
      <4>3. ~b.value.dynamic /\ b.value.refs = {Top.input} /\ b.value.whole = Top.input
        BY <2>3, <4>2, Classification DEF Confirmed
      <4>4. b.name \in action(Child).inputs /\ InternalUsages(Child, b.name) # {}
        BY <2>3 DEF Confirmed
      <4>5. HandsOver([parent |-> Top.dir, at |-> Top.at, child |-> Child], Top.input, b.name)
        BY <1>2, <4>3, <4>4 DEF HandsOver, StepAt
      <4>6. stack'[n].input = Top.input /\ stack'[n + 1].input = b.name
        BY <1>2, <1>4, <2>3
      <4> QED
        BY <4>1, <4>5, <4>6
    <3> QED
      BY <1>2, <2>1, <3>1, <3>2, <3>3, HandsOverNext
  <2> QED
    BY <2>2, <2>3
<1>8. PhaseOK'
  BY <1>2 DEF PhaseOK
<1>9. FlowsFound'
  <2> SUFFICES ASSUME NEW f \in flows' \ flows
               PROVE  \E c \in Chains : c.hops # <<>> /\ f = ChainFlow(c)
    BY <1>1, <1>2, FlowsFoundKept
  <2>1. Confirmed(b)
    BY <1>3
  <2>2. /\ Len(stack') = n + 1 /\ stack'[n + 1].input = b.name
        /\ f = [root |-> root, path |-> stack'[n + 1].path, parentInput |-> stack'[n].input, input |-> b.name]
    BY <1>2, <1>4, <2>1
  <2>3. StackOK(stack', root') /\ TypeOK
    <3>1. stack' # <<>>
      <4>1. Len(stack') # Len(<<>>)
        BY <1>2, <2>2
      <4> QED  BY <4>1, Zenon
    <3> QED
      BY <1>1, <1>2, <1>7, <3>1, StackIsOKNext DEF IInv
  <2> DEFINE c == StackChain(stack', root')
  <2>4. /\ c \in Chains /\ c.root = root' /\ Len(c.hops) = Len(stack') - 1
        /\ \A k \in 1 .. Len(stack') : InputAt(root', c.hops, k - 1) = stack'[k].input
        /\ PathOf(c.hops) = stack'[Len(stack')].path
    BY <2>3, StackIsChain
  <2> HIDE DEF c
  <2>5. Len(c.hops) = n /\ n \in 1 .. Len(stack') /\ n + 1 \in 1 .. Len(stack') /\ (n + 1) - 1 = n
    BY <1>2, <2>2, <2>4
  <2>6. InputAt(root', c.hops, n - 1) = stack'[n].input /\ InputAt(root', c.hops, n) = stack'[n + 1].input
    BY <2>4, <2>5
  <2>7. f = ChainFlow(c)
    BY <1>2, <2>2, <2>4, <2>5, <2>6 DEF ChainFlow
  <2>8. c.hops # <<>>
    <3>1. Len(c.hops) # Len(<<>>)
      BY <1>2, <2>5
    <3> QED  BY <3>1, Zenon
  <2> QED
    BY <2>4, <2>7, <2>8
<1>10. NoticesFound'
  <2> SUFFICES ASSUME NEW x \in diagnostics' \ diagnostics
               PROVE  \E c \in Chains : \E e \in EndCalls(c) : x \in CallNotices(c, e)
    BY <1>1, <1>2, NoticesFoundKept
  <2>1. x \in Problems(b)
    BY <1>2
  <2>2. PICK c \in Chains :
          /\ c.root = root /\ Len(c.hops) + 1 = Len(stack)
          /\ EndDir(c) = Top.dir /\ EndInput(c) = Top.input /\ PathOf(c.hops) = Top.path /\ Seen(c) = onPath
    BY <1>1, <1>2, TopChain
  <2>3. StepAt(Top.at) = EndStep(c, Top.at) /\ Child = EndStep(c, Top.at).call
    BY <2>2 DEF StepAt, EndStep, Child
  <2>4. Top.at \in EndCalls(c)
    <3>1. Child \notin onPath /\ Len(stack) + 1 <= MaxCompositeActionNestingDepth
      BY <1>1, <1>2 DEF IInv, TopOK, InUsage
    <3>2. Child # NoCall
      BY <1>1, <1>2, CallAssumption DEF IInv, FramesOK, Child, StepAt, CallAt
    <3>3. Len(c.hops) + 1 < MaxCompositeActionNestingDepth
      BY <1>2, <2>2, <3>1, DepthAssumption
    <3> QED
      BY <1>5, <2>2, <2>3, <3>1, <3>2, <3>3 DEF EndCalls
  <2>5. \A kind : Notice(kind, Top.at, b.name) = ChainNotice(c, Top.at, kind, b.name)
    BY <2>2, <2>3 DEF Notice, ChainNotice
  <2>6. b \in Bindings(EndStep(c, Top.at)) /\ b.value \in Value
    BY <1>2, <2>3 DEF Binding
  <2>7. CASE IsProblem(b.value)
    <3>1. x = ChainNotice(c, Top.at, Classify(b.value), b.name)
      BY <2>1, <2>5, <2>7 DEF Problems
    <3> QED
      BY <2>4, <2>6, <2>7, <3>1 DEF CallNotices
  <2>8. CASE ~IsProblem(b.value)
    <3>1. /\ Classify(b.value) = "forwards" /\ b.value.whole = Top.input
          /\ b.name \notin action(Child).inputs /\ x = ChainNotice(c, Top.at, "undeclared", b.name)
      BY <2>1, <2>5, <2>8 DEF Problems
    <3>2. HandsUndeclared(c, Top.at, b)
      BY <2>2, <2>3, <2>6, <3>1, Classification DEF HandsUndeclared
    <3> QED
      BY <2>4, <2>6, <3>1, <3>2 DEF CallNotices
  <2> QED
    BY <2>7, <2>8
<1>11. Complete'
  <2>1. \A c \in Chains : OnWay(todo, stack, root, c) =>
          OnWay(todo', stack', root', c) \/ Arrived(flows', stack', root', c)
    BY <1>1, <1>7, BindingOnWay
  <2>2. \A c \in Chains : \A e \in EndCalls(c) : \A x \in CallNotices(c, e) :
          AtEnd(stack, root, c, e, x) => x \in diagnostics' \/ AtEnd(stack', root', c, e, x)
    BY <1>1, BindingAtEnd
  <2>3. flows \subseteq flows'
    BY <1>3, <1>4
  <2> QED
    BY <1>1, <1>2, <2>1, <2>2, <2>3, CompleteKept
<1> QED
  BY <1>1, <1>6, <1>7, <1>8, <1>9, <1>10, <1>11 DEF LInv

LEMMA ReturnLInv == ASSUME LInv, Return PROVE LInv'
<1> DEFINE n == Len(stack)
<1>1. /\ IInv /\ IInv' /\ Complete /\ FlowsFound /\ NoticesFound /\ FramesRead /\ StackHandsOver
  BY ReturnIInv DEF LInv
<1>2. /\ pc = "nested" /\ UNCHANGED <<program, rootFlows, todo, root, flows, diagnostics, pc>>
      /\ stack' = SubSeq(stack, 1, n - 1)
  BY DEF Return, inputVars, resultVars
<1>3. n \in Nat \ {0} /\ Len(stack') = n - 1 /\ \A k \in 1 .. n - 1 : stack'[k] = stack[k]
  <2>1. stack \in Seq(Frame) /\ stack # <<>>
    BY DEF Return, IInv, TypeOK, LInv
  <2>2. n \in Nat \ {0}
    BY <2>1
  <2>3. n = Len(stack)
    OBVIOUS
  <2> HIDE DEF n
  <2>4. 1 \in Int /\ n - 1 \in Int /\ n - 1 <= n
    BY <2>2
  <2>5. Len(SubSeq(stack, 1, n - 1)) = n - 1 /\ \A k \in 1 .. n - 1 : SubSeq(stack, 1, n - 1)[k] = stack[k]
    BY <2>1, <2>2, <2>3, SubSeqProperties
  <2> QED
    BY <1>2, <2>2, <2>5
<1>4. FramesRead'
  BY <1>1, <1>2, <1>3, FramesReadNext DEF FramesRead
<1>5. StackHandsOver'
  <2>1. stack' # <<>> => 1 \in 1 .. n - 1 /\ stack # <<>>
    <3> SUFFICES ASSUME stack' # <<>> PROVE 1 \in 1 .. n - 1 /\ stack # <<>>
      OBVIOUS
    <3>1. stack' \in Seq(Frame)
      BY <1>1 DEF IInv, TypeOK
    <3>2. Len(stack') # 0
      BY <3>1
    <3> QED
      BY <1>3, <3>2
  <2>2. stack' # <<>> => stack'[1].input = root'.input
    BY <1>1, <1>2, <1>3, <2>1 DEF StackHandsOver
  <2>3. ASSUME NEW k \in 1 .. Len(stack') - 1
        PROVE  /\ stack'[k].at \in InternalUsages(stack'[k].dir, stack'[k].input)
               /\ HandsOver(SegmentIn(stack', k), stack'[k].input, stack'[k + 1].input)
    <3>1. k \in 1 .. n - 1 /\ k + 1 \in 1 .. n - 1
      BY <1>3
    <3>2. stack'[k] = stack[k] /\ stack'[k + 1] = stack[k + 1]
      BY <1>3, <3>1
    <3>3. SegmentIn(stack', k) = SegmentIn(stack, k)
      BY <3>2 DEF SegmentIn
    <3> QED
      BY <1>1, <3>1, <3>2, <3>3 DEF StackHandsOver
  <2> QED
    BY <1>2, <2>2, <2>3, HandsOverNext
<1>6. PhaseOK'
  BY <1>2 DEF PhaseOK
<1>7. FlowsFound' /\ NoticesFound'
  BY <1>1, <1>2, FlowsFoundKept, NoticesFoundKept
<1>8. Complete'
  BY <1>1, <1>2, ReturnKeeps, CompleteKept
<1> QED
  BY <1>1, <1>4, <1>5, <1>6, <1>7, <1>8 DEF LInv

\* Before the recursion there is nothing to lose, and a step beside it changes nothing of it.
LEMMA OtherLInv ==
  ASSUME LInv, LinkStep \/ LinkNested \/ Finish \/ Abort \/ Cancel \/ UNCHANGED vars PROVE LInv'
<1>1. /\ IInv /\ IInv' /\ FramesRead /\ StackHandsOver /\ PhaseOK /\ FlowsFound /\ NoticesFound /\ Complete
  BY LinkStepIInv, OtherIInv DEF LInv
<1>2. UNCHANGED <<program, root, stack, flows, diagnostics>>
  BY DEF LinkStep, LinkNested, Finish, Abort, Cancel, vars, inputVars, walkVars, resultVars
<1>3. FramesRead' /\ StackHandsOver'
  <2>1. FramesRead'
    BY <1>1, <1>2, FramesReadNext DEF FramesRead
  <2>2. StackHandsOver'
    BY <1>1, <1>2, HandsOverNext DEF StackHandsOver
  <2> QED
    BY <2>1, <2>2
<1>4. CASE LinkStep
  <2>1. pc = "link" /\ pc' = "link" /\ todo' = todo
    BY <1>4 DEF LinkStep, walkVars
  <2>2. flows' = {} /\ diagnostics' = {}
    BY <1>1, <1>2, <2>1 DEF PhaseOK
  <2>3. PhaseOK'
    BY <1>1, <1>2, <2>1 DEF PhaseOK
  <2>4. FlowsFound' /\ NoticesFound' /\ Complete'
    BY <2>1, <2>2 DEF FlowsFound, NoticesFound, Complete
  <2> QED
    BY <1>1, <1>3, <2>3, <2>4 DEF LInv
<1>5. CASE LinkNested
  <2>1. pc = "link" /\ pc' = "nested" /\ todo' = rootFlows /\ rootFlows' = rootFlows
    BY <1>5 DEF LinkNested, inputVars
  <2>2. PhaseOK'
    BY <2>1 DEF PhaseOK
  <2>3. FlowsFound' /\ NoticesFound'
    BY <1>1, <1>2, <2>1, FlowsFoundKept, NoticesFoundKept
  <2>4. Complete'
    <3>1. \A c \in Chains : OnWay(todo', stack', root', c)
      BY <2>1, ChainFacts DEF OnWay
    <3>2. Accounted(flows', diagnostics', todo', stack', root')
      BY <3>1 DEF Accounted
    <3> QED
      BY <1>2, <2>1, <3>2, CompleteNext
  <2> QED
    BY <1>1, <1>3, <2>2, <2>3, <2>4 DEF LInv
<1>6. CASE Finish \/ Abort \/ Cancel \/ UNCHANGED vars
  <2>1. UNCHANGED <<rootFlows, todo>>
    BY <1>6 DEF Finish, Abort, Cancel, vars, inputVars, walkVars
  <2>2. /\ pc' = "link" => pc = "link"
        /\ pc' \in {"nested", "done"} => pc \in {"nested", "done"}
        /\ pc' = "done" => pc = "done" \/ (stack = <<>> /\ todo = {})
    BY <1>6 DEF Finish, Abort, Cancel, vars
  <2>3. PhaseOK'
    BY <1>1, <1>2, <2>1, <2>2 DEF PhaseOK
  <2>4. FlowsFound' /\ NoticesFound'
    BY <1>1, <1>2, <2>1, FlowsFoundKept, NoticesFoundKept
  <2>5. Complete'
    <3> SUFFICES ASSUME pc' \in {"nested", "done"} PROVE Complete'
      BY DEF Complete
    <3>1. Accounted(flows, diagnostics, todo, stack, root)
      BY <1>1, <2>2 DEF Complete
    <3>2. Accounted(flows', diagnostics', todo', stack', root')
      BY <1>2, <2>1, <3>1
    <3> QED
      BY <1>2, <2>1, <3>2, CompleteNext
  <2> QED
    BY <1>1, <1>3, <2>3, <2>4, <2>5 DEF LInv
<1> QED
  BY <1>4, <1>5, <1>6

LEMMA InitLInv == Init => LInv
<1> SUFFICES ASSUME Init PROVE LInv
  OBVIOUS
<1>1. stack = <<>> /\ Len(stack) = 0 /\ flows = {} /\ diagnostics = {} /\ todo = {} /\ pc = "link"
  BY DEF Init
<1> QED
  BY <1>1, InitIInv DEF LInv, FramesRead, StackHandsOver, PhaseOK, FlowsFound, NoticesFound, Complete

LEMMA NextLInv == LInv /\ [Next]_vars => LInv'
<1> SUFFICES ASSUME LInv, [Next]_vars PROVE LInv'
  OBVIOUS
<1>1. CASE \E f \in todo : StartFlow(f)
  BY <1>1, StartLInv
<1>2. CASE stack # <<>> /\ \E i \in Top.usages : ExpandUsage(i)
  BY <1>2, UsageLInv
<1>3. CASE ExpandBinding
  BY <1>3, BindingLInv
<1>4. CASE Return
  BY <1>4, ReturnLInv
<1>5. CASE LinkStep \/ LinkNested \/ Finish \/ Abort \/ Cancel \/ UNCHANGED vars
  BY <1>5, OtherLInv
<1> QED
  BY <1>1, <1>2, <1>3, <1>4, <1>5 DEF Next, Link

\* When the recursion is over nothing is on the way, and what was found is all.
LEMMA ExactWhenDone == LInv => LinkIsExact
<1> SUFFICES ASSUME LInv, pc = "done"
             PROVE  /\ flows = {ChainFlow(c) : c \in {x \in Chains : x.hops # <<>>}}
                    /\ diagnostics = UNION {ChainNotices(c) : c \in Chains}
  BY DEF LinkIsExact
<1>1. todo = {} /\ Len(stack) = 0
  BY DEF LInv, PhaseOK
<1>2. /\ \A c : ~OnWay(todo, stack, root, c)
      /\ \A c, i, x : ~AtEnd(stack, root, c, i, x)
  BY <1>1 DEF OnWay, AtEnd, Reached
<1>3. Accounted(flows, diagnostics, todo, stack, root) /\ FlowsFound /\ NoticesFound
  BY DEF LInv, Complete
<1>4. flows = {ChainFlow(c) : c \in {x \in Chains : x.hops # <<>>}}
  BY <1>2, <1>3 DEF Accounted, FlowsFound
<1>5. \A x : x \in diagnostics <=> \E c \in Chains : x \in ChainNotices(c)
  BY <1>2, <1>3 DEF Accounted, NoticesFound, ChainNotices
<1>6. diagnostics = UNION {ChainNotices(c) : c \in Chains}
  BY <1>5
<1> QED
  BY <1>4, <1>6

\* A result that is returned is exact: it has every chain of calls that hands
\* the secret on, no other, and all that is wrong at the calls they make.
THEOREM LinkExact == Spec => []LinkIsExact
<1>1. Init => LInv
  BY InitLInv
<1>2. LInv /\ [Next]_vars => LInv'
  BY NextLInv
<1>3. LInv => LinkIsExact
  BY ExactWhenDone
<1>4. QED  BY <1>1, <1>2, <1>3, PTL DEF Spec
=============================================================================
