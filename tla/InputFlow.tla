------------------------------ MODULE InputFlow ------------------------------
(***************************************************************************)
(* Linking secrets to the inputs of local composite actions                *)
(* (compositeactionflow: Link) and on through nested actions               *)
(* (nestedcompositeactionflow: Link), which analysis calls one after the   *)
(* other on the result of CompositeResolution.                             *)
(*                                                                         *)
(* The first linker walks the steps of the workflows.  The second expands  *)
(* every flow the first confirmed by a recursion over the steps that read  *)
(* an input; the recursion is the variable stack.  Both only compute, but  *)
(* ask the caller's context, which may be cancelled at any moment.         *)
(*                                                                         *)
(* Inputs and secrets are the ranks of their names.  A call is the action  *)
(* it resolves to: NoCall stands for a step without a call record and for  *)
(* one whose status is not resolved_local_composite.                       *)
(***************************************************************************)
EXTENDS Naturals, Sequences

CONSTANTS
  Dir, Name, NoName, NoCall,
  Programs,                        \* what parsing and resolution may hand over
  MaxCompositeActionNestingDepth   \* 10 in the code

(***************************************************************************)
(* A with: value, by what the linkers look at: whether it indexes its      *)
(* context dynamically, the names in it, and the name it is if the whole   *)
(* value is one ${{ context.NAME }}.  Names of secrets count in a          *)
(* workflow, names of inputs in an action.                                 *)
(***************************************************************************)
Value   == [dynamic : BOOLEAN, refs : SUBSET Name, whole : Name \cup {NoName}]
Binding == [name : Name, value : Value]
Step    == [call : Dir \cup {NoCall}, with : Seq(Binding), reads : SUBSET Name]
Action  == [inputs : SUBSET Name,   \* declared
            demanded : SUBSET Name, \* of them, required and without default
            steps : Seq(Step)]

\* CompositeResolution guarantees (ResolvedIsCached) that called actions exist.
Program == [steps : Seq(Step), actions : [Dir -> Action]]

ASSUME NameAssumption     == Name \subseteq Nat /\ NoName \notin Name
ASSUME CallAssumption     == NoCall \notin Dir
ASSUME ProgramsAssumption == Programs \subseteq Program
ASSUME DepthAssumption    == MaxCompositeActionNestingDepth \in Nat \ {0}

VARIABLES
  program,
  ctxDone,
  pc,
  nextStep,        \* the workflow step the first linker comes to
  rootFlows,       \* what the first linker confirmed
  rootDiagnostics,
  todo,            \* the root flows still to expand
  root,            \* the one being expanded
  stack, onPath,
  flows,           \* what the second linker confirmed
  diagnostics      \* its diagnostics, without the duplicates it drops

inputVars  == <<program, nextStep, rootFlows, rootDiagnostics>>
resultVars == <<flows, diagnostics>>
walkVars   == <<todo, root, stack, onPath>>
vars == <<inputVars, walkVars, resultVars, ctxDone, pc>>

action(d) == program.actions[d]
Bindings(s) == {s.with[i] : i \in 1 .. Len(s.with)}

(***************************************************************************)
(* classifyBinding and classifyNestedBinding: what a value is evidence of. *)
(***************************************************************************)
\* FAULT: a value that mentions one name counts as that name.
ClassifyMention(v) ==
  CASE v.dynamic                 -> "dynamic"
    [] ~v.dynamic /\ v.refs = {} -> "silent"
    [] ~v.dynamic /\ \E n \in Name : v.refs = {n} -> "forwards"
    [] OTHER                     -> "ambiguous"

Classify(v) ==
  CASE v.dynamic                          -> "dynamic"
    [] ~v.dynamic /\ v.refs = {}          -> "silent"
    [] ~v.dynamic /\ v.refs = {v.whole}   -> "forwards"
    [] ~v.dynamic /\ \E n \in Name \ {v.whole} : v.refs = {n} -> "unsupported"
    [] OTHER                              -> "ambiguous"

IsProblem(v) == Classify(v) \in {"dynamic", "unsupported", "ambiguous"}

\* The steps of action d that mention its input n anywhere.
InternalUsages(d, n) == {i \in 1 .. Len(action(d).steps) : n \in action(d).steps[i].reads}

\* Inputs that a call of d through step s must give and does not.
Missing(d, s) == action(d).demanded \ {b.name : b \in Bindings(s)}
-----------------------------------------------------------------------------
(***************************************************************************)
(* compositeactionflow.Link on one workflow step.                          *)
(***************************************************************************)
Kind == {"dynamic", "unsupported", "ambiguous", "undeclared", "missing"}

RootFlow == [step : Nat, input : Name, secret : Name]

StepFlows(i) ==
  LET s == program.steps[i] IN
  {[step |-> i, input |-> b.name, secret |-> b.value.whole] :
     b \in {c \in Bindings(s) : /\ c.name \in action(s.call).inputs
                                /\ Classify(c.value) = "forwards"
                                /\ InternalUsages(s.call, c.name) # {}}}

StepDiagnostics(i) ==
  LET s == program.steps[i]
      StepNotice(kind, n) == [kind |-> kind, step |-> i, input |-> n]
  IN  {StepNotice("undeclared", b.name) : b \in {c \in Bindings(s) : c.name \notin action(s.call).inputs}}
      \cup {StepNotice(Classify(b.value), b.name) :
              b \in {c \in Bindings(s) : c.name \in action(s.call).inputs /\ IsProblem(c.value)}}
      \cup {StepNotice("missing", n) : n \in Missing(s.call, s)}

Init ==
  /\ program \in Programs
  /\ ctxDone = FALSE
  /\ pc = "link"
  /\ nextStep = 1
  /\ rootFlows = {} /\ rootDiagnostics = {}
  /\ todo = {} /\ root = NoCall /\ stack = <<>> /\ onPath = {}
  /\ flows = {} /\ diagnostics = {}

LinkStep ==
  /\ pc = "link" /\ nextStep <= Len(program.steps) /\ ~ctxDone
  /\ nextStep' = nextStep + 1
  /\ IF program.steps[nextStep].call = NoCall
       THEN UNCHANGED <<rootFlows, rootDiagnostics>>
       ELSE /\ rootFlows' = rootFlows \cup StepFlows(nextStep)
            /\ rootDiagnostics' = rootDiagnostics \cup StepDiagnostics(nextStep)
  /\ UNCHANGED <<program, walkVars, resultVars, ctxDone, pc>>

\* The second linker is called with the flows of the first.
LinkNested ==
  /\ pc = "link" /\ nextStep > Len(program.steps) /\ ~ctxDone
  /\ pc' = "nested"
  /\ todo' = rootFlows
  /\ UNCHANGED <<inputVars, root, stack, onPath, resultVars, ctxDone>>
-----------------------------------------------------------------------------
(***************************************************************************)
(* nestedcompositeactionflow.Link.  A frame is a confirmed input of an     *)
(* action: the call path that led there, the usages still to look at, the  *)
(* one being looked at and its bindings still to look at.                  *)
(***************************************************************************)
Segment == [parent : Dir, at : Nat, child : Dir]
Frame   == [dir : Dir, input : Name, path : Seq(Segment), usages : SUBSET Nat,
            at : Nat, with : Seq(Binding)]

NewFrame(d, n, path) ==
  [dir |-> d, input |-> n, path |-> path, usages |-> InternalUsages(d, n), at |-> 0, with |-> <<>>]

RootDir(f) == program.steps[f.step].call

IsNextFlow(f) ==
  f \in todo /\ \A g \in todo : f.step < g.step \/ (f.step = g.step /\ f.input <= g.input)

StartFlow(f) ==
  /\ pc = "nested" /\ stack = <<>> /\ IsNextFlow(f) /\ ~ctxDone
  /\ todo' = todo \ {f}
  /\ root' = f
  /\ stack' = <<NewFrame(RootDir(f), f.input, <<>>)>>
  /\ onPath' = {RootDir(f)}
  /\ UNCHANGED <<inputVars, resultVars, ctxDone, pc>>

Top        == stack[Len(stack)]
SetTop(f)  == [stack EXCEPT ![Len(stack)] = f]
StepAt(i)  == action(Top.dir).steps[i]
Child      == StepAt(Top.at).call

\* emitDiagnostic appends what it has not seen: the diagnostics are a set.
Emit(D) == diagnostics' = diagnostics \cup D

\* The key has neither the root's input nor the evidence.
Diagnostic == [kind : Kind, step : Nat, path : Seq(Segment), dir : Dir, at : Nat, child : Dir,
               input : Name]

Notice(kind, i, n) ==
  [kind |-> kind, step |-> root.step, path |-> Top.path, dir |-> Top.dir, at |-> i,
   child |-> StepAt(i).call, input |-> n]

\* FAULT: an action on the path is called again.
ExpandsAnyCall(i) ==
  StepAt(i).call # NoCall /\ Len(stack) + 1 <= MaxCompositeActionNestingDepth

\* Step i calls an action that may still be expanded.
Expands(i) ==
  StepAt(i).call \notin onPath \cup {NoCall} /\ Len(stack) + 1 <= MaxCompositeActionNestingDepth

InUsage == Top.with # <<>>

\* expandUsage, up to its loop over the bindings of the step.
ExpandUsage(i) ==
  /\ pc = "nested" /\ stack # <<>> /\ ~InUsage /\ ~ctxDone
  /\ i \in Top.usages /\ \A j \in Top.usages : i <= j
  /\ IF Expands(i)
       THEN /\ stack' = SetTop([Top EXCEPT !.usages = @ \ {i}, !.at = i, !.with = StepAt(i).with])
            /\ Emit({Notice("missing", i, n) : n \in Missing(StepAt(i).call, StepAt(i))})
       ELSE /\ stack' = SetTop([Top EXCEPT !.usages = @ \ {i}])
            /\ UNCHANGED diagnostics
  /\ UNCHANGED <<inputVars, todo, root, onPath, flows, ctxDone, pc>>

Confirmed(b) ==
  /\ Classify(b.value) = "forwards" /\ b.value.whole = Top.input
  /\ b.name \in action(Child).inputs
  /\ InternalUsages(Child, b.name) # {}

Problems(b) ==
  IF IsProblem(b.value) THEN {Notice(Classify(b.value), Top.at, b.name)}
  ELSE IF /\ Classify(b.value) = "forwards" /\ b.value.whole = Top.input
          /\ b.name \notin action(Child).inputs
    THEN {Notice("undeclared", Top.at, b.name)}
    ELSE {}

\* FAULT: the loop does not move to the next binding.
SameBinding(bindings) == bindings

NextBinding(bindings) == Tail(bindings)

\* One binding of the step: a diagnostic, nothing, or a flow that is expanded.
ExpandBinding ==
  LET b       == Head(Top.with)
      rest    == SetTop([Top EXCEPT !.with = NextBinding(@)])
      segment == [parent |-> Top.dir, at |-> Top.at, child |-> Child]
      path    == Append(Top.path, segment)
  IN  /\ pc = "nested" /\ stack # <<>> /\ InUsage /\ ~ctxDone
      /\ Emit(Problems(b))
      /\ IF Confirmed(b)
           THEN /\ flows' = flows \cup {[root |-> root, path |-> path, parentInput |-> Top.input,
                                         input |-> b.name]}
                /\ stack' = Append(rest, NewFrame(Child, b.name, path))
                /\ onPath' = onPath \cup {Child}
           ELSE stack' = rest /\ UNCHANGED <<flows, onPath>>
      /\ UNCHANGED <<inputVars, todo, root, ctxDone, pc>>

\* FAULT: an action stays on the path after its expansion.
KeepsOnPath(d) == onPath

LeavesPath(d) == onPath \ {d}

\* Every usage was looked at: the action leaves the path.
Return ==
  /\ pc = "nested" /\ stack # <<>> /\ ~InUsage /\ Top.usages = {}
  /\ stack' = SubSeq(stack, 1, Len(stack) - 1)
  /\ onPath' = LeavesPath(Top.dir)
  /\ UNCHANGED <<inputVars, todo, root, resultVars, ctxDone, pc>>

Finish ==
  /\ pc = "nested" /\ stack = <<>> /\ todo = {}
  /\ pc' = "done"
  /\ UNCHANGED <<inputVars, walkVars, resultVars, ctxDone>>

\* A check of the context fails: only an error is returned.
Abort ==
  /\ ctxDone
  /\ \/ pc = "link"
     \/ pc = "nested" /\ stack = <<>> /\ todo # {}
     \/ pc = "nested" /\ stack # <<>> /\ (InUsage \/ Top.usages # {})
  /\ pc' = "cancelled"
  /\ UNCHANGED <<inputVars, walkVars, resultVars, ctxDone>>

Link ==
  \/ LinkStep
  \/ LinkNested
  \/ \E f \in todo : StartFlow(f)
  \/ stack # <<>> /\ \E i \in Top.usages : ExpandUsage(i)
  \/ ExpandBinding
  \/ Return
  \/ Finish
  \/ Abort

Cancel ==
  /\ pc \notin {"done", "cancelled"} /\ ~ctxDone
  /\ ctxDone' = TRUE
  /\ UNCHANGED <<inputVars, walkVars, resultVars, pc>>

Next == Link \/ Cancel

Spec     == Init /\ [][Next]_vars
FairSpec == Spec /\ WF_vars(Link)
-----------------------------------------------------------------------------
NestedFlow == [root : RootFlow, path : Seq(Segment), parentInput : Name, input : Name]

TypeOK ==
  /\ program \in Programs
  /\ ctxDone \in BOOLEAN
  /\ pc \in {"link", "nested", "done", "cancelled"}
  /\ nextStep \in Nat \ {0}
  /\ rootFlows \in SUBSET RootFlow
  /\ rootDiagnostics \in SUBSET [kind : Kind, step : Nat, input : Name]
  /\ todo \in SUBSET RootFlow
  /\ root \in RootFlow \cup {NoCall}
  /\ stack \in Seq(Frame)
  /\ onPath \in SUBSET Dir
  /\ flows \in SUBSET NestedFlow
  /\ diagnostics \in SUBSET Diagnostic

(***************************************************************************)
(* A confirmed nested flow is evidence: its root flow was confirmed, its   *)
(* path leads by resolved calls from the action of the root's step, never  *)
(* twice to one action and over at most the supported number of actions,   *)
(* and its last call hands the parent's input over as a whole to a         *)
(* declared input that the child reads.                                    *)
(***************************************************************************)
IsCallPath(p) ==
  /\ \A k \in 1 .. Len(p) : /\ p[k].at \in 1 .. Len(action(p[k].parent).steps)
                            /\ action(p[k].parent).steps[p[k].at].call = p[k].child
  /\ \A k \in 1 .. Len(p) - 1 : p[k + 1].parent = p[k].child

IsSimple(p) ==
  /\ \A j, k \in 1 .. Len(p) : p[j].child = p[k].child => j = k
  /\ \A k \in 1 .. Len(p) : p[k].child # p[1].parent

HandsOver(segment, from, to) ==
  /\ \E b \in Bindings(action(segment.parent).steps[segment.at]) :
       b.name = to /\ ~b.value.dynamic /\ b.value.refs = {from} /\ b.value.whole = from
  /\ to \in action(segment.child).inputs
  /\ InternalUsages(segment.child, to) # {}

FlowsAreSound ==
  \A f \in flows :
    /\ f.root \in rootFlows
    /\ f.path # <<>> /\ f.path[1].parent = RootDir(f.root)
    /\ IsCallPath(f.path) /\ IsSimple(f.path)
    /\ Len(f.path) < MaxCompositeActionNestingDepth
    /\ HandsOver(f.path[Len(f.path)], f.parentInput, f.input)
-----------------------------------------------------------------------------
(***************************************************************************)
(* The reference: what the linkers find, over whole chains of calls.  A    *)
(* chain is a root flow and its hops: the calls, each with the input bound *)
(* there on behalf of the one before.                                      *)
(***************************************************************************)
CallSegments ==
  {c \in [parent : Dir, at : UNION {1 .. Len(action(d).steps) : d \in Dir}, child : Dir] :
     c.at \in 1 .. Len(action(c.parent).steps) /\ action(c.parent).steps[c.at].call = c.child}

Hop  == [segment : CallSegments, input : Name]
Hops == UNION {[1 .. n -> Hop] : n \in 0 .. MaxCompositeActionNestingDepth - 1}

PathOf(h)        == [i \in 1 .. Len(h) |-> h[i].segment]
DirAt(f, h, i)   == IF i = 0 THEN RootDir(f) ELSE h[i].segment.child
InputAt(f, h, i) == IF i = 0 THEN f.input ELSE h[i].input

IsChain(f, h) ==
  /\ \A i \in 1 .. Len(h) :
       /\ h[i].segment.parent = DirAt(f, h, i - 1)
       /\ h[i].segment.at \in InternalUsages(DirAt(f, h, i - 1), InputAt(f, h, i - 1))
       /\ HandsOver(h[i].segment, InputAt(f, h, i - 1), h[i].input)
  /\ IsSimple(PathOf(h))

Chains == {c \in [root : rootFlows, hops : Hops] : IsChain(c.root, c.hops)}

ChainFlow(c) ==
  [root |-> c.root, path |-> PathOf(c.hops),
   parentInput |-> InputAt(c.root, c.hops, Len(c.hops) - 1),
   input |-> InputAt(c.root, c.hops, Len(c.hops))]

(***************************************************************************)
(* What is wrong at the calls that the end of a chain makes on behalf of   *)
(* its input, unless they lead back or too deep.                           *)
(***************************************************************************)
EndDir(c)   == DirAt(c.root, c.hops, Len(c.hops))
EndInput(c) == InputAt(c.root, c.hops, Len(c.hops))
EndStep(c, i) == action(EndDir(c)).steps[i]
Seen(c)     == {DirAt(c.root, c.hops, i) : i \in 0 .. Len(c.hops)}

EndCalls(c) ==
  {i \in InternalUsages(EndDir(c), EndInput(c)) :
     /\ EndStep(c, i).call \notin Seen(c) \cup {NoCall}
     /\ Len(c.hops) + 1 < MaxCompositeActionNestingDepth}

ChainNotice(c, i, kind, n) ==
  [kind |-> kind, step |-> c.root.step, path |-> PathOf(c.hops), dir |-> EndDir(c), at |-> i,
   child |-> EndStep(c, i).call, input |-> n]

HandsUndeclared(c, i, b) ==
  /\ ~b.value.dynamic /\ b.value.refs = {EndInput(c)} /\ b.value.whole = EndInput(c)
  /\ b.name \notin action(EndStep(c, i).call).inputs

CallNotices(c, i) ==
  {ChainNotice(c, i, "missing", n) : n \in Missing(EndStep(c, i).call, EndStep(c, i))}
  \cup {ChainNotice(c, i, Classify(b.value), b.name) :
          b \in {x \in Bindings(EndStep(c, i)) : IsProblem(x.value)}}
  \cup {ChainNotice(c, i, "undeclared", b.name) :
          b \in {x \in Bindings(EndStep(c, i)) : HandsUndeclared(c, i, x)}}

ChainNotices(c) == UNION {CallNotices(c, i) : i \in EndCalls(c)}

(***************************************************************************)
(* A result that is returned, even one that a cancellation raced with, is  *)
(* exact: the flows are all the chains, and the diagnostics are all that is *)
(* wrong at the calls the chains make.                                     *)
(***************************************************************************)
LinkIsExact ==
  pc = "done" =>
    /\ flows = {ChainFlow(c) : c \in {x \in Chains : x.hops # <<>>}}
    /\ diagnostics = UNION {ChainNotices(c) : c \in Chains}
=============================================================================
