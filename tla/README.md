# CredScope: a verification development

CredScope scans a repository without network access and reports how far the credentials that
its GitHub workflows, composite actions and Compose files mention can travel. This directory
holds TLA+ models of its core, configurations that TLC checks, and proofs that TLAPS checks.
All source paths are below `src/internal/` unless they begin with `src/`.

## 1. The system

A scan is one process and one goroutine: `cli` reads the configuration, discovers files, has
`ingest` parse and resolve them, has `analysis` build an evidence graph, walk it and assess what
it finds, renders a report and publishes it. Nothing is shared in memory. What makes the program
hard is elsewhere: graph algorithms over cyclic input under several limits, a context that can be
cancelled at any moment and is asked only in some places, a repository that other programs may
edit while it is being read, and a file system on which several CredScope processes may publish
to one report path and on which every call may fail.

| Component | State | Operations | Interacts with | Hard part | Correct when |
|---|---|---|---|---|---|
| Composite action resolution (`compositeaction`) | metadata cache, work queue, queued and expanded sets, call records | `Resolve`, `resolveDirectory`, `resolveNested` | `discovery` lookups, metadata parser, context | cycles, shared children, cancellation, edits between reads | complete, minimal, each action walked once, ends |
| Call-chain diagnostics (`compositeaction/nested.go`, `reusableworkflow/resolver.go`) | recursion stack, path set, seen cycles | two depth-first walks each | the resolution's call records | cycles against shared callees, rotation, boundary of the depth | exactly the elementary cycles and the chains one too long |
| Input flow linking (`compositeactionflow`, `nestedcompositeactionflow`) | flows, diagnostics, recursion with `onPath` | `Link`, `expand`, `expandUsage` | resolution in, graph builder out | diamonds and cycles, depth, several shapes of value | exactly the chains of whole-value bindings |
| Evidence graph construction (`graph/builder.go`, `graph/graph.go`) | nodes, edges, credentials by upper-case label, warnings | `Build`, `addNode`, `addTypedEdge` | all domain records | aliases found by name, order of rendering, limits | an edge only where the evidence is |
| Traversal (`graph/traversal.go`) | recursion, retained paths, limit flag | `TraverseLimited` | `analysis` | three budgets, limit, accumulation | exactly the simple paths the budgets allow; omissions are marked |
| Analysis and assessment (`analysis`, `scoring`, `rules`, `classification`, `profile`, `remediation`) | findings, scores | `Analyze`, `CalculateForProfile`, `Assess` | graph, configuration | ignores, integer rounding, precedence | monotone bounded scores, no finding lost |
| Ingestion (`ingest`) | parsed repository | `Repository` | discovery, parsers, resolvers | order of phases, cancellation | every phase sees the phase before |
| Discovery, input, parsers, adapter | none across calls | `Find`, `ResolveFile`, `ResolveDirectory`, `ReadFile`, `Parse...` | file system | limits, links, exact case | bounded, inside the root |
| Scan command (`cli`) | files found, report | `runScan` | all of the above | phases and exit codes, two discoveries | exit code tells the phase; inputs are never overwritten |
| Report publication (`safefile`) | destination, staged file, backup, created directories | `WriteReportProtected`, `publish`, `ensureSafeParents`, `cleanupCreatedDirectories` | file system, other processes | crashes, failures, races | a reader sees a whole report; one stays recoverable |
| Action runner (`actionrunner`) | temporary binary, outputs | `Run` | child processes | second scan, partial failure | outputs describe the published report |
| Reporters, configuration, sanitizer, domain | none | pure functions | | wording | |

The hazards this code is exposed to are listed in `PROJECT.json`, each at its line with the
properties that would catch it.

## 2. Modules

| Module | Models | Abstract specification / reference definition | Proofs |
|---|---|---|---|
| `CompositeResolution` | `Resolve`, `resolveDirectory`, `resolveNested` | the properties of the result in the module | `CompositeResolutionProofs` |
| `CallChains` | `computeNestedDiagnostics`, `buildChainDiagnostics` and their walks | elementary cycles and deep chains, in the module | `CallChainsProofs` |
| `InputFlow` | both `Link` functions | chains of calls, in the module | `InputFlowProofs` |
| `Traversal` | `TraverseLimited` | admissible paths, in the module | `TraversalProofs` |
| `ReportPublish` | `WriteReportProtected` and below | `ReportSlot`, by refinement | `ReportPublishProofs` |
| `Documents` | the parsers of workflows, action metadata and Compose files, as operators | | |
| `Gitleaks` | the adapter for the scanner's report, as operators | | |
| `GraphBuild` | `BuildWithOptions` and what it calls, `graph.go` | `EdgesJoinNodes` | `GraphBuildProofs` |
| `Assessment` | `classification`, `rules`, `scoring`, `remediation`, `profile`, as operators | | |
| `Analysis` | `ingest.Repository` and `analysis.Analyze` from files to assessments, with `applyRepositoryIgnores`, both resolvers and both linkers by their results | leaks, what the files mention, and who reads a secret as the files say it, in the module | `AnalysisProofs` |
| `Scan` | `runScan` with `config.Load`, `Find`, `ResolveFile`, `ingest.Repository`, `Analyze`, the check of protected inputs; `actionrunner.run` | what stayed unchanged (`Quiet`) scanned at once | `ScanProofs` |

`CompositeResolution` produces the call records that `CallChains` walks and the actions that
`InputFlow` links; each of these two starts from every result of a family of small ones and not
from one execution of the producer. What connects them is proved where it is produced:
`InputFlow` takes a called action to exist, which is `ResolvedIsCached`. `Traversal` starts from
a graph; `ReportPublish` from a report. `Scan` is the frame of all of them: its `Resolve` is one
step for all of `CompositeResolution`, its `Analyze` one for the linkers, the graph and the
traversal, and its `Publish` with `BreakOff` the outcomes that `ReportPublish` allows.

`Analysis` EXTENDS `Assessment`, which EXTENDS `GraphBuild`, which EXTENDS `Documents`, and it
EXTENDS `Gitleaks`: it is the composition of the parts that compute something of the repository,
from the files to the scores.
It takes the results of the modules above as operators (`CanonicalActions`, `LinkSteps`,
`LinkNested`, `Paths`), whose exactness `DoneIsComplete`, `LinkIsExact` and `RetainsExactly` state
of the code that computes them. A mistake in how the parts fit together (an identity rendered
differently in two places, an alias looked up in the wrong set, an ignored name compared before it
is normalised) shows only there.

Definitions whose comment begins with `FAULT` are seeded mistakes. No specification uses them;
each shows that some property would notice that mistake.

### CompositeResolution

State to code: `metadataCache` is the map of that name (`nested.go`), `queue`, `queued`,
`expanded` likewise, `pending` the sorted directories of `Resolve` still to come, `topStatus` the
outcome of each, `directory` and `stepIndex` the loop variables, `nestedCalls` the records
appended, and `disk` the repository. `pc` is the place in the loops. `reads` and `expansions`
count, for the properties only. One action stands for each stretch between two checks of the
context: `CheckTopLevel` and `ResolveTopLevel` (the first loop of `Resolve`), `EnterNested`,
`NextDirectory`, `CheckStep`, `RecordCall` (opaque references), `CacheHit`, `CacheMiss`,
`FinishDirectory`, `Finish`, and `Abort` (a check that fails). `Cancel` and `Edit` are the
environment.

Abstractions. A canonical directory is the rank of its name, the only thing the code compares. A
`uses:` reference is the branch it takes. What a directory holds is the result of the look-up,
the state of the two metadata candidates and what parsing yields. A directory is read in one
step: the context may be cancelled before it, and the parse then reports the context's error,
but an edit in the middle of one read is not distinguished from one before or after it.

Properties: `QueueIsSound`, `ResolvedIsCached`, `DoneIsComplete`, `OnlyReachable`, `CacheStable`,
`Terminates`.

### CallChains

Both features walk a call graph depth first, once for cycles and once for chains that are too
deep. `stack` is the recursion, `onPath` the map of that name, `cycles` and `tooDeep` the
diagnostics. `feature` selects the code: the depth walk over nested actions keeps a path and stops
at repeats, the one over reusable workflows keeps none and goes round cycles until the limit ends
it, so `onPath` means nothing there (`MayRepeat`).

Properties: `PathIsChain`, `CyclesAreExact`, `DepthIsExact`, `DiagnosticsEnd`.

### InputFlow

The first linker is `LinkStep` for each workflow step of the flattened loops over workflows, jobs
and steps. The second expands each flow; the recursion of `expand` and `expandUsage` is `stack`,
whose frames are `parentFrame` with the usages and bindings still to look at. `ExpandUsage` is
`expandUsage` up to its loop, `ExpandBinding` one turn of the loop with the push of `expand`,
`Return` the end of `expand` with `delete(onPath, childDir)`.

A `with:` value is what the classifiers look at: dynamic indexing, the names it mentions, the
name it is as a whole. Names are ranks. The second linker drops a diagnostic whose key it has
seen, so its diagnostics are a set of keys; the evidence of the one kept is left out. A step that
names an action whose status is not `resolved_local_composite` has `NoCall`.

Properties: `FlowsAreSound`, `LinkIsExact`, `LinkEnds`.

### Traversal

`TraverseLimited` with its recursive closure as `stack`. An edge has the class that decides which
of the three budgets it spends (`plain`, `reusable`, and the two composite forwarding kinds), an
evidence kind and a confidence. `Refuse` is an edge the closure skips, `Retain` one it appends a
path for and, unless the depth is reached, descends into.

Properties: `PathsAreSimple`, `PathsAreWithinBudgets`, `PathsAreNoStrongerThanEdges`,
`RetainsExactly`, `OmissionIsMarked`, `TraversalEnds`.

### Documents, Gitleaks, GraphBuild, Assessment, Analysis

`Documents` turns a file into the record of `domain/parsed.go` that the later stages read. A file
is its YAML tree as far as the parser looks: a mapping is a function on its keys, a missing value
is `Absent`, one whose shape is refused is `Malformed`. `Identifier` is `sanitizer.Identifier`,
which may map several keys to one name or to none. A scalar is the set of its `${{ ... }}`
expressions, each the sequence of its mentions, since the parser takes the first mention of an
expression and drops the others, and those of an expression that opens with a function call. The
`...Fails` operators say when a parser returns an error.

`Gitleaks` turns the report of a scanner into findings. The identity of a finding is the tuple that
the code hashes (rule, path, line, commit and what tells the secret from others); what is a secret
is shown as `Redacted`, an absolute path is stripped of the configured prefix or refused, and of
entries with one identity the last is kept. A finding without a key is named by its rule, and by
that name the graph knows the credential. In the configuration of the model an entry of
`ignore.findings` is such an identity, or a rule as a tuple of one.

`GraphBuild` follows `builder.build` phase by phase: `phase` is its place, `todo` what the loop of
the phase has not come to (the loops are sorted in the code; the model leaves the order open, so
the properties do not depend on it). The operation of one loop turn is an action:
`AddCanonicalNodes`, `AddFinding`, `AddWorkflow`, `ForwardSecrets`, `ReportInherit`,
`AddInputFlow`, `AddNestedNodes`, `AddNestedEdges`, `AddNestedCall`, `AddCompose`. What an
operation adds is a record of nodes, edges and uses of credentials, put together by operators with
the names of the code (`workflow`, `job`, `step`, `finding`, `service`, ...); `Put` then does what
`addNode`, `addTypedEdge` and `credential` do: the first metadata of a node stays, an ignored
variable is recorded and gets no node, a limit that is passed stays passed.

Abstractions. An identity is the tuple that `stableID` hashes. An edge of the model stands for the
edges of the code that differ only in location and wording. Permission evidence, protocols of
ports and the parameters of warnings are left out. Past a limit the code goes on with what fits
although the analysis then fails; the model stops recording.

`Assessment` is pure: the precedence of `Classify`, the rules of `Evaluate` over the nodes that are
reached (`reach`) and the edges of the credential (`direct`), the integer arithmetic of `Calculate`
(half-up rounding of the extra nodes and of the profile's percentage, cap, thresholds, weighted
confidence), `Generate` with `removeRotation`, `Select` and `reachableCounts`.

`Analysis` has the actions `Ingest` (parsing and resolution; any file that does not parse fails
it), `Prepare` (the first half of `Analyze`: ignores, profile, calls, flows), `Build`
(`GraphBuild`), `AnalyzeCredential` (one turn of the loop over credentials with both limits on
paths) and `Finish`. `suppressed` is the list of `appendOrIncrement` as a bag.

Properties: `EdgesJoinNodes` (an edge never ends nowhere, where traversal would drop it without a
word), `ReachIsExact` (a credential reaches the steps, services and steps of actions the files hand
it to under its own name or another, and no others, unless its walk was cut; jobs of one file whose
names `sanitizer.Identifier` makes the same are left out, `JobsApart`), `RotationIsFounded`, `ScoreIsMonotone`
(less evidence or a milder profile never raises the score, in spite of rounding and cap),
`SuppressionsAreReported`, `TypeOK`.

### ReportPublish and ReportSlot

Several processes run `WriteReportProtected` for one destination. Each file-system call is an
action and may fail (`IOError`). `Crash` kills one process; `PowerLoss` stops the machine, after
which every file whose data was not flushed is `Incomplete`. `replaces` says whether `os.Rename`
replaces an existing file; `publish` is written for both cases (its comment says so), and with
`replaces = FALSE` it goes through placeholder, backup and replacement.

`ReportSlot` is what a user may rely on: a set of recoverable complete reports that never becomes
empty again, from which the previous report is not dropped before another one landed, and a
success that is told only after the report landed. `ImplementsSlot` maps `recoverable` to the
reports found at the destination or in a backup.

Assumed of the file system: random temporary names are distinct, and renames are durable in the
order in which they are made. Not modelled: the confinement of the path, which is checked before
anything is changed. The comparison with protected inputs is in `Scan`.

Properties: `DestinationIsSound`, `NoSpuriousFailure`, `LeavesNothingBehind`, `ImplementsSlot`,
`WritersEnd`.

### Scan

`pc` is the phase of `runScan`: `Configure` (default path, `Load`, overrides), `Walk` (the first
`Find`), `ResolveGitleaks`, `Rewalk`, `Parse`, `Findings` and `Resolve` (`ingest.Repository`, which
walks again), `Analyze` (up to rendering into memory) and `Publish`. `first` is the list `files` of
`runScan`, from which the protected inputs come; `todo` and `read` are the files of the second walk
and what parsing got from them. `Fail(c)` is a return with exit code `c`; `Kill` is a signal.
`before` is the disk when the scan began and `touched` what others wrote to since, for the
properties only. `UserScan` is the command; `StartAction`, `Prepare`, `AfterPrimary`,
`AfterSummary` and `AppendOutputs` are the phases of `actionrunner.run` around two scans.

Abstractions. A content parses or not, exposes a credential above the threshold or not, names
metadata, and is some settings when it is read as a configuration. A report is no valid input of
any kind, as the parsers refuse it. The settings are the three that decide what happens: whether
there is a threshold, the output, and which paths the patterns admit. `place` is how the scan was
invoked, because three pieces of code spell paths differently. The command never cancels its
context (`actionrunner` and `cli` use the background context), so no step asks it.

Properties: `PassMeansClean`, `ReportMatchesCode`, `OnlyTheReportChanges`,
`OutputsDescribeReport`. `OnlyTheReportChanges` asks no more than the code protects: it makes an
exception for walked files below a linked root and for a configuration named from another
directory, and metadata is on no protected list at all.

## 3. Runs

| Run | Bounds | Why they are enough |
|---|---|---|
| `CompositeResolution` | 3 directories, 10 layouts, all sets of workflow references, cancellation anywhere, `MaxEdits = 1` with 5+ contents anywhere | the layouts have a cycle, self references, a shared child, every edge, every failing outcome; one edit suffices to make two reads of a directory differ |
| `CompositeReads`, `CompositeCancel` | as above without edits | violations, see below |
| `CallChains` | every graph of 3 nodes (and two with parallel calls), all root sets, `Limit = 2` | cycles of length 1 to 3 in every rotation; chains below, at and above the limit |
| `InputFlow` | 3 actions, 2 names, 225 programs, nesting depth 3 | every shape of value at every level, diamonds, cycles of length 1 to 3, chains at and above the depth |
| `Traversal` | 4 nodes, 6 edges, every class for three of them, depths 0..3, path limits 0 (default), 3, 6, one hop per budget | every pair of budgets competes on one path; the limit is below, at and above the number of paths |
| `Analysis` | 123 repositories in seven families: secrets handed to reusable workflows; actions that call each other with each shape of value; Compose files and profiles; findings and every kind of ignore; reports that name a leak twice, hide its name, have none or point outside; limits; files that do not parse. `MaxNodes = 45`, `MaxEdges = 66`, depth 8, one and two hops, nesting 3 | each family varies the part it is about and keeps the rest; the limits on nodes, edges, paths and depth are met by one member each and by no other |
| `AnalysisAlias` | the same | violation, see below |
| `ReportPublish` | 2 writers, 2 parent directories, both platforms | races need two writers; a third adds no new pair of neighbours in `publish` (the theorems hold for any number) |
| `ReportLost` | 2 writers, no parents | violation, see below |
| `Scan` | 6 paths, one of each kind and two inputs, 64 repositories, 9 option sets, 3 ways to invoke, `MaxEdits = 2` | two inputs order the parse; the outputs go to a free place, an input, metadata, the configuration, the Gitleaks report and standard output; two edits remove a file and put another one there |
| `ScanLinked` | the same without edits, below a linked root | violation, see below |

Deadlock is not checked: every model ends, in `done`, `cancelled`, with an exit code or with every
writer's process gone.

Fairness. `Resolve`, `Link`, `Next` of the pure walks and the work of a writer that has begun are
weakly fair (`Scan` and `Analysis` state no liveness property): each is one goroutine with no blocking call but file-system calls, which return.
Nothing is assumed of cancellation, edits, crashes, power losses, or of a writer beginning.

### Disagreements the runs show

* `AnalysisAlias`: the comment at `graph/builder.go:394` says that a binding reaches the alias
  credential where the called workflow uses that secret, and no edge is drawn where it does not.
  The alias is looked up among all the credentials of the repository (`graph/builder.go:475`), so
  one that only another workflow uses gets the edge as well.
* `CompositeCancel`: a context cancelled while the last metadata file is parsed makes
  `resolveDirectory` report that file as malformed and `Resolve` return no error.
* `CompositeReads`: the comment at `compositeaction/resolver.go:176` says that `resolveDirectory`
  runs at most once per directory; only resolved outcomes are cached, so a failing directory is
  read again for every nested reference to it.
* `ReportLost`: the comment at `safefile/write.go:127` says that an existing report is preserved
  until the replacement succeeds; the restore after a failed replacement may overwrite a report
  that another process published in between.
* `ScanLinked`: `docs/reporting.md:13` says that targets are checked for attempts to overwrite
  analyzed inputs; with a symbolic link above the root the destination and the inputs are spelled
  differently and an input is overwritten.

## 4. Proofs

All are for arbitrary constants under the named `ASSUME`s of the modules; TLC evaluates those in
the runs.

* `CompositeResolutionProofs`. The inductive invariant `IInv` adds to the properties which
  directories are covered: a cached directory is queued, being expanded or expanded
  (`Covered`), call records belong to steps already walked and are unique (`CallsAreSound`,
  `CallsAreUnique`), and an expanded directory has all of them (`CallsAreComplete`). Without
  `Covered`, `DoneIsComplete` is not inductive, since an empty queue says nothing of a directory
  that was never queued. From it follow `TypeCorrect`, `QueueSoundness`,
  `ResolvedCallsHaveMetadata`, `Completeness`, `Minimality` and `CacheStability`.
* `InputFlowProofs`. `FlowsAreSound` speaks of a flow's path, the recursion of its top frame only;
  the invariant says that the path of every frame is spelled by the frames below (`PathsOK`),
  that each was entered by a call of the one below (`CallsOK`), that the stack has no action
  twice and `onPath` is its actions (`DirsOK`), and that what a frame still has to look at is in
  its action (`FramesOK`). A flow confirmed on top of such a stack has a simple call path within
  the depth. For `LinkExact` (`LinkIsExact`) the other direction is needed: every chain and every
  notice of the reference that the results do not hold yet is on the way, its root flow still to be
  expanded or the step or binding that leads on still to be looked at by some frame. With an empty
  stack and no root flow left, nothing is. Theorems: `TypeCorrect`, `FlowSoundness`, `LinkExact`.
* `CallChainsProofs`. That every path on the way is a chain of calls needs two facts of the walk
  around it: every step of the chain was a call of the action before it, and what `onPath` holds is
  on the stack. The second is an inclusion only, since an action that is on the stack twice leaves
  `onPath` with its upper occurrence, and it is what makes `onPath` empty for the next walk. That
  `Canonical` picks a rotation at all rests on well-founded induction over the naturals. The exact
  results count what still awaits its report. For depth that is a choice of one call site for each
  call of a deep chain: it awaits its root, or some frame that has yet to come to the chosen site;
  a chain has finitely many choices, and each report settles one. For cycles it is a lasso, the
  chain by which a root comes to a cycle and once around: every lasso is open at the frame where
  the walk leaves it until its cycle is known, to that root or an earlier one. Theorems:
  `TypeCorrect`, `ChainsOnly`, `DepthExact`, `CyclesExact`.
* `TraversalProofs`. Each frame of the recursion carries its own path, so the invariant is local to
  a frame (`FrameOK`): its path ends at the frame's node, visits no node twice, stays within the
  depth, has counted its propagation hops and is as weak as its weakest edge. What is retained was
  the path of a frame. Completeness is about the frames together: a simple path within the hop budgets
  is retained, continues a retained path that is marked, or is still to come at a frame that has a
  proper prefix of it and has not tried the next edge. The walk goes in an order in which whatever
  is retained precedes all that is to come, so that even when the number of paths is limited it is
  known which ones are kept (`RetainsExactly`, `OmissionIsMarked`). Theorems: `TypeCorrect`, `SimplePathsOnly`, `BudgetsHold`,
  `ClaimsAreModest`, `ExactlyAdmissible`, `OmissionsAreMarked`.
* `ReportPublishProofs`. `WriterOK` ties each writer's files to its place in the code,
  `FilesAreFlushed` says that whatever may land is flushed, `OneCopy` that a report is in at most
  one of the places, and `Covered` that after the first landing a complete report is at the
  destination or in a backup that is not about to be dropped. Theorems: `TypeCorrect`,
  `DestinationSoundness`, and `Refinement` (every step of any number of writers is a step of
  `ReportSlot` or stutters). A second invariant, `EndInv`, follows each writer to its end: which
  temporary files it has at each step (`FilesOK`), that a writer which has been alone so far has
  created the directories that are there and found the destination as it was (`AloneOK`), and that
  it meets no obstacle while its calls succeed (`SmoothOK`). A step of another writer ends being
  alone, so only a writer's own steps can break them. Theorems: `FailuresHaveCauses`,
  `CleanupIsComplete`.
* `GraphBuildProofs`, `AnalysisProofs`. An edge is drawn by one operation and its ends by that one
  or an earlier one. The lemmas of the first kind follow the operators: what each puts together
  has both ends of every edge in itself or in nodes named in the lemma (`Within`, and `Backed` for
  the edges of credentials). `BuildInv` adds what an earlier phase must have left for a later one:
  every recorded use of a credential has its node (`CredentialsHaveNodes`), a workflow is drawn or
  still to come (`WorkflowsDrawn`), the actions and the repository node are there (`Rooted`), the
  bindings and usages of nested flows are there before the second pass (`NestedBound`).
  `EdgesJoinNodes` alone is not inductive, since nothing in it says that a credential that was met
  has a node. The premises about the input (`Sound`: a callee is a workflow of the repository, ...)
  are shown of what `Ingest` and `Prepare` compute. Theorem: `GraphIsClosed`, for all repositories,
  configurations and limits.

  `RotationFounded` (`RotationIsFounded`) needs to know which findings are in the graph. That the
  builder draws every finding that is kept, and records the use of a scanner for these alone, is
  `FindingsFound`; the lemmas named `Quiet...` say of every other operation that it brings no such
  use. That the path search goes along the edge to the finding needs the recursive function
  `Paths` to have the value its definition says (`GrownStep`).

  `ScoresInScale` (`TypeOK`) and `ScoresMonotone` (`ScoreIsMonotone`): the invariant `ScoreInv` says
  what an assessment was computed from, none of which changes once the graph is built. The rest is
  about operators. A sum over a finite set does not depend on the order in which it is taken
  (`SumsAnyOrder`), so it is monotone in its terms and its domain (`SumMonotone`). Half-up rounding
  is monotone and exact on whole numbers, and each profile adjusts every rule no less than the next
  milder one (`AdjustmentMilder`). Every rule is about a subset of its nodes when less is reached,
  except CRD404: a single job may stand in for a workflow that is gone. It is then about other nodes
  but not about more (`ComponentsNoMore`), which is all that counts. Finiteness comes from the
  limits: a graph that stays within them is finite.

  `SuppressionsReported` (`SuppressionsAreReported`) relates the operations of the builder to the
  text of the files. The lemmas named `Tame...` say of each operation which credentials it uses and
  of which files it adds parts; `VariablesMet` follows the lists of the builder with them: what was
  met of the ignored variables is spoken of by the findings, workflows and services that are kept,
  and whatever has been dealt with has been met. `NamesInTexts` and `ServiceRead` say that the
  references the parsers return have the keys of what the files mention, and `FlowSecrets` that a
  flow is of a secret its workflow mentions, so that the flows add none. For how often things
  are listed, the items of the bag are counted by the records they stand for, which are as many as
  the files and entries (`FilesCounted`, `FindingsCounted`); `Tallied` says that assessments add to
  the rules only, each at most once, and the end the variables.

  `ReachExact` (`ReachIsExact`) goes from the text of the files to the paths of the traversal; its
  invariant `ReachInv` adds three parts to what is above. `LedInv` is about the builder: an edge
  that leads to who has a secret is one of the arrows that the items of its lists call for
  (`OnlyArrows`), and once an item is dealt with its arrows are all there (`AllArrows`), those of
  nested flows if their parent is drawn. For forwarding it must know which aliases are known by
  then (`EarlyKnown`), for an edge is drawn only to those. `ReadTaken` says what the linkers found:
  every nested flow goes on from another flow (`FlowsLinked`). `ReachTaken` says that a credential
  was assessed from the walks that there are (`PathsAreWalks`). On these rest two inductions over
  walks. No place is wrong: every node on a walk is one that a holder has (`Sees`), under a name
  that takes as many renamings as the walk has taken hops between workflows (`WalksSee`). For flows
  this needs that a flow's identity tells whose secret it is (`OneSource`), hence `JobsApart`. No
  place is missing: a name, a binding or a usage is met within the hops it takes (`NamesReached`,
  `FlowsReached`), on a walk that meets no node twice (`OnTheWay`), and the limit on hops allows as
  many as actions may be nested (`HopsAssumption`). What the files say and what the linkers compute
  are both recursive over levels of nested actions and agree level by level (`HandedIsSeen`).
* `ScanProofs`. The invariant follows the files that nobody touched through the phases: once the
  second walk is over each of them is still to be parsed or read as it was (`CoveredOK`), then so
  are the Gitleaks report (`GivenOK`) and the metadata they lead to (`ResolvedOK`, by the lemma
  `CalledGrows`: what is called grows with the files one may look at), and the verdict is about
  what was read (`ExceededOK`, `CodeOK`). `PassMeansClean` alone is not inductive, as it says
  nothing before the end. `OutputsAgree` (`OutputsDescribeReport`) goes further: what a scan
  reads that nobody disturbs is a function of its options and of the files it began with
  (`ConfigOf`, `SettingsOf`, `Readings`), and the report of the primary scan, if it is not written
  where a scan reads, leaves the summary scan the same readings (`SameReadings`). Theorems:
  `TypeCorrect`, `PassIsClean`, `ReportAgrees`, `OnlyReport`, `OutputsAgree`.

Assumed beyond the ranges of the limits: the nodes and edges of a traversed graph and the nodes of
a call graph are finite; the entries of a report, and the Compose files, are numbered; the files
found are finitely many and each is found once; the options name profiles and classifications that
`config.Validate` accepts and no variable without a name, and a depth that is not below zero (zero
stands for the default); a path may take as many hops between actions as the nesting allows (9 and
10 in the code); what a `uses:` key holds is a reference or absent, and a value has finitely many
expressions; in upper case a name shows nothing exactly if it
showed nothing before; no file holds a report to begin
with, and what an input calls are metadata files (`DataAssumption` of `Scan`). Each is an `ASSUME` of the module that declares the
constant.

Only model-checked: liveness (`Terminates`, `DiagnosticsEnd`, `LinkEnds`, `TraversalEnds`,
`WritersEnd`), which is out of the prover's reach. Every other property of a passing run is stated
by a theorem.

## 5. Plan and limits

Left of the plan, in this order: `Discovery` (includes, excludes, limits) as a module of its own,
beyond what `Scan` has of it; the counters of `yamlsafe`.

### Not modelled

* The text level of the parsers: aliases, tags and counters of `parsers/yamlsafe`, the reading of an
  expression character by character, the short forms of ports and volumes. `Documents` begins with
  the YAML tree.
* Of a Gitleaks report, the JSON text, the characters of paths and names, and what is only shown
  (description, tags, author, date).
* `Emit` of the linkers' diagnostics into the warnings of the graph, wording and parameters of
  warnings, evidence locations, signals, confidences of paths (they are in `Traversal`): they decide
  nothing that a score or an exit code depends on.
* Reporters, configuration beyond what `Scan` and `Analysis` ask of it, sanitizer, identifiers
  (formatting without state), the corpus tests and packaging.
* Hazards without a property: each says why in `PROJECT.json`.
