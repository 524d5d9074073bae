----------------------------- MODULE ScanProofs -----------------------------
(***************************************************************************)
(* What a scan guarantees for every repository, every configuration and    *)
(* any number of edits by other programs: types, the meaning of a passing  *)
(* scan, the agreement of report and exit code, what a scan may change,    *)
(* and that the outputs of the action describe the report it wrote.        *)
(***************************************************************************)
EXTENDS Scan, TLAPS

\* A scan that published, and the scans that came past a phase.
Reported      == pc = "ended" /\ code \in {ExitOK, ExitThreshold}
AfterRewalk   == pc \in {"parse", "findings", "resolve", "analyze", "publish"} \/ Reported
AfterParse    == pc \in {"findings", "resolve", "analyze", "publish"} \/ Reported
AfterFindings == pc \in {"resolve", "analyze", "publish"} \/ Reported
AfterResolve  == pc \in {"analyze", "publish"} \/ Reported

\* What a scan has to look at: inputs, and the metadata they lead to, that stayed
\* as they were.
QuietFound  == Find(Quiet, settings)
QuietGiven  == Given \ touched
QuietInputs == QuietFound \cup QuietGiven
QuietCalled == Called(QuietInputs, Quiet)

\* Only its last step lets a scan write.
DiskOK == pc # "ended" => \A p \in Path \ touched : disk[p] = before[p]

\* What was read of a file that stayed as it was is what it holds.
ReadOK == \A p \in Path \ touched : read[p] \in {Absent, before[p]}

\* What stayed as it was and is to be scanned has been read, or will be.
CoveredOK ==
  AfterRewalk => \A p \in QuietFound : p \in todo \/ (read[p] = before[p] /\ before[p] \in Parses)
TodoOK == AfterParse => todo = {}
GivenOK == AfterFindings => \A p \in QuietGiven : read[p] = before[p] /\ before[p] \in Parses
ResolvedOK == AfterResolve => \A m \in QuietCalled : read[m] = before[m]

ExceededOK ==
  pc = "publish" \/ Reported => exceeded = (settings.gate /\ \E p \in Path : read[p] \in Risky)
CodeOK ==
  Reported => /\ (code = ExitThreshold) = exceeded
              /\ settings.output \notin touched \cup {None} => disk[settings.output] = Rendered

IInv ==
  /\ DiskOK /\ ReadOK /\ CoveredOK /\ TodoOK /\ GivenOK /\ ResolvedOK
  /\ ExceededOK /\ CodeOK /\ OnlyTheReportChanges

-----------------------------------------------------------------------------
(* The data.                                                               *)

\* What a scan looks at grows with the files that it may look at.
LEMMA CalledGrows ==
  ASSUME NEW R1, NEW R2, R1 \subseteq R2, NEW f1, NEW f2,
         \A p \in Path : f1[p] \in Parses => f2[p] = f1[p]
  PROVE  Called(R1, f1) \subseteq Called(R2, f2)
<1> SUFFICES ASSUME NEW m \in Called(R1, f1) PROVE m \in Called(R2, f2)
  OBVIOUS
<1>1. m \in Path /\ Kind[m] = "metadata" /\ f2[m] \in Parses
  BY DEF Called
<1>2. ASSUME NEW S \in SUBSET Path, R2 \subseteq S, Closed(S, f2) PROVE m \in S
  <2>1. Closed(S, f1)
    BY <1>2 DEF Closed
  <2>2. QED  BY <1>2, <2>1 DEF Called
<1>3. QED  BY <1>1, <1>2 DEF Called

LEMMA OverrideType ==
  ASSUME NEW o \in Option, NEW s \in Setting
  PROVE  Override(o, s) \in Setting
BY ChoiceAssumption DEF Override, Option, Setting

\* The step of another program makes fewer files quiet, and changes none of them.
LEMMA QuietShrinks ==
  ASSUME before' = before, settings' = settings, options' = options, touched \subseteq touched',
         settings \in Setting
  PROVE  /\ QuietFound' \subseteq QuietFound /\ QuietGiven' \subseteq QuietGiven
         /\ QuietCalled' \subseteq QuietCalled
<1>1. /\ Quiet' = [p \in Path |-> IF p \in touched' THEN Absent ELSE before[p]]
      /\ Quiet = [p \in Path |-> IF p \in touched THEN Absent ELSE before[p]]
  BY DEF Quiet
<1>2. \A p \in Path : Quiet'[p] \in Parses => Quiet[p] = Quiet'[p]
  BY <1>1, ContentAssumption, ChoiceAssumption
<1>3. QuietFound' \subseteq QuietFound
  <2>1. \A p \in Path : Quiet'[p] # Absent => Quiet[p] # Absent
    BY <1>1
  <2>2. QED  BY <2>1 DEF QuietFound, Find, Setting
<1>4. QuietGiven' \subseteq QuietGiven
  BY DEF QuietGiven, Given
<1>5. QuietInputs' \subseteq QuietInputs
  BY <1>3, <1>4 DEF QuietInputs
<1>6. Called(QuietInputs', Quiet') \subseteq Called(QuietInputs, Quiet)
  BY <1>2, <1>5, CalledGrows
<1>7. QuietCalled' = Called(QuietInputs', Quiet')
  BY DEF QuietCalled, Called, Closed
<1>8. QED  BY <1>3, <1>4, <1>6, <1>7 DEF QuietCalled

-----------------------------------------------------------------------------
(* Types.                                                                  *)

LEMMA RenderedType == TypeOK => Rendered \in Report
BY DEF TypeOK, Rendered, Report

LEMMA BeginType ==
  ASSUME TypeOK, NEW o \in Option, Begin(o), disk' = disk
  PROVE  /\ pc' = "configure" /\ before' \in [Path -> File] /\ options' \in Option
         /\ settings' \in Setting /\ config' \in Path \cup {None}
         /\ first' \subseteq Path /\ todo' \subseteq Path /\ read' \in Snapshot
         /\ exceeded' \in BOOLEAN /\ code' \in 0 .. 4 \cup {Signalled} /\ touched' \subseteq Path
<1>1. Nothing \in Snapshot
  BY DEF Nothing, Snapshot
<1>2. ExitOK \in 0 .. 4
  BY DEF ExitOK
<1>3. QED  BY <1>1, <1>2, ContentAssumption DEF TypeOK, Begin

LEMMA ScanStepType == ASSUME TypeOK, ScanStep PROVE TypeOK'
<1> USE DEF ExitOK, ExitThreshold, ExitUsage, ExitMalformedInput, ExitInternal, Signalled, Phases
<1>1. pc \in Phases /\ UNCHANGED <<place, action, touched, edits>>
  BY DEF ScanStep, Configure, Walk, ResolveGitleaks, Rewalk, Parse, Parsed, Findings, Resolve,
         Analyze, Publish, Kill, Step
<1>2. ASSUME NEW c \in {ExitUsage, ExitMalformedInput, ExitInternal, Signalled}, Fail(c) PROVE TypeOK'
  BY <1>1, <1>2 DEF TypeOK, Fail, End, action
<1>3. ASSUME NEW d \in Path, NEW c \in {ExitInternal, Signalled}, BreakOff(d, c) PROVE TypeOK'
  <2>1. disk' \in [Path -> File]
    BY <1>3, RenderedType DEF BreakOff, TypeOK, File
  <2>2. QED  BY <1>1, <1>3, <2>1 DEF TypeOK, BreakOff, End, action
<1>4. CASE Configure
  <2>1. CASE /\ ConfigPath # None => disk[ConfigPath] \in Parses
             /\ config' = ConfigPath
             /\ settings' = Override(options,
                  IF ConfigPath = None THEN Default ELSE Settings[disk[ConfigPath]])
             /\ pc' = "walk"
             /\ UNCHANGED <<disk, options, first, todo, read, exceeded, code, before>>
    <3>1. ConfigPath \in Path \cup {None}
      BY PathAssumption DEF ConfigPath, TypeOK, Option
    <3>2. settings' \in Setting
      BY <2>1, <3>1, ContentAssumption, OverrideType DEF TypeOK
    <3>3. QED  BY <1>1, <2>1, <3>1, <3>2 DEF TypeOK, action
  <2>2. QED  BY <1>2, <1>4, <2>1 DEF Configure
<1>5. CASE Walk
  <2>1. Find(disk, settings) \subseteq Path
    BY DEF Find, TypeOK, Setting
  <2>2. QED  BY <1>1, <1>2, <1>5, <2>1 DEF Walk, TypeOK, action
<1>6. CASE ResolveGitleaks
  <2>1. {options.gitleaks} \ {None} \subseteq Path
    BY DEF TypeOK, Option
  <2>2. QED  BY <1>1, <1>2, <1>6, <2>1 DEF ResolveGitleaks, TypeOK, action
<1>7. CASE Rewalk
  <2>1. Find(disk, settings) \subseteq Path
    BY DEF Find, TypeOK, Setting
  <2>2. QED  BY <1>1, <1>2, <1>7, <2>1 DEF Rewalk, TypeOK, action
<1>8. CASE Parse
  <2>1. ASSUME NEW p \in todo, disk[p] \in Parses, read' = [read EXCEPT ![p] = disk[p]],
               todo' = todo \ {p},
               UNCHANGED <<disk, pc, options, settings, config, first, exceeded, code, before>>
        PROVE  TypeOK'
    <3>1. read' \in Snapshot
      BY <2>1, ContentAssumption DEF TypeOK, Snapshot
    <3>2. QED  BY <1>1, <2>1, <3>1 DEF TypeOK, action
  <2>2. QED  BY <1>2, <1>8, <2>1 DEF Parse
<1>9. CASE Parsed
  BY <1>1, <1>9 DEF Parsed, TypeOK, action
<1>10. CASE Findings
  <2>1. ASSUME options.gitleaks # None, disk[options.gitleaks] \in Parses,
               read' = [read EXCEPT ![options.gitleaks] = disk[options.gitleaks]], pc' = "resolve",
               UNCHANGED <<disk, options, settings, config, first, todo, exceeded, code, before>>
        PROVE  TypeOK'
    <3>1. read' \in Snapshot
      BY <2>1, ContentAssumption DEF TypeOK, Snapshot
    <3>2. QED  BY <1>1, <2>1, <3>1 DEF TypeOK, action
  <2>2. CASE /\ pc' = "resolve"
             /\ UNCHANGED <<disk, options, settings, config, first, todo, read, exceeded, code, before>>
    BY <1>1, <2>2 DEF TypeOK, action
  <2>3. QED  BY <1>2, <1>10, <2>1, <2>2 DEF Findings
<1>11. CASE Resolve
  <2> DEFINE files == [p \in Path |-> IF p \in {q \in Path : read[q] # Absent} THEN read[p] ELSE disk[p]]
             used  == Called({q \in Path : read[q] # Absent}, files)
  <2>1. read' = [p \in Path |-> IF p \in used THEN files[p] ELSE read[p]]
    BY <1>11 DEF Resolve
  <2>2. \A p \in used : files[p] \in Parses
    BY DEF Called
  <2>3. read' \in Snapshot
    <3> HIDE DEF files, used
    <3>1. QED  BY <2>1, <2>2, ContentAssumption DEF TypeOK, Snapshot
  <2>4. QED  BY <1>1, <1>11, <2>3 DEF Resolve, TypeOK, action
<1>12. CASE Analyze
  <2>1. ASSUME exceeded' = (settings.gate /\ \E p \in Path : read[p] \in Risky), pc' = "publish",
               UNCHANGED <<disk, options, settings, config, first, todo, read, code, before>>
        PROVE  TypeOK'
    <3>1. exceeded' \in BOOLEAN
      BY <2>1
    <3>2. QED  BY <1>1, <2>1, <3>1 DEF TypeOK, action
  <2>2. QED  BY <1>2, <1>12, <2>1 DEF Analyze
<1>13. CASE Publish
  <2>1. CASE /\ disk' = IF settings.output = None THEN disk ELSE [disk EXCEPT ![settings.output] = Rendered]
             /\ End(IF exceeded THEN ExitThreshold ELSE ExitOK)
             /\ UNCHANGED <<options, settings, config, first, todo, read, exceeded, before>>
    <3>1. disk' \in [Path -> File]
      BY <2>1, RenderedType DEF TypeOK, File, Setting
    <3>2. QED  BY <1>1, <2>1, <3>1 DEF TypeOK, End, action
  <2>2. settings.output \in Path \cup {None}
    BY DEF TypeOK, Setting
  <2>3. QED  BY <1>2, <1>3, <1>13, <2>1, <2>2 DEF Publish
<1>14. CASE Kill
  <2>1. settings.output \in Path \cup {None}
    BY DEF TypeOK, Setting
  <2>2. QED  BY <1>2, <1>3, <1>14, <2>1 DEF Kill
<1>15. QED
  BY <1>4, <1>5, <1>6, <1>7, <1>8, <1>9, <1>10, <1>11, <1>12, <1>13, <1>14 DEF ScanStep

LEMMA NextType == ASSUME TypeOK, [Next]_vars PROVE TypeOK'
<1>1. CASE ScanStep
  BY <1>1, ScanStepType
<1>2. CASE UserScan
  <2>1. PICK o \in Option : Begin(o) /\ disk' = disk /\ UNCHANGED <<place, action, edits>>
    BY <1>2, ChoiceAssumption DEF UserScan
  <2>2. QED  BY <2>1, BeginType DEF TypeOK, action, Phases
<1>3. CASE StartAction
  BY <1>3, ChoiceAssumption DEF StartAction, TypeOK, scan
<1>4. CASE Prepare
  <2>1. CASE /\ Begin(request) /\ runner' = "primary"
             /\ UNCHANGED <<place, disk, request, primaryCode, primaryReport, actionCode, summary, edits>>
    BY <2>1, BeginType DEF TypeOK, Phases
  <2>2. CASE \/ EndAction(ExitUsage) \/ EndAction(ExitInternal)
    BY <1>4, <2>2 DEF Prepare, EndAction, Begin, TypeOK, scan, ExitUsage, ExitInternal
  <2>3. QED  BY <1>4, <2>1, <2>2 DEF Prepare
<1>5. CASE AfterPrimary
  <2>1. /\ primaryCode' \in 0 .. 4 \cup {Signalled} /\ primaryReport' \in Report \cup {None}
        /\ UNCHANGED <<place, disk, request, actionCode, summary, edits>>
    BY <1>5, RenderedType DEF AfterPrimary, TypeOK
  <2>2. CASE Begin(SummaryArguments(request)) /\ runner' = "summary"
    <3>1. SummaryArguments(request) \in Option
      BY DEF SummaryArguments, TypeOK, Option
    <3>2. QED  BY <2>1, <2>2, <3>1, BeginType DEF TypeOK, Phases
  <2>3. CASE runner' = "outputs" /\ UNCHANGED <<scan, touched>>
    BY <2>1, <2>3 DEF TypeOK, scan
  <2>4. QED  BY <1>5, <2>2, <2>3 DEF AfterPrimary
<1>6. CASE AfterSummary
  BY <1>6, RenderedType DEF AfterSummary, TypeOK, scan
<1>7. CASE AppendOutputs
  BY <1>7 DEF AppendOutputs, EndAction, TypeOK, scan, ExitInternal
<1>8. CASE Edit
  <2>1. PICK p \in Path, c \in Content \cup {Absent} :
          disk' = [disk EXCEPT ![p] = c] /\ touched' = touched \cup {p}
    BY <1>8, ContentAssumption DEF Edit
  <2>2. disk' \in [Path -> File] /\ touched' \subseteq Path
    BY <2>1, ContentAssumption DEF TypeOK, File
  <2>3. edits' \in 0 .. MaxEdits
    BY <1>8, ChoiceAssumption DEF Edit, TypeOK
  <2>4. QED  BY <1>8, <2>2, <2>3 DEF Edit, TypeOK, scan, action
<1>9. CASE UNCHANGED vars
  BY <1>9 DEF vars, scan, action, TypeOK
<1>10. QED  BY <1>1, <1>2, <1>3, <1>4, <1>5, <1>6, <1>7, <1>8, <1>9 DEF Next

LEMMA InitType == Init => TypeOK
<1> SUFFICES ASSUME Init PROVE TypeOK
  OBVIOUS
<1>1. disk \in [Path -> File] /\ before \in [Path -> File] /\ read \in Snapshot
  BY DEF Init, File, Snapshot, Nothing
<1>2. options \in Option /\ request \in Option
  BY ChoiceAssumption DEF Init
<1>3. ExitOK \in 0 .. 4 /\ 0 \in 0 .. MaxEdits
  BY ChoiceAssumption DEF ExitOK
<1>4. QED  BY <1>1, <1>2, <1>3, ContentAssumption DEF Init, TypeOK

\* Every reachable state of a scan or of the Action has its type.
THEOREM TypeCorrect == Spec => []TypeOK
<1>1. Init => TypeOK
  BY InitType
<1>2. TypeOK /\ [Next]_vars => TypeOK'
  BY NextType
<1>3. QED  BY <1>1, <1>2, PTL DEF Spec

-----------------------------------------------------------------------------
(* The invariant.                                                          *)

\* A scan that gives up has nothing more to answer for.
LEMMA FailIInv ==
  ASSUME TypeOK, IInv, pc \in Phases, NEW c \in {ExitUsage, ExitMalformedInput, ExitInternal, Signalled},
         Fail(c), UNCHANGED <<place, touched>>
  PROVE  IInv'
<1>1. ~Reported' /\ pc' = "ended"
  BY DEF Fail, End, Reported, ExitOK, ExitThreshold, ExitUsage, ExitMalformedInput, ExitInternal, Signalled
<1>2. OnlyTheReportChanges'
  BY DEF IInv, DiskOK, OnlyTheReportChanges, Phases, Fail
<1>3. QED
  BY <1>1, <1>2 DEF Fail, IInv, DiskOK, ReadOK, CoveredOK, TodoOK, GivenOK, ResolvedOK, ExceededOK, CodeOK,
                    AfterRewalk, AfterParse, AfterFindings, AfterResolve

\* What is published, whole or not, is published where nothing protected is.
LEMMA PublishedChange ==
  ASSUME TypeOK, IInv, pc = "publish", settings.output \in Path, ~Protected(settings.output),
         NEW f, disk' = [disk EXCEPT ![settings.output] = f], pc' = "ended",
         code' \in {ExitOK, ExitThreshold, ExitInternal, Signalled},
         UNCHANGED <<place, touched, before, first, config, settings, options>>
  PROVE  OnlyTheReportChanges'
<1>1. \A p \in Path \ touched : disk'[p] # before[p] => p = settings.output
  BY DEF IInv, DiskOK, TypeOK
<1>2. /\ place # "linked" => settings.output \notin first
      /\ place # "elsewhere" \/ options.config = None => settings.output # config
  BY DEF Protected
<1>3. QED  BY <1>1, <1>2 DEF OnlyTheReportChanges

LEMMA BreakOffIInv ==
  ASSUME TypeOK, IInv, pc = "publish", settings.output \in Path, ~Protected(settings.output),
         NEW c \in {ExitInternal, Signalled}, BreakOff(settings.output, c), UNCHANGED <<place, touched>>
  PROVE  IInv'
<1>1. ~Reported' /\ pc' = "ended" /\ code' = c
  BY DEF BreakOff, End, Reported, ExitOK, ExitThreshold, ExitInternal, Signalled
<1>2. OnlyTheReportChanges'
  BY <1>1, PublishedChange DEF BreakOff
<1>3. QED
  BY <1>1, <1>2 DEF BreakOff, IInv, DiskOK, ReadOK, CoveredOK, TodoOK, GivenOK, ResolvedOK, ExceededOK, CodeOK,
                    AfterRewalk, AfterParse, AfterFindings, AfterResolve

\* A new scan starts from the disk as it is.
LEMMA BeginIInv ==
  ASSUME TypeOK, NEW o \in Option, Begin(o), disk' = disk
  PROVE  IInv'
<1>1. pc' = "configure" /\ ~Reported' /\ before' = disk'
  BY DEF Begin, Reported
<1>2. OnlyTheReportChanges' /\ ReadOK'
  BY <1>1 DEF OnlyTheReportChanges, ReadOK, Begin, Nothing
<1>3. QED
  BY <1>1, <1>2 DEF IInv, DiskOK, ReadOK, CoveredOK, TodoOK, GivenOK, ResolvedOK, ExceededOK, CodeOK,
                    AfterRewalk, AfterParse, AfterFindings, AfterResolve

\* Whatever another program does, what stays as it was is still accounted for.
LEMMA EditIInv == ASSUME TypeOK, IInv, Edit PROVE IInv'
<1>1. PICK p \in Path, c \in Content \cup {Absent} :
        disk' = [disk EXCEPT ![p] = c] /\ touched' = touched \cup {p}
  BY ContentAssumption DEF Edit
<1>2. UNCHANGED <<place, pc, options, settings, config, first, todo, read, exceeded, code, before>>
  BY DEF Edit, scan
<1>3. \A q \in Path \ touched' : q \in Path \ touched /\ disk'[q] = disk[q]
  BY <1>1 DEF TypeOK
<1>4. /\ QuietFound' \subseteq QuietFound /\ QuietGiven' \subseteq QuietGiven
      /\ QuietCalled' \subseteq QuietCalled
  BY <1>1, <1>2, QuietShrinks DEF TypeOK
<1>5. Reported' = Reported
  BY <1>2 DEF Reported
<1>6. CoveredOK' /\ TodoOK' /\ GivenOK' /\ ResolvedOK'
  BY <1>2, <1>4, <1>5 DEF IInv, CoveredOK, TodoOK, GivenOK, ResolvedOK,
                          AfterRewalk, AfterParse, AfterFindings, AfterResolve
<1>7. DiskOK' /\ ReadOK' /\ OnlyTheReportChanges'
  BY <1>2, <1>3 DEF IInv, DiskOK, ReadOK, OnlyTheReportChanges
<1>8. ExceededOK'
  BY <1>2, <1>5 DEF IInv, ExceededOK
<1>9. CodeOK'
  <2>1. settings.output \notin touched' \cup {None} =>
          settings.output \notin touched \cup {None} /\ disk'[settings.output] = disk[settings.output]
    BY <1>3 DEF TypeOK, Setting
  <2>2. Rendered' = Rendered
    BY <1>2 DEF Rendered
  <2>3. QED  BY <1>2, <1>5, <2>1, <2>2 DEF IInv, CodeOK
<1>10. QED  BY <1>6, <1>7, <1>8, <1>9 DEF IInv

\* A step within a scan.
LEMMA StepKeeps ==
  ASSUME TypeOK, IInv, pc \in Phases, pc' \in Phases, UNCHANGED <<disk, before, touched>>
  PROVE  /\ DiskOK' /\ OnlyTheReportChanges' /\ CodeOK' /\ ~Reported /\ ~Reported'
         /\ \A p \in Path \ touched : disk[p] = before[p]
BY DEF IInv, DiskOK, OnlyTheReportChanges, CodeOK, Reported, Phases

\* Before the second walk nothing is owed yet.
LEMMA EarlyIInv ==
  ASSUME TypeOK, IInv, pc \in Phases, pc' \in {"configure", "walk", "gitleaks", "rewalk"},
         UNCHANGED <<disk, before, touched, read>>
  PROVE  IInv'
<1>1. DiskOK' /\ OnlyTheReportChanges' /\ CodeOK' /\ ~Reported'
  BY StepKeeps DEF Phases
<1>2. ReadOK'
  BY DEF IInv, ReadOK
<1>3. QED
  BY <1>1, <1>2 DEF IInv, CoveredOK, TodoOK, GivenOK, ResolvedOK, ExceededOK,
                    AfterRewalk, AfterParse, AfterFindings, AfterResolve

LEMMA RewalkIInv ==
  ASSUME TypeOK, IInv, pc = "rewalk", todo' = Find(disk, settings), pc' = "parse",
         UNCHANGED <<disk, options, settings, read, before, touched>>
  PROVE  IInv'
<1>1. /\ DiskOK' /\ OnlyTheReportChanges' /\ CodeOK' /\ ~Reported'
      /\ \A p \in Path \ touched : disk[p] = before[p]
  BY StepKeeps DEF Phases
<1>2. QuietFound \subseteq Find(disk, settings)
  BY <1>1 DEF QuietFound, Find, Quiet, TypeOK, Setting
<1>3. QuietFound' \subseteq QuietFound
  BY QuietShrinks DEF TypeOK
<1>4. CoveredOK' /\ ReadOK'
  BY <1>2, <1>3 DEF CoveredOK, IInv, ReadOK
<1>5. QED
  BY <1>1, <1>4 DEF IInv, TodoOK, GivenOK, ResolvedOK, ExceededOK, AfterParse, AfterFindings, AfterResolve

\* Files outside those that were touched are quiet; the others are not there.
LEMMA QuietOnes ==
  ASSUME TypeOK
  PROVE  QuietFound \subseteq Path \ touched /\ QuietGiven \subseteq Path \ touched
BY DEF QuietFound, QuietGiven, Given, Find, Quiet, TypeOK, Setting, Option

LEMMA ParseIInv ==
  ASSUME TypeOK, IInv, pc = "parse", NEW p \in todo, disk[p] \in Parses,
         read' = [read EXCEPT ![p] = disk[p]], todo' = todo \ {p},
         UNCHANGED <<disk, pc, options, settings, before, touched>>
  PROVE  IInv'
<1>1. /\ DiskOK' /\ OnlyTheReportChanges' /\ CodeOK' /\ ~Reported'
      /\ \A q \in Path \ touched : disk[q] = before[q]
  BY StepKeeps DEF Phases
<1>2. /\ p \in Path /\ read'[p] = disk[p]
      /\ \A q \in Path \ {p} : read'[q] = read[q]
  BY DEF TypeOK, Snapshot
<1>3. QuietFound' \subseteq QuietFound /\ QuietFound \subseteq Path \ touched
  BY QuietShrinks, QuietOnes DEF TypeOK
<1>4. CoveredOK'
  <2> SUFFICES ASSUME NEW q \in QuietFound
               PROVE  q \in todo' \/ (read'[q] = before[q] /\ before[q] \in Parses)
    BY <1>3 DEF CoveredOK
  <2>1. CASE q = p
    BY <1>1, <1>2, <1>3, <2>1
  <2>2. CASE q # p
    BY <1>2, <1>3, <2>2 DEF IInv, CoveredOK, AfterRewalk
  <2>3. QED  BY <2>1, <2>2
<1>5. ReadOK'
  BY <1>1, <1>2 DEF IInv, ReadOK
<1>6. QED
  BY <1>1, <1>4, <1>5 DEF IInv, TodoOK, GivenOK, ResolvedOK, ExceededOK, AfterParse, AfterFindings, AfterResolve

LEMMA ParsedIInv ==
  ASSUME TypeOK, IInv, pc = "parse", todo = {}, pc' = "findings",
         UNCHANGED <<disk, options, settings, todo, read, before, touched>>
  PROVE  IInv'
<1>1. DiskOK' /\ OnlyTheReportChanges' /\ CodeOK' /\ ~Reported'
  BY StepKeeps DEF Phases
<1>2. QuietFound' \subseteq QuietFound
  BY QuietShrinks DEF TypeOK
<1>3. CoveredOK' /\ ReadOK' /\ TodoOK'
  BY <1>2 DEF IInv, CoveredOK, ReadOK, TodoOK, AfterRewalk
<1>4. QED
  BY <1>1, <1>3 DEF IInv, GivenOK, ResolvedOK, ExceededOK, AfterFindings, AfterResolve

LEMMA FindingsIInv ==
  ASSUME TypeOK, IInv, pc = "findings", pc' = "resolve",
         UNCHANGED <<disk, options, settings, todo, before, touched>>,
         \/ options.gitleaks = None /\ read' = read
         \/ /\ options.gitleaks # None /\ disk[options.gitleaks] \in Parses
            /\ read' = [read EXCEPT ![options.gitleaks] = disk[options.gitleaks]]
  PROVE  IInv'
<1> DEFINE g == options.gitleaks
<1>1. /\ DiskOK' /\ OnlyTheReportChanges' /\ CodeOK' /\ ~Reported'
      /\ \A q \in Path \ touched : disk[q] = before[q]
  BY StepKeeps DEF Phases
<1>2. /\ QuietFound' \subseteq QuietFound /\ QuietGiven' \subseteq QuietGiven
      /\ QuietFound \subseteq Path \ touched /\ QuietGiven \subseteq Path \ touched
      /\ QuietGiven \subseteq {g} \ {None}
  BY QuietShrinks, QuietOnes DEF TypeOK, QuietGiven, Given
<1>3. \A q \in Path : \/ read'[q] = read[q] /\ (q # g \/ g = None)
                      \/ q = g /\ read'[q] = disk[q] /\ disk[q] \in Parses
  BY ChoiceAssumption DEF TypeOK, Snapshot, Option
<1>4. todo = {}
  BY DEF IInv, TodoOK, AfterParse
<1>5. CoveredOK'
  <2> SUFFICES ASSUME NEW q \in QuietFound
               PROVE  read'[q] = before[q] /\ before[q] \in Parses
    BY <1>2 DEF CoveredOK
  <2>1. read[q] = before[q] /\ before[q] \in Parses
    BY <1>4 DEF IInv, CoveredOK, AfterRewalk
  <2>2. QED  BY <1>1, <1>2, <1>3, <2>1
<1>6. GivenOK'
  BY <1>1, <1>2, <1>3 DEF GivenOK
<1>7. ReadOK' /\ TodoOK'
  BY <1>1, <1>3, <1>4 DEF IInv, ReadOK, TodoOK
<1>8. QED
  BY <1>1, <1>5, <1>6, <1>7 DEF IInv, ResolvedOK, ExceededOK, AfterResolve

LEMMA ResolveIInv == ASSUME TypeOK, IInv, Resolve PROVE IInv'
<1> DEFINE sources == {p \in Path : read[p] # Absent}
           files   == [p \in Path |-> IF p \in sources THEN read[p] ELSE disk[p]]
           used    == Called(sources, files)
<1>1. /\ read' = [p \in Path |-> IF p \in used THEN files[p] ELSE read[p]]
      /\ pc = "resolve" /\ pc' = "analyze"
      /\ UNCHANGED <<disk, options, settings, todo, before, touched>>
  BY DEF Resolve, Step
<1>2. /\ DiskOK' /\ OnlyTheReportChanges' /\ CodeOK' /\ ~Reported'
      /\ \A q \in Path \ touched : disk[q] = before[q]
  BY <1>1, StepKeeps DEF Phases
<1>3. /\ QuietFound' \subseteq QuietFound /\ QuietGiven' \subseteq QuietGiven
      /\ QuietCalled' \subseteq QuietCalled
      /\ QuietFound \subseteq Path \ touched /\ QuietGiven \subseteq Path \ touched
  BY <1>1, QuietShrinks, QuietOnes DEF TypeOK
<1>4. /\ todo = {}
      /\ \A q \in QuietFound \cup QuietGiven : read[q] = before[q] /\ before[q] \in Parses
  BY <1>1 DEF IInv, TodoOK, AfterParse, CoveredOK, AfterRewalk, GivenOK, AfterFindings
<1>5. \A q \in QuietFound \cup QuietGiven : q \in sources
  BY <1>3, <1>4, ContentAssumption, ChoiceAssumption
<1>6. \A q \in Path \ touched : files[q] = before[q]
  BY <1>2 DEF IInv, ReadOK
<1>7. \A q \in Path : read'[q] = read[q] \/ (q \notin sources /\ read'[q] = files[q])
  <2>1. \A q \in sources : files[q] = read[q]
    OBVIOUS
  <2> HIDE DEF files, used, sources
  <2>2. QED  BY <1>1, <2>1
<1>8. CoveredOK' /\ GivenOK'
  <2> HIDE DEF files, used, sources
  <2>1. \A q \in QuietFound \cup QuietGiven : read'[q] = before[q] /\ before[q] \in Parses
    BY <1>3, <1>4, <1>5, <1>7
  <2>2. QED  BY <1>1, <1>3, <2>1 DEF CoveredOK, GivenOK
<1>9. ResolvedOK'
  <2>1. QuietInputs \subseteq sources
    BY <1>5 DEF QuietInputs
  <2>2. \A q \in Path : Quiet[q] \in Parses => q \notin touched /\ Quiet[q] = before[q]
    BY ContentAssumption, ChoiceAssumption DEF Quiet
  <2> HIDE DEF files, used, sources
  <2>3. \A q \in Path : Quiet[q] \in Parses => files[q] = Quiet[q]
    BY <1>6, <2>2
  <2>4. QuietCalled \subseteq used
    BY <2>1, <2>3, CalledGrows DEF QuietCalled, used
  <2>5. \A m \in QuietCalled : m \in Path /\ m \notin touched
    BY <2>2 DEF QuietCalled, Called
  <2>6. QED  BY <1>1, <1>3, <1>6, <2>4, <2>5 DEF ResolvedOK
<1>10. ReadOK' /\ TodoOK'
  <2> HIDE DEF files, used, sources
  <2>1. QED  BY <1>1, <1>4, <1>6, <1>7 DEF IInv, ReadOK, TodoOK
<1>11. QED  BY <1>1, <1>2, <1>8, <1>9, <1>10 DEF IInv, ExceededOK

LEMMA AnalyzeIInv ==
  ASSUME TypeOK, IInv, pc = "analyze", pc' = "publish",
         exceeded' = (settings.gate /\ \E p \in Path : read[p] \in Risky),
         UNCHANGED <<disk, options, settings, todo, read, before, touched>>
  PROVE  IInv'
<1>1. DiskOK' /\ OnlyTheReportChanges' /\ CodeOK' /\ ~Reported'
  BY StepKeeps DEF Phases
<1>2. /\ QuietFound' \subseteq QuietFound /\ QuietGiven' \subseteq QuietGiven
      /\ QuietCalled' \subseteq QuietCalled
  BY QuietShrinks DEF TypeOK
<1>3. CoveredOK' /\ TodoOK' /\ GivenOK' /\ ResolvedOK' /\ ReadOK'
  BY <1>2 DEF IInv, CoveredOK, TodoOK, GivenOK, ResolvedOK, ReadOK,
              AfterRewalk, AfterParse, AfterFindings, AfterResolve
<1>4. ExceededOK'
  BY DEF ExceededOK
<1>5. QED  BY <1>1, <1>3, <1>4 DEF IInv

LEMMA PublishIInv ==
  ASSUME TypeOK, IInv, pc = "publish", settings.output # None => ~Protected(settings.output),
         disk' = IF settings.output = None THEN disk ELSE [disk EXCEPT ![settings.output] = Rendered],
         End(IF exceeded THEN ExitThreshold ELSE ExitOK),
         UNCHANGED <<place, touched, options, settings, config, first, todo, read, exceeded, before>>
  PROVE  IInv'
<1>1. /\ pc' = "ended" /\ code' = IF exceeded THEN ExitThreshold ELSE ExitOK
      /\ settings.output \in Path \cup {None}
  BY DEF End, TypeOK, Setting
<1>2. OnlyTheReportChanges'
  <2>1. CASE settings.output = None
    BY <1>1, <2>1 DEF IInv, DiskOK, OnlyTheReportChanges
  <2>2. CASE settings.output # None
    BY <1>1, <2>2, PublishedChange
  <2>3. QED  BY <2>1, <2>2
<1>3. /\ QuietFound' \subseteq QuietFound /\ QuietGiven' \subseteq QuietGiven
      /\ QuietCalled' \subseteq QuietCalled
  BY QuietShrinks DEF TypeOK
<1>4. CoveredOK' /\ TodoOK' /\ GivenOK' /\ ResolvedOK' /\ ReadOK'
  BY <1>3 DEF IInv, CoveredOK, TodoOK, GivenOK, ResolvedOK, ReadOK,
              AfterRewalk, AfterParse, AfterFindings, AfterResolve
<1>5. ExceededOK' /\ DiskOK'
  BY <1>1 DEF IInv, ExceededOK, DiskOK
<1>6. CodeOK'
  <2>1. (code' = ExitThreshold) = exceeded'
    BY <1>1 DEF TypeOK, ExitThreshold, ExitOK
  <2>2. settings.output # None => disk'[settings.output] = Rendered
    BY <1>1 DEF TypeOK
  <2>3. Rendered' = Rendered
    BY DEF Rendered
  <2>4. QED  BY <2>1, <2>2, <2>3 DEF CodeOK
<1>7. QED  BY <1>2, <1>4, <1>5, <1>6 DEF IInv

LEMMA ScanStepIInv == ASSUME TypeOK, IInv, ScanStep PROVE IInv'
<1>1. pc \in Phases /\ UNCHANGED <<place, touched>>
  BY DEF ScanStep, Configure, Walk, ResolveGitleaks, Rewalk, Parse, Parsed, Findings, Resolve,
         Analyze, Publish, Kill, Step, Phases
<1>2. ASSUME NEW c \in {ExitUsage, ExitMalformedInput, ExitInternal, Signalled}, Fail(c) PROVE IInv'
  BY <1>1, <1>2, FailIInv
<1>3. ASSUME pc = "publish", settings.output # None, ~Protected(settings.output),
             NEW c \in {ExitInternal, Signalled}, BreakOff(settings.output, c)
      PROVE  IInv'
  <2>1. settings.output \in Path
    BY <1>3 DEF TypeOK, Setting
  <2>2. QED  BY <1>1, <1>3, <2>1, BreakOffIInv
<1>4. CASE Configure
  BY <1>1, <1>2, <1>4, EarlyIInv DEF Configure
<1>5. CASE Walk
  BY <1>1, <1>2, <1>5, EarlyIInv DEF Walk
<1>6. CASE ResolveGitleaks
  BY <1>1, <1>2, <1>6, EarlyIInv DEF ResolveGitleaks
<1>7. CASE Rewalk
  BY <1>1, <1>2, <1>7, RewalkIInv DEF Rewalk, Step
<1>8. CASE Parse
  BY <1>1, <1>2, <1>8, ParseIInv DEF Parse, Step
<1>9. CASE Parsed
  BY <1>1, <1>9, ParsedIInv DEF Parsed, Step
<1>10. CASE Findings
  BY <1>1, <1>2, <1>10, FindingsIInv DEF Findings, Step
<1>11. CASE Resolve
  BY <1>11, ResolveIInv
<1>12. CASE Analyze
  BY <1>1, <1>2, <1>12, AnalyzeIInv DEF Analyze, Step
<1>13. CASE Publish
  BY <1>1, <1>2, <1>3, <1>13, PublishIInv DEF Publish, Step
<1>14. CASE Kill
  BY <1>2, <1>3, <1>14 DEF Kill
<1>15. QED
  BY <1>4, <1>5, <1>6, <1>7, <1>8, <1>9, <1>10, <1>11, <1>12, <1>13, <1>14 DEF ScanStep

\* Steps of the Action between scans.
LEMMA IdleIInv ==
  ASSUME TypeOK, IInv, UNCHANGED <<place, disk, scan, touched>> PROVE IInv'
<1>1. /\ QuietFound' \subseteq QuietFound /\ QuietGiven' \subseteq QuietGiven
      /\ QuietCalled' \subseteq QuietCalled
  BY QuietShrinks DEF TypeOK, scan
<1>2. Reported' = Reported /\ Rendered' = Rendered
  BY DEF Reported, Rendered, scan
<1>3. CoveredOK' /\ TodoOK' /\ GivenOK' /\ ResolvedOK' /\ ReadOK'
  BY <1>1, <1>2 DEF IInv, CoveredOK, TodoOK, GivenOK, ResolvedOK, ReadOK, scan,
                    AfterRewalk, AfterParse, AfterFindings, AfterResolve
<1>4. ExceededOK' /\ CodeOK' /\ DiskOK' /\ OnlyTheReportChanges'
  BY <1>2 DEF IInv, ExceededOK, CodeOK, DiskOK, OnlyTheReportChanges, scan
<1>5. QED  BY <1>3, <1>4 DEF IInv

LEMMA NextIInv == ASSUME TypeOK, IInv, [Next]_vars PROVE IInv'
<1>1. CASE ScanStep
  BY <1>1, ScanStepIInv
<1>2. CASE UserScan
  BY <1>2, BeginIInv, ChoiceAssumption DEF UserScan
<1>3. CASE StartAction \/ AfterSummary \/ AppendOutputs \/ UNCHANGED vars
  BY <1>3, IdleIInv DEF StartAction, AfterSummary, AppendOutputs, vars
<1>4. CASE Prepare
  <2>1. CASE Begin(request)
    BY <1>4, <2>1, BeginIInv DEF Prepare, TypeOK
  <2>2. CASE UNCHANGED <<scan, touched>>
    BY <1>4, <2>2, IdleIInv DEF Prepare
  <2>3. QED  BY <1>4, <2>1, <2>2 DEF Prepare
<1>5. CASE AfterPrimary
  <2>1. CASE Begin(SummaryArguments(request))
    <3>1. SummaryArguments(request) \in Option
      BY DEF SummaryArguments, TypeOK, Option
    <3>2. QED  BY <1>5, <2>1, <3>1, BeginIInv DEF AfterPrimary
  <2>2. CASE UNCHANGED <<scan, touched>>
    BY <1>5, <2>2, IdleIInv DEF AfterPrimary
  <2>3. QED  BY <1>5, <2>1, <2>2 DEF AfterPrimary
<1>6. CASE Edit
  BY <1>6, EditIInv
<1>7. QED  BY <1>1, <1>2, <1>3, <1>4, <1>5, <1>6 DEF Next

LEMMA InitIInv == ASSUME Init PROVE IInv
<1>1. OnlyTheReportChanges /\ ReadOK
  BY DEF Init, OnlyTheReportChanges, ReadOK, Nothing
<1>2. QED
  BY <1>1 DEF Init, IInv, DiskOK, CoveredOK, TodoOK, GivenOK, ResolvedOK, ExceededOK, CodeOK,
              Reported, AfterRewalk, AfterParse, AfterFindings, AfterResolve

LEMMA Invariance == Spec => [](TypeOK /\ IInv)
<1>1. Init => TypeOK /\ IInv
  BY InitType, InitIInv
<1>2. TypeOK /\ IInv /\ [Next]_vars => TypeOK' /\ IInv'
  BY NextType, NextIInv
<1>3. QED  BY <1>1, <1>2, PTL DEF Spec

-----------------------------------------------------------------------------
(* The theorems.                                                           *)

\* A scan that passes has looked at every input that stayed as it was, and none
\* exposes a credential, for every repository and however it is edited meanwhile.
THEOREM PassIsClean == Spec => []PassMeansClean
<1>1. TypeOK /\ IInv => PassMeansClean
  <2> SUFFICES ASSUME TypeOK, IInv, pc = "ended", code = ExitOK, settings.gate
               PROVE  /\ \A p \in QuietInputs : Quiet[p] \in Parses
                      /\ \A p \in QuietInputs \cup QuietCalled : Quiet[p] \notin Risky
    BY DEF PassMeansClean, QuietInputs, QuietFound, QuietGiven, QuietCalled
  <2>1. Reported /\ todo = {} /\ code # ExitThreshold
    BY DEF Reported, IInv, TodoOK, AfterParse, ExitOK, ExitThreshold
  <2>2. \A p \in Path : read[p] \notin Risky
    BY <2>1 DEF IInv, ExceededOK, CodeOK, TypeOK
  <2>3. /\ \A p \in QuietInputs : read[p] = before[p] /\ before[p] \in Parses
        /\ \A p \in QuietCalled : read[p] = before[p]
    BY <2>1 DEF IInv, CoveredOK, GivenOK, ResolvedOK, AfterRewalk, AfterFindings, AfterResolve, QuietInputs
  <2>4. QuietInputs \subseteq Path \ touched
    BY QuietOnes DEF QuietInputs
  <2>5. \A p \in QuietCalled : p \in Path \ touched
    BY ContentAssumption, ChoiceAssumption DEF QuietCalled, Called, Quiet
  <2>6. \A p \in Path \ touched : Quiet[p] = before[p]
    BY DEF Quiet
  <2>7. QED  BY <2>2, <2>3, <2>4, <2>5, <2>6
<1>2. QED  BY <1>1, Invariance, PTL

\* The exit code, the report at the destination and what was read agree.
THEOREM ReportAgrees == Spec => []ReportMatchesCode
<1>1. TypeOK /\ IInv => ReportMatchesCode
  BY DEF IInv, ExceededOK, CodeOK, Reported, ReportMatchesCode, Rendered
<1>2. QED  BY <1>1, Invariance, PTL

\* A scan changes nothing but its destination, and no input that it protects.
THEOREM OnlyReport == Spec => []OnlyTheReportChanges
<1>1. IInv => OnlyTheReportChanges
  BY DEF IInv
<1>2. QED  BY <1>1, Invariance, PTL

-----------------------------------------------------------------------------
(* The outputs of the Action.  When nobody else writes, what a scan reads  *)
(* is a function of the options and of the files it began with.            *)

ConfigOf(o, f) ==
  IF o.config # None THEN o.config ELSE IF f[Config] # Absent THEN Config ELSE None
SettingsOf(o, f) ==
  Override(o, IF ConfigOf(o, f) = None THEN Default ELSE Settings[f[ConfigOf(o, f)]])
Looked(o, f) == Find(f, SettingsOf(o, f))
Roots(o, f) == Looked(o, f) \cup ({o.gitleaks} \ {None})

\* A scan fails unless all this parses.
ConfigParses(o, f) == ConfigOf(o, f) # None => f[ConfigOf(o, f)] \in Parses
RootsParse(o, f) == \A p \in Roots(o, f) : f[p] \in Parses

Base(o, f) == [p \in Path |-> IF p \in Roots(o, f) THEN f[p] ELSE Absent]
Sources(r) == {p \in Path : r[p] # Absent}
Seen(r, f) == [p \in Path |-> IF p \in Sources(r) THEN r[p] ELSE f[p]]
Resolved(r, f) ==
  [p \in Path |-> IF p \in Called(Sources(r), Seen(r, f)) THEN Seen(r, f)[p] ELSE r[p]]
Readings(o, f) == Resolved(Base(o, f), f)

\* Replacing files that only a report may have changed changes nothing that is called.
LEMMA CalledAlike ==
  ASSUME NEW R \in SUBSET Path, NEW f \in Snapshot, NEW g,
         \A p \in Path : g[p] = f[p] \/ (p \notin R /\ g[p] \in Report /\ Kind[p] = "other")
  PROVE  Called(R, g) = Called(R, f)
<1>1. \A p \in Path : g[p] \in Parses => f[p] = g[p]
  BY ContentAssumption, DataAssumption
<1>2. Called(R, g) \subseteq Called(R, f)
  BY <1>1, CalledGrows
<1>3. ASSUME NEW m \in Called(R, f) PROVE m \in Called(R, g)
  <2>1. /\ m \in Path /\ Kind[m] = "metadata" /\ f[m] \in Parses
        /\ \A S \in SUBSET Path : R \subseteq S /\ Closed(S, f) => m \in S
    BY DEF Called
  <2>2. ASSUME NEW S \in SUBSET Path, R \subseteq S, Closed(S, g) PROVE m \in S
    <3> DEFINE U == {p \in S : g[p] = f[p]}
    <3>1. R \subseteq U
      BY <2>2
    <3>2. Closed(U, f)
      <4> SUFFICES ASSUME NEW p \in U, f[p] \in Parses, NEW q \in Calls[f[p]] PROVE q \in U
        BY DEF Closed
      <4>1. q \in S
        BY <2>2 DEF Closed
      <4>2. Kind[q] = "metadata"
        BY ContentAssumption, DataAssumption
      <4>3. QED  BY <4>1, <4>2
    <3>3. QED  BY <2>1, <3>1, <3>2
  <2>3. g[m] = f[m]
    BY <2>1
  <2>4. QED  BY <2>1, <2>2, <2>3 DEF Called
<1>4. QED  BY <1>2, <1>3

LEMMA ResolvedAlike ==
  ASSUME NEW r \in Snapshot, NEW f \in Snapshot, NEW g,
         \A p \in Path : g[p] = f[p] \/ (r[p] = Absent /\ g[p] \in Report /\ Kind[p] = "other")
  PROVE  Resolved(r, g) = Resolved(r, f)
<1> DEFINE R == Sources(r)
<1>1. R \in SUBSET Path /\ Seen(r, f) \in Snapshot
  BY DEF Sources, Seen, Snapshot
<1>2. \A p \in Path : \/ Seen(r, g)[p] = Seen(r, f)[p]
                      \/ p \notin R /\ Seen(r, g)[p] \in Report /\ Kind[p] = "other"
  BY DEF Seen, Sources
<1>3. Called(R, Seen(r, g)) = Called(R, Seen(r, f))
  <2> HIDE DEF R
  <2>1. QED  BY <1>1, <1>2, CalledAlike
<1>4. \A p \in Called(R, Seen(r, f)) : p \in Path /\ Seen(r, g)[p] = Seen(r, f)[p]
  BY <1>2 DEF Called
<1>5. QED  BY <1>3, <1>4 DEF Resolved

\* The summary scan, on the files the primary scan began with and its report, reads
\* what the primary scan read.
LEMMA SameReadings ==
  ASSUME NEW o \in Option, NEW f \in Snapshot, NEW g,
         \A p \in Path : g[p] = f[p] \/ (g[p] \in Report /\ Kind[p] = "other"),
         RootsParse(o, f),
         ConfigParses(SummaryArguments(o), g), RootsParse(SummaryArguments(o), g)
  PROVE  Readings(SummaryArguments(o), g) = Readings(o, f)
<1> DEFINE s == SummaryArguments(o)
<1>1. /\ s.config = o.config /\ s.gitleaks = o.gitleaks
      /\ s.patterns = o.patterns /\ s.covers = o.covers
  BY DEF SummaryArguments, Option
<1>2. \A p \in Path : g[p] \in Parses \cup {Absent} => g[p] = f[p]
  BY ContentAssumption, DataAssumption
<1>3. /\ ConfigOf(s, g) = ConfigOf(o, f)
      /\ ConfigOf(s, g) # None => ConfigOf(s, g) \in Path /\ g[ConfigOf(s, g)] = f[ConfigOf(s, g)]
  BY <1>1, <1>2, PathAssumption DEF ConfigOf, ConfigParses, Option
<1>4. PICK t : t = IF ConfigOf(o, f) = None THEN Default ELSE Settings[f[ConfigOf(o, f)]]
  OBVIOUS
<1>5. SettingsOf(s, g) = Override(s, t) /\ SettingsOf(o, f) = Override(o, t)
  BY <1>3, <1>4 DEF SettingsOf
<1>6. Override(s, t).covers = Override(o, t).covers /\ Override(o, t).covers \subseteq Path
  <2>1. t \in Setting
    BY <1>3, <1>4, ContentAssumption DEF ConfigParses
  <2>2. Override(o, t).covers = IF o.patterns THEN o.covers ELSE t.covers
    BY <2>1 DEF Override, Setting
  <2>3. Override(s, t).covers = IF s.patterns THEN s.covers ELSE t.covers
    BY <2>1 DEF Override, Setting
  <2>4. QED  BY <1>1, <2>1, <2>2, <2>3 DEF Option, Setting
<1>7. Looked(s, g) = Looked(o, f)
  <2>1. \A p \in Override(o, t).covers : Kind[p] = "input" => g[p] = f[p]
    BY <1>6
  <2>2. QED  BY <1>5, <1>6, <2>1 DEF Looked, Find
<1>8. Roots(s, g) = Roots(o, f)
  BY <1>1, <1>7 DEF Roots
<1>9. \A p \in Roots(o, f) : g[p] \in Parses
  BY <1>8 DEF RootsParse
<1>10. Base(s, g) = Base(o, f) /\ Base(o, f) \in Snapshot
  <2>1. \A p \in Path : p \in Roots(o, f) => g[p] = f[p]
    BY <1>2, <1>9
  <2>2. QED  BY <1>8, <2>1 DEF Base, Snapshot
<1>11. \A p \in Path :
         g[p] = f[p] \/ (Base(o, f)[p] = Absent /\ g[p] \in Report /\ Kind[p] = "other")
  BY <1>2, <1>9 DEF Base
<1>12. Resolved(Base(o, f), g) = Resolved(Base(o, f), f)
  BY <1>10, <1>11, ResolvedAlike
<1>13. QED  BY <1>10, <1>12 DEF Readings

\* How far an undisturbed scan has come.
ScanQuiet ==
  /\ touched = {}
  /\ pc \in Phases => disk = before
  /\ pc \in Phases \ {"configure"} \/ Reported =>
       settings = SettingsOf(options, before) /\ ConfigParses(options, before)
  /\ pc \in {"configure", "walk", "gitleaks", "rewalk"} => read = Nothing
  /\ pc = "parse" => todo \subseteq Looked(options, before)
  /\ pc \in {"parse", "findings"} =>
       \A p \in Path : IF p \in Looked(options, before) /\ (p \in todo => pc = "findings")
                       THEN read[p] = before[p] /\ before[p] \in Parses
                       ELSE read[p] = Absent
  /\ pc = "resolve" => read = Base(options, before)
  /\ AfterResolve => read = Readings(options, before)
  /\ pc = "resolve" \/ AfterResolve => RootsParse(options, before)
  /\ Reported =>
       disk = IF settings.output = None THEN before ELSE [before EXCEPT ![settings.output] = Rendered]

\* The files that a primary scan with these options and this report may have left.
Published(f, o, report) ==
  \E old \in Snapshot :
    /\ ConfigParses(o, old) /\ RootsParse(o, old)
    /\ report \in Report /\ report.about = Readings(o, old)
    /\ \A p \in Path : f[p] \in {old[p], report}

\* What the summary scan read of them.
Summarised(f, o, report, outputs) ==
  /\ Published(f, o, report)
  /\ ConfigParses(SummaryArguments(o), f) /\ RootsParse(SummaryArguments(o), f)
  /\ outputs.about = Readings(SummaryArguments(o), f)

\* How far an undisturbed Action has come.
RunnerQuiet ==
  /\ (runner = "off" /\ pc = "idle") \/ runner = "prepare" => disk \in Snapshot
  /\ runner = "prepare" => pc = "idle"
  /\ runner = "primary" => before \in Snapshot /\ options = request /\ pc # "idle"
  /\ runner = "summary" =>
       options = SummaryArguments(request) /\ Published(before, request, primaryReport)
  /\ runner \in {"outputs", "ended"} => pc \notin Phases
  /\ summary # None =>
       runner \in {"outputs", "ended"} /\ Summarised(disk, request, primaryReport, summary)

Undisturbed == edits = 0 => ScanQuiet /\ RunnerQuiet

\* These speak of the scan as it began.
LEMMA SameBegin ==
  ASSUME options' = options, before' = before
  PROVE  /\ SettingsOf(options, before)' = SettingsOf(options, before)
         /\ (ConfigParses(options, before)' <=> ConfigParses(options, before))
         /\ Looked(options, before)' = Looked(options, before)
         /\ Base(options, before)' = Base(options, before)
         /\ (RootsParse(options, before)' <=> RootsParse(options, before))
         /\ Readings(options, before)' = Readings(options, before)
OBVIOUS

\* A scan that ends without a report.
LEMMA QuietEnd ==
  ASSUME ScanQuiet, pc' = "ended", code' \notin {ExitOK, ExitThreshold}, touched' = touched
  PROVE  ScanQuiet'
BY DEF ScanQuiet, Phases, Reported, AfterResolve

LEMMA QuietBegin ==
  ASSUME NEW o, Begin(o), disk' = disk
  PROVE  ScanQuiet'
BY DEF ScanQuiet, Begin, Phases, Reported, AfterResolve

LEMMA QuietConfigure ==
  ASSUME TypeOK, ScanQuiet, pc = "configure", ConfigPath # None => disk[ConfigPath] \in Parses,
         settings' = Override(options,
             IF ConfigPath = None THEN Default ELSE Settings[disk[ConfigPath]]),
         pc' = "walk", UNCHANGED <<disk, options, read, before, touched>>
  PROVE  ScanQuiet'
<1>1. disk = before /\ read = Nothing
  BY DEF ScanQuiet, Phases
<1>2. ConfigPath = ConfigOf(options, before)
  BY <1>1 DEF ConfigPath, ConfigOf
<1>3. settings' = SettingsOf(options, before) /\ ConfigParses(options, before)
  BY <1>1, <1>2 DEF SettingsOf, ConfigParses
<1>4. settings' = SettingsOf(options, before)' /\ ConfigParses(options, before)'
  BY <1>3, SameBegin
<1>5. Nothing' = Nothing
  BY DEF Nothing
<1>6. QED  BY <1>1, <1>4, <1>5 DEF ScanQuiet, Phases, Reported, AfterResolve

\* The walks only move on.
LEMMA QuietWalks ==
  ASSUME ScanQuiet, pc \in {"walk", "gitleaks"}, pc' \in {"gitleaks", "rewalk"},
         UNCHANGED <<disk, options, settings, read, before, touched>>
  PROVE  ScanQuiet'
<1>1. Nothing' = Nothing
  BY DEF Nothing
<1>2. QED  BY <1>1, SameBegin DEF ScanQuiet, Phases, Reported, AfterResolve

LEMMA QuietRewalk ==
  ASSUME TypeOK, ScanQuiet, pc = "rewalk", todo' = Find(disk, settings), pc' = "parse",
         UNCHANGED <<disk, options, settings, read, before, touched>>
  PROVE  ScanQuiet'
<1>1. disk = before /\ read = Nothing /\ settings = SettingsOf(options, before)
  BY DEF ScanQuiet, Phases
<1>2. todo' = Looked(options, before)
  BY <1>1 DEF Looked
<1>3. PICK L : L = Looked(options, before) /\ L = Looked(options, before)'
  BY SameBegin
<1>4. todo' = L /\ \A p \in Path : read'[p] = Absent
  BY <1>1, <1>2, <1>3 DEF Nothing
<1>5. ConfigParses(options, before)' /\ settings' = SettingsOf(options, before)'
  BY <1>1, SameBegin DEF ScanQuiet, Phases
<1>6. QED  BY <1>1, <1>3, <1>4, <1>5 DEF ScanQuiet, Phases, Reported, AfterResolve

LEMMA QuietParse ==
  ASSUME TypeOK, ScanQuiet, pc = "parse", NEW p \in todo, disk[p] \in Parses,
         read' = [read EXCEPT ![p] = disk[p]], todo' = todo \ {p},
         UNCHANGED <<disk, pc, options, settings, before, touched>>
  PROVE  ScanQuiet'
<1>1. disk = before
  BY DEF ScanQuiet, Phases
<1>2. PICK L : L = Looked(options, before) /\ L = Looked(options, before)'
  BY SameBegin
<1>3. todo \subseteq L
  BY <1>2 DEF ScanQuiet
<1>4. \A q \in Path : IF q \in L /\ q \notin todo
                      THEN read[q] = before[q] /\ before[q] \in Parses ELSE read[q] = Absent
  BY <1>2 DEF ScanQuiet
<1>5. ASSUME NEW q \in Path
      PROVE  IF q \in L /\ q \notin todo'
             THEN read'[q] = before[q] /\ before[q] \in Parses ELSE read'[q] = Absent
  BY <1>1, <1>3, <1>4 DEF TypeOK, Snapshot
<1>6. ConfigParses(options, before)' /\ settings' = SettingsOf(options, before)'
  BY SameBegin DEF ScanQuiet, Phases
<1>7. QED  BY <1>1, <1>2, <1>3, <1>5, <1>6 DEF ScanQuiet, Phases, Reported, AfterResolve

LEMMA QuietParsed ==
  ASSUME TypeOK, ScanQuiet, pc = "parse", todo = {}, pc' = "findings",
         UNCHANGED <<disk, options, settings, todo, read, before, touched>>
  PROVE  ScanQuiet'
<1>1. PICK L : L = Looked(options, before) /\ L = Looked(options, before)'
  BY SameBegin
<1>2. \A q \in Path : IF q \in L THEN read[q] = before[q] /\ before[q] \in Parses ELSE read[q] = Absent
  BY <1>1 DEF ScanQuiet
<1>3. ConfigParses(options, before)' /\ settings' = SettingsOf(options, before)' /\ disk = before
  BY SameBegin DEF ScanQuiet, Phases
<1>4. QED  BY <1>1, <1>2, <1>3 DEF ScanQuiet, Phases, Reported, AfterResolve

LEMMA QuietFindings ==
  ASSUME TypeOK, ScanQuiet, pc = "findings", pc' = "resolve",
         UNCHANGED <<disk, options, settings, before, touched>>,
         \/ options.gitleaks = None /\ read' = read
         \/ /\ options.gitleaks # None /\ disk[options.gitleaks] \in Parses
            /\ read' = [read EXCEPT ![options.gitleaks] = disk[options.gitleaks]]
  PROVE  ScanQuiet'
<1>1. PICK L : L = Looked(options, before)
  OBVIOUS
<1>2. \A q \in Path : IF q \in L THEN read[q] = before[q] /\ before[q] \in Parses ELSE read[q] = Absent
  BY <1>1 DEF ScanQuiet
<1>3. ConfigParses(options, before)' /\ settings' = SettingsOf(options, before)' /\ disk = before
  BY SameBegin DEF ScanQuiet, Phases
<1>4. PICK G : G = {options.gitleaks} \ {None}
  OBVIOUS
<1>5. /\ \A q \in G : before[q] \in Parses
      /\ \A q \in Path : read'[q] = IF q \in G THEN before[q] ELSE read[q]
      /\ read' \in [Path -> Content \cup {Absent}]
  BY <1>3, <1>4, ContentAssumption DEF TypeOK, Option, Snapshot
<1>6. \A q \in Path : /\ read'[q] = IF q \in L \cup G THEN before[q] ELSE Absent
                      /\ q \in L \cup G => before[q] \in Parses
  BY <1>2, <1>5
<1>7. Roots(options, before) = L \cup G
  BY <1>1, <1>4 DEF Roots
<1>8. L \subseteq Path /\ G \subseteq Path
  <2>1. settings = SettingsOf(options, before)
    BY DEF ScanQuiet, Phases
  <2>2. QED  BY <1>1, <1>4, <2>1 DEF Looked, Find, TypeOK, Setting, Option
<1>9. read' = Base(options, before) /\ RootsParse(options, before)
  BY <1>5, <1>6, <1>7, <1>8 DEF Base, RootsParse
<1>10. read' = Base(options, before)' /\ RootsParse(options, before)'
  BY <1>9, SameBegin
<1>11. QED  BY <1>3, <1>10 DEF ScanQuiet, Phases, Reported, AfterResolve

LEMMA QuietResolve ==
  ASSUME TypeOK, ScanQuiet, Resolve
  PROVE  ScanQuiet'
<1>1. disk = before /\ read = Base(options, before) /\ RootsParse(options, before)
  BY DEF ScanQuiet, Phases, Resolve, Step
<1>2. read' = Resolved(read, disk)
  BY DEF Resolve, Resolved, Sources, Seen
<1>3. read' = Readings(options, before)
  BY <1>1, <1>2 DEF Readings
<1>4. /\ pc = "resolve" /\ pc' = "analyze"
      /\ UNCHANGED <<disk, options, settings, before, touched>>
  BY DEF Resolve, Step
<1>5. /\ ConfigParses(options, before)' /\ settings' = SettingsOf(options, before)'
      /\ read' = Readings(options, before)' /\ RootsParse(options, before)'
  BY <1>1, <1>3, <1>4, SameBegin DEF ScanQuiet, Phases
<1>6. QED  BY <1>1, <1>4, <1>5 DEF ScanQuiet, Phases, Reported, AfterResolve

LEMMA QuietAnalyze ==
  ASSUME ScanQuiet, pc = "analyze", pc' = "publish",
         UNCHANGED <<disk, options, settings, read, before, touched>>
  PROVE  ScanQuiet'
<1>1. /\ ConfigParses(options, before)' /\ settings' = SettingsOf(options, before)'
      /\ read' = Readings(options, before)' /\ RootsParse(options, before)' /\ disk = before
  BY SameBegin DEF ScanQuiet, Phases, AfterResolve
<1>2. QED  BY <1>1 DEF ScanQuiet, Phases, Reported, AfterResolve

LEMMA QuietPublish ==
  ASSUME ScanQuiet, pc = "publish",
         disk' = IF settings.output = None THEN disk ELSE [disk EXCEPT ![settings.output] = Rendered],
         pc' = "ended", UNCHANGED <<touched, options, settings, read, exceeded, before>>
  PROVE  ScanQuiet'
<1>1. /\ ConfigParses(options, before)' /\ settings' = SettingsOf(options, before)'
      /\ read' = Readings(options, before)' /\ RootsParse(options, before)' /\ disk = before
  BY SameBegin DEF ScanQuiet, Phases, AfterResolve
<1>2. Rendered' = Rendered
  BY DEF Rendered
<1>3. QED  BY <1>1, <1>2 DEF ScanQuiet, Phases

LEMMA QuietStep ==
  ASSUME TypeOK, ScanQuiet, ScanStep
  PROVE  ScanQuiet'
<1>1. UNCHANGED <<place, touched>>
  BY DEF ScanStep, Configure, Walk, ResolveGitleaks, Rewalk, Parse, Parsed, Findings, Resolve,
         Analyze, Publish, Kill, Step
<1>2. ASSUME NEW c \in {ExitUsage, ExitMalformedInput, ExitInternal, Signalled},
             Fail(c) \/ BreakOff(settings.output, c)
      PROVE  ScanQuiet'
  <2>1. pc' = "ended" /\ code' \notin {ExitOK, ExitThreshold}
    BY <1>2 DEF Fail, BreakOff, End, ExitOK, ExitThreshold, ExitUsage, ExitMalformedInput, ExitInternal, Signalled
  <2>2. QED  BY <1>1, <2>1, QuietEnd
<1>3. CASE Configure
  BY <1>1, <1>2, <1>3, QuietConfigure DEF Configure, Step
<1>4. CASE Walk
  BY <1>1, <1>2, <1>4, QuietWalks DEF Walk, Step
<1>5. CASE ResolveGitleaks
  BY <1>1, <1>2, <1>5, QuietWalks DEF ResolveGitleaks, Step
<1>6. CASE Rewalk
  BY <1>1, <1>2, <1>6, QuietRewalk DEF Rewalk, Step
<1>7. CASE Parse
  BY <1>1, <1>2, <1>7, QuietParse DEF Parse, Step
<1>8. CASE Parsed
  BY <1>1, <1>8, QuietParsed DEF Parsed, Step
<1>9. CASE Findings
  BY <1>1, <1>2, <1>9, QuietFindings DEF Findings, Step
<1>10. CASE Resolve
  BY <1>10, QuietResolve
<1>11. CASE Analyze
  BY <1>1, <1>2, <1>11, QuietAnalyze DEF Analyze, Step
<1>12. CASE Publish
  BY <1>1, <1>2, <1>12, QuietPublish DEF Publish, Step, End
<1>13. CASE Kill
  BY <1>2, <1>13 DEF Kill
<1>14. QED
  BY <1>3, <1>4, <1>5, <1>6, <1>7, <1>8, <1>9, <1>10, <1>11, <1>12, <1>13 DEF ScanStep

LEMMA QuietIdle ==
  ASSUME ScanQuiet, UNCHANGED <<disk, scan, touched>>
  PROVE  ScanQuiet'
<1>1. Nothing' = Nothing /\ Rendered' = Rendered
  BY DEF Nothing, Rendered, scan
<1>2. options' = options /\ before' = before
  BY DEF scan
<1>3. QED  BY <1>1, <1>2, SameBegin DEF ScanQuiet, scan, Reported, AfterResolve

\* A scan keeps what it was asked to do, and what it began with.
LEMMA RunnerStep ==
  ASSUME RunnerQuiet, ScanStep
  PROVE  RunnerQuiet'
<1>1. /\ pc \in Phases /\ pc' # "idle"
      /\ UNCHANGED <<action, options, before>>
  <2> USE DEF Phases
  <2>1. CASE Configure \/ Walk \/ ResolveGitleaks \/ Rewalk
    BY <2>1 DEF Configure, Walk, ResolveGitleaks, Rewalk, Step, Fail, End
  <2>2. CASE Parse \/ Parsed \/ Findings \/ Resolve \/ Analyze
    BY <2>2 DEF Parse, Parsed, Findings, Resolve, Analyze, Step, Fail, End
  <2>3. CASE Publish \/ Kill
    BY <2>3 DEF Publish, Kill, Step, Fail, BreakOff, End
  <2>4. QED  BY <2>1, <2>2, <2>3 DEF ScanStep
<1>2. pc # "idle"
  BY <1>1 DEF Phases
<1>3. summary = None
  BY <1>1 DEF RunnerQuiet
<1>4. QED  BY <1>1, <1>2, <1>3 DEF RunnerQuiet, action

\* The primary scan published the report that the Action takes it to have published.
LEMMA PrimaryPublished ==
  ASSUME TypeOK, ScanQuiet, runner = "primary", RunnerQuiet, Reported
  PROVE  Published(disk, request, Rendered)
<1>1. /\ before \in Snapshot /\ options = request /\ Rendered \in Report
      /\ ConfigParses(request, before) /\ RootsParse(request, before)
      /\ Rendered.about = Readings(request, before)
  BY RenderedType DEF RunnerQuiet, ScanQuiet, AfterResolve, Rendered
<1>2. \A p \in Path : disk[p] \in {before[p], Rendered}
  BY <1>1 DEF ScanQuiet, TypeOK
<1>3. QED  BY <1>1, <1>2 DEF Published

\* The summary scan has left the files alone.
LEMMA SummaryDone ==
  ASSUME TypeOK, ScanQuiet, runner = "summary", RunnerQuiet, Reported
  PROVE  Summarised(disk, request, primaryReport, Rendered)
<1>1. PICK s : s = SummaryArguments(request)
  OBVIOUS
<1>2. /\ options = s /\ Published(before, request, primaryReport)
      /\ ConfigParses(s, before) /\ RootsParse(s, before)
      /\ Rendered.about = Readings(s, before)
  BY <1>1 DEF RunnerQuiet, ScanQuiet, AfterResolve, Rendered
<1>3. settings.output = None
  <2>1. s.output = None
    BY <1>1 DEF SummaryArguments, TypeOK, Option
  <2>2. PICK t : settings = Override(s, t) /\ t \in Setting
    BY <1>2, ContentAssumption DEF ScanQuiet, SettingsOf, ConfigParses
  <2>3. QED  BY <2>1, <2>2, ChoiceAssumption DEF Override, Setting
<1>4. disk = before
  BY <1>3 DEF ScanQuiet
<1>5. QED  BY <1>1, <1>2, <1>4 DEF Summarised

LEMMA UndisturbedStep ==
  ASSUME TypeOK, Undisturbed, [Next]_vars
  PROVE  Undisturbed'
<1>1. CASE Edit
  <2>1. edits' # 0
    BY <1>1 DEF Edit, TypeOK
  <2>2. QED  BY <2>1 DEF Undisturbed
<1>2. CASE ~Edit
  <2>1. edits' = edits
    BY <1>2 DEF Next, ScanStep, Configure, Walk, ResolveGitleaks, Rewalk, Parse, Parsed, Findings, Resolve,
         Analyze, Publish, Kill, Step, UserScan, StartAction, Prepare, AfterPrimary, AfterSummary,
         AppendOutputs, vars
  <2> SUFFICES ASSUME ScanQuiet, RunnerQuiet PROVE ScanQuiet' /\ RunnerQuiet'
    BY <2>1 DEF Undisturbed
  <2>2. CASE ScanStep
    BY <2>2, QuietStep, RunnerStep
  <2>3. CASE UserScan
    <3>1. ScanQuiet'
      BY <2>3, QuietBegin DEF UserScan
    <3>2. pc' = "configure" /\ runner = "off" /\ UNCHANGED action
      BY <2>3 DEF UserScan, Begin
    <3>3. QED  BY <3>1, <3>2 DEF RunnerQuiet, action
  <2>4. CASE StartAction
    <3>1. ScanQuiet'
      BY <2>4, QuietIdle DEF StartAction
    <3>2. /\ runner = "off" /\ pc = "idle" /\ runner' = "prepare"
          /\ UNCHANGED <<disk, pc, summary>>
      BY <2>4 DEF StartAction, scan
    <3>3. QED  BY <3>1, <3>2 DEF RunnerQuiet
  <2>5. CASE Prepare
    <3>1. CASE Begin(request) /\ runner' = "primary" /\ UNCHANGED <<disk, request, summary>>
      <4>1. ScanQuiet'
        BY <3>1, QuietBegin
      <4>2. before' = disk /\ options' = request /\ pc' = "configure" /\ runner = "prepare"
        BY <2>5, <3>1 DEF Begin, Prepare
      <4>3. QED  BY <3>1, <4>1, <4>2 DEF RunnerQuiet
    <3>2. CASE runner' = "ended" /\ UNCHANGED <<disk, scan, touched, summary>>
      <4>1. ScanQuiet'
        BY <3>2, QuietIdle
      <4>2. runner = "prepare" /\ pc' = pc
        BY <2>5, <3>2 DEF Prepare, scan
      <4>3. QED  BY <3>2, <4>1, <4>2 DEF RunnerQuiet, Phases
    <3>3. QED  BY <2>5, <3>1, <3>2 DEF Prepare, EndAction
  <2>6. CASE AfterPrimary
    <3>1. /\ runner = "primary" /\ pc = "ended" /\ summary = None
          /\ UNCHANGED <<disk, request, summary>>
      BY <2>6 DEF AfterPrimary, RunnerQuiet
    <3>2. CASE Reported
      <4>1. Begin(SummaryArguments(request)) /\ runner' = "summary" /\ primaryReport' = Rendered
        BY <2>6, <3>2 DEF AfterPrimary, Reported
      <4>2. ScanQuiet'
        BY <3>1, <4>1, QuietBegin
      <4>3. /\ before' = disk /\ options' = SummaryArguments(request)
        BY <4>1 DEF Begin
      <4>4. Published(disk, request, Rendered)
        BY <3>1, <3>2, PrimaryPublished
      <4>5. PICK r, o : /\ r = primaryReport' /\ o = SummaryArguments(request)
                        /\ Published(disk, request, r)
        BY <4>1, <4>4
      <4>6. options' = SummaryArguments(request)' /\ Published(before, request, primaryReport)'
        BY <3>1, <4>3, <4>5
      <4>7. QED  BY <3>1, <4>1, <4>2, <4>6 DEF RunnerQuiet
    <3>3. CASE ~Reported
      <4>1. runner' = "outputs" /\ UNCHANGED <<scan, touched>>
        BY <2>6, <3>1, <3>3 DEF AfterPrimary, Reported
      <4>2. ScanQuiet' /\ pc' = "ended"
        BY <3>1, <4>1, QuietIdle DEF scan
      <4>3. QED  BY <3>1, <4>1, <4>2 DEF RunnerQuiet, Phases
    <3>4. QED  BY <3>2, <3>3
  <2>7. CASE AfterSummary
    <3>1. /\ runner = "summary" /\ pc = "ended" /\ pc' = pc /\ runner' = "outputs"
          /\ UNCHANGED <<disk, scan, touched, request, primaryReport>>
      BY <2>7 DEF AfterSummary, scan
    <3>2. ScanQuiet'
      BY <3>1, QuietIdle
    <3>3. CASE summary' = None
      BY <3>1, <3>2, <3>3 DEF RunnerQuiet, Phases
    <3>4. CASE code = ExitOK /\ summary' = Rendered
      <4>1. Summarised(disk, request, primaryReport, Rendered)
        BY <3>1, <3>4, SummaryDone DEF Reported
      <4>2. PICK u : u = summary' /\ Summarised(disk, request, primaryReport, u)
        BY <3>4, <4>1
      <4>3. Summarised(disk, request, primaryReport, summary)'
        BY <3>1, <4>2
      <4>4. QED  BY <3>1, <3>2, <4>3 DEF RunnerQuiet, Phases
    <3>5. QED  BY <2>7, <3>3, <3>4 DEF AfterSummary
  <2>8. CASE AppendOutputs
    <3>1. /\ runner = "outputs" /\ runner' = "ended"
          /\ UNCHANGED <<disk, scan, touched, request, primaryReport, summary>>
      BY <2>8 DEF AppendOutputs, EndAction
    <3>2. ScanQuiet' /\ pc' = pc
      BY <3>1, QuietIdle DEF scan
    <3>3. summary # None => Summarised(disk, request, primaryReport, summary)'
      BY <3>1 DEF RunnerQuiet
    <3>4. QED  BY <3>1, <3>2, <3>3 DEF RunnerQuiet
  <2>9. CASE UNCHANGED vars
    <3>1. ScanQuiet'
      BY <2>9, QuietIdle DEF vars
    <3>2. UNCHANGED <<disk, pc, options, before, runner, request, primaryReport, summary>>
      BY <2>9 DEF vars, scan, action
    <3>3. QED  BY <3>1, <3>2 DEF RunnerQuiet
  <2>10. QED  BY <1>2, <2>2, <2>3, <2>4, <2>5, <2>6, <2>7, <2>8, <2>9 DEF Next
<1>3. QED  BY <1>1, <1>2

LEMMA UndisturbedInit == ASSUME Init PROVE Undisturbed
<1>1. ScanQuiet
  BY DEF Init, ScanQuiet, Phases, Reported, AfterResolve
<1>2. RunnerQuiet
  BY DEF Init, RunnerQuiet
<1>3. QED  BY <1>1, <1>2 DEF Undisturbed

\* The outputs of the Action describe the report that its primary scan published,
\* and the summary scan leaves that report alone, whatever is requested, when no other
\* program interferes and the report is not written where a scan reads.
THEOREM OutputsAgree == Spec => []OutputsDescribeReport
<1>1. ASSUME TypeOK, Undisturbed PROVE OutputsDescribeReport
  <2> SUFFICES ASSUME summary # None, edits = 0,
                      \A p \in Path : Kind[p] # "other" => disk[p] \in Content \cup {Absent}
               PROVE  /\ summary.about = primaryReport.about
                      /\ \A p \in Path : disk[p] \in Content \cup {Absent, primaryReport}
    BY DEF OutputsDescribeReport
  <2>1. Summarised(disk, request, primaryReport, summary)
    BY <1>1 DEF Undisturbed, RunnerQuiet
  <2>2. PICK old \in Snapshot :
          /\ RootsParse(request, old)
          /\ primaryReport \in Report /\ primaryReport.about = Readings(request, old)
          /\ \A p \in Path : disk[p] \in {old[p], primaryReport}
    BY <2>1 DEF Summarised, Published
  <2>3. \A p \in Path : disk[p] = old[p] \/ (disk[p] \in Report /\ Kind[p] = "other")
    BY <2>2, DataAssumption
  <2>4. Readings(SummaryArguments(request), disk) = Readings(request, old)
    <3>1. /\ request \in Option
          /\ ConfigParses(SummaryArguments(request), disk)
          /\ RootsParse(SummaryArguments(request), disk)
      BY <1>1, <2>1 DEF TypeOK, Summarised
    <3>2. QED  BY <2>2, <2>3, <3>1, SameReadings
  <2>5. QED  BY <2>1, <2>2, <2>4 DEF Summarised, Snapshot
<1>2. Init => TypeOK /\ Undisturbed
  BY InitType, UndisturbedInit
<1>3. TypeOK /\ Undisturbed /\ [Next]_vars => TypeOK' /\ Undisturbed'
  BY NextType, UndisturbedStep
<1>4. QED  BY <1>1, <1>2, <1>3, PTL DEF Spec
=============================================================================
