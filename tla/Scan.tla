-------------------------------- MODULE Scan --------------------------------
(***************************************************************************)
(* One invocation of the scan command (internal/cli: runScan, with         *)
(* config.Load, Finder.Find and ResolveFile, ingest.Repository,            *)
(* analysis.Analyze and the publication of the report) and the GitHub      *)
(* Action around it (internal/actionrunner: run), which scans a second     *)
(* time for its outputs.  Other programs edit the repository meanwhile.    *)
(*                                                                         *)
(* Parsing and risk are data here: Parses and Risky say which contents     *)
(* parse and which expose a credential above the threshold.  Resolution of *)
(* composite actions is one step (CompositeResolution has its own steps),  *)
(* and so is publication (ReportPublish).  Every call that can fail for a  *)
(* reason outside the model, such as a limit or an I/O error, may fail.    *)
(***************************************************************************)
EXTENDS Naturals

CONSTANTS
  Path,       \* the files a repository may have
  Kind,       \* of a path, what discovery and the command take it for
  Rank,       \* of a path, its place in the sorted order
  Config,     \* the path of the default configuration
  Content,    \* what other programs write
  Parses, Risky,
  Calls,      \* of a content, the metadata its composite-action references name
  Settings,   \* of a content, its settings when it is read as a configuration
  Default,    \* the settings without a configuration
  Fits,       \* of a path, the contents other programs write there
  Place,      \* how a scan is invoked: see ThePlaces
  Choices,    \* the options a user may give to the command
  Absent, None, Unset,
  MaxEdits    \* bound on the edits by other programs

Setting  == [gate : BOOLEAN, output : Path \cup {None}, covers : SUBSET Path]
Option   == [config : Path \cup {None}, gitleaks : Path \cup {None},
             gate : BOOLEAN \cup {Unset}, output : Path \cup {None, Unset},
             patterns : BOOLEAN, covers : SUBSET Path]
Kinds    == {"input", "metadata", "config", "gitleaks", "other"}
\* From the root, from another directory, or from a root below a symbolic link.
ThePlaces == {"root", "elsewhere", "linked"}

ASSUME PathAssumption == Config \in Path /\ Kind \in [Path -> Kinds] /\ Rank \in [Path -> Nat]
ASSUME ContentAssumption ==
  /\ Parses \subseteq Content /\ Risky \subseteq Parses
  /\ Calls \in [Content -> SUBSET Path]
  /\ Settings \in [Content -> Setting] /\ Default \in Setting
  /\ Fits \in [Path -> SUBSET (Content \cup {Absent})]
ASSUME ChoiceAssumption ==
  /\ Place \subseteq ThePlaces /\ MaxEdits \in Nat
  /\ Choices \subseteq Option /\ Choices # {}
  /\ Absent \notin Content /\ None \notin Path /\ Unset # None /\ Unset \notin Path \cup BOOLEAN

VARIABLES
  place, disk,
  pc,         \* the phase of the scan that runs
  options, settings,
  config,     \* the configuration file used
  first,      \* the files of the first walk, and the Gitleaks report
  todo,       \* the files of the second walk that are still to be parsed
  read,       \* of each path, what the scan read there
  exceeded, code,
  runner,     \* the phase of the Action
  request,    \* the options of the Action
  primaryCode, primaryReport, actionCode,
  summary,    \* what the outputs of the Action describe
  before,     \* the disk when the running scan began
  touched,    \* what other programs wrote to since then
  edits

scan    == <<pc, options, settings, config, first, todo, read, exceeded, code, before>>
action  == <<runner, request, primaryCode, primaryReport, actionCode, summary>>
vars    == <<place, disk, scan, action, touched, edits>>

Snapshot == [Path -> Content \cup {Absent}]
Report   == [about : Snapshot, exceeded : BOOLEAN]
File     == Content \cup Report \cup {Absent}

\* No program writes a report but this one, and references name metadata only.
ASSUME DataAssumption ==
  /\ \A c \in Content \cup {Absent} : c \notin Report
  /\ \A c \in Content : \A p \in Calls[c] : Kind[p] = "metadata"

ExitOK == 0
ExitThreshold == 1
ExitUsage == 2
ExitMalformedInput == 3
ExitInternal == 4
Signalled == 255   \* ExitCode() is -1 when a signal ended the process

Phases == {"configure", "walk", "gitleaks", "rewalk", "parse", "findings", "resolve",
           "analyze", "publish"}
Nothing == [p \in Path |-> Absent]

TypeOK ==
  /\ place \in Place /\ disk \in [Path -> File] /\ before \in [Path -> File]
  /\ pc \in {"idle", "ended"} \cup Phases
  /\ options \in Option /\ settings \in Setting /\ config \in Path \cup {None}
  /\ first \subseteq Path /\ todo \subseteq Path /\ read \in Snapshot
  /\ exceeded \in BOOLEAN /\ code \in 0 .. 4 \cup {Signalled}
  /\ runner \in {"off", "prepare", "primary", "summary", "outputs", "ended"}
  /\ request \in Option
  /\ {primaryCode, actionCode} \subseteq 0 .. 4 \cup {Signalled}
  /\ {primaryReport, summary} \subseteq Report \cup {None}
  /\ touched \subseteq Path /\ edits \in 0 .. MaxEdits

-----------------------------------------------------------------------------
(* The data of a scan.  A comment that begins with FAULT marks a seeded    *)
(* mistake, which no specification uses.                                   *)

\* applyCLIOverrides: an option that was given replaces the setting.
Override(o, s) ==
  [s EXCEPT !.gate   = IF o.gate = Unset THEN @ ELSE o.gate,
            !.output = IF o.output = Unset THEN @ ELSE o.output,
            !.covers = IF o.patterns THEN o.covers ELSE @]

\* Finder.Find: the supported files that the patterns admit.
Find(files, s) == {p \in s.covers : Kind[p] = "input" /\ files[p] # Absent}

\* The metadata that the workflows read refer to, directly or through metadata.
Closed(S, files) == \A p \in S : files[p] \in Parses => Calls[files[p]] \subseteq S
\* FAULT: metadata that does not parse is kept.
CalledUnchecked(roots, files) ==
  {m \in Path : /\ Kind[m] = "metadata" /\ files[m] # Absent
                /\ \A S \in SUBSET Path : roots \subseteq S /\ Closed(S, files) => m \in S}

Called(roots, files) ==
  {m \in Path : /\ Kind[m] = "metadata" /\ files[m] \in Parses
                /\ \A S \in SUBSET Path : roots \subseteq S /\ Closed(S, files) => m \in S}

\* FAULT: the configuration is not among what must not be overwritten.
WalkedProtected(d) == d \in first /\ place # "linked"

\* WriteReportProtected compares the spelling of the destination, which is below
\* the root as it was given, with what it must not overwrite.  Walked paths are
\* below the root with its links resolved; a configuration given as an option is
\* taken to be relative to the root, although it was read from the working
\* directory.
Protected(d) ==
  \/ d \in first /\ place # "linked"
  \/ d = config /\ (options.config = None \/ place # "elsewhere")

\* FAULT: rendered before the threshold is evaluated.
RenderedEarly == [about |-> read, exceeded |-> FALSE]

\* The rendered report of the analysis.
Rendered == [about |-> read, exceeded |-> exceeded]

-----------------------------------------------------------------------------
(* A scan.                                                                 *)

Begin(o) ==
  /\ options' = o /\ pc' = "configure"
  /\ settings' = Default /\ config' = None
  /\ first' = {} /\ todo' = {} /\ read' = Nothing
  /\ exceeded' = FALSE /\ code' = ExitOK
  /\ before' = disk /\ touched' = {}

\* A scan that ends.
End(c) == pc' = "ended" /\ code' = c

Fail(c) ==
  /\ End(c)
  /\ UNCHANGED <<disk, options, settings, config, first, todo, read, exceeded, before>>

\* The environment and the Action while the scan takes a step.
Step(phase) == pc = phase /\ UNCHANGED <<place, action, touched, edits>>

\* The default configuration is used when it exists (os.Stat), and then read.
ConfigPath ==
  IF options.config # None THEN options.config
  ELSE IF disk[Config] # Absent THEN Config ELSE None

Configure ==
  /\ Step("configure")
  /\ \/ /\ ConfigPath # None => disk[ConfigPath] \in Parses
        /\ config' = ConfigPath
        /\ settings' = Override(options,
             IF ConfigPath = None THEN Default ELSE Settings[disk[ConfigPath]])
        /\ pc' = "walk"
        /\ UNCHANGED <<disk, options, first, todo, read, exceeded, code, before>>
     \/ Fail(ExitUsage)

Walk ==
  /\ Step("walk")
  /\ \/ /\ first' = Find(disk, settings) /\ pc' = "gitleaks"
        /\ UNCHANGED <<disk, options, settings, config, todo, read, exceeded, code, before>>
     \/ Fail(ExitUsage)
     \/ Fail(ExitMalformedInput)

\* ResolveFile looks at the Gitleaks report without reading it.
ResolveGitleaks ==
  /\ Step("gitleaks")
  /\ \/ /\ options.gitleaks # None => disk[options.gitleaks] # Absent
        /\ first' = first \cup ({options.gitleaks} \ {None}) /\ pc' = "rewalk"
        /\ UNCHANGED <<disk, options, settings, config, todo, read, exceeded, code, before>>
     \/ options.gitleaks # None /\ Fail(ExitMalformedInput)

\* ingest.Repository walks again and parses what this second walk found.
Rewalk ==
  /\ Step("rewalk")
  /\ \/ /\ todo' = Find(disk, settings) /\ pc' = "parse"
        /\ UNCHANGED <<disk, options, settings, config, first, read, exceeded, code, before>>
     \/ Fail(ExitMalformedInput)

Parse ==
  /\ Step("parse") /\ todo # {}
  /\ \E p \in todo :
       /\ \A q \in todo : Rank[p] <= Rank[q]
       /\ \/ /\ disk[p] \in Parses
             /\ read' = [read EXCEPT ![p] = disk[p]] /\ todo' = todo \ {p}
             /\ UNCHANGED <<disk, pc, options, settings, config, first, exceeded, code, before>>
          \/ Fail(ExitMalformedInput)

Parsed ==
  /\ Step("parse") /\ todo = {} /\ pc' = "findings"
  /\ UNCHANGED <<disk, options, settings, config, first, todo, read, exceeded, code, before>>

Findings ==
  /\ Step("findings")
  /\ \/ /\ options.gitleaks = None /\ pc' = "resolve"
        /\ UNCHANGED <<disk, options, settings, config, first, todo, read, exceeded, code, before>>
     \/ /\ options.gitleaks # None /\ disk[options.gitleaks] \in Parses
        /\ read' = [read EXCEPT ![options.gitleaks] = disk[options.gitleaks]]
        /\ pc' = "resolve"
        /\ UNCHANGED <<disk, options, settings, config, first, todo, exceeded, code, before>>
     \/ options.gitleaks # None /\ Fail(ExitMalformedInput)

\* What the workflows call is looked up on the disk; what cannot be used is
\* recorded as unresolved and ends nothing.
Resolve ==
  /\ Step("resolve")
  /\ LET sources == {p \in Path : read[p] # Absent}
         files   == [p \in Path |-> IF p \in sources THEN read[p] ELSE disk[p]]
         used    == Called(sources, files)
     IN read' = [p \in Path |-> IF p \in used THEN files[p] ELSE read[p]]
  /\ pc' = "analyze"
  /\ UNCHANGED <<disk, options, settings, config, first, todo, exceeded, code, before>>

\* FAULT: the threshold of the configuration is forgotten.
AnalyzeFlags ==
  /\ Step("analyze")
  /\ exceeded' = (options.gate = TRUE /\ \E p \in Path : read[p] \in Risky)
  /\ pc' = "publish"
  /\ UNCHANGED <<disk, options, settings, config, first, todo, read, code, before>>

\* Analyze, ThresholdExceeded, and rendering into memory.
Analyze ==
  /\ Step("analyze")
  /\ \/ /\ exceeded' = (settings.gate /\ \E p \in Path : read[p] \in Risky)
        /\ pc' = "publish"
        /\ UNCHANGED <<disk, options, settings, config, first, todo, read, code, before>>
     \/ Fail(ExitUsage)
     \/ Fail(ExitInternal)

\* A publication that breaks off may have left nothing or the new report there.
BreakOff(d, c) ==
  /\ End(c)
  /\ \E left \in {disk[d], Absent, Rendered} : disk' = [disk EXCEPT ![d] = left]
  /\ UNCHANGED <<options, settings, config, first, todo, read, exceeded, before>>

Publish ==
  /\ Step("publish")
  /\ LET d == settings.output IN
     \/ /\ d # None => ~Protected(d)
        /\ disk' = IF d = None THEN disk ELSE [disk EXCEPT ![d] = Rendered]
        /\ End(IF exceeded THEN ExitThreshold ELSE ExitOK)
        /\ UNCHANGED <<options, settings, config, first, todo, read, exceeded, before>>
     \/ d # None /\ ~Protected(d) /\ BreakOff(d, ExitInternal)
     \/ Fail(ExitInternal)

\* A signal ends the scan.
Kill ==
  /\ \E phase \in Phases : Step(phase)
  /\ \/ Fail(Signalled)
     \/ /\ pc = "publish" /\ settings.output # None /\ ~Protected(settings.output)
        /\ BreakOff(settings.output, Signalled)

ScanStep ==
  \/ Configure \/ Walk \/ ResolveGitleaks \/ Rewalk \/ Parse \/ Parsed \/ Findings
  \/ Resolve \/ Analyze \/ Publish \/ Kill

-----------------------------------------------------------------------------
(* Who scans.                                                              *)

UserScan ==
  /\ runner = "off" /\ pc = "idle"
  /\ \E o \in Choices : Begin(o)
  /\ UNCHANGED <<place, disk, action, edits>>

\* FAULT: the summary scan writes where the configuration or the flag says.
SummaryKeepsOutput(o) == [o EXCEPT !.gate = FALSE]

\* SummaryArguments: the same repository, configuration and Gitleaks report, with
\* an empty output and no threshold.  (Arguments passes on what was requested.)
SummaryArguments(o) == [o EXCEPT !.gate = FALSE, !.output = None]

\* The Action always passes a threshold, passes an output unless it is empty, and
\* never passes patterns.
StartAction ==
  /\ runner = "off" /\ pc = "idle"
  /\ \E o \in Choices : o.gate # Unset /\ o.output # None /\ ~o.patterns /\ request' = o
  /\ runner' = "prepare"
  /\ UNCHANGED <<place, disk, scan, primaryCode, primaryReport, actionCode, summary, touched, edits>>

EndAction(c) == runner' = "ended" /\ actionCode' = c

\* Inputs, directories and the build, and the start of the primary scan.
Prepare ==
  /\ runner = "prepare"
  /\ \/ /\ Begin(request) /\ runner' = "primary"
        /\ UNCHANGED <<place, disk, request, primaryCode, primaryReport, actionCode, summary, edits>>
     \/ /\ EndAction(ExitUsage)
        /\ UNCHANGED <<place, disk, scan, request, primaryCode, primaryReport, summary, touched, edits>>
     \/ /\ EndAction(ExitInternal)
        /\ UNCHANGED <<place, disk, scan, request, primaryCode, primaryReport, summary, touched, edits>>

AfterPrimary ==
  /\ runner = "primary" /\ pc = "ended"
  /\ primaryCode' = code
  /\ primaryReport' = IF code \in {ExitOK, ExitThreshold} THEN Rendered ELSE None
  /\ IF code \in {ExitOK, ExitThreshold}
     THEN Begin(SummaryArguments(request)) /\ runner' = "summary"
     ELSE runner' = "outputs" /\ UNCHANGED <<scan, touched>>
  /\ UNCHANGED <<place, disk, request, actionCode, summary, edits>>

\* Without a usable summary the outputs keep their zeros.
AfterSummary ==
  /\ runner = "summary" /\ pc = "ended"
  /\ \/ code = ExitOK /\ summary' = Rendered
     \/ summary' = None
  /\ runner' = "outputs"
  /\ UNCHANGED <<place, disk, scan, request, primaryCode, primaryReport, actionCode, touched, edits>>

AppendOutputs ==
  /\ runner = "outputs"
  /\ EndAction(primaryCode) \/ EndAction(ExitInternal)
  /\ UNCHANGED <<place, disk, scan, request, primaryCode, primaryReport, summary, touched, edits>>

\* Other programs replace, create and remove files.
Edit ==
  /\ edits < MaxEdits /\ (pc \in Phases \/ runner \in {"primary", "summary"})
  /\ \E p \in Path : \E c \in Fits[p] \ {disk[p]} :
       disk' = [disk EXCEPT ![p] = c] /\ touched' = touched \cup {p}
  /\ edits' = edits + 1
  /\ UNCHANGED <<place, scan, action>>

Init ==
  /\ place \in Place
  /\ disk \in {d \in Snapshot : \A p \in Path : d[p] \in Fits[p]}
  /\ pc = "idle" /\ options = CHOOSE o \in Choices : TRUE
  /\ request = options /\ settings = Default /\ config = None
  /\ first = {} /\ todo = {} /\ read = Nothing /\ exceeded = FALSE /\ code = ExitOK
  /\ runner = "off" /\ primaryCode = ExitOK /\ primaryReport = None
  /\ actionCode = ExitOK /\ summary = None
  /\ before = disk /\ touched = {} /\ edits = 0

Next ==
  \/ ScanStep \/ UserScan \/ StartAction \/ Prepare \/ AfterPrimary \/ AfterSummary
  \/ AppendOutputs \/ Edit

Spec == Init /\ [][Next]_vars

-----------------------------------------------------------------------------
(* Properties.                                                             *)

\* What nobody changed since the scan began.
Quiet == [p \in Path |-> IF p \in touched THEN Absent ELSE before[p]]
Given == {options.gitleaks} \ {None}

\* A scan that passes (runScan returns nil with a threshold set) has looked at
\* every input that stayed as it was: each parses, and none, nor any metadata they
\* lead to, exposes a credential, although the repository is walked twice and
\* other files come, go and change meanwhile.
PassMeansClean ==
  pc = "ended" /\ code = ExitOK /\ settings.gate =>
    LET inputs == Find(Quiet, settings) \cup (Given \ touched)
    IN /\ \A p \in inputs : Quiet[p] \in Parses
       /\ \A p \in inputs \cup Called(inputs, Quiet) : Quiet[p] \notin Risky

\* The exit code, the threshold in the report and what was read agree, and unless
\* another program replaced it the report is at the destination when the scan
\* ends with 0 or 1 (root.go: the report comes before the threshold error).
ReportMatchesCode ==
  pc = "ended" /\ code \in {ExitOK, ExitThreshold} =>
    /\ (code = ExitThreshold) = (settings.gate /\ \E p \in Path : read[p] \in Risky)
    /\ settings.output \notin touched \cup {None} =>
         disk[settings.output] = [about |-> read, exceeded |-> code = ExitThreshold]

\* A scan changes no file but its destination, only after everything was read, and
\* not a walked file or the Gitleaks report (unless the root is below a link) nor
\* the configuration (unless it was named from another directory).
OnlyTheReportChanges ==
  \A p \in Path \ touched : disk[p] # before[p] =>
    /\ pc = "ended" /\ code \in {ExitOK, ExitThreshold, ExitInternal, Signalled}
    /\ p = settings.output
    /\ place # "linked" => p \notin first
    /\ place # "elsewhere" \/ options.config = None => p # config

\* The outputs of the Action (runner.go: run) describe the report that the primary
\* scan published, and the summary scan leaves that report alone, when no other
\* program interferes and the report is not written where a scan reads.
OutputsDescribeReport ==
  /\ runner = "ended" /\ summary # None /\ edits = 0
  /\ \A p \in Path : Kind[p] # "other" => disk[p] \in Content \cup {Absent}
  => /\ summary.about = primaryReport.about
     /\ \A p \in Path : disk[p] \in Content \cup {Absent, primaryReport}

\* docs/reporting.md:13 and write.go:19-20: a report never replaces an analysis
\* input.  Here: a file that the first walk or the command line named and that was
\* then read.
ParsedInputsSurvive ==
  \A p \in Path \ touched : p \in first /\ read[p] # Absent => disk[p] = read[p]
=============================================================================
