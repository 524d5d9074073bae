---------------------------- MODULE ReportPublish ----------------------------
(***************************************************************************)
(* Writing a report (internal/safefile: WriteReportProtected from its      *)
(* ensureSafeParents call on, publish, ensureSafeParents,                  *)
(* cleanupCreatedDirectories).  Several CredScope processes write to one   *)
(* destination; every file-system call is a step of its own and may fail;  *)
(* a process may be killed between two steps, and the machine may stop,    *)
(* which tears every file whose data was not flushed.                      *)
(*                                                                         *)
(* The destination lies below the root in a chain of Parents directories,  *)
(* of which the first dirs exist.  Temporary files are the only other      *)
(* files there; their random names are taken to be distinct.  Renames are  *)
(* taken to be durable in the order in which they are made.                *)
(***************************************************************************)
EXTENDS Naturals, Sequences

CONSTANTS
  Writer,     \* processes; the report of a process is named by the process
  Previous,   \* the report at the destination before
  Other,      \* anything at the destination that is no regular file
  Absent,     \* no file
  Incomplete, \* a file without a complete report in it
  Parents

ASSUME ParentsAssumption == Parents \in Nat
ASSUME DistinctAssumption ==
  /\ Previous \notin Writer /\ Other \notin Writer
  /\ Absent \notin Writer /\ Incomplete \notin Writer
  /\ Previous # Other /\ Previous # Absent /\ Previous # Incomplete
  /\ Other # Absent /\ Other # Incomplete /\ Absent # Incomplete

VARIABLES
  replaces,   \* whether os.Rename replaces an existing file on this platform
  firstDirs, firstDest, \* dirs and dest at the beginning
  dirs,
  dest,       \* the file at the destination
  staged,     \* of each writer, its .credscope-report-* file
  backup,     \* of each writer, its .credscope-previous-* file
  flushed,    \* the reports whose data reached the disk
  pc,
  level,      \* of each writer, the parent directory it looks at
  created,    \* of each writer, the parent directories it created
  landed,     \* the writers in the order in which their reports reached dest
  erred,      \* writers for which a call failed without a reason in the model
  leaked      \* writers for which a call of the cleanup failed

start    == <<replaces, firstDirs, firstDest>>
files    == <<dest, staged, backup, flushed>>
progress == <<dirs, level, created>>
history  == <<landed, erred, leaked>>
vars     == <<start, files, progress, pc, history>>

Report == Writer \cup {Previous}
File   == Report \cup {Other, Absent, Incomplete}

Steps == {"parent", "mkdir", "recheck", "inspect", "stage", "write", "flush",
          "look", "land", "reserve", "release", "preserve", "replace", "restore", "drop"}
Ended == {"succeeded", "failed", "crashed"}
Step  == {"idle"} \cup Steps \cup {"unstage", "tidy"} \cup Ended

Init ==
  /\ replaces \in BOOLEAN
  /\ firstDirs \in 0 .. Parents
  /\ firstDest \in IF firstDirs = Parents THEN {Absent, Previous, Other} ELSE {Absent}
  /\ dirs = firstDirs
  /\ dest = firstDest
  /\ staged = [w \in Writer |-> Absent]
  /\ backup = [w \in Writer |-> Absent]
  /\ flushed = {Previous}
  /\ pc = [w \in Writer |-> "idle"]
  /\ level = [w \in Writer |-> 1]
  /\ created = [w \in Writer |-> {}]
  /\ landed = <<>>
  /\ erred = {}
  /\ leaked = {}

Goto(w, step) == pc' = [pc EXCEPT ![w] = step]

\* FAULT: a restore that fails is tried again without end.
RetryRestore(step) ==
  CASE step \in {"parent", "mkdir", "recheck", "inspect", "stage"} -> "tidy"
    [] step \in {"replace", "restore"} -> "restore"
    [] OTHER -> "unstage"

\* What the code does when the call made at a step returns an error: a staged
\* file is removed, then the directories; a failed replacement is undone first.
OnError(step) ==
  CASE step \in {"parent", "mkdir", "recheck", "inspect", "stage"} -> "tidy"
    [] step = "replace" -> "restore"
    [] OTHER -> "unstage"

CanRename(target) == replaces \/ target = Absent
-----------------------------------------------------------------------------
(***************************************************************************)
(* ensureSafeParents                                                       *)
(***************************************************************************)
\* FAULT: the last parent is not recognised.
NextParentLate(w) ==
  IF level[w] <= Parents
    THEN level' = [level EXCEPT ![w] = @ + 1] /\ Goto(w, "parent")
    ELSE Goto(w, "inspect") /\ UNCHANGED level

NextParent(w) ==
  IF level[w] < Parents
    THEN level' = [level EXCEPT ![w] = @ + 1] /\ Goto(w, "parent")
    ELSE Goto(w, "inspect") /\ UNCHANGED level

Begin(w) ==
  /\ pc[w] = "idle"
  /\ Goto(w, IF Parents = 0 THEN "inspect" ELSE "parent")
  /\ UNCHANGED <<start, files, progress, history>>

StatParent(w) ==
  /\ pc[w] = "parent"
  /\ IF dirs >= level[w] THEN NextParent(w) ELSE Goto(w, "mkdir") /\ UNCHANGED level
  /\ UNCHANGED <<start, files, dirs, created, history>>

\* A directory that exists by now is as good; one whose parent is gone fails.
Mkdir(w) ==
  /\ pc[w] = "mkdir"
  /\ IF dirs = level[w] - 1
       THEN /\ dirs' = level[w]
            /\ created' = [created EXCEPT ![w] = @ \cup {level[w]}]
       ELSE UNCHANGED <<dirs, created>>
  /\ Goto(w, IF dirs < level[w] - 1 THEN OnError("mkdir") ELSE "recheck")
  /\ UNCHANGED <<start, files, level, history>>

RestatParent(w) ==
  /\ pc[w] = "recheck"
  /\ IF dirs >= level[w] THEN NextParent(w) ELSE Goto(w, OnError("recheck")) /\ UNCHANGED level
  /\ UNCHANGED <<start, files, dirs, created, history>>

(***************************************************************************)
(* WriteReportProtected                                                    *)
(***************************************************************************)
\* FAULT: whatever is at the destination may be replaced.
UsableAlways(file) == TRUE

Usable(file) == file # Other

Inspect(w) ==
  /\ pc[w] = "inspect"
  /\ Goto(w, IF Usable(dest) THEN "stage" ELSE OnError("inspect"))
  /\ UNCHANGED <<start, files, progress, history>>

Stage(w) ==
  /\ pc[w] = "stage"
  /\ IF dirs = Parents
       THEN staged' = [staged EXCEPT ![w] = Incomplete] /\ Goto(w, "write")
       ELSE Goto(w, OnError("stage")) /\ UNCHANGED staged
  /\ UNCHANGED <<start, dest, backup, flushed, progress, history>>

\* FAULT: the write stops half way and reports no error.
WritesNothing(w) == Incomplete

Writes(w) == w

Write(w) ==
  /\ pc[w] = "write"
  /\ staged' = [staged EXCEPT ![w] = Writes(w)]
  /\ Goto(w, "flush")
  /\ UNCHANGED <<start, dest, backup, flushed, progress, history>>

\* FAULT: the staged file is not flushed.
NeverFlushes(w) == flushed

Flushes(w) == flushed \cup {w}

Flush(w) ==
  /\ pc[w] = "flush"
  /\ flushed' = Flushes(w)
  /\ Goto(w, "look")
  /\ UNCHANGED <<start, dest, staged, backup, progress, history>>

(***************************************************************************)
(* publish                                                                 *)
(***************************************************************************)
Look(w) ==
  /\ pc[w] = "look"
  /\ Goto(w, IF dest = Absent THEN "land"
             ELSE IF Usable(dest) THEN "reserve" ELSE OnError("look"))
  /\ UNCHANGED <<start, files, progress, history>>

\* The staged file is renamed to the destination.
MoveIn(w) ==
  /\ CanRename(dest)
  /\ dest' = staged[w]
  /\ staged' = [staged EXCEPT ![w] = Absent]
  /\ landed' = Append(landed, w)
  /\ UNCHANGED <<backup, flushed, erred, leaked>>

\* By now the destination may exist, and the platform refuse to replace it.
Land(w) ==
  /\ pc[w] = "land"
  /\ IF CanRename(dest) THEN MoveIn(w) /\ Goto(w, "succeeded")
     ELSE Goto(w, OnError("land")) /\ UNCHANGED <<files, history>>
  /\ UNCHANGED <<start, progress>>

Reserve(w) ==
  /\ pc[w] = "reserve"
  /\ backup' = [backup EXCEPT ![w] = Incomplete]
  /\ Goto(w, "release")
  /\ UNCHANGED <<start, dest, staged, flushed, progress, history>>

\* FAULT: the placeholder stays where the backup is to go.
KeepPlaceholder(w) == backup

NoPlaceholder(w) == [backup EXCEPT ![w] = Absent]

Release(w) ==
  /\ pc[w] = "release"
  /\ backup' = NoPlaceholder(w)
  /\ Goto(w, "preserve")
  /\ UNCHANGED <<start, dest, staged, flushed, progress, history>>

\* The placeholder could not be closed, but could be removed.
ReleaseFails(w) ==
  /\ pc[w] = "release"
  /\ backup' = [backup EXCEPT ![w] = Absent]
  /\ erred' = erred \cup {w}
  /\ Goto(w, OnError("release"))
  /\ UNCHANGED <<start, dest, staged, flushed, progress, landed, leaked>>

Preserve(w) ==
  /\ pc[w] = "preserve"
  /\ IF dest # Absent /\ CanRename(backup[w])
       THEN /\ backup' = [backup EXCEPT ![w] = dest]
            /\ dest' = Absent
            /\ Goto(w, "replace")
       ELSE Goto(w, OnError("preserve")) /\ UNCHANGED <<dest, backup>>
  /\ UNCHANGED <<start, staged, flushed, progress, history>>

Replace(w) ==
  /\ pc[w] = "replace"
  /\ IF CanRename(dest) THEN MoveIn(w) /\ Goto(w, "drop")
     ELSE Goto(w, OnError("replace")) /\ UNCHANGED <<files, history>>
  /\ UNCHANGED <<start, progress>>

\* FAULT: a failed replacement drops the previous report.
RestoreNothing(w) == dest

Restored(w) == backup[w]

Restore(w) ==
  /\ pc[w] = "restore"
  /\ IF CanRename(dest)
       THEN dest' = Restored(w) /\ backup' = [backup EXCEPT ![w] = Absent]
       ELSE UNCHANGED <<dest, backup>>
  /\ Goto(w, OnError("restore"))
  /\ UNCHANGED <<start, staged, flushed, progress, history>>

Drop(w) ==
  /\ pc[w] = "drop"
  /\ backup' = [backup EXCEPT ![w] = Absent]
  /\ Goto(w, "succeeded")
  /\ UNCHANGED <<start, dest, staged, flushed, progress, history>>
-----------------------------------------------------------------------------
(***************************************************************************)
(* The deferred cleanup of a writer that failed.                           *)
(***************************************************************************)
\* FAULT: the staged file is kept.
KeepStaged(w) == staged

Unstaged(w) == [staged EXCEPT ![w] = Absent]

Unstage(w) ==
  /\ pc[w] = "unstage"
  /\ staged' = Unstaged(w)
  /\ Goto(w, "tidy")
  /\ UNCHANGED <<start, dest, backup, flushed, progress, history>>

IsEmpty(d) ==
  IF d < Parents THEN dirs = d
  ELSE /\ dirs = d /\ dest = Absent
       /\ \A v \in Writer : staged[v] = Absent /\ backup[v] = Absent

Innermost(w, d) == d \in created[w] /\ \A c \in created[w] : c <= d

\* Directories are removed from the innermost on; one in use stays.
RemoveDirectory(w, d) ==
  /\ pc[w] = "tidy" /\ Innermost(w, d)
  /\ dirs' = IF IsEmpty(d) THEN d - 1 ELSE dirs
  /\ created' = [created EXCEPT ![w] = @ \ {d}]
  /\ UNCHANGED <<start, files, pc, level, history>>

Fail(w) ==
  /\ pc[w] = "tidy" /\ created[w] = {}
  /\ Goto(w, "failed")
  /\ UNCHANGED <<start, files, progress, history>>

\* The removal of the staged file or of a directory fails, which is ignored.
CleanupFails(w) ==
  /\ \/ pc[w] = "unstage" /\ Goto(w, "tidy") /\ UNCHANGED created
     \/ /\ pc[w] = "tidy"
        /\ \E d \in created[w] : Innermost(w, d) /\ created' = [created EXCEPT ![w] = @ \ {d}]
        /\ UNCHANGED pc
  /\ leaked' = leaked \cup {w}
  /\ UNCHANGED <<start, files, dirs, level, landed, erred>>

(***************************************************************************)
(* Failures from outside.                                                  *)
(***************************************************************************)
IOError(w) ==
  /\ pc[w] \in Steps
  /\ Goto(w, OnError(pc[w]))
  /\ erred' = erred \cup {w}
  /\ UNCHANGED <<start, files, progress, landed, leaked>>

Running == {w \in Writer : pc[w] \notin {"idle"} \cup Ended}

Crash(w) ==
  /\ w \in Running
  /\ Goto(w, "crashed")
  /\ UNCHANGED <<start, files, progress, history>>

Torn(file) == IF file \in Report \ flushed THEN Incomplete ELSE file

\* The machine stops; writers that have not begun are those started after it.
PowerLoss ==
  /\ Running # {}
  /\ pc' = [w \in Writer |-> IF w \in Running THEN "crashed" ELSE pc[w]]
  /\ dest' = Torn(dest)
  /\ staged' = [w \in Writer |-> Torn(staged[w])]
  /\ backup' = [w \in Writer |-> Torn(backup[w])]
  /\ UNCHANGED <<start, flushed, progress, history>>

Work(w) ==
  \/ StatParent(w) \/ Mkdir(w) \/ RestatParent(w)
  \/ Inspect(w) \/ Stage(w) \/ Write(w) \/ Flush(w)
  \/ Look(w) \/ Land(w) \/ Reserve(w) \/ Release(w) \/ ReleaseFails(w)
  \/ Preserve(w) \/ Replace(w) \/ Restore(w) \/ Drop(w) \/ IOError(w)
  \/ Unstage(w) \/ (\E d \in 1 .. Parents : RemoveDirectory(w, d)) \/ Fail(w) \/ CleanupFails(w)

Next ==
  \/ \E w \in Writer : Begin(w) \/ Work(w) \/ Crash(w)
  \/ PowerLoss

Spec     == Init /\ [][Next]_vars
FairSpec == Spec /\ \A w \in Writer : WF_vars(Work(w))
-----------------------------------------------------------------------------
TypeOK ==
  /\ replaces \in BOOLEAN /\ firstDirs \in 0 .. Parents /\ firstDest \in File
  /\ dirs \in 0 .. Parents
  /\ dest \in File
  /\ staged \in [Writer -> Writer \cup {Absent, Incomplete}]
  /\ backup \in [Writer -> File]
  /\ flushed \in SUBSET Report
  /\ pc \in [Writer -> Step]
  /\ level \in [Writer -> Nat]
  /\ created \in [Writer -> SUBSET (1 .. Parents)]
  /\ landed \in Seq(Writer)
  /\ erred \in SUBSET Writer /\ leaked \in SUBSET Writer

(***************************************************************************)
(* A reader of the destination finds a complete report or nothing, whatever*)
(* writers do and however they stop; what is no regular file stays there.  *)
(***************************************************************************)
DestinationIsSound ==
  /\ dest # Incomplete
  /\ dest = Other <=> firstDest = Other

(***************************************************************************)
(* The promise of ReportSlot: once there is a report, a complete one can   *)
(* always be recovered from the destination or from a backup.              *)
(***************************************************************************)
Recoverable == {r \in Report : dest = r \/ \E w \in Writer : backup[w] = r}

Outcome == [w \in Writer |-> IF pc[w] \in Ended THEN pc[w] ELSE "pending"]

Slot == INSTANCE ReportSlot WITH recoverable <- Recoverable, outcome <- Outcome

ImplementsSlot == Slot!Spec

(***************************************************************************)
(* A writer fails only for a reason: a call that failed, something at the  *)
(* destination that is no regular file, or another writer at work.         *)
(***************************************************************************)
Alone(w) == \A v \in Writer \ {w} : pc[v] = "idle"

NoSpuriousFailure ==
  \A w \in Writer : pc[w] = "failed" /\ Alone(w) => w \in erred \/ firstDest = Other

(***************************************************************************)
(* A writer that succeeded leaves no temporary file.  One that failed      *)
(* leaves no staged file unless the cleanup itself failed and, when it was *)
(* alone, no directory of its own; it leaves a backup only where another   *)
(* call failed or another report landed.                                   *)
(***************************************************************************)
LeavesNothingBehind ==
  \A w \in Writer :
    /\ pc[w] = "succeeded" => staged[w] = Absent /\ backup[w] = Absent
    /\ pc[w] = "failed" =>
         /\ w \notin leaked => staged[w] = Absent
         /\ w \notin leaked /\ Alone(w) /\ landed = <<>> => dirs = firstDirs
         /\ backup[w] # Absent => w \in erred \/ landed # <<>>

(***************************************************************************)
(* A writer that began and is not stopped from outside returns.            *)
(***************************************************************************)
WritersEnd == \A w \in Writer : pc[w] # "idle" ~> pc[w] \in Ended

(***************************************************************************)
(* The report that landed last stays until another one lands: the comment  *)
(* on publish says that it "preserves an existing report until the staged  *)
(* replacement succeeds".                                                  *)
(***************************************************************************)
LatestSurvives == landed # <<>> => landed[Len(landed)] \in Recoverable
=============================================================================
