------------------------- MODULE ReportPublishProofs -------------------------
(***************************************************************************)
(* Theorems about ReportPublish, for every set of writers, any number of   *)
(* parent directories and both kinds of platform: the destination never    *)
(* holds an incomplete file, publishing implements ReportSlot, a writer    *)
(* fails only for a reason, and it leaves nothing behind.                  *)
(***************************************************************************)
EXTENDS ReportPublish, TLAPS

\* The steps after the destination was found to be usable.
Writing    == {"stage", "write", "flush", "look", "land", "reserve", "release",
               "preserve", "replace", "restore", "drop"}
Publishing == {"look", "land", "reserve", "release", "preserve", "replace", "restore"}
NoBackup   == {"idle", "parent", "mkdir", "recheck", "inspect", "stage", "write", "flush",
               "look", "land", "reserve", "preserve"}
Unlanded   == (NoBackup \cup Publishing) \ {"restore"}

(***************************************************************************)
(* What holds of a writer at each of its steps.                            *)
(***************************************************************************)
WriterOK(w) ==
  /\ pc[w] = "idle" => level[w] = 1
  /\ pc[w] \in {"parent", "mkdir", "recheck"} => level[w] \in 1 .. Parents
  /\ pc[w] \in Writing => firstDest # Other
  /\ pc[w] \in Publishing \cup {"flush"} => staged[w] = w
  /\ pc[w] \in Publishing => w \in flushed
  /\ pc[w] \in NoBackup => backup[w] = Absent
  /\ pc[w] = "release" => backup[w] = Incomplete
  /\ pc[w] \in {"replace", "restore"} => backup[w] \in Report
  /\ pc[w] \in Unlanded => ~Slot!HasLanded(w, landed)
  /\ pc[w] = "drop" => Slot!HasLanded(w, landed)

WritersOK == \A w \in Writer : WriterOK(w)

\* Power loss tears nothing that a reader could have found.
FilesAreFlushed ==
  /\ dest \in flushed \cup {Absent, Other}
  /\ \A w \in Writer : backup[w] \in flushed \cup {Absent, Incomplete}
  /\ dest = Other <=> firstDest = Other

(***************************************************************************)
(* Before anything landed there is at most one copy of the previous report.*)
(***************************************************************************)
HasBackup(w) == backup[w] \in Report

OneCopy ==
  landed = <<>> =>
    /\ \A v, w \in Writer : HasBackup(v) /\ HasBackup(w) => v = w
    /\ \A w \in Writer : HasBackup(w) => dest \notin Report

(***************************************************************************)
(* Afterwards, a report that no writer is about to drop is at the          *)
(* destination or in a backup.                                             *)
(***************************************************************************)
Kept == dest \in Report \/ \E v \in Writer : HasBackup(v) /\ pc[v] # "drop"

Covered == landed # <<>> => Kept

IInv ==
  /\ TypeOK
  /\ WritersOK
  /\ FilesAreFlushed
  /\ OneCopy
  /\ Covered
-----------------------------------------------------------------------------
\* The invariant of a writer depends on nothing that another writer changes.
LEMMA OthersOK ==
  ASSUME NEW w \in Writer, WritersOK, WriterOK(w)', flushed \subseteq flushed',
         UNCHANGED firstDest,
         \A v \in Writer \ {w} :
           /\ pc'[v] = pc[v] /\ level'[v] = level[v]
           /\ staged'[v] = staged[v] /\ backup'[v] = backup[v]
           /\ Slot!HasLanded(v, landed') <=> Slot!HasLanded(v, landed)
  PROVE  WritersOK'
<1> SUFFICES ASSUME NEW v \in Writer, v # w PROVE WriterOK(v)'
  BY DEF WritersOK
<1>1. WriterOK(v)
  BY DEF WritersOK
<1>2. QED  BY <1>1 DEF WriterOK

\* A step of one writer that changes neither the destination nor a backup.
LEMMA Quiet ==
  ASSUME NEW w \in Writer, IInv, TypeOK', WriterOK(w)', pc'[w] # "drop",
         UNCHANGED <<firstDest, dest, landed>>, flushed \subseteq flushed',
         backup'[w] = backup[w] \/ {backup[w], backup'[w]} \subseteq {Absent, Incomplete},
         \A v \in Writer \ {w} : /\ pc'[v] = pc[v] /\ level'[v] = level[v]
                                 /\ staged'[v] = staged[v] /\ backup'[v] = backup[v]
  PROVE  IInv'
<1>1. WritersOK'
  BY OthersOK DEF IInv
<1>2. \A v \in Writer : /\ HasBackup(v)' <=> HasBackup(v)
                        /\ HasBackup(v) => backup'[v] = backup[v]
                        /\ backup'[v] \in flushed' \cup {Absent, Incomplete}
  BY DistinctAssumption DEF IInv, FilesAreFlushed, HasBackup, Report
<1>3. FilesAreFlushed' /\ OneCopy'
  BY <1>2 DEF IInv, FilesAreFlushed, OneCopy, Report
<1>4. Covered'
  BY <1>2 DEF IInv, Covered, Kept, Report
<1>5. QED  BY <1>1, <1>3, <1>4 DEF IInv

LEMMA BeginIInv == ASSUME NEW w \in Writer, IInv, Begin(w) PROVE IInv'
<1> USE DEF Begin, start, files, progress, history
<1>1. TypeOK'
  BY ParentsAssumption DEF IInv, TypeOK, Goto, OnError, Step, Steps, Ended
<1>2. WriterOK(w)'
  BY ParentsAssumption DEF IInv, TypeOK, WritersOK, WriterOK, Writing, Publishing, NoBackup, Unlanded, Goto, OnError, Steps, FilesAreFlushed, Usable
<1>3. QED  BY <1>1, <1>2, Quiet DEF IInv, TypeOK, Goto, OnError, Steps

LEMMA StatParentIInv == ASSUME NEW w \in Writer, IInv, StatParent(w) PROVE IInv'
<1> USE DEF StatParent, start, files, progress, history
<1>1. TypeOK'
  <2>1. level' \in [Writer -> Nat]
    BY DEF IInv, TypeOK, NextParent
  <2>2. pc' \in [Writer -> Step]
    BY DEF IInv, TypeOK, Goto, OnError, Step, Steps, Ended, NextParent
  <2>3. QED  BY <2>1, <2>2 DEF IInv, TypeOK
<1>2. WriterOK(w)'
  BY ParentsAssumption DEF IInv, TypeOK, WritersOK, WriterOK, Writing, Publishing, NoBackup, Unlanded, Goto, OnError, Steps, NextParent, FilesAreFlushed, Usable
<1>3. QED  BY <1>1, <1>2, Quiet DEF IInv, TypeOK, Goto, OnError, Steps, NextParent

LEMMA MkdirIInv == ASSUME NEW w \in Writer, IInv, Mkdir(w) PROVE IInv'
<1> USE DEF Mkdir, start, files, progress, history
<1>1. TypeOK'
  <2>1. level[w] \in 1 .. Parents
    BY DEF IInv, WritersOK, WriterOK
  <2>2. dirs' \in 0 .. Parents
    BY <2>1, ParentsAssumption DEF IInv, TypeOK
  <2>3. created' \in [Writer -> SUBSET (1 .. Parents)]
    <3>1. created \in [Writer -> SUBSET (1 .. Parents)]
      BY DEF IInv, TypeOK
    <3>2. created[w] \cup {level[w]} \in SUBSET (1 .. Parents)
      BY <2>1, <3>1
    <3>3. QED  BY <3>1, <3>2
  <2>4. pc' \in [Writer -> Step]
    BY DEF IInv, TypeOK, Goto, OnError, Step, Steps, Ended
  <2>5. QED  BY <2>2, <2>3, <2>4 DEF IInv, TypeOK
<1>2. WriterOK(w)'
  BY ParentsAssumption DEF IInv, TypeOK, WritersOK, WriterOK, Writing, Publishing, NoBackup, Unlanded, Goto, OnError, Steps, FilesAreFlushed, Usable
<1>3. QED  BY <1>1, <1>2, Quiet DEF IInv, TypeOK, Goto, OnError, Steps

LEMMA RestatParentIInv == ASSUME NEW w \in Writer, IInv, RestatParent(w) PROVE IInv'
<1> USE DEF RestatParent, start, files, progress, history
<1>1. TypeOK'
  <2>1. level' \in [Writer -> Nat]
    BY DEF IInv, TypeOK, NextParent
  <2>2. pc' \in [Writer -> Step]
    BY DEF IInv, TypeOK, Goto, OnError, Step, Steps, Ended, NextParent
  <2>3. QED  BY <2>1, <2>2 DEF IInv, TypeOK
<1>2. WriterOK(w)'
  BY ParentsAssumption DEF IInv, TypeOK, WritersOK, WriterOK, Writing, Publishing, NoBackup, Unlanded, Goto, OnError, Steps, NextParent, FilesAreFlushed, Usable
<1>3. QED  BY <1>1, <1>2, Quiet DEF IInv, TypeOK, Goto, OnError, Steps, NextParent

LEMMA InspectIInv == ASSUME NEW w \in Writer, IInv, Inspect(w) PROVE IInv'
<1> USE DEF Inspect, start, files, progress, history
<1>1. TypeOK'
  BY ParentsAssumption DEF IInv, TypeOK, Goto, OnError, Step, Steps, Ended
<1>2. WriterOK(w)'
  BY ParentsAssumption DEF IInv, TypeOK, WritersOK, WriterOK, Writing, Publishing, NoBackup, Unlanded, Goto, OnError, Steps, FilesAreFlushed, Usable
<1>3. QED  BY <1>1, <1>2, Quiet DEF IInv, TypeOK, Goto, OnError, Steps

LEMMA LookIInv == ASSUME NEW w \in Writer, IInv, Look(w) PROVE IInv'
<1> USE DEF Look, start, files, progress, history
<1>1. TypeOK'
  BY ParentsAssumption DEF IInv, TypeOK, Goto, OnError, Step, Steps, Ended
<1>2. WriterOK(w)'
  BY ParentsAssumption DEF IInv, TypeOK, WritersOK, WriterOK, Writing, Publishing, NoBackup, Unlanded, Goto, OnError, Steps, FilesAreFlushed, Usable
<1>3. QED  BY <1>1, <1>2, Quiet DEF IInv, TypeOK, Goto, OnError, Steps

LEMMA IOErrorIInv == ASSUME NEW w \in Writer, IInv, IOError(w) PROVE IInv'
<1> USE DEF IOError, start, files, progress, history
<1>1. TypeOK'
  BY ParentsAssumption DEF IInv, TypeOK, Goto, OnError, Step, Steps, Ended
<1>2. WriterOK(w)'
  BY ParentsAssumption DEF IInv, TypeOK, WritersOK, WriterOK, Writing, Publishing, NoBackup, Unlanded, Goto, OnError, Steps, FilesAreFlushed, Usable
<1>3. QED  BY <1>1, <1>2, Quiet DEF IInv, TypeOK, Goto, OnError, Steps

LEMMA FailIInv == ASSUME NEW w \in Writer, IInv, Fail(w) PROVE IInv'
<1> USE DEF Fail, start, files, progress, history
<1>1. TypeOK'
  BY ParentsAssumption DEF IInv, TypeOK, Goto, OnError, Step, Steps, Ended
<1>2. WriterOK(w)'
  BY ParentsAssumption DEF IInv, TypeOK, WritersOK, WriterOK, Writing, Publishing, NoBackup, Unlanded, Goto, OnError, Steps, FilesAreFlushed, Usable
<1>3. QED  BY <1>1, <1>2, Quiet DEF IInv, TypeOK, Goto, OnError, Steps

LEMMA CleanupFailsIInv == ASSUME NEW w \in Writer, IInv, CleanupFails(w) PROVE IInv'
<1> USE DEF CleanupFails, start, files, progress, history
<1>1. TypeOK'
  BY ParentsAssumption DEF IInv, TypeOK, Goto, OnError, Step, Steps, Ended
<1>2. WriterOK(w)'
  BY ParentsAssumption DEF IInv, TypeOK, WritersOK, WriterOK, Writing, Publishing, NoBackup, Unlanded, Goto, OnError, Steps, FilesAreFlushed, Usable
<1>3. QED  BY <1>1, <1>2, Quiet DEF IInv, TypeOK, Goto, OnError, Steps

LEMMA CrashIInv == ASSUME NEW w \in Writer, IInv, Crash(w) PROVE IInv'
<1> USE DEF Crash, start, files, progress, history
<1>1. TypeOK'
  BY ParentsAssumption DEF IInv, TypeOK, Goto, OnError, Step, Steps, Ended, Running
<1>2. WriterOK(w)'
  BY ParentsAssumption DEF IInv, TypeOK, WritersOK, WriterOK, Writing, Publishing, NoBackup, Unlanded, Goto, OnError, Steps, Running, FilesAreFlushed, Usable
<1>3. QED  BY <1>1, <1>2, Quiet DEF IInv, TypeOK, Goto, OnError, Steps, Running

LEMMA RemoveDirectoryIInv == ASSUME NEW w \in Writer, NEW d \in 1 .. Parents, IInv, RemoveDirectory(w, d) PROVE IInv'
<1> USE DEF RemoveDirectory, start, files, progress, history
<1>1. TypeOK'
  BY ParentsAssumption DEF IInv, TypeOK, Goto, OnError, Step, Steps, Ended
<1>2. WriterOK(w)'
  BY ParentsAssumption DEF IInv, TypeOK, WritersOK, WriterOK, Writing, Publishing, NoBackup, Unlanded, Goto, OnError, Steps, FilesAreFlushed, Usable
<1>3. QED  BY <1>1, <1>2, Quiet DEF IInv, TypeOK, Goto, OnError, Steps
LEMMA StageIInv == ASSUME NEW w \in Writer, IInv, Stage(w) PROVE IInv'
<1> USE DEF Stage, start, files, progress, history
<1>1. TypeOK'
  BY DEF IInv, TypeOK, Goto, OnError, Step, Steps, Ended, File, Report
<1>2. WriterOK(w)'
  BY DistinctAssumption DEF IInv, TypeOK, WritersOK, WriterOK, Writing, Publishing, NoBackup, Unlanded, Goto, OnError, Steps
<1>3. QED  BY <1>1, <1>2, Quiet DEF IInv, TypeOK, WritersOK, WriterOK, NoBackup, Goto, OnError, Steps

LEMMA WriteIInv == ASSUME NEW w \in Writer, IInv, Write(w) PROVE IInv'
<1> USE DEF Write, start, files, progress, history
<1>1. TypeOK'
  BY DEF IInv, TypeOK, Goto, OnError, Step, Steps, Ended, File, Report, Writes
<1>2. WriterOK(w)'
  BY DistinctAssumption DEF IInv, TypeOK, WritersOK, WriterOK, Writing, Publishing, NoBackup, Unlanded, Goto, OnError, Steps, Writes
<1>3. /\ pc' = [pc EXCEPT ![w] = "flush"] /\ pc \in [Writer -> Step]
      /\ staged \in [Writer -> Writer \cup {Absent, Incomplete}]
  BY DEF IInv, TypeOK, Goto
<1>4. /\ pc'[w] # "drop" /\ flushed \subseteq flushed'
      /\ \A v \in Writer \ {w} : pc'[v] = pc[v] /\ staged'[v] = staged[v]
  BY <1>3 DEF Writes
<1>5. QED  BY <1>1, <1>2, <1>4, Quiet

LEMMA FlushIInv == ASSUME NEW w \in Writer, IInv, Flush(w) PROVE IInv'
<1> USE DEF Flush, start, files, progress, history
<1>1. TypeOK'
  <2>1. flushed' \in SUBSET Report
    BY DEF IInv, TypeOK, Flushes, Report
  <2>2. pc' \in [Writer -> Step]
    BY DEF IInv, TypeOK, Goto, Step, Steps
  <2>3. QED  BY <2>1, <2>2 DEF IInv, TypeOK
<1>2. WriterOK(w)'
  BY DistinctAssumption DEF IInv, TypeOK, WritersOK, WriterOK, Writing, Publishing, NoBackup, Unlanded, Goto, OnError, Steps, Flushes
<1>3. /\ pc' = [pc EXCEPT ![w] = "look"] /\ pc \in [Writer -> Step]
      /\ staged \in [Writer -> Writer \cup {Absent, Incomplete}]
  BY DEF IInv, TypeOK, Goto
<1>4. /\ pc'[w] # "drop" /\ flushed \subseteq flushed'
      /\ \A v \in Writer \ {w} : pc'[v] = pc[v] /\ staged'[v] = staged[v]
  BY <1>3 DEF Flushes
<1>5. QED  BY <1>1, <1>2, <1>4, Quiet

LEMMA ReserveIInv == ASSUME NEW w \in Writer, IInv, Reserve(w) PROVE IInv'
<1> USE DEF Reserve, start, files, progress, history
<1>1. TypeOK'
  <2>1. backup' \in [Writer -> File]
    BY DEF IInv, TypeOK, File
  <2>2. pc' \in [Writer -> Step]
    BY DEF IInv, TypeOK, Goto, Step, Steps
  <2>3. QED  BY <2>1, <2>2 DEF IInv, TypeOK
<1>2. WriterOK(w)'
  BY DistinctAssumption DEF IInv, TypeOK, WritersOK, WriterOK, Writing, Publishing, NoBackup, Unlanded, Goto, OnError, Steps
<1>3. QED  BY <1>1, <1>2, Quiet DEF IInv, TypeOK, WritersOK, WriterOK, NoBackup, Goto, OnError, Steps

LEMMA ReleaseIInv == ASSUME NEW w \in Writer, IInv, Release(w) PROVE IInv'
<1> USE DEF Release, start, files, progress, history
<1>1. TypeOK'
  BY DEF IInv, TypeOK, Goto, OnError, Step, Steps, Ended, File, Report, NoPlaceholder
<1>2. WriterOK(w)'
  BY DistinctAssumption DEF IInv, TypeOK, WritersOK, WriterOK, Writing, Publishing, NoBackup, Unlanded, Goto, OnError, Steps, NoPlaceholder
<1>3. QED  BY <1>1, <1>2, Quiet DEF IInv, TypeOK, WritersOK, WriterOK, NoBackup, Goto, OnError, Steps, NoPlaceholder

LEMMA ReleaseFailsIInv == ASSUME NEW w \in Writer, IInv, ReleaseFails(w) PROVE IInv'
<1> USE DEF ReleaseFails, start, files, progress, history
<1>1. TypeOK'
  BY DEF IInv, TypeOK, Goto, OnError, Step, Steps, Ended, File, Report
<1>2. WriterOK(w)'
  BY DistinctAssumption DEF IInv, TypeOK, WritersOK, WriterOK, Writing, Publishing, NoBackup, Unlanded, Goto, OnError, Steps
<1>3. QED  BY <1>1, <1>2, Quiet DEF IInv, TypeOK, WritersOK, WriterOK, NoBackup, Goto, OnError, Steps

LEMMA UnstageIInv == ASSUME NEW w \in Writer, IInv, Unstage(w) PROVE IInv'
<1> USE DEF Unstage, start, files, progress, history
<1>1. TypeOK'
  BY DEF IInv, TypeOK, Goto, OnError, Step, Steps, Ended, File, Report, Unstaged
<1>2. WriterOK(w)'
  BY DistinctAssumption DEF IInv, TypeOK, WritersOK, WriterOK, Writing, Publishing, NoBackup, Unlanded, Goto, OnError, Steps, Unstaged
<1>3. QED  BY <1>1, <1>2, Quiet DEF IInv, TypeOK, Goto, Unstaged
-----------------------------------------------------------------------------
LEMMA LandedAppend ==
  ASSUME NEW ls \in Seq(Writer), NEW w \in Writer
  PROVE  /\ Append(ls, w) \in Seq(Writer) /\ Append(ls, w) # <<>>
         /\ \A v \in Writer : Slot!HasLanded(v, Append(ls, w)) <=> v = w \/ Slot!HasLanded(v, ls)
<1>1. /\ Append(ls, w) \in Seq(Writer) /\ Append(ls, w) # <<>>
      /\ Len(Append(ls, w)) = Len(ls) + 1 /\ Len(ls) \in Nat
      /\ \A i \in 1 .. Len(ls) : Append(ls, w)[i] = ls[i]
      /\ Append(ls, w)[Len(ls) + 1] = w
  OBVIOUS
<1>2. SUFFICES ASSUME NEW v \in Writer
               PROVE  Slot!HasLanded(v, Append(ls, w)) <=> v = w \/ Slot!HasLanded(v, ls)
  BY <1>1
<1>3. ASSUME Slot!HasLanded(v, Append(ls, w)) PROVE v = w \/ Slot!HasLanded(v, ls)
  <2>1. PICK i \in 1 .. Len(ls) + 1 : Append(ls, w)[i] = v
    BY <1>1, <1>3 DEF Slot!HasLanded
  <2>2. CASE i = Len(ls) + 1
    BY <1>1, <2>1, <2>2
  <2>3. CASE i \in 1 .. Len(ls)
    BY <1>1, <2>1, <2>3 DEF Slot!HasLanded
  <2>4. QED  BY <1>1, <2>2, <2>3
<1>4. ASSUME v = w PROVE Slot!HasLanded(v, Append(ls, w))
  BY <1>1, <1>4, Len(ls) + 1 \in 1 .. Len(Append(ls, w)) DEF Slot!HasLanded
<1>5. ASSUME Slot!HasLanded(v, ls) PROVE Slot!HasLanded(v, Append(ls, w))
  <2>1. PICK i \in 1 .. Len(ls) : ls[i] = v
    BY <1>5 DEF Slot!HasLanded
  <2>2. i \in 1 .. Len(Append(ls, w)) /\ Append(ls, w)[i] = v
    BY <1>1, <2>1
  <2>3. QED  BY <2>2 DEF Slot!HasLanded
<1>6. QED  BY <1>3, <1>4, <1>5

\* A writer about to rename its staged file renames its flushed report.
LEMMA MoveInFacts ==
  ASSUME NEW w \in Writer, IInv, pc[w] \in {"land", "replace"}, MoveIn(w),
         \A v \in Writer \ {w} : pc'[v] = pc[v]
  PROVE  /\ dest' = w /\ w \in flushed /\ firstDest # Other
         /\ staged' \in [Writer -> Writer \cup {Absent, Incomplete}]
         /\ \A v \in Writer \ {w} : staged'[v] = staged[v]
         /\ landed' \in Seq(Writer) /\ landed' # <<>>
         /\ \A v \in Writer : Slot!HasLanded(v, landed') <=> v = w \/ Slot!HasLanded(v, landed)
         /\ backup' = backup /\ flushed' = flushed
<1>1. WriterOK(w)
  BY DEF IInv, WritersOK
<1>2. dest' = w /\ w \in flushed /\ firstDest # Other
  BY <1>1 DEF WriterOK, Publishing, Writing, MoveIn
<1>3. /\ landed' \in Seq(Writer) /\ landed' # <<>>
      /\ \A v \in Writer : Slot!HasLanded(v, landed') <=> v = w \/ Slot!HasLanded(v, landed)
  BY LandedAppend DEF MoveIn, IInv, TypeOK
<1>4. QED  BY <1>2, <1>3 DEF MoveIn, IInv, TypeOK

LEMMA LandIInv == ASSUME NEW w \in Writer, IInv, Land(w) PROVE IInv'
<1>1. CASE CanRename(dest)
  <2>1. MoveIn(w) /\ UNCHANGED <<start, progress>> /\ pc' = [pc EXCEPT ![w] = "succeeded"]
    BY <1>1 DEF Land, Goto
  <2>2. pc[w] \in {"land", "replace"} /\ pc \in [Writer -> Step]
    BY DEF Land, IInv, TypeOK
  <2>3. \A v \in Writer \ {w} : pc'[v] = pc[v]
    BY <2>1, <2>2
  <2>4. /\ dest' = w /\ w \in flushed /\ firstDest # Other
        /\ staged' \in [Writer -> Writer \cup {Absent, Incomplete}]
        /\ \A v \in Writer \ {w} : staged'[v] = staged[v]
        /\ landed' \in Seq(Writer) /\ landed' # <<>>
        /\ \A v \in Writer : Slot!HasLanded(v, landed') <=> v = w \/ Slot!HasLanded(v, landed)
        /\ backup' = backup /\ flushed' = flushed
    BY <2>1, <2>2, <2>3, MoveInFacts
  <2>5. TypeOK'
    BY <2>1, <2>2, <2>4 DEF IInv, TypeOK, MoveIn, Step, Steps, Ended, File, Report, start, progress
  <2>6. WriterOK(w)'
    BY <2>1, <2>2, <2>4 DEF WriterOK, Writing, Publishing, NoBackup, Unlanded, start
  <2>7. WritersOK'
    BY <2>1, <2>3, <2>4, <2>6, OthersOK DEF IInv, start, progress
  <2>8. FilesAreFlushed'
    BY <2>1, <2>4, DistinctAssumption DEF IInv, FilesAreFlushed, start
  <2>9. OneCopy' /\ Covered'
    BY <2>4 DEF OneCopy, Covered, Kept, Report
  <2>10. QED  BY <2>5, <2>7, <2>8, <2>9 DEF IInv
<1>2. CASE ~CanRename(dest)
  <2>1. /\ UNCHANGED <<start, progress, files, history>>
        /\ pc' = [pc EXCEPT ![w] = OnError(pc[w])]
        /\ pc[w] = "land"
    BY <1>2 DEF Land, Goto
  <2>2. TypeOK'
    BY <2>1 DEF IInv, TypeOK, OnError, Step, Steps, Ended, start, progress, files, history
  <2>3. WriterOK(w)'
    BY <2>1 DEF IInv, TypeOK, WritersOK, WriterOK, Writing, Publishing, NoBackup, Unlanded, OnError, start, progress, files, history
  <2>4. QED  BY <2>1, <2>2, <2>3, Quiet DEF IInv, TypeOK, OnError, start, progress, files, history
<1>3. QED  BY <1>1, <1>2

LEMMA ReplaceIInv == ASSUME NEW w \in Writer, IInv, Replace(w) PROVE IInv'
<1>1. CASE CanRename(dest)
  <2>1. MoveIn(w) /\ UNCHANGED <<start, progress>> /\ pc' = [pc EXCEPT ![w] = "drop"]
    BY <1>1 DEF Replace, Goto
  <2>2. pc[w] \in {"land", "replace"} /\ pc \in [Writer -> Step]
    BY DEF Replace, IInv, TypeOK
  <2>3. \A v \in Writer \ {w} : pc'[v] = pc[v]
    BY <2>1, <2>2
  <2>4. /\ dest' = w /\ w \in flushed /\ firstDest # Other
        /\ staged' \in [Writer -> Writer \cup {Absent, Incomplete}]
        /\ \A v \in Writer \ {w} : staged'[v] = staged[v]
        /\ landed' \in Seq(Writer) /\ landed' # <<>>
        /\ \A v \in Writer : Slot!HasLanded(v, landed') <=> v = w \/ Slot!HasLanded(v, landed)
        /\ backup' = backup /\ flushed' = flushed
    BY <2>1, <2>2, <2>3, MoveInFacts
  <2>5. TypeOK'
    BY <2>1, <2>2, <2>4 DEF IInv, TypeOK, MoveIn, Step, Steps, Ended, File, Report, start, progress
  <2>6. WriterOK(w)'
    BY <2>1, <2>2, <2>4 DEF WriterOK, Writing, Publishing, NoBackup, Unlanded, start
  <2>7. WritersOK'
    BY <2>1, <2>3, <2>4, <2>6, OthersOK DEF IInv, start, progress
  <2>8. FilesAreFlushed'
    BY <2>1, <2>4, DistinctAssumption DEF IInv, FilesAreFlushed, start
  <2>9. OneCopy' /\ Covered'
    BY <2>4 DEF OneCopy, Covered, Kept, Report
  <2>10. QED  BY <2>5, <2>7, <2>8, <2>9 DEF IInv
<1>2. CASE ~CanRename(dest)
  <2>1. /\ UNCHANGED <<start, progress, files, history>>
        /\ pc' = [pc EXCEPT ![w] = OnError(pc[w])]
        /\ pc[w] = "replace"
    BY <1>2 DEF Replace, Goto
  <2>2. TypeOK'
    BY <2>1 DEF IInv, TypeOK, OnError, Step, Steps, Ended, start, progress, files, history
  <2>3. WriterOK(w)'
    BY <2>1 DEF IInv, TypeOK, WritersOK, WriterOK, Writing, Publishing, NoBackup, Unlanded, OnError, start, progress, files, history
  <2>4. QED  BY <2>1, <2>2, <2>3, Quiet DEF IInv, TypeOK, OnError, start, progress, files, history
<1>3. QED  BY <1>1, <1>2

LEMMA PreserveIInv == ASSUME NEW w \in Writer, IInv, Preserve(w) PROVE IInv'
<1> USE DEF start, progress, files, history
<1>1. WriterOK(w) /\ pc[w] = "preserve"
  BY DEF IInv, WritersOK, Preserve
<1>2. CASE dest # Absent /\ CanRename(backup[w])
  <2>1. /\ UNCHANGED <<start, staged, flushed, progress, history>>
        /\ backup' = [backup EXCEPT ![w] = dest] /\ dest' = Absent
        /\ pc' = [pc EXCEPT ![w] = "replace"]
    BY <1>2 DEF Preserve, Goto
  <2>2. dest \in flushed /\ dest \in Report /\ firstDest # Other
    BY <1>1, <1>2 DEF WriterOK, Writing, IInv, FilesAreFlushed, TypeOK
  <2>3. TypeOK'
    BY <2>1, <2>2 DEF IInv, TypeOK, Step, Steps, Ended, File
  <2>4. /\ pc'[w] = "replace" /\ backup'[w] = dest
        /\ \A v \in Writer \ {w} : pc'[v] = pc[v] /\ backup'[v] = backup[v]
    BY <2>1 DEF IInv, TypeOK
  <2>5. WriterOK(w)'
    BY <1>1, <2>1, <2>2, <2>4 DEF WriterOK, Writing, Publishing, NoBackup, Unlanded, Report
  <2>6. WritersOK'
    BY <2>1, <2>4, <2>5, OthersOK DEF IInv
  <2>7. FilesAreFlushed'
    BY <2>1, <2>2, <2>4, DistinctAssumption DEF IInv, FilesAreFlushed
  <2>8. OneCopy'
    BY <2>1, <2>2, <2>4, DistinctAssumption DEF IInv, OneCopy, HasBackup, Report
  <2>9. Covered'
    BY <2>2, <2>4 DEF Covered, Kept, HasBackup, Report
  <2>10. QED  BY <2>3, <2>6, <2>7, <2>8, <2>9 DEF IInv
<1>3. CASE ~(dest # Absent /\ CanRename(backup[w]))
  <2>1. /\ UNCHANGED <<start, progress, files, history>>
        /\ pc' = [pc EXCEPT ![w] = OnError(pc[w])]
    BY <1>1, <1>3 DEF Preserve, Goto
  <2>2. TypeOK'
    BY <1>1, <2>1 DEF IInv, TypeOK, OnError, Step, Steps, Ended
  <2>3. WriterOK(w)'
    BY <1>1, <2>1 DEF IInv, TypeOK, WriterOK, Writing, Publishing, NoBackup, Unlanded, OnError
  <2>4. QED  BY <1>1, <2>1, <2>2, <2>3, Quiet DEF IInv, TypeOK, OnError
<1>4. QED  BY <1>2, <1>3

LEMMA RestoreIInv == ASSUME NEW w \in Writer, IInv, Restore(w) PROVE IInv'
<1> USE DEF start, progress, files, history
<1>1. WriterOK(w) /\ pc[w] = "restore"
  BY DEF IInv, WritersOK, Restore
<1>2. /\ pc' = [pc EXCEPT ![w] = "unstage"]
      /\ UNCHANGED <<start, staged, flushed, progress, history>>
  BY DEF Restore, Goto, OnError
<1>3. pc'[w] = "unstage" /\ \A v \in Writer \ {w} : pc'[v] = pc[v]
  BY <1>2 DEF IInv, TypeOK
<1>4. WriterOK(w)'
  BY <1>3 DEF WriterOK, Writing, Publishing, NoBackup, Unlanded
<1>5. CASE CanRename(dest)
  <2>1. dest' = backup[w] /\ backup' = [backup EXCEPT ![w] = Absent]
    BY <1>5 DEF Restore, Restored
  <2>2. backup[w] \in Report /\ backup[w] \in flushed /\ firstDest # Other
    BY <1>1, DistinctAssumption DEF WriterOK, Writing, IInv, FilesAreFlushed, Report
  <2>3. TypeOK'
    BY <1>2, <2>1, <2>2 DEF IInv, TypeOK, Step, Steps, Ended, File
  <2>4. backup'[w] = Absent /\ \A v \in Writer \ {w} : backup'[v] = backup[v]
    BY <2>1 DEF IInv, TypeOK
  <2>5. WritersOK'
    BY <1>2, <1>3, <1>4, <2>4, OthersOK DEF IInv
  <2>6. FilesAreFlushed'
    BY <1>2, <2>1, <2>2, <2>4, DistinctAssumption DEF IInv, FilesAreFlushed, Report
  <2>7. OneCopy'
    BY <1>2, <2>1, <2>2, <2>4, DistinctAssumption DEF IInv, OneCopy, HasBackup, Report
  <2>8. Covered'
    BY <2>1, <2>2 DEF Covered, Kept, Report
  <2>9. QED  BY <2>3, <2>5, <2>6, <2>7, <2>8 DEF IInv
<1>6. CASE ~CanRename(dest)
  <2>1. UNCHANGED <<dest, backup>>
    BY <1>6 DEF Restore
  <2>2. TypeOK'
    BY <1>2, <2>1 DEF IInv, TypeOK, Step, Steps, Ended
  <2>3. QED  BY <1>2, <1>3, <1>4, <2>1, <2>2, Quiet
<1>7. QED  BY <1>5, <1>6

LEMMA DropIInv == ASSUME NEW w \in Writer, IInv, Drop(w) PROVE IInv'
<1> USE DEF start, progress, files, history
<1>1. /\ pc[w] = "drop" /\ pc' = [pc EXCEPT ![w] = "succeeded"]
      /\ backup' = [backup EXCEPT ![w] = Absent]
      /\ UNCHANGED <<start, dest, staged, flushed, progress, history>>
  BY DEF Drop, Goto
<1>2. TypeOK'
  BY <1>1 DEF IInv, TypeOK, Step, Steps, Ended, File
<1>3. /\ pc'[w] = "succeeded" /\ backup'[w] = Absent
      /\ \A v \in Writer \ {w} : pc'[v] = pc[v] /\ backup'[v] = backup[v]
  BY <1>1 DEF IInv, TypeOK
<1>4. WriterOK(w)'
  BY <1>3 DEF WriterOK, Writing, Publishing, NoBackup, Unlanded
<1>5. WritersOK'
  BY <1>1, <1>3, <1>4, OthersOK DEF IInv
<1>6. FilesAreFlushed'
  BY <1>1, <1>3 DEF IInv, FilesAreFlushed
<1>7. landed # <<>>
  BY <1>1 DEF IInv, WritersOK, WriterOK, Slot!HasLanded
<1>8. OneCopy'
  BY <1>1, <1>7 DEF OneCopy
<1>9. Covered'
  <2>1. CASE dest \in Report
    BY <1>1, <2>1 DEF Covered, Kept, Report
  <2>2. CASE dest \notin Report
    <3>1. PICK v \in Writer : HasBackup(v) /\ pc[v] # "drop"
      BY <1>7, <2>2 DEF IInv, Covered, Kept
    <3>2. v # w
      BY <1>1, <3>1
    <3>3. QED  BY <1>3, <3>1, <3>2 DEF Covered, Kept, HasBackup, Report
  <2>3. QED  BY <2>1, <2>2
<1>10. QED  BY <1>2, <1>5, <1>6, <1>8, <1>9 DEF IInv

LEMMA PowerLossIInv == IInv /\ PowerLoss => IInv'
<1> SUFFICES ASSUME IInv, PowerLoss PROVE IInv'
  OBVIOUS
<1> USE DEF start, progress, files, history
<1>1. /\ dest' = dest
      /\ \A w \in Writer : backup'[w] = backup[w]
      /\ UNCHANGED <<start, flushed, progress, history>>
  BY DistinctAssumption DEF IInv, FilesAreFlushed, PowerLoss, Torn, Report
<1>2. \A w \in Writer :
        \/ pc'[w] = "crashed"
        \/ pc[w] \in {"idle"} \cup Ended /\ pc'[w] = pc[w]
  BY DEF PowerLoss, Running
<1>3. TypeOK'
  <2>1. pc' \in [Writer -> Step]
    BY DEF IInv, TypeOK, PowerLoss, Step, Ended
  <2>2. staged' \in [Writer -> Writer \cup {Absent, Incomplete}]
    BY DEF IInv, TypeOK, PowerLoss, Torn
  <2>3. backup' \in [Writer -> File]
    BY DEF IInv, TypeOK, PowerLoss, Torn, File
  <2>4. QED  BY <1>1, <2>1, <2>2, <2>3 DEF IInv, TypeOK
<1>4. WritersOK'
  BY <1>1, <1>2 DEF IInv, WritersOK, WriterOK, Writing, Publishing, NoBackup, Unlanded, Ended
<1>5. FilesAreFlushed' /\ OneCopy'
  BY <1>1 DEF IInv, FilesAreFlushed, OneCopy, HasBackup, Report
<1>6. Covered'
  BY <1>1, <1>2 DEF IInv, Covered, Kept, HasBackup, Report, Ended
<1>7. QED  BY <1>3, <1>4, <1>5, <1>6 DEF IInv
-----------------------------------------------------------------------------
LEMMA InitIInv == Init => IInv
<1> SUFFICES ASSUME Init PROVE IInv
  OBVIOUS
<1> USE DEF Init
<1>1. TypeOK
  BY ParentsAssumption DEF TypeOK, Step, File, Report
<1>2. WritersOK
  <2>1. \A w \in Writer : ~Slot!HasLanded(w, <<>>)
    BY 1 .. Len(<<>>) = {} DEF Slot!HasLanded
  <2>2. QED  BY <2>1 DEF WritersOK, WriterOK, Writing, Publishing, NoBackup, Unlanded
<1>3. FilesAreFlushed /\ OneCopy /\ Covered
  BY DistinctAssumption DEF FilesAreFlushed, OneCopy, Covered, HasBackup, Report
<1>4. QED  BY <1>1, <1>2, <1>3 DEF IInv

LEMMA NextIInv == IInv /\ [Next]_vars => IInv'
<1> SUFFICES ASSUME IInv, [Next]_vars PROVE IInv'
  OBVIOUS
<1>1. ASSUME NEW w \in Writer, Work(w) PROVE IInv'
  <2>1. CASE StatParent(w)
    BY <2>1, StatParentIInv
  <2>2. CASE Mkdir(w)
    BY <2>2, MkdirIInv
  <2>3. CASE RestatParent(w)
    BY <2>3, RestatParentIInv
  <2>4. CASE Inspect(w)
    BY <2>4, InspectIInv
  <2>5. CASE Stage(w)
    BY <2>5, StageIInv
  <2>6. CASE Write(w)
    BY <2>6, WriteIInv
  <2>7. CASE Flush(w)
    BY <2>7, FlushIInv
  <2>8. CASE Look(w)
    BY <2>8, LookIInv
  <2>9. CASE Land(w)
    BY <2>9, LandIInv
  <2>10. CASE Reserve(w)
    BY <2>10, ReserveIInv
  <2>11. CASE Release(w)
    BY <2>11, ReleaseIInv
  <2>12. CASE ReleaseFails(w)
    BY <2>12, ReleaseFailsIInv
  <2>13. CASE Preserve(w)
    BY <2>13, PreserveIInv
  <2>14. CASE Replace(w)
    BY <2>14, ReplaceIInv
  <2>15. CASE Restore(w)
    BY <2>15, RestoreIInv
  <2>16. CASE Drop(w)
    BY <2>16, DropIInv
  <2>17. CASE IOError(w)
    BY <2>17, IOErrorIInv
  <2>18. CASE Unstage(w)
    BY <2>18, UnstageIInv
  <2>19. CASE Fail(w)
    BY <2>19, FailIInv
  <2>20. CASE CleanupFails(w)
    BY <2>20, CleanupFailsIInv
  <2>21. ASSUME NEW d \in 1 .. Parents, RemoveDirectory(w, d) PROVE IInv'
    BY <2>21, RemoveDirectoryIInv
  <2>22. QED  BY <1>1, <2>1, <2>2, <2>3, <2>4, <2>5, <2>6, <2>7, <2>8, <2>9, <2>10, <2>11,
             <2>12, <2>13, <2>14, <2>15, <2>16, <2>17, <2>18, <2>19, <2>20, <2>21 DEF Work
<1>2. CASE Next
  BY <1>1, <1>2, BeginIInv, CrashIInv, PowerLossIInv DEF Next
<1>3. CASE UNCHANGED vars
  BY <1>3 DEF vars, start, files, progress, history, IInv, TypeOK, WritersOK, WriterOK,
              FilesAreFlushed, OneCopy, Covered, Kept, HasBackup
<1>4. QED  BY <1>2, <1>3

(***************************************************************************)
(* The inductive invariant: what each writer's files hold at each of its   *)
(* steps, and that a report no writer is about to drop is always there.    *)
(***************************************************************************)
THEOREM Inductive == Spec => []IInv
<1>1. Init => IInv
  BY InitIInv
<1>2. IInv /\ [Next]_vars => IInv'
  BY NextIInv
<1>3. QED  BY <1>1, <1>2, PTL DEF Spec

(***************************************************************************)
(* Every variable of ReportPublish keeps its type.                         *)
(***************************************************************************)
THEOREM TypeCorrect == Spec => []TypeOK
<1>1. IInv => TypeOK
  BY DEF IInv
<1>2. QED  BY <1>1, Inductive, PTL

(***************************************************************************)
(* The destination of a report never holds an incomplete file, and         *)
(* something that is no regular file is never replaced there.              *)
(***************************************************************************)
THEOREM DestinationSoundness == Spec => []DestinationIsSound
<1>1. IInv => DestinationIsSound
  BY DistinctAssumption DEF IInv, FilesAreFlushed, DestinationIsSound, TypeOK, Report
<1>2. QED  BY <1>1, Inductive, PTL
-----------------------------------------------------------------------------
(***************************************************************************)
(* The refinement.  A step that moves no report and ends no writer is a    *)
(* stutter of ReportSlot.                                                  *)
(***************************************************************************)
LEMMA Stutters ==
  ASSUME NEW w \in Writer, IInv, IInv', pc'[w] \notin Ended, pc[w] \notin Ended,
         \A v \in Writer \ {w} : pc'[v] = pc[v],
         Recoverable' = Recoverable, landed' = landed
  PROVE  [Slot!Next]_Slot!vars
<1>1. Outcome' = Outcome
  BY DEF Outcome
<1>2. QED  BY <1>1 DEF Slot!vars

LEMMA QuietStutters ==
  ASSUME NEW w \in Writer, IInv, IInv', pc'[w] \notin Ended, pc[w] \notin Ended,
         \A v \in Writer \ {w} : pc'[v] = pc[v] /\ backup'[v] = backup[v],
         backup'[w] = backup[w] \/ {backup[w], backup'[w]} \subseteq {Absent, Incomplete},
         dest' = dest, landed' = landed
  PROVE  [Slot!Next]_Slot!vars
<1>1. \A r \in Report : \A v \in Writer : backup'[v] = r <=> backup[v] = r
  BY DistinctAssumption DEF Report
<1>2. Recoverable' = Recoverable
  BY <1>1 DEF Recoverable, Report
<1>3. QED  BY <1>2, Stutters

\* The outcome of a writer that does not end, and of one that does.
LEMMA OutcomeStep ==
  ASSUME NEW w \in Writer, \A v \in Writer \ {w} : pc'[v] = pc[v], pc[w] \notin Ended
  PROVE  /\ Outcome[w] = "pending"
         /\ pc'[w] \notin Ended => Outcome' = Outcome
         /\ pc'[w] \in Ended => Outcome' = [Outcome EXCEPT ![w] = pc'[w]]
<1>1. Outcome[w] = "pending"
  BY DEF Outcome
<1>2. ASSUME pc'[w] \notin Ended PROVE Outcome' = Outcome
  <2>1. \A v \in Writer : Outcome'[v] = Outcome[v]
    BY <1>2 DEF Outcome
  <2>2. QED  BY <2>1 DEF Outcome
<1>3. ASSUME pc'[w] \in Ended PROVE Outcome' = [Outcome EXCEPT ![w] = pc'[w]]
  <2>1. \A v \in Writer \ {w} : Outcome'[v] = Outcome[v]
    BY DEF Outcome
  <2>2. Outcome'[w] = pc'[w]
    BY <1>3 DEF Outcome
  <2>3. QED  BY <2>1, <2>2 DEF Outcome
<1>4. QED  BY <1>1, <1>2, <1>3

\* Steps of one writer that change at most its staged file and its placeholder.
LEMMA QuietSteps ==
  ASSUME NEW w \in Writer, IInv, IInv',
         \/ Begin(w) \/ StatParent(w) \/ Mkdir(w) \/ RestatParent(w) \/ Inspect(w)
         \/ Stage(w) \/ Write(w) \/ Flush(w) \/ Look(w) \/ Reserve(w) \/ Release(w)
         \/ ReleaseFails(w) \/ IOError(w) \/ Unstage(w) \/ CleanupFails(w)
         \/ \E d \in 1 .. Parents : RemoveDirectory(w, d)
  PROVE  [Slot!Next]_Slot!vars
<1> USE DEF start, files, progress, history
<1>1. /\ pc \in [Writer -> Step] /\ backup \in [Writer -> File]
      /\ pc[w] \in NoBackup => backup[w] = Absent
      /\ pc[w] = "release" => backup[w] = Incomplete
  BY DEF IInv, TypeOK, WritersOK, WriterOK
<1>2. CASE Begin(w) \/ StatParent(w) \/ Mkdir(w) \/ RestatParent(w) \/ Inspect(w) \/ Look(w)
  <2>1. /\ dest' = dest /\ landed' = landed /\ backup' = backup
        /\ pc[w] \notin Ended
        /\ \E step \in Steps \cup {"tidy", "unstage"} : pc' = [pc EXCEPT ![w] = step]
    BY <1>2 DEF Begin, StatParent, Mkdir, RestatParent, NextParent, Inspect, Look, Goto,
                OnError, Steps, Ended
  <2>2. QED  BY <1>1, <2>1, QuietStutters DEF Steps, Ended
<1>3. CASE Stage(w) \/ Write(w) \/ Flush(w) \/ IOError(w) \/ Unstage(w) \/ CleanupFails(w)
  <2>1. /\ dest' = dest /\ landed' = landed /\ backup' = backup
        /\ pc[w] \notin Ended
        /\ \E step \in Steps \cup {"tidy", "unstage"} : pc' = [pc EXCEPT ![w] = step]
    BY <1>1, <1>3 DEF Stage, Write, Flush, IOError, Unstage, CleanupFails, Goto,
                OnError, Steps, Ended
  <2>2. QED  BY <1>1, <2>1, QuietStutters DEF Steps, Ended
<1>4. CASE Reserve(w) \/ Release(w) \/ ReleaseFails(w)
  <2>1. /\ dest' = dest /\ landed' = landed
        /\ \E file \in {Absent, Incomplete} : backup' = [backup EXCEPT ![w] = file]
        /\ pc[w] \notin Ended /\ backup[w] \in {Absent, Incomplete}
        /\ \E step \in Steps \cup {"tidy", "unstage"} : pc' = [pc EXCEPT ![w] = step]
    BY <1>1, <1>4 DEF Reserve, Release, ReleaseFails, NoPlaceholder, NoBackup, Goto, OnError, Steps, Ended
  <2>2. QED  BY <1>1, <2>1, QuietStutters DEF Steps, Ended
<1>5. CASE \E d \in 1 .. Parents : RemoveDirectory(w, d)
  <2>1. dest' = dest /\ landed' = landed /\ backup' = backup /\ pc' = pc /\ pc[w] = "tidy"
    BY <1>5 DEF RemoveDirectory
  <2>2. QED  BY <2>1, QuietStutters DEF Ended
<1>6. QED  BY <1>2, <1>3, <1>4, <1>5

\* A successful rename to the destination is the abstract Land.
LEMMA MovesLand ==
  ASSUME NEW w \in Writer, IInv, IInv', pc[w] \in {"land", "replace"}, MoveIn(w),
         \A v \in Writer \ {w} : pc'[v] = pc[v], pc'[w] \in {"drop", "succeeded"}
  PROVE  Slot!Land(w)
<1>1. dest' = w /\ backup' = backup /\ landed' = Append(landed, w)
  BY MoveInFacts DEF MoveIn
<1>2. w \in Recoverable' /\ Recoverable' \subseteq Recoverable \cup {w}
  BY <1>1 DEF Recoverable, Report
<1>3. ~Slot!HasLanded(w, landed)
  BY DEF IInv, WritersOK, WriterOK, Unlanded, NoBackup, Publishing
<1>4. /\ Outcome[w] = "pending"
      /\ Outcome' \in {Outcome, [Outcome EXCEPT ![w] = "succeeded"]}
  BY OutcomeStep DEF Ended
<1>5. QED  BY <1>1, <1>2, <1>3, <1>4 DEF Slot!Land

LEMMA LandRefines ==
  ASSUME NEW w \in Writer, IInv, IInv', Land(w) \/ Replace(w)
  PROVE  [Slot!Next]_Slot!vars
<1>1. pc[w] \in {"land", "replace"} /\ pc \in [Writer -> Step]
  BY DEF Land, Replace, IInv, TypeOK
<1>2. CASE CanRename(dest)
  <2>1. MoveIn(w) /\ \E step \in {"drop", "succeeded"} : pc' = [pc EXCEPT ![w] = step]
    BY <1>2 DEF Land, Replace, Goto
  <2>2. Slot!Land(w)
    BY <1>1, <2>1, MovesLand
  <2>3. QED  BY <2>2 DEF Slot!Next
<1>3. CASE ~CanRename(dest)
  <2>1. /\ UNCHANGED <<dest, backup, landed>>
        /\ \E step \in {"unstage", "restore"} : pc' = [pc EXCEPT ![w] = step]
    BY <1>3 DEF Land, Replace, Goto, OnError, files, history
  <2>2. QED  BY <1>1, <2>1, QuietStutters DEF Ended
<1>4. QED  BY <1>2, <1>3

\* The previous report moves from the destination to a backup and stays recoverable.
LEMMA PreserveRefines ==
  ASSUME NEW w \in Writer, IInv, IInv', Preserve(w)
  PROVE  [Slot!Next]_Slot!vars
<1>1. /\ pc[w] = "preserve" /\ pc \in [Writer -> Step] /\ backup \in [Writer -> File]
      /\ backup[w] = Absent /\ landed' = landed
      /\ \E step \in {"replace", "unstage"} : pc' = [pc EXCEPT ![w] = step]
  BY DEF Preserve, IInv, TypeOK, WritersOK, WriterOK, NoBackup, Goto, OnError, history
<1>2. Recoverable' = Recoverable
  <2>1. CASE UNCHANGED <<dest, backup>>
    BY <2>1 DEF Recoverable, Report
  <2>2. CASE dest' = Absent /\ backup' = [backup EXCEPT ![w] = dest]
    <3>1. \A r \in Report :
            (dest' = r \/ \E v \in Writer : backup'[v] = r)
              <=> (dest = r \/ \E v \in Writer : backup[v] = r)
      BY <1>1, <2>2, DistinctAssumption DEF Report
    <3>2. QED  BY <3>1 DEF Recoverable, Report
  <2>3. QED  BY <2>1, <2>2 DEF Preserve
<1>3. QED  BY <1>1, <1>2, Stutters DEF Ended

\* Putting the backup back forgets at most the report it replaces.
LEMMA RestoreRefines ==
  ASSUME NEW w \in Writer, IInv, IInv', Restore(w)
  PROVE  [Slot!Next]_Slot!vars
<1>1. /\ pc[w] = "restore" /\ pc \in [Writer -> Step] /\ backup \in [Writer -> File]
      /\ backup[w] \in Report /\ landed' = landed
      /\ pc' = [pc EXCEPT ![w] = "unstage"]
  BY DEF Restore, IInv, TypeOK, WritersOK, WriterOK, Goto, OnError, history
<1>2. Outcome[w] = "pending" /\ Outcome' = Outcome
  BY <1>1, OutcomeStep DEF Ended
<1>3. CASE CanRename(dest)
  <2>1. dest' = backup[w] /\ backup' = [backup EXCEPT ![w] = Absent]
    BY <1>3 DEF Restore, Restored
  <2>2. Recoverable' \subseteq Recoverable /\ Recoverable' # {}
    BY <1>1, <2>1, DistinctAssumption DEF Recoverable, Report
  <2>3. Previous \in Recoverable \ Recoverable' => landed # <<>>
    <3>1. SUFFICES ASSUME landed = <<>> PROVE Recoverable \subseteq Recoverable'
      OBVIOUS
    <3>2. dest \notin Report /\ \A v \in Writer : HasBackup(v) => v = w
      BY <1>1, <3>1 DEF IInv, OneCopy, HasBackup
    <3>3. QED  BY <1>1, <2>1, <3>2 DEF Recoverable, HasBackup, Report
  <2>4. Slot!Forget(w)
    BY <1>1, <1>2, <2>2, <2>3 DEF Slot!Forget
  <2>5. QED  BY <2>4 DEF Slot!Next
<1>4. CASE ~CanRename(dest)
  <2>1. UNCHANGED <<dest, backup>>
    BY <1>4 DEF Restore
  <2>2. QED  BY <1>1, <2>1, QuietStutters DEF Ended
<1>5. QED  BY <1>3, <1>4

\* A backup is dropped only while another report is kept.
LEMMA DropRefines ==
  ASSUME NEW w \in Writer, IInv, IInv', Drop(w)
  PROVE  [Slot!Next]_Slot!vars
<1>1. /\ pc[w] = "drop" /\ pc \in [Writer -> Step] /\ backup \in [Writer -> File]
      /\ pc' = [pc EXCEPT ![w] = "succeeded"] /\ landed' = landed
      /\ backup' = [backup EXCEPT ![w] = Absent] /\ dest' = dest
  BY DEF Drop, IInv, TypeOK, Goto, history
<1>2. Slot!HasLanded(w, landed) /\ landed # <<>>
  BY <1>1 DEF IInv, WritersOK, WriterOK, Slot!HasLanded
<1>3. Outcome[w] = "pending" /\ Outcome' = [Outcome EXCEPT ![w] = "succeeded"]
  BY <1>1, OutcomeStep DEF Ended
<1>4. Recoverable' \subseteq Recoverable
  BY <1>1, DistinctAssumption DEF Recoverable, Report
<1>5. Recoverable' # {}
  <2>1. Kept'
    BY <1>1, <1>2 DEF IInv, Covered
  <2>2. QED  BY <2>1 DEF Kept, HasBackup, Recoverable, Report
<1>6. Slot!Forget(w)
  BY <1>1, <1>2, <1>3, <1>4, <1>5 DEF Slot!Forget, Outcome
<1>7. QED  BY <1>6 DEF Slot!Next

\* A writer that fails, is killed, or stops with the machine keeps every report.
LEMMA FailRefines ==
  ASSUME NEW w \in Writer, IInv, IInv', Fail(w)
  PROVE  [Slot!Next]_Slot!vars
<1>1. /\ pc[w] = "tidy" /\ pc \in [Writer -> Step]
      /\ pc' = [pc EXCEPT ![w] = "failed"] /\ UNCHANGED <<dest, backup, landed>>
  BY DEF Fail, IInv, TypeOK, Goto, files, history
<1>2. Outcome[w] = "pending" /\ Outcome' = [Outcome EXCEPT ![w] = "failed"]
  BY <1>1, OutcomeStep DEF Ended
<1>3. Recoverable' = Recoverable
  BY <1>1 DEF Recoverable, Report
<1>4. QED  BY <1>1, <1>2, <1>3 DEF Slot!Fail, Slot!Next

LEMMA StopRefines ==
  ASSUME IInv, IInv', PowerLoss \/ \E w \in Writer : Crash(w)
  PROVE  [Slot!Next]_Slot!vars
<1>1. PICK S \in SUBSET Running :
        pc' = [w \in Writer |-> IF w \in S THEN "crashed" ELSE pc[w]]
  <2>1. CASE PowerLoss
    BY <2>1 DEF PowerLoss, Running
  <2>2. CASE \E w \in Writer : Crash(w)
    <3>1. PICK w \in Running : pc' = [pc EXCEPT ![w] = "crashed"]
      BY <2>2 DEF Crash, Goto
    <3>2. pc' = [v \in Writer |-> IF v \in {w} THEN "crashed" ELSE pc[v]]
      BY <3>1 DEF IInv, TypeOK
    <3>3. QED  BY <3>1, <3>2
  <2>3. QED  BY <2>1, <2>2
<1>2. /\ dest' = dest /\ landed' = landed
      /\ \A w \in Writer : backup'[w] = backup[w]
  BY DistinctAssumption DEF IInv, FilesAreFlushed, PowerLoss, Crash, Torn, files, history, Report
<1>3. Recoverable' = Recoverable
  BY <1>2 DEF Recoverable, Report
<1>4. /\ S \in SUBSET Writer /\ \A w \in S : Outcome[w] = "pending"
      /\ Outcome' = [w \in Writer |-> IF w \in S THEN "crashed" ELSE Outcome[w]]
  BY <1>1 DEF Outcome, Running, Ended
<1>5. Slot!Stop(S)
  BY <1>2, <1>3, <1>4 DEF Slot!Stop
<1>6. QED  BY <1>4, <1>5 DEF Slot!Next

LEMMA InitRefines == Init => Slot!Init
<1> SUFFICES ASSUME Init PROVE Slot!Init
  OBVIOUS
<1>1. Recoverable \in {{}, {Previous}}
  <2>1. \A w \in Writer : backup[w] = Absent
    BY DEF Init
  <2>2. dest \in {Absent, Previous, Other}
    BY DEF Init
  <2>3. CASE dest = Previous
    BY <2>1, <2>3, DistinctAssumption DEF Recoverable, Report
  <2>4. CASE dest # Previous
    BY <2>1, <2>2, <2>4, DistinctAssumption DEF Recoverable, Report
  <2>5. QED  BY <2>3, <2>4
<1>2. Outcome = [w \in Writer |-> "pending"]
  BY DEF Init, Outcome, Ended
<1>3. QED  BY <1>1, <1>2 DEF Init, Slot!Init

(***************************************************************************)
(* Publishing a report implements ReportSlot: once there is a report, a    *)
(* complete one can always be recovered; the previous report is forgotten  *)
(* only after another one landed; success is returned only to a writer     *)
(* whose report landed.                                                    *)
(***************************************************************************)
THEOREM Refinement == Spec => ImplementsSlot
<1>1. Init => Slot!Init
  BY InitRefines
<1>2. IInv /\ IInv' /\ [Next]_vars => [Slot!Next]_Slot!vars
  <2> SUFFICES ASSUME IInv, IInv', [Next]_vars PROVE [Slot!Next]_Slot!vars
    OBVIOUS
  <2>1. ASSUME NEW w \in Writer, Begin(w) \/ Work(w) PROVE [Slot!Next]_Slot!vars
    <3>1. CASE Land(w) \/ Replace(w)
      BY <3>1, LandRefines
    <3>2. CASE Preserve(w)
      BY <3>2, PreserveRefines
    <3>3. CASE Restore(w)
      BY <3>3, RestoreRefines
    <3>4. CASE Drop(w)
      BY <3>4, DropRefines
    <3>5. CASE Fail(w)
      BY <3>5, FailRefines
    <3>6. CASE ~(Land(w) \/ Replace(w) \/ Preserve(w) \/ Restore(w) \/ Drop(w) \/ Fail(w))
      BY <2>1, <3>6, QuietSteps DEF Work
    <3>7. QED  BY <3>1, <3>2, <3>3, <3>4, <3>5, <3>6
  <2>2. CASE PowerLoss \/ \E w \in Writer : Crash(w)
    BY <2>2, StopRefines
  <2>3. CASE UNCHANGED vars
    BY <2>3 DEF vars, files, history, Slot!vars, Recoverable, Outcome
  <2>4. QED  BY <2>1, <2>2, <2>3 DEF Next
<1>3. QED  BY <1>1, <1>2, Inductive, PTL DEF Spec, Slot!Spec, ImplementsSlot
-----------------------------------------------------------------------------
(***************************************************************************)
(* What a writer leaves behind, and why it fails.  Early are the steps     *)
(* before there is a staged file.                                          *)
(***************************************************************************)
Early == {"idle", "parent", "mkdir", "recheck", "inspect", "stage"}

FilesOK(w) ==
  /\ pc[w] \in Early \cup {"drop", "succeeded"} => staged[w] = Absent
  /\ pc[w] = "succeeded" => backup[w] = Absent
  /\ pc[w] \in {"tidy", "failed"} /\ w \notin leaked => staged[w] = Absent
  /\ pc[w] \in {"unstage", "tidy", "failed"} /\ backup[w] # Absent => w \in erred \/ landed # <<>>
  /\ pc[w] = "failed" => created[w] = {}

\* Until something lands, the only one to work created whatever there is now.
AloneOK(w) ==
  Alone(w) /\ landed = <<>> =>
    /\ w \notin leaked => created[w] = (firstDirs + 1) .. dirs /\ firstDirs <= dirs
    /\ firstDest = Absent =>
         /\ dest = Absent /\ backup[w] = Absent
         /\ pc[w] \notin {"reserve", "release", "preserve", "replace", "restore"}

\* The only one to work meets no obstacle as long as its calls succeed.
SmoothOK(w) ==
  Alone(w) /\ w \notin erred /\ firstDest # Other =>
    /\ pc[w] \notin {"restore", "unstage", "tidy", "failed"}
    /\ pc[w] = "parent" => dirs >= level[w] - 1
    /\ pc[w] = "mkdir" => dirs = level[w] - 1
    /\ pc[w] = "recheck" => dirs >= level[w]
    /\ pc[w] \in {"inspect", "stage"} => dirs = Parents
    /\ pc[w] \in {"land", "replace"} => dest = Absent
    /\ pc[w] \in {"reserve", "release", "preserve"} => dest # Absent

FirstOK == firstDirs \in 0 .. Parents /\ (firstDirs < Parents => firstDest = Absent)

EndInv == FirstOK /\ \A w \in Writer : FilesOK(w) /\ AloneOK(w) /\ SmoothOK(w)

\* A step of one writer concerns that writer only: the others keep their files,
\* and none of them is alone any more.
LEMMA OthersEnd ==
  ASSUME NEW w \in Writer, EndInv, FilesOK(w)', AloneOK(w)', SmoothOK(w)', pc'[w] # "idle",
         UNCHANGED start, landed # <<>> => landed' # <<>>,
         erred \subseteq erred', leaked \subseteq leaked',
         \A v \in Writer \ {w} :
           /\ pc'[v] = pc[v] /\ staged'[v] = staged[v]
           /\ backup'[v] = backup[v] /\ created'[v] = created[v]
  PROVE  EndInv'
<1> SUFFICES ASSUME NEW v \in Writer \ {w} PROVE (FilesOK(v) /\ AloneOK(v) /\ SmoothOK(v))'
  BY DEF EndInv, FirstOK, start
<1>1. FilesOK(v)'
  BY DEF EndInv, FilesOK
<1>2. ~Alone(v)'
  BY DEF Alone
<1>3. QED  BY <1>1, <1>2 DEF AloneOK, SmoothOK

\* Whether a writer is alone does not depend on what it does itself.
LEMMA AloneStays ==
  ASSUME NEW w \in Writer, \A v \in Writer \ {w} : pc'[v] = pc[v]
  PROVE  Alone(w)' <=> Alone(w)
BY DEF Alone

LEMMA BeginEnd == ASSUME NEW w \in Writer, IInv, EndInv, Begin(w) PROVE EndInv'
<1> USE DEF Begin, start, files, progress, history, Goto, OnError
<1>1. /\ pc'[w] # "idle" /\ UNCHANGED start
      /\ landed # <<>> => landed' # <<>>
      /\ erred \subseteq erred' /\ leaked \subseteq leaked'
      /\ \A v \in Writer \ {w} :
           /\ pc'[v] = pc[v] /\ staged'[v] = staged[v]
           /\ backup'[v] = backup[v] /\ created'[v] = created[v]
  BY ParentsAssumption DEF IInv, TypeOK, Step, Steps
<1>2. FilesOK(w)'
  BY DistinctAssumption DEF IInv, TypeOK, WritersOK, WriterOK, NoBackup, Publishing, EndInv, FilesOK, Early, Steps
<1>3. Alone(w)' <=> Alone(w)
  BY <1>1, AloneStays
<1>4. AloneOK(w)'
  BY <1>3, DistinctAssumption DEF IInv, TypeOK, WritersOK, WriterOK, NoBackup, EndInv, AloneOK, Steps
<1>5. SmoothOK(w)'
  BY <1>3, ParentsAssumption, DistinctAssumption
  DEF IInv, TypeOK, WritersOK, WriterOK, FilesAreFlushed, NoBackup, EndInv, FirstOK, SmoothOK, Steps
<1>6. QED  BY <1>1, <1>2, <1>4, <1>5, OthersEnd

LEMMA StatParentEnd == ASSUME NEW w \in Writer, IInv, EndInv, StatParent(w) PROVE EndInv'
<1> USE DEF StatParent, start, files, progress, history, Goto, OnError, NextParent
<1>1. /\ pc'[w] # "idle" /\ UNCHANGED start
      /\ landed # <<>> => landed' # <<>>
      /\ erred \subseteq erred' /\ leaked \subseteq leaked'
      /\ \A v \in Writer \ {w} :
           /\ pc'[v] = pc[v] /\ staged'[v] = staged[v]
           /\ backup'[v] = backup[v] /\ created'[v] = created[v]
  BY ParentsAssumption DEF IInv, TypeOK, Step, Steps
<1>2. FilesOK(w)'
  BY DistinctAssumption DEF IInv, TypeOK, WritersOK, WriterOK, NoBackup, Publishing, EndInv, FilesOK, Early, Steps
<1>3. Alone(w)' <=> Alone(w)
  BY <1>1, AloneStays
<1>4. AloneOK(w)'
  BY <1>3, DistinctAssumption DEF IInv, TypeOK, WritersOK, WriterOK, NoBackup, EndInv, AloneOK, Steps
<1>5. SmoothOK(w)'
  BY <1>3, ParentsAssumption, DistinctAssumption
  DEF IInv, TypeOK, WritersOK, WriterOK, FilesAreFlushed, NoBackup, EndInv, FirstOK, SmoothOK, Steps
<1>6. QED  BY <1>1, <1>2, <1>4, <1>5, OthersEnd

LEMMA MkdirEnd == ASSUME NEW w \in Writer, IInv, EndInv, Mkdir(w) PROVE EndInv'
<1> USE DEF Mkdir, start, files, progress, history, Goto, OnError
<1>1. /\ pc'[w] # "idle" /\ UNCHANGED start
      /\ landed # <<>> => landed' # <<>>
      /\ erred \subseteq erred' /\ leaked \subseteq leaked'
      /\ \A v \in Writer \ {w} :
           /\ pc'[v] = pc[v] /\ staged'[v] = staged[v]
           /\ backup'[v] = backup[v] /\ created'[v] = created[v]
  BY ParentsAssumption DEF IInv, TypeOK, Step, Steps
<1>2. FilesOK(w)'
  BY DistinctAssumption DEF IInv, TypeOK, WritersOK, WriterOK, NoBackup, Publishing, EndInv, FilesOK, Early, Steps
<1>3. Alone(w)' <=> Alone(w)
  BY <1>1, AloneStays
<1>4. AloneOK(w)'
  <2>1. /\ pc[w] = "mkdir" /\ UNCHANGED <<firstDirs, firstDest, dest, backup, landed, leaked>>
        /\ pc'[w] \in {"tidy", "recheck"} /\ level[w] \in Nat
    BY DEF IInv, TypeOK
  <2>2. CASE dirs = level[w] - 1
    <3>1. dirs' = dirs + 1 /\ created'[w] = created[w] \cup {dirs + 1}
      BY <2>1, <2>2 DEF IInv, TypeOK
    <3>2. firstDirs \in Nat /\ dirs \in Nat
      BY ParentsAssumption DEF IInv, TypeOK
    <3>3. firstDirs <= dirs =>
            ((firstDirs + 1) .. dirs) \cup {dirs + 1} = (firstDirs + 1) .. (dirs + 1)
      BY <3>2
    <3>4. QED  BY <1>3, <2>1, <3>1, <3>2, <3>3 DEF EndInv, AloneOK
  <2>3. CASE dirs # level[w] - 1
    BY <1>3, <2>1, <2>3 DEF EndInv, AloneOK
  <2>4. QED  BY <2>2, <2>3
<1>5. SmoothOK(w)'
  BY <1>3, ParentsAssumption, DistinctAssumption
  DEF IInv, TypeOK, WritersOK, WriterOK, FilesAreFlushed, NoBackup, EndInv, FirstOK, SmoothOK, Steps
<1>6. QED  BY <1>1, <1>2, <1>4, <1>5, OthersEnd

LEMMA RestatParentEnd == ASSUME NEW w \in Writer, IInv, EndInv, RestatParent(w) PROVE EndInv'
<1> USE DEF RestatParent, start, files, progress, history, Goto, OnError, NextParent
<1>1. /\ pc'[w] # "idle" /\ UNCHANGED start
      /\ landed # <<>> => landed' # <<>>
      /\ erred \subseteq erred' /\ leaked \subseteq leaked'
      /\ \A v \in Writer \ {w} :
           /\ pc'[v] = pc[v] /\ staged'[v] = staged[v]
           /\ backup'[v] = backup[v] /\ created'[v] = created[v]
  BY ParentsAssumption DEF IInv, TypeOK, Step, Steps
<1>2. FilesOK(w)'
  BY DistinctAssumption DEF IInv, TypeOK, WritersOK, WriterOK, NoBackup, Publishing, EndInv, FilesOK, Early, Steps
<1>3. Alone(w)' <=> Alone(w)
  BY <1>1, AloneStays
<1>4. AloneOK(w)'
  BY <1>3, DistinctAssumption DEF IInv, TypeOK, WritersOK, WriterOK, NoBackup, EndInv, AloneOK, Steps
<1>5. SmoothOK(w)'
  BY <1>3, ParentsAssumption, DistinctAssumption
  DEF IInv, TypeOK, WritersOK, WriterOK, FilesAreFlushed, NoBackup, EndInv, FirstOK, SmoothOK, Steps
<1>6. QED  BY <1>1, <1>2, <1>4, <1>5, OthersEnd

LEMMA InspectEnd == ASSUME NEW w \in Writer, IInv, EndInv, Inspect(w) PROVE EndInv'
<1> USE DEF Inspect, start, files, progress, history, Goto, OnError, Usable
<1>1. /\ pc'[w] # "idle" /\ UNCHANGED start
      /\ landed # <<>> => landed' # <<>>
      /\ erred \subseteq erred' /\ leaked \subseteq leaked'
      /\ \A v \in Writer \ {w} :
           /\ pc'[v] = pc[v] /\ staged'[v] = staged[v]
           /\ backup'[v] = backup[v] /\ created'[v] = created[v]
  BY ParentsAssumption DEF IInv, TypeOK, Step, Steps
<1>2. FilesOK(w)'
  BY DistinctAssumption DEF IInv, TypeOK, WritersOK, WriterOK, NoBackup, Publishing, EndInv, FilesOK, Early, Steps
<1>3. Alone(w)' <=> Alone(w)
  BY <1>1, AloneStays
<1>4. AloneOK(w)'
  BY <1>3, DistinctAssumption DEF IInv, TypeOK, WritersOK, WriterOK, NoBackup, EndInv, AloneOK, Steps
<1>5. SmoothOK(w)'
  BY <1>3, ParentsAssumption, DistinctAssumption
  DEF IInv, TypeOK, WritersOK, WriterOK, FilesAreFlushed, NoBackup, EndInv, FirstOK, SmoothOK, Steps
<1>6. QED  BY <1>1, <1>2, <1>4, <1>5, OthersEnd

LEMMA LookEnd == ASSUME NEW w \in Writer, IInv, EndInv, Look(w) PROVE EndInv'
<1> USE DEF Look, start, files, progress, history, Goto, OnError, Usable
<1>1. /\ pc'[w] # "idle" /\ UNCHANGED start
      /\ landed # <<>> => landed' # <<>>
      /\ erred \subseteq erred' /\ leaked \subseteq leaked'
      /\ \A v \in Writer \ {w} :
           /\ pc'[v] = pc[v] /\ staged'[v] = staged[v]
           /\ backup'[v] = backup[v] /\ created'[v] = created[v]
  BY ParentsAssumption DEF IInv, TypeOK, Step, Steps
<1>2. FilesOK(w)'
  BY DistinctAssumption DEF IInv, TypeOK, WritersOK, WriterOK, NoBackup, Publishing, EndInv, FilesOK, Early, Steps
<1>3. Alone(w)' <=> Alone(w)
  BY <1>1, AloneStays
<1>4. AloneOK(w)'
  BY <1>3, DistinctAssumption DEF IInv, TypeOK, WritersOK, WriterOK, NoBackup, EndInv, AloneOK, Steps
<1>5. SmoothOK(w)'
  BY <1>3, ParentsAssumption, DistinctAssumption
  DEF IInv, TypeOK, WritersOK, WriterOK, FilesAreFlushed, NoBackup, EndInv, FirstOK, SmoothOK, Steps
<1>6. QED  BY <1>1, <1>2, <1>4, <1>5, OthersEnd

LEMMA IOErrorEnd == ASSUME NEW w \in Writer, IInv, EndInv, IOError(w) PROVE EndInv'
<1> USE DEF IOError, start, files, progress, history, Goto, OnError
<1>1. /\ pc'[w] # "idle" /\ UNCHANGED start
      /\ landed # <<>> => landed' # <<>>
      /\ erred \subseteq erred' /\ leaked \subseteq leaked'
      /\ \A v \in Writer \ {w} :
           /\ pc'[v] = pc[v] /\ staged'[v] = staged[v]
           /\ backup'[v] = backup[v] /\ created'[v] = created[v]
  BY ParentsAssumption DEF IInv, TypeOK, Step, Steps
<1>2. FilesOK(w)'
  BY DistinctAssumption DEF IInv, TypeOK, WritersOK, WriterOK, NoBackup, Publishing, EndInv, FilesOK, Early, Steps
<1>3. Alone(w)' <=> Alone(w)
  BY <1>1, AloneStays
<1>4. AloneOK(w)'
  BY <1>3, DistinctAssumption DEF IInv, TypeOK, WritersOK, WriterOK, NoBackup, EndInv, AloneOK, Steps
<1>5. SmoothOK(w)'
  BY <1>3, ParentsAssumption, DistinctAssumption
  DEF IInv, TypeOK, WritersOK, WriterOK, FilesAreFlushed, NoBackup, EndInv, FirstOK, SmoothOK, Steps
<1>6. QED  BY <1>1, <1>2, <1>4, <1>5, OthersEnd

LEMMA FailEnd == ASSUME NEW w \in Writer, IInv, EndInv, Fail(w) PROVE EndInv'
<1> USE DEF Fail, start, files, progress, history, Goto, OnError
<1>1. /\ pc'[w] # "idle" /\ UNCHANGED start
      /\ landed # <<>> => landed' # <<>>
      /\ erred \subseteq erred' /\ leaked \subseteq leaked'
      /\ \A v \in Writer \ {w} :
           /\ pc'[v] = pc[v] /\ staged'[v] = staged[v]
           /\ backup'[v] = backup[v] /\ created'[v] = created[v]
  BY ParentsAssumption DEF IInv, TypeOK, Step, Steps
<1>2. FilesOK(w)'
  BY DistinctAssumption DEF IInv, TypeOK, WritersOK, WriterOK, NoBackup, Publishing, EndInv, FilesOK, Early, Steps
<1>3. Alone(w)' <=> Alone(w)
  BY <1>1, AloneStays
<1>4. AloneOK(w)'
  BY <1>3, DistinctAssumption DEF IInv, TypeOK, WritersOK, WriterOK, NoBackup, EndInv, AloneOK, Steps
<1>5. SmoothOK(w)'
  BY <1>3, ParentsAssumption, DistinctAssumption
  DEF IInv, TypeOK, WritersOK, WriterOK, FilesAreFlushed, NoBackup, EndInv, FirstOK, SmoothOK, Steps
<1>6. QED  BY <1>1, <1>2, <1>4, <1>5, OthersEnd

LEMMA CleanupFailsEnd == ASSUME NEW w \in Writer, IInv, EndInv, CleanupFails(w) PROVE EndInv'
<1> USE DEF CleanupFails, start, files, progress, history, Goto, OnError
<1>1. /\ pc'[w] # "idle" /\ UNCHANGED start
      /\ landed # <<>> => landed' # <<>>
      /\ erred \subseteq erred' /\ leaked \subseteq leaked'
      /\ \A v \in Writer \ {w} :
           /\ pc'[v] = pc[v] /\ staged'[v] = staged[v]
           /\ backup'[v] = backup[v] /\ created'[v] = created[v]
  BY ParentsAssumption DEF IInv, TypeOK, Step, Steps
<1>2. FilesOK(w)'
  BY DistinctAssumption DEF IInv, TypeOK, WritersOK, WriterOK, NoBackup, Publishing, EndInv, FilesOK, Early, Steps
<1>3. Alone(w)' <=> Alone(w)
  BY <1>1, AloneStays
<1>4. AloneOK(w)'
  BY <1>3, DistinctAssumption DEF IInv, TypeOK, WritersOK, WriterOK, NoBackup, EndInv, AloneOK, Steps
<1>5. SmoothOK(w)'
  BY <1>3, ParentsAssumption, DistinctAssumption
  DEF IInv, TypeOK, WritersOK, WriterOK, FilesAreFlushed, NoBackup, EndInv, FirstOK, SmoothOK, Steps
<1>6. QED  BY <1>1, <1>2, <1>4, <1>5, OthersEnd

LEMMA StageEnd == ASSUME NEW w \in Writer, IInv, EndInv, Stage(w) PROVE EndInv'
<1> USE DEF Stage, start, files, progress, history, Goto, OnError
<1>1. /\ pc'[w] # "idle" /\ UNCHANGED start
      /\ landed # <<>> => landed' # <<>>
      /\ erred \subseteq erred' /\ leaked \subseteq leaked'
      /\ \A v \in Writer \ {w} :
           /\ pc'[v] = pc[v] /\ staged'[v] = staged[v]
           /\ backup'[v] = backup[v] /\ created'[v] = created[v]
  BY ParentsAssumption DEF IInv, TypeOK, Step, Steps
<1>2. FilesOK(w)'
  BY DistinctAssumption DEF IInv, TypeOK, WritersOK, WriterOK, NoBackup, Publishing, EndInv, FilesOK, Early, Steps
<1>3. Alone(w)' <=> Alone(w)
  BY <1>1, AloneStays
<1>4. AloneOK(w)'
  BY <1>3, DistinctAssumption DEF IInv, TypeOK, WritersOK, WriterOK, NoBackup, EndInv, AloneOK, Steps
<1>5. SmoothOK(w)'
  BY <1>3, ParentsAssumption, DistinctAssumption
  DEF IInv, TypeOK, WritersOK, WriterOK, FilesAreFlushed, NoBackup, EndInv, FirstOK, SmoothOK, Steps
<1>6. QED  BY <1>1, <1>2, <1>4, <1>5, OthersEnd

LEMMA WriteEnd == ASSUME NEW w \in Writer, IInv, EndInv, Write(w) PROVE EndInv'
<1> USE DEF Write, start, files, progress, history, Goto, OnError, Writes
<1>1. /\ pc'[w] # "idle" /\ UNCHANGED start
      /\ landed # <<>> => landed' # <<>>
      /\ erred \subseteq erred' /\ leaked \subseteq leaked'
      /\ \A v \in Writer \ {w} :
           /\ pc'[v] = pc[v] /\ staged'[v] = staged[v]
           /\ backup'[v] = backup[v] /\ created'[v] = created[v]
  BY ParentsAssumption DEF IInv, TypeOK, Step, Steps
<1>2. FilesOK(w)'
  BY DistinctAssumption DEF IInv, TypeOK, WritersOK, WriterOK, NoBackup, Publishing, EndInv, FilesOK, Early, Steps
<1>3. Alone(w)' <=> Alone(w)
  BY <1>1, AloneStays
<1>4. AloneOK(w)'
  BY <1>3, DistinctAssumption DEF IInv, TypeOK, WritersOK, WriterOK, NoBackup, EndInv, AloneOK, Steps
<1>5. SmoothOK(w)'
  BY <1>3, ParentsAssumption, DistinctAssumption
  DEF IInv, TypeOK, WritersOK, WriterOK, FilesAreFlushed, NoBackup, EndInv, FirstOK, SmoothOK, Steps
<1>6. QED  BY <1>1, <1>2, <1>4, <1>5, OthersEnd

LEMMA FlushEnd == ASSUME NEW w \in Writer, IInv, EndInv, Flush(w) PROVE EndInv'
<1> USE DEF Flush, start, files, progress, history, Goto, OnError, Flushes
<1>1. /\ pc'[w] # "idle" /\ UNCHANGED start
      /\ landed # <<>> => landed' # <<>>
      /\ erred \subseteq erred' /\ leaked \subseteq leaked'
      /\ \A v \in Writer \ {w} :
           /\ pc'[v] = pc[v] /\ staged'[v] = staged[v]
           /\ backup'[v] = backup[v] /\ created'[v] = created[v]
  BY ParentsAssumption DEF IInv, TypeOK, Step, Steps
<1>2. FilesOK(w)'
  BY DistinctAssumption DEF IInv, TypeOK, WritersOK, WriterOK, NoBackup, Publishing, EndInv, FilesOK, Early, Steps
<1>3. Alone(w)' <=> Alone(w)
  BY <1>1, AloneStays
<1>4. AloneOK(w)'
  BY <1>3, DistinctAssumption DEF IInv, TypeOK, WritersOK, WriterOK, NoBackup, EndInv, AloneOK, Steps
<1>5. SmoothOK(w)'
  BY <1>3, ParentsAssumption, DistinctAssumption
  DEF IInv, TypeOK, WritersOK, WriterOK, FilesAreFlushed, NoBackup, EndInv, FirstOK, SmoothOK, Steps
<1>6. QED  BY <1>1, <1>2, <1>4, <1>5, OthersEnd

LEMMA ReserveEnd == ASSUME NEW w \in Writer, IInv, EndInv, Reserve(w) PROVE EndInv'
<1> USE DEF Reserve, start, files, progress, history, Goto, OnError
<1>1. /\ pc'[w] # "idle" /\ UNCHANGED start
      /\ landed # <<>> => landed' # <<>>
      /\ erred \subseteq erred' /\ leaked \subseteq leaked'
      /\ \A v \in Writer \ {w} :
           /\ pc'[v] = pc[v] /\ staged'[v] = staged[v]
           /\ backup'[v] = backup[v] /\ created'[v] = created[v]
  BY ParentsAssumption DEF IInv, TypeOK, Step, Steps
<1>2. FilesOK(w)'
  BY DistinctAssumption DEF IInv, TypeOK, WritersOK, WriterOK, NoBackup, Publishing, EndInv, FilesOK, Early, Steps
<1>3. Alone(w)' <=> Alone(w)
  BY <1>1, AloneStays
<1>4. AloneOK(w)'
  BY <1>3, DistinctAssumption DEF IInv, TypeOK, WritersOK, WriterOK, NoBackup, EndInv, AloneOK, Steps
<1>5. SmoothOK(w)'
  BY <1>3, ParentsAssumption, DistinctAssumption
  DEF IInv, TypeOK, WritersOK, WriterOK, FilesAreFlushed, NoBackup, EndInv, FirstOK, SmoothOK, Steps
<1>6. QED  BY <1>1, <1>2, <1>4, <1>5, OthersEnd

LEMMA ReleaseEnd == ASSUME NEW w \in Writer, IInv, EndInv, Release(w) PROVE EndInv'
<1> USE DEF Release, start, files, progress, history, Goto, OnError, NoPlaceholder
<1>1. /\ pc'[w] # "idle" /\ UNCHANGED start
      /\ landed # <<>> => landed' # <<>>
      /\ erred \subseteq erred' /\ leaked \subseteq leaked'
      /\ \A v \in Writer \ {w} :
           /\ pc'[v] = pc[v] /\ staged'[v] = staged[v]
           /\ backup'[v] = backup[v] /\ created'[v] = created[v]
  BY ParentsAssumption DEF IInv, TypeOK, Step, Steps
<1>2. FilesOK(w)'
  BY DistinctAssumption DEF IInv, TypeOK, WritersOK, WriterOK, NoBackup, Publishing, EndInv, FilesOK, Early, Steps
<1>3. Alone(w)' <=> Alone(w)
  BY <1>1, AloneStays
<1>4. AloneOK(w)'
  BY <1>3, DistinctAssumption DEF IInv, TypeOK, WritersOK, WriterOK, NoBackup, EndInv, AloneOK, Steps
<1>5. SmoothOK(w)'
  BY <1>3, ParentsAssumption, DistinctAssumption
  DEF IInv, TypeOK, WritersOK, WriterOK, FilesAreFlushed, NoBackup, EndInv, FirstOK, SmoothOK, Steps
<1>6. QED  BY <1>1, <1>2, <1>4, <1>5, OthersEnd

LEMMA ReleaseFailsEnd == ASSUME NEW w \in Writer, IInv, EndInv, ReleaseFails(w) PROVE EndInv'
<1> USE DEF ReleaseFails, start, files, progress, history, Goto, OnError
<1>1. /\ pc'[w] # "idle" /\ UNCHANGED start
      /\ landed # <<>> => landed' # <<>>
      /\ erred \subseteq erred' /\ leaked \subseteq leaked'
      /\ \A v \in Writer \ {w} :
           /\ pc'[v] = pc[v] /\ staged'[v] = staged[v]
           /\ backup'[v] = backup[v] /\ created'[v] = created[v]
  BY ParentsAssumption DEF IInv, TypeOK, Step, Steps
<1>2. FilesOK(w)'
  BY DistinctAssumption DEF IInv, TypeOK, WritersOK, WriterOK, NoBackup, Publishing, EndInv, FilesOK, Early, Steps
<1>3. Alone(w)' <=> Alone(w)
  BY <1>1, AloneStays
<1>4. AloneOK(w)'
  BY <1>3, DistinctAssumption DEF IInv, TypeOK, WritersOK, WriterOK, NoBackup, EndInv, AloneOK, Steps
<1>5. SmoothOK(w)'
  BY <1>3, ParentsAssumption, DistinctAssumption
  DEF IInv, TypeOK, WritersOK, WriterOK, FilesAreFlushed, NoBackup, EndInv, FirstOK, SmoothOK, Steps
<1>6. QED  BY <1>1, <1>2, <1>4, <1>5, OthersEnd

LEMMA PreserveEnd == ASSUME NEW w \in Writer, IInv, EndInv, Preserve(w) PROVE EndInv'
<1> USE DEF Preserve, start, files, progress, history, Goto, OnError, CanRename
<1>1. /\ pc'[w] # "idle" /\ UNCHANGED start
      /\ landed # <<>> => landed' # <<>>
      /\ erred \subseteq erred' /\ leaked \subseteq leaked'
      /\ \A v \in Writer \ {w} :
           /\ pc'[v] = pc[v] /\ staged'[v] = staged[v]
           /\ backup'[v] = backup[v] /\ created'[v] = created[v]
  BY ParentsAssumption DEF IInv, TypeOK, Step, Steps
<1>2. FilesOK(w)'
  BY DistinctAssumption DEF IInv, TypeOK, WritersOK, WriterOK, NoBackup, Publishing, EndInv, FilesOK, Early, Steps
<1>3. Alone(w)' <=> Alone(w)
  BY <1>1, AloneStays
<1>4. AloneOK(w)'
  BY <1>3, DistinctAssumption DEF IInv, TypeOK, WritersOK, WriterOK, NoBackup, EndInv, AloneOK, Steps
<1>5. SmoothOK(w)'
  BY <1>3, ParentsAssumption, DistinctAssumption
  DEF IInv, TypeOK, WritersOK, WriterOK, FilesAreFlushed, NoBackup, EndInv, FirstOK, SmoothOK, Steps
<1>6. QED  BY <1>1, <1>2, <1>4, <1>5, OthersEnd

LEMMA RestoreEnd == ASSUME NEW w \in Writer, IInv, EndInv, Restore(w) PROVE EndInv'
<1> USE DEF Restore, start, files, progress, history, Goto, OnError, CanRename, Restored
<1>1. /\ pc'[w] # "idle" /\ UNCHANGED start
      /\ landed # <<>> => landed' # <<>>
      /\ erred \subseteq erred' /\ leaked \subseteq leaked'
      /\ \A v \in Writer \ {w} :
           /\ pc'[v] = pc[v] /\ staged'[v] = staged[v]
           /\ backup'[v] = backup[v] /\ created'[v] = created[v]
  BY ParentsAssumption DEF IInv, TypeOK, Step, Steps
<1>2. FilesOK(w)'
  <2>1. /\ pc[w] = "restore" /\ pc'[w] = "unstage" /\ UNCHANGED <<landed, erred>>
    BY DEF IInv, TypeOK
  <2>2. ASSUME landed = <<>> PROVE backup'[w] = Absent
    <3>1. backup[w] \in Report /\ firstDest # Other
      BY <2>1 DEF IInv, WritersOK, WriterOK, Writing
    <3>2. dest = Absent
      BY <2>2, <3>1 DEF IInv, TypeOK, OneCopy, HasBackup, FilesAreFlushed
    <3>3. QED  BY <3>2 DEF IInv, TypeOK
  <2>3. QED  BY <2>1, <2>2 DEF FilesOK, Early
<1>3. Alone(w)' <=> Alone(w)
  BY <1>1, AloneStays
<1>4. AloneOK(w)'
  BY <1>3, DistinctAssumption DEF IInv, TypeOK, WritersOK, WriterOK, NoBackup, EndInv, AloneOK, Steps
<1>5. SmoothOK(w)'
  BY <1>3, ParentsAssumption, DistinctAssumption
  DEF IInv, TypeOK, WritersOK, WriterOK, FilesAreFlushed, NoBackup, EndInv, FirstOK, SmoothOK, Steps
<1>6. QED  BY <1>1, <1>2, <1>4, <1>5, OthersEnd

LEMMA DropEnd == ASSUME NEW w \in Writer, IInv, EndInv, Drop(w) PROVE EndInv'
<1> USE DEF Drop, start, files, progress, history, Goto, OnError
<1>1. /\ pc'[w] # "idle" /\ UNCHANGED start
      /\ landed # <<>> => landed' # <<>>
      /\ erred \subseteq erred' /\ leaked \subseteq leaked'
      /\ \A v \in Writer \ {w} :
           /\ pc'[v] = pc[v] /\ staged'[v] = staged[v]
           /\ backup'[v] = backup[v] /\ created'[v] = created[v]
  BY ParentsAssumption DEF IInv, TypeOK, Step, Steps
<1>2. FilesOK(w)'
  BY DistinctAssumption DEF IInv, TypeOK, WritersOK, WriterOK, NoBackup, Publishing, EndInv, FilesOK, Early, Steps
<1>3. Alone(w)' <=> Alone(w)
  BY <1>1, AloneStays
<1>4. AloneOK(w)'
  BY <1>3, DistinctAssumption DEF IInv, TypeOK, WritersOK, WriterOK, NoBackup, EndInv, AloneOK, Steps
<1>5. SmoothOK(w)'
  BY <1>3, ParentsAssumption, DistinctAssumption
  DEF IInv, TypeOK, WritersOK, WriterOK, FilesAreFlushed, NoBackup, EndInv, FirstOK, SmoothOK, Steps
<1>6. QED  BY <1>1, <1>2, <1>4, <1>5, OthersEnd

LEMMA UnstageEnd == ASSUME NEW w \in Writer, IInv, EndInv, Unstage(w) PROVE EndInv'
<1> USE DEF Unstage, start, files, progress, history, Goto, OnError, Unstaged
<1>1. /\ pc'[w] # "idle" /\ UNCHANGED start
      /\ landed # <<>> => landed' # <<>>
      /\ erred \subseteq erred' /\ leaked \subseteq leaked'
      /\ \A v \in Writer \ {w} :
           /\ pc'[v] = pc[v] /\ staged'[v] = staged[v]
           /\ backup'[v] = backup[v] /\ created'[v] = created[v]
  BY ParentsAssumption DEF IInv, TypeOK, Step, Steps
<1>2. FilesOK(w)'
  BY DistinctAssumption DEF IInv, TypeOK, WritersOK, WriterOK, NoBackup, Publishing, EndInv, FilesOK, Early, Steps
<1>3. Alone(w)' <=> Alone(w)
  BY <1>1, AloneStays
<1>4. AloneOK(w)'
  BY <1>3, DistinctAssumption DEF IInv, TypeOK, WritersOK, WriterOK, NoBackup, EndInv, AloneOK, Steps
<1>5. SmoothOK(w)'
  BY <1>3, ParentsAssumption, DistinctAssumption
  DEF IInv, TypeOK, WritersOK, WriterOK, FilesAreFlushed, NoBackup, EndInv, FirstOK, SmoothOK, Steps
<1>6. QED  BY <1>1, <1>2, <1>4, <1>5, OthersEnd

LEMMA LandEnd == ASSUME NEW w \in Writer, IInv, EndInv, Land(w) PROVE EndInv'
<1> USE DEF Land, start, files, progress, history, Goto, OnError, CanRename, MoveIn
<1>1. /\ pc'[w] # "idle" /\ UNCHANGED start
      /\ landed # <<>> => landed' # <<>>
      /\ erred \subseteq erred' /\ leaked \subseteq leaked'
      /\ \A v \in Writer \ {w} :
           /\ pc'[v] = pc[v] /\ staged'[v] = staged[v]
           /\ backup'[v] = backup[v] /\ created'[v] = created[v]
  BY MoveInFacts, ParentsAssumption DEF IInv, TypeOK, Step, Steps
<1>2. FilesOK(w)'
  BY DistinctAssumption DEF IInv, TypeOK, WritersOK, WriterOK, NoBackup, Publishing, EndInv, FilesOK, Early, Steps
<1>3. Alone(w)' <=> Alone(w)
  BY <1>1, AloneStays
<1>4. AloneOK(w)'
  <2>1. CASE CanRename(dest)
    <3>1. landed' # <<>>
      BY <1>1, <2>1, MoveInFacts
    <3>2. QED  BY <3>1 DEF AloneOK
  <2>2. CASE ~CanRename(dest)
    BY <1>3, <2>2 DEF IInv, TypeOK, EndInv, AloneOK
  <2>3. QED  BY <2>1, <2>2
<1>5. SmoothOK(w)'
  BY <1>3, ParentsAssumption, DistinctAssumption
  DEF IInv, TypeOK, WritersOK, WriterOK, FilesAreFlushed, NoBackup, EndInv, FirstOK, SmoothOK, Steps
<1>6. QED  BY <1>1, <1>2, <1>4, <1>5, OthersEnd

LEMMA ReplaceEnd == ASSUME NEW w \in Writer, IInv, EndInv, Replace(w) PROVE EndInv'
<1> USE DEF Replace, start, files, progress, history, Goto, OnError, CanRename, MoveIn
<1>1. /\ pc'[w] # "idle" /\ UNCHANGED start
      /\ landed # <<>> => landed' # <<>>
      /\ erred \subseteq erred' /\ leaked \subseteq leaked'
      /\ \A v \in Writer \ {w} :
           /\ pc'[v] = pc[v] /\ staged'[v] = staged[v]
           /\ backup'[v] = backup[v] /\ created'[v] = created[v]
  BY MoveInFacts, ParentsAssumption DEF IInv, TypeOK, Step, Steps
<1>2. FilesOK(w)'
  BY DistinctAssumption DEF IInv, TypeOK, WritersOK, WriterOK, NoBackup, Publishing, EndInv, FilesOK, Early, Steps
<1>3. Alone(w)' <=> Alone(w)
  BY <1>1, AloneStays
<1>4. AloneOK(w)'
  <2>1. CASE CanRename(dest)
    <3>1. landed' # <<>>
      BY <1>1, <2>1, MoveInFacts
    <3>2. QED  BY <3>1 DEF AloneOK
  <2>2. CASE ~CanRename(dest)
    BY <1>3, <2>2 DEF IInv, TypeOK, EndInv, AloneOK
  <2>3. QED  BY <2>1, <2>2
<1>5. SmoothOK(w)'
  BY <1>3, ParentsAssumption, DistinctAssumption
  DEF IInv, TypeOK, WritersOK, WriterOK, FilesAreFlushed, NoBackup, EndInv, FirstOK, SmoothOK, Steps
<1>6. QED  BY <1>1, <1>2, <1>4, <1>5, OthersEnd

\* The only writer removes the directories that it created, the innermost first:
\* nothing but its own staged file could be in them.
LEMMA RemoveDirectoryEnd ==
  ASSUME NEW w \in Writer, NEW d \in 1 .. Parents, IInv, EndInv, RemoveDirectory(w, d)
  PROVE  EndInv'
<1> USE DEF RemoveDirectory, start, files, progress, history
<1>1. /\ pc[w] = "tidy" /\ Innermost(w, d) /\ pc' = pc
      /\ UNCHANGED <<start, files, level, history>>
      /\ created' = [created EXCEPT ![w] = @ \ {d}] /\ dirs' \in {d - 1, dirs}
      /\ created \in [Writer -> SUBSET (1 .. Parents)]
  BY DEF IInv, TypeOK
<1>2. FilesOK(w)' /\ SmoothOK(w)'
  BY <1>1 DEF EndInv, FilesOK, SmoothOK, Early, Alone
<1>3. AloneOK(w)'
  <2>1. SUFFICES ASSUME Alone(w), landed = <<>>, w \notin leaked
                 PROVE  created'[w] = (firstDirs + 1) .. dirs' /\ firstDirs <= dirs'
    BY <1>1 DEF EndInv, AloneOK, Alone
  <2>2. created[w] = (firstDirs + 1) .. dirs /\ firstDirs \in 0 .. Parents /\ dirs \in 0 .. Parents
    BY <2>1 DEF EndInv, AloneOK, FirstOK, IInv, TypeOK
  <2>3. d = dirs /\ firstDirs < dirs
    BY <1>1, <2>2, ParentsAssumption DEF Innermost
  <2>4. IsEmpty(d)
    <3>1. dest = Absent /\ backup[w] = Absent /\ staged[w] = Absent
      BY <1>1, <2>1, <2>2, <2>3, ParentsAssumption DEF EndInv, FirstOK, AloneOK, FilesOK
    <3>2. \A v \in Writer \ {w} : staged[v] = Absent /\ backup[v] = Absent
      BY <2>1 DEF Alone, EndInv, FilesOK, Early, IInv, WritersOK, WriterOK, NoBackup
    <3>3. QED  BY <2>3, <3>1, <3>2 DEF IsEmpty
  <2>5. dirs' = dirs - 1 /\ created'[w] = created[w] \ {dirs}
    BY <1>1, <2>3, <2>4
  <2>6. ((firstDirs + 1) .. dirs) \ {dirs} = (firstDirs + 1) .. (dirs - 1)
    BY <2>2, ParentsAssumption
  <2>7. firstDirs <= dirs'
    BY <2>2, <2>3, <2>5, ParentsAssumption
  <2>8. QED  BY <2>2, <2>5, <2>6, <2>7
<1>4. QED  BY <1>1, <1>2, <1>3, OthersEnd

LEMMA CrashEnd == ASSUME NEW w \in Writer, IInv, EndInv, Crash(w) PROVE EndInv'
<1> USE DEF Crash, start, files, progress, history, Goto
<1>1. /\ pc'[w] = "crashed" /\ \A v \in Writer \ {w} : pc'[v] = pc[v]
      /\ UNCHANGED <<start, files, progress, history>>
  BY DEF IInv, TypeOK
<1>2. FilesOK(w)'
  BY <1>1 DEF FilesOK, Early
<1>3. AloneOK(w)' /\ SmoothOK(w)'
  BY <1>1, AloneStays DEF EndInv, AloneOK, SmoothOK
<1>4. QED  BY <1>1, <1>2, <1>3, OthersEnd

LEMMA PowerLossEnd == IInv /\ EndInv /\ PowerLoss => EndInv'
<1> SUFFICES ASSUME IInv, EndInv, PowerLoss, NEW w \in Writer
             PROVE  (FilesOK(w) /\ AloneOK(w) /\ SmoothOK(w))'
  BY DEF EndInv, FirstOK, PowerLoss, start
<1> USE DEF start, progress, history
<1>1. /\ dest' = dest /\ backup'[w] = backup[w]
      /\ UNCHANGED <<start, flushed, progress, history>>
  BY DistinctAssumption DEF IInv, FilesAreFlushed, PowerLoss, Torn, Report
<1>2. \A v \in Writer :
        \/ pc'[v] = "crashed"
        \/ pc[v] \in {"idle"} \cup Ended /\ pc'[v] = pc[v]
  BY DEF PowerLoss, Running
<1>3. staged[w] = Absent => staged'[w] = Absent
  BY DistinctAssumption DEF PowerLoss, Torn, Report
<1>4. Alone(w)' => Alone(w)
  BY <1>2 DEF Alone
<1>5. FilesOK(w)'
  BY <1>1, <1>2, <1>3 DEF EndInv, FilesOK, Early, Ended
<1>6. AloneOK(w)' /\ SmoothOK(w)'
  BY <1>1, <1>2, <1>4 DEF EndInv, AloneOK, SmoothOK, Ended
<1>7. QED  BY <1>5, <1>6

LEMMA InitEnd == Init => EndInv
<1> SUFFICES ASSUME Init, NEW w \in Writer PROVE FilesOK(w) /\ AloneOK(w) /\ SmoothOK(w)
  BY ParentsAssumption DEF EndInv, FirstOK, Init
<1>1. FilesOK(w) /\ SmoothOK(w)
  BY ParentsAssumption DEF Init, FilesOK, SmoothOK, Early
<1>2. created[w] = (firstDirs + 1) .. dirs /\ firstDirs <= dirs
  BY ParentsAssumption DEF Init
<1>3. AloneOK(w)
  BY <1>2 DEF Init, AloneOK
<1>4. QED  BY <1>1, <1>3

LEMMA NextEnd == IInv /\ EndInv /\ [Next]_vars => EndInv'
<1> SUFFICES ASSUME IInv, EndInv, [Next]_vars PROVE EndInv'
  OBVIOUS
<1>1. ASSUME NEW w \in Writer, Work(w) PROVE EndInv'
  <2>1. CASE StatParent(w)
    BY <2>1, StatParentEnd
  <2>2. CASE Mkdir(w)
    BY <2>2, MkdirEnd
  <2>3. CASE RestatParent(w)
    BY <2>3, RestatParentEnd
  <2>4. CASE Inspect(w)
    BY <2>4, InspectEnd
  <2>5. CASE Stage(w)
    BY <2>5, StageEnd
  <2>6. CASE Write(w)
    BY <2>6, WriteEnd
  <2>7. CASE Flush(w)
    BY <2>7, FlushEnd
  <2>8. CASE Look(w)
    BY <2>8, LookEnd
  <2>9. CASE Land(w)
    BY <2>9, LandEnd
  <2>10. CASE Reserve(w)
    BY <2>10, ReserveEnd
  <2>11. CASE Release(w)
    BY <2>11, ReleaseEnd
  <2>12. CASE ReleaseFails(w)
    BY <2>12, ReleaseFailsEnd
  <2>13. CASE Preserve(w)
    BY <2>13, PreserveEnd
  <2>14. CASE Replace(w)
    BY <2>14, ReplaceEnd
  <2>15. CASE Restore(w)
    BY <2>15, RestoreEnd
  <2>16. CASE Drop(w)
    BY <2>16, DropEnd
  <2>17. CASE IOError(w)
    BY <2>17, IOErrorEnd
  <2>18. CASE Unstage(w)
    BY <2>18, UnstageEnd
  <2>19. CASE Fail(w)
    BY <2>19, FailEnd
  <2>20. CASE CleanupFails(w)
    BY <2>20, CleanupFailsEnd
  <2>21. ASSUME NEW d \in 1 .. Parents, RemoveDirectory(w, d) PROVE EndInv'
    BY <2>21, RemoveDirectoryEnd
  <2>22. QED  BY <1>1, <2>1, <2>2, <2>3, <2>4, <2>5, <2>6, <2>7, <2>8, <2>9, <2>10, <2>11,
             <2>12, <2>13, <2>14, <2>15, <2>16, <2>17, <2>18, <2>19, <2>20, <2>21 DEF Work
<1>2. CASE Next
  BY <1>1, <1>2, BeginEnd, CrashEnd, PowerLossEnd DEF Next
<1>3. CASE UNCHANGED vars
  BY <1>3 DEF vars, start, files, progress, history, EndInv, FirstOK, FilesOK, AloneOK, SmoothOK, Alone
<1>4. QED  BY <1>2, <1>3

\* How writers end, on top of the first inductive invariant.
THEOREM EndsInductive == Spec => []EndInv
<1>1. Init => EndInv
  BY InitEnd
<1>2. IInv /\ EndInv /\ [Next]_vars => EndInv'
  BY NextEnd
<1>3. QED  BY <1>1, <1>2, Inductive, PTL DEF Spec

(***************************************************************************)
(* A writer fails only for a reason: one of its calls failed, the          *)
(* destination is no regular file, or another writer was at work.          *)
(***************************************************************************)
THEOREM FailuresHaveCauses == Spec => []NoSpuriousFailure
<1>1. EndInv => NoSpuriousFailure
  BY DEF EndInv, SmoothOK, NoSpuriousFailure
<1>2. QED  BY <1>1, EndsInductive, PTL

(***************************************************************************)
(* A writer that ended left no temporary file unless its cleanup failed,   *)
(* and one that failed alone no directory.                                 *)
(***************************************************************************)
THEOREM CleanupIsComplete == Spec => []LeavesNothingBehind
<1>1. ASSUME IInv, EndInv, NEW w \in Writer, pc[w] = "failed", w \notin leaked,
             Alone(w), landed = <<>>
      PROVE  dirs = firstDirs
  <2>1. (firstDirs + 1) .. dirs = {} /\ firstDirs <= dirs
    BY <1>1 DEF EndInv, AloneOK, FilesOK
  <2>2. firstDirs \in Nat /\ dirs \in Nat
    BY <1>1, ParentsAssumption DEF IInv, TypeOK
  <2>3. firstDirs < dirs => dirs \in (firstDirs + 1) .. dirs
    BY <2>2
  <2>4. QED  BY <2>1, <2>2, <2>3
<1>2. ASSUME IInv, EndInv PROVE LeavesNothingBehind
  <2>1. \A w \in Writer : FilesOK(w)
    BY <1>2 DEF EndInv
  <2>2. QED  BY <1>1, <1>2, <2>1 DEF LeavesNothingBehind, FilesOK
<1>3. QED  BY <1>2, Inductive, EndsInductive, PTL
=============================================================================
