------------------------- MODULE CompositeResolution -------------------------
(***************************************************************************)
(* Resolution of repository-local composite actions                        *)
(* (internal/compositeaction: Resolve and resolveNested).                  *)
(*                                                                         *)
(* Resolve first reads every directory that a workflow step references,    *)
(* each once and in sorted order.  The directories that hold a composite   *)
(* action seed a repository-wide work queue, and the nested expansion      *)
(* reads the steps of each queued action, resolves the local references it *)
(* finds and queues the actions it had not met.  The caller may cancel its *)
(* context at any moment, which the code notices only where it asks, and   *)
(* other programs may edit the repository while it is being read.          *)
(*                                                                         *)
(* A canonical directory is a natural number: its rank in the sorted order *)
(* of names, which is all the code ever compares.                          *)
(***************************************************************************)
EXTENDS Naturals, Sequences

CONSTANTS
  Dir,        \* canonical directories of the repository
  Contents,   \* what a directory may hold on disk
  Layouts,    \* the repositories a run may start from
  NotCached,  \* no metadata is cached for a directory
  Unresolved, \* the top level has not asked for a directory
  NoDir,      \* no action is being expanded
  MaxEdits    \* bound on the edits made by other programs

(***************************************************************************)
(* A step's uses: reference, by the branch of the classification it takes. *)
(* "none" is a run: step.  dir is the normalised directory of a "local"    *)
(* reference and has no meaning for the other kinds.                       *)
(***************************************************************************)
RefKind == {"none", "expression", "docker", "rejected", "local", "external"}
Ref     == [kind : RefKind, dir : Dir]
Steps   == Seq(Ref)

Candidate == {"absent", "regular", "unsafe", "error"}

DirContents == [lookup : {"found", "not_exist", "error"},
                yml    : Candidate,
                yaml   : Candidate,
                parse  : {"composite", "other", "malformed"},
                steps  : Steps]

Resolved == "resolved_local_composite"
Status   == {Resolved, "opaque_external", "opaque_docker", "rejected_path",
             "unsupported_expression", "metadata_missing", "malformed_metadata",
             "metadata_ambiguous", "target_not_composite"}

ASSUME DirAssumption        == Dir \subseteq Nat
ASSUME ContentsAssumption   == Contents \subseteq DirContents
ASSUME LayoutsAssumption    == Layouts \subseteq [Dir -> Contents]
ASSUME NotCachedAssumption  == NotCached \notin Steps
ASSUME UnresolvedAssumption == Unresolved \notin Status
ASSUME NoDirAssumption      == NoDir \notin Dir
ASSUME MaxEditsAssumption   == MaxEdits \in Nat

VARIABLES
  disk,          \* what each directory holds now
  ctxDone,       \* the caller's context is cancelled
  pc,
  pending,       \* directories the workflows reference, still to resolve
  topStatus,     \* outcome of each directory the workflows reference
  metadataCache, \* steps of the parsed action of each cached directory
  queue, queued, expanded,
  directory,     \* the action being expanded
  stepIndex,
  nestedCalls,
  reads,         \* history: how often resolveDirectory ran on a directory
  expansions,    \* history: how often the steps of a directory were walked
  edits          \* edits made so far

diskVars == <<disk, edits>>
topVars  == <<pending, topStatus>>
walkVars == <<directory, stepIndex, expansions>>
workVars == <<queue, queued, expanded>>
vars == <<diskVars, topVars, walkVars, workVars,
          ctxDone, pc, metadataCache, nestedCalls, reads>>

Cached   == {d \in Dir : metadataCache[d] # NotCached}
TopLevel == {d \in Dir : topStatus[d] = Resolved}
Queued   == {queue[i] : i \in 1 .. Len(queue)}
Running  == pc \notin {"done", "cancelled"}

(***************************************************************************)
(* The outcome of resolveDirectory on contents c.  A context that is       *)
(* cancelled by the time the metadata is parsed makes the parser return    *)
(* its error, which is reported like any other parse error.                *)
(***************************************************************************)
ParseStatus(c, cancelled) ==
  CASE cancelled \/ c.parse = "malformed" -> "malformed_metadata"
    [] ~cancelled /\ c.parse = "other"     -> "target_not_composite"
    [] ~cancelled /\ c.parse = "composite" -> Resolved

resolveDirectory(c, cancelled) ==
  LET found == {c.yml, c.yaml} IN
  CASE c.lookup = "not_exist" -> "metadata_missing"
    [] c.lookup = "error"     -> "rejected_path"
    [] c.lookup = "found" /\ found \cap {"unsafe", "error"} # {} -> "rejected_path"
    [] c.lookup = "found" /\ found = {"regular"} -> "metadata_ambiguous"
    [] c.lookup = "found" /\ found = {"absent"}  -> "metadata_missing"
    [] c.lookup = "found" /\ found = {"absent", "regular"} -> ParseStatus(c, cancelled)

\* FAULT: the reference's kind is reported where its status belongs.
KindAsStatus(kind) == kind

\* The status of a reference that is classified without touching the disk.
ClassifiedStatus(kind) ==
  CASE kind = "expression" -> "unsupported_expression"
    [] kind = "docker"     -> "opaque_docker"
    [] kind = "rejected"   -> "rejected_path"
    [] kind = "external"   -> "opaque_external"
-----------------------------------------------------------------------------
Init ==
  /\ disk \in Layouts
  /\ ctxDone = FALSE
  /\ pc = "dirs"
  /\ pending \in SUBSET Dir
  /\ topStatus = [d \in Dir |-> Unresolved]
  /\ metadataCache = [d \in Dir |-> NotCached]
  /\ queue = <<>>
  /\ queued = {}
  /\ expanded = {}
  /\ directory = NoDir
  /\ stepIndex = 1
  /\ nestedCalls = {}
  /\ reads = [d \in Dir |-> 0]
  /\ expansions = [d \in Dir |-> 0]
  /\ edits = 0

\* Resolve asks the context, then reads the next directory.
CheckTopLevel ==
  /\ pc = "dirs" /\ pending # {} /\ ~ctxDone
  /\ pc' = "dir"
  /\ UNCHANGED <<diskVars, topVars, walkVars, workVars,
                 ctxDone, metadataCache, nestedCalls, reads>>

\* FAULT: the metadata of a resolved action is not kept.
KeepNothing(d, status) == UNCHANGED metadataCache

\* FAULT: the metadata is kept whatever the outcome was.
KeepAlways(d, status) == metadataCache' = [metadataCache EXCEPT ![d] = disk[d].steps]

\* The metadata of a directory that holds a composite action is cached.
Keep(d, status) ==
  IF status = Resolved
    THEN metadataCache' = [metadataCache EXCEPT ![d] = disk[d].steps]
    ELSE UNCHANGED metadataCache

(***************************************************************************)
(* One directory of the sorted, duplicate-free list is resolved.  The      *)
(* actions resolved here, already in sorted order, become resolveNested's  *)
(* cache and its first queue.                                              *)
(***************************************************************************)
ResolveTopLevel(d) ==
  LET status == resolveDirectory(disk[d], ctxDone) IN
  /\ pc = "dir"
  /\ d \in pending /\ \A e \in pending : d <= e
  /\ pending' = pending \ {d}
  /\ topStatus' = [topStatus EXCEPT ![d] = status]
  /\ reads' = [reads EXCEPT ![d] = @ + 1]
  /\ Keep(d, status)
  /\ queue' = IF status = Resolved THEN Append(queue, d) ELSE queue
  /\ pc' = "dirs"
  /\ UNCHANGED <<diskVars, walkVars, queued, expanded, ctxDone, nestedCalls>>

\* resolveNested asks the context and marks every seed as queued.
EnterNested ==
  /\ pc = "dirs" /\ pending = {} /\ ~ctxDone
  /\ queued' = Queued
  /\ pc' = "queue"
  /\ UNCHANGED <<diskVars, topVars, walkVars, queue, expanded,
                 ctxDone, metadataCache, nestedCalls, reads>>

\* FAULT: metadata that was cached before the expansion counts as expanded.
SkipsTopLevel(d) == d \in expanded \cup TopLevel \/ d \notin Cached

\* FAULT: the head stays in the queue.
RestKeepsHead(q) == q

(***************************************************************************)
(* The head of the queue is taken, and skipped when it was expanded before *)
(* or has no cached metadata.  QueueIsSound says that neither happens.     *)
(***************************************************************************)
Skips(d) == d \in expanded \/ d \notin Cached

Rest(q) == Tail(q)

NextDirectory ==
  /\ pc = "queue" /\ queue # <<>> /\ ~ctxDone
  /\ queue' = Rest(queue)
  /\ IF Skips(Head(queue))
       THEN UNCHANGED <<pc, walkVars>> /\ expanded' = expanded \cup {Head(queue)}
       ELSE /\ directory' = Head(queue)
            /\ stepIndex' = 1
            /\ expansions' = [expansions EXCEPT ![Head(queue)] = @ + 1]
            /\ pc' = "step"
            /\ UNCHANGED expanded
  /\ UNCHANGED <<diskVars, topVars, queued, ctxDone, metadataCache, nestedCalls, reads>>

HasStep     == stepIndex <= Len(metadataCache[directory])
CurrentStep == metadataCache[directory][stepIndex]

\* The context is asked before each step; a run: step is skipped.
CheckStep ==
  /\ pc = "step" /\ HasStep /\ ~ctxDone
  /\ IF CurrentStep.kind = "none"
       THEN stepIndex' = stepIndex + 1 /\ pc' = "step"
       ELSE stepIndex' = stepIndex /\ pc' = "ref"
  /\ UNCHANGED <<diskVars, topVars, directory, expansions, workVars,
                 ctxDone, metadataCache, nestedCalls, reads>>

RecordCall(status) ==
  /\ nestedCalls' = nestedCalls \cup
       {[parent |-> directory, step |-> stepIndex, ref |-> CurrentStep, status |-> status]}
  /\ stepIndex' = stepIndex + 1
  /\ pc' = "step"

\* An expression, docker, unsafe or external reference.
ClassifyRef ==
  /\ pc = "ref" /\ CurrentStep.kind # "local"
  /\ RecordCall(ClassifiedStatus(CurrentStep.kind))
  /\ UNCHANGED <<diskVars, topVars, directory, expansions, workVars,
                 ctxDone, metadataCache, reads>>

\* FAULT: whether the directory already waits in the queue is not asked.
EnqueueAgain(d) ==
  IF d \notin expanded
    THEN queue' = Append(queue, d) /\ queued' = queued \cup {d}
    ELSE UNCHANGED <<queue, queued>>

Enqueue(d) ==
  IF d \notin expanded /\ d \notin queued
    THEN queue' = Append(queue, d) /\ queued' = queued \cup {d}
    ELSE UNCHANGED <<queue, queued>>

\* A local reference to a directory whose metadata is already cached.
CacheHit ==
  /\ pc = "ref" /\ CurrentStep.kind = "local"
  /\ CurrentStep.dir \in Cached
  /\ RecordCall(Resolved)
  /\ Enqueue(CurrentStep.dir)
  /\ UNCHANGED <<diskVars, topVars, directory, expansions, expanded,
                 ctxDone, metadataCache, reads>>

\* FAULT: the cache is not consulted.
NeedsReadAlways(d) == TRUE

NeedsRead(d) == d \notin Cached

\* A local reference to a directory that is not cached: the disk is read.
CacheMiss ==
  LET d      == CurrentStep.dir
      status == resolveDirectory(disk[d], ctxDone)
  IN  /\ pc = "ref" /\ CurrentStep.kind = "local"
      /\ NeedsRead(d)
      /\ reads' = [reads EXCEPT ![d] = @ + 1]
      /\ RecordCall(status)
      /\ Keep(d, status)
      /\ IF status = Resolved THEN Enqueue(d) ELSE UNCHANGED <<queue, queued>>
      /\ UNCHANGED <<diskVars, topVars, directory, expansions, expanded, ctxDone>>

\* All the steps of the current action have been walked.
FinishDirectory ==
  /\ pc = "step" /\ ~HasStep
  /\ expanded' = expanded \cup {directory}
  /\ pc' = "queue"
  /\ UNCHANGED <<diskVars, topVars, walkVars, queue, queued,
                 ctxDone, metadataCache, nestedCalls, reads>>

\* The queue is empty: the result is returned, without asking the context.
Finish ==
  /\ pc = "queue" /\ queue = <<>>
  /\ pc' = "done"
  /\ UNCHANGED <<diskVars, topVars, walkVars, workVars,
                 ctxDone, metadataCache, nestedCalls, reads>>

\* A check finds the context cancelled: Resolve returns only an error.
Abort ==
  /\ ctxDone
  /\ \/ pc = "dirs"
     \/ pc = "queue" /\ queue # <<>>
     \/ pc = "step" /\ HasStep
  /\ pc' = "cancelled"
  /\ UNCHANGED <<diskVars, topVars, walkVars, workVars,
                 ctxDone, metadataCache, nestedCalls, reads>>

Resolve ==
  \/ CheckTopLevel
  \/ \E d \in Dir : ResolveTopLevel(d)
  \/ EnterNested
  \/ NextDirectory
  \/ CheckStep
  \/ ClassifyRef
  \/ CacheHit
  \/ CacheMiss
  \/ FinishDirectory
  \/ Finish
  \/ Abort

\* The caller cancels its context.
Cancel ==
  /\ Running /\ ~ctxDone
  /\ ctxDone' = TRUE
  /\ UNCHANGED <<diskVars, topVars, walkVars, workVars,
                 pc, metadataCache, nestedCalls, reads>>

\* Another program rewrites a directory of the repository.
Edit(d) ==
  /\ Running /\ edits < MaxEdits
  /\ disk' \in {[disk EXCEPT ![d] = c] : c \in Contents}
  /\ edits' = edits + 1
  /\ UNCHANGED <<topVars, walkVars, workVars,
                 ctxDone, pc, metadataCache, nestedCalls, reads>>

Next == Resolve \/ Cancel \/ \E d \in Dir : Edit(d)

Spec     == Init /\ [][Next]_vars
FairSpec == Spec /\ WF_vars(Resolve)
-----------------------------------------------------------------------------
TypeOK ==
  /\ disk \in [Dir -> Contents]
  /\ ctxDone \in BOOLEAN
  /\ pc \in {"dirs", "dir", "queue", "step", "ref", "done", "cancelled"}
  /\ pending \in SUBSET Dir
  /\ topStatus \in [Dir -> Status \cup {Unresolved}]
  /\ metadataCache \in [Dir -> Steps \cup {NotCached}]
  /\ queue \in Seq(Dir)
  /\ queued \in SUBSET Dir
  /\ expanded \in SUBSET Dir
  /\ directory \in Dir \cup {NoDir}
  /\ stepIndex \in Nat \ {0}
  /\ nestedCalls \in SUBSET [parent : Dir, step : Nat, ref : Ref, status : Status]
  /\ reads \in [Dir -> Nat]
  /\ expansions \in [Dir -> Nat]
  /\ edits \in 0 .. MaxEdits

(***************************************************************************)
(* Once the nested expansion runs, the queue holds only directories whose  *)
(* metadata is cached and whose steps were never walked, each one once:    *)
(* the two "skip" branches at the head of the code's loop are unreachable. *)
(***************************************************************************)
QueueIsSound ==
  /\ Queued \subseteq Cached \ expanded
  /\ \A i, j \in 1 .. Len(queue) : queue[i] = queue[j] => i = j

(***************************************************************************)
(* A resolved call, of a workflow or of an action, names a directory whose *)
(* metadata is in the result: consumers look the action up by that name.   *)
(***************************************************************************)
ResolvedIsCached ==
  /\ TopLevel \subseteq Cached
  /\ \A c \in nestedCalls : c.status = Resolved => c.ref.kind = "local" /\ c.ref.dir \in Cached

(***************************************************************************)
(* A returned result is complete: the steps of every action in it were     *)
(* walked exactly once, and each of them that uses an action has exactly   *)
(* one call record.  In particular an action that a workflow references    *)
(* directly is expanded although it was cached before the expansion began. *)
(***************************************************************************)
CallsOf(d) == {c \in nestedCalls : c.parent = d}

DoneIsComplete ==
  pc = "done" => \A d \in Cached :
    /\ expansions[d] = 1
    /\ \A i \in 1 .. Len(metadataCache[d]) :
         metadataCache[d][i].kind # "none" =>
           \E c \in CallsOf(d) :
             /\ c.step = i /\ c.ref = metadataCache[d][i]
             /\ \A e \in CallsOf(d) : e.step = i => e = c

(***************************************************************************)
(* Nothing else is in the result: every cached action is reachable, by     *)
(* resolved calls that the result records, from one that a workflow names. *)
(***************************************************************************)
ClosedUnderCalls(S) ==
  \A c \in nestedCalls : c.status = Resolved /\ c.parent \in S => c.ref.dir \in S

OnlyReachable ==
  \A S \in SUBSET Dir : TopLevel \subseteq S /\ ClosedUnderCalls(S) => Cached \subseteq S

(***************************************************************************)
(* Metadata that is cached is never read again nor replaced, whatever      *)
(* other programs do to the directory while the expansion runs.            *)
(***************************************************************************)
CacheStable ==
  [][\A d \in Cached : metadataCache'[d] = metadataCache[d] /\ reads'[d] = reads[d]]_vars

(***************************************************************************)
(* The expansion ends, on cyclic repositories too.                         *)
(***************************************************************************)
Terminates == <>(~Running)

(***************************************************************************)
(* What the comment of resolveDirectory promises: it runs at most once for *)
(* a directory in one call of Resolve.                                     *)
(***************************************************************************)
DirectoryReadOnce == \A d \in Dir : reads[d] <= 1

(***************************************************************************)
(* A result that is returned without an error blames the metadata of a     *)
(* directory only when that metadata is malformed (in a repository nobody  *)
(* edits): a cancelled context is reported as an error.                    *)
(***************************************************************************)
MalformedIsMalformed ==
  pc = "done" =>
    /\ \A c \in nestedCalls :
         c.status = "malformed_metadata" => disk[c.ref.dir].parse = "malformed"
    /\ \A d \in Dir :
         topStatus[d] = "malformed_metadata" => disk[d].parse = "malformed"
=============================================================================
