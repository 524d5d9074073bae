---------------------- MODULE CompositeResolutionProofs ----------------------
(***************************************************************************)
(* Theorems about CompositeResolution, for every set of directories, every *)
(* repository on them and any number of edits and cancellations.           *)
(***************************************************************************)
EXTENDS CompositeResolution, TLAPS

Expanding == pc \in {"step", "ref"}
Nested    == pc \in {"queue", "step", "ref", "done"}
Current   == IF Expanding THEN {directory} ELSE {}

(***************************************************************************)
(* While the top level runs, what is cached is what waits in the queue.    *)
(***************************************************************************)
TopPhase ==
  pc \in {"dirs", "dir"} =>
    /\ queued = {} /\ expanded = {} /\ nestedCalls = {}
    /\ Queued = Cached
    /\ \A d \in Dir : expansions[d] = 0

\* A directory that is still to be resolved has no outcome yet.
PendingIsNew == \A d \in pending : topStatus[d] = Unresolved

\* The top level and the cache agree before the expansion starts.
TopIsCached ==
  /\ TopLevel \subseteq Cached
  /\ pc \in {"dirs", "dir"} => Cached \subseteq TopLevel

\* Every cached action is walked, waits in the queue or is being walked.
Covered ==
  Nested =>
    /\ queued = Cached
    /\ expanded \subseteq Cached
    /\ Cached \subseteq expanded \cup Queued \cup Current
    /\ \A d \in expanded : expansions[d] = 1
    /\ \A d \in Dir \ (expanded \cup Current) : expansions[d] = 0

CurrentIsSound ==
  Expanding =>
    /\ directory \in Cached \ (expanded \cup Queued)
    /\ expansions[directory] = 1
    /\ stepIndex <= Len(metadataCache[directory]) + 1
    /\ pc = "ref" => HasStep /\ CurrentStep.kind # "none"

\* A call record stands for a step of a cached action that was walked.
CallsAreSound ==
  \A c \in nestedCalls :
    /\ c.parent \in Cached
    /\ c.step \in 1 .. Len(metadataCache[c.parent])
    /\ c.ref = metadataCache[c.parent][c.step]
    /\ Nested => \/ c.parent \in expanded
                 \/ Expanding /\ c.parent = directory /\ c.step < stepIndex

CallsAreUnique ==
  \A c, e \in nestedCalls : c.parent = e.parent /\ c.step = e.step => c = e

Recorded(d, i) ==
  metadataCache[d][i].kind # "none" =>
    \E c \in nestedCalls : c.parent = d /\ c.step = i

CallsAreComplete ==
  Nested =>
    /\ \A d \in expanded : \A i \in 1 .. Len(metadataCache[d]) : Recorded(d, i)
    /\ Expanding => \A i \in 1 .. (stepIndex - 1) : Recorded(directory, i)

DoneIsDrained == pc = "done" => queue = <<>>

IInv ==
  /\ TypeOK
  /\ TopPhase
  /\ PendingIsNew
  /\ TopIsCached
  /\ Covered
  /\ CurrentIsSound
  /\ QueueIsSound
  /\ ResolvedIsCached
  /\ CallsAreSound
  /\ CallsAreUnique
  /\ CallsAreComplete
  /\ DoneIsDrained
  /\ OnlyReachable
-----------------------------------------------------------------------------
\* The elements of a queue after its head is taken and after an append.
LEMMA QueueTail ==
  ASSUME NEW S, NEW q \in Seq(S), q # <<>>
  PROVE  /\ Head(q) = q[1] /\ Head(q) \in S
         /\ Tail(q) \in Seq(S)
         /\ Len(q) >= 1 /\ Len(Tail(q)) = Len(q) - 1
         /\ \A i \in 1 .. Len(Tail(q)) : Tail(q)[i] = q[i + 1]
         /\ {q[i] : i \in 1 .. Len(q)} = {q[1]} \cup {Tail(q)[i] : i \in 1 .. Len(Tail(q))}
<1>1. /\ Head(q) = q[1] /\ Head(q) \in S
      /\ Tail(q) \in Seq(S)
      /\ Len(q) >= 1 /\ Len(Tail(q)) = Len(q) - 1
      /\ \A i \in 1 .. Len(Tail(q)) : Tail(q)[i] = q[i + 1]
  OBVIOUS
<1>2. \A i \in 2 .. Len(q) : i - 1 \in 1 .. Len(Tail(q)) /\ q[i] = Tail(q)[i - 1]
  BY <1>1
<1>3. {q[i] : i \in 1 .. Len(q)} \subseteq {q[1]} \cup {Tail(q)[i] : i \in 1 .. Len(Tail(q))}
  <2>1. SUFFICES ASSUME NEW i \in 1 .. Len(q)
                 PROVE  q[i] \in {q[1]} \cup {Tail(q)[j] : j \in 1 .. Len(Tail(q))}
    OBVIOUS
  <2>2. CASE i = 1
    BY <2>2
  <2>3. CASE i # 1
    BY <1>2, <2>3
  <2>4. QED  BY <2>2, <2>3
<1>4. {q[1]} \cup {Tail(q)[i] : i \in 1 .. Len(Tail(q))} \subseteq {q[i] : i \in 1 .. Len(q)}
  <2>1. q[1] \in {q[i] : i \in 1 .. Len(q)}
    BY <1>1
  <2>2. ASSUME NEW i \in 1 .. Len(Tail(q))
        PROVE  Tail(q)[i] \in {q[j] : j \in 1 .. Len(q)}
    BY <1>1, i + 1 \in 1 .. Len(q)
  <2>3. QED  BY <2>1, <2>2
<1>5. QED  BY <1>1, <1>3, <1>4

LEMMA QueueAppend ==
  ASSUME NEW S, NEW q \in Seq(S), NEW d \in S
  PROVE  /\ Append(q, d) \in Seq(S)
         /\ Len(Append(q, d)) = Len(q) + 1
         /\ \A i \in 1 .. Len(q) : Append(q, d)[i] = q[i]
         /\ Append(q, d)[Len(q) + 1] = d
         /\ {Append(q, d)[i] : i \in 1 .. Len(Append(q, d))} = {q[i] : i \in 1 .. Len(q)} \cup {d}
<1>1. /\ Append(q, d) \in Seq(S)
      /\ Len(Append(q, d)) = Len(q) + 1
      /\ \A i \in 1 .. Len(q) : Append(q, d)[i] = q[i]
      /\ Append(q, d)[Len(q) + 1] = d
  OBVIOUS
<1>2. \A i \in 1 .. Len(Append(q, d)) : i \in 1 .. Len(q) \/ i = Len(q) + 1
  BY <1>1
<1>3. {Append(q, d)[i] : i \in 1 .. Len(Append(q, d))} \subseteq {q[i] : i \in 1 .. Len(q)} \cup {d}
  BY <1>1, <1>2
<1>4. ASSUME NEW i \in 1 .. Len(q)
      PROVE  q[i] \in {Append(q, d)[j] : j \in 1 .. Len(Append(q, d))}
  BY <1>1, i \in 1 .. Len(Append(q, d))
<1>5. d \in {Append(q, d)[j] : j \in 1 .. Len(Append(q, d))}
  BY <1>1, Len(q) + 1 \in 1 .. Len(Append(q, d))
<1>6. QED  BY <1>1, <1>3, <1>4, <1>5

\* resolveDirectory always yields one of the documented statuses.
LEMMA OutcomeIsStatus ==
  ASSUME NEW c \in DirContents, NEW b \in BOOLEAN
  PROVE  resolveDirectory(c, b) \in Status
<1>1. ParseStatus(c, b) \in Status
  BY DEF ParseStatus, Status, Resolved, DirContents
<1>2. \/ {c.yml, c.yaml} \cap {"unsafe", "error"} # {}
      \/ {c.yml, c.yaml} = {"regular"}
      \/ {c.yml, c.yaml} = {"absent"}
      \/ {c.yml, c.yaml} = {"absent", "regular"}
  BY DEF DirContents, Candidate
<1>3. c.lookup \in {"found", "not_exist", "error"}
  BY DEF DirContents
<1>4. {"rejected_path", "metadata_missing", "metadata_ambiguous"} \subseteq Status
  BY DEF Status
<1>5. QED  BY <1>1, <1>2, <1>3, <1>4 DEF resolveDirectory

LEMMA InitIInv == Init => IInv
<1> SUFFICES ASSUME Init PROVE IInv
  OBVIOUS
<1> USE DEF Init, Nested, Expanding, Current, Cached, TopLevel, Queued
<1>1. TypeOK
  <2>1. disk \in [Dir -> Contents] /\ edits \in 0 .. MaxEdits
    BY LayoutsAssumption, MaxEditsAssumption
  <2>2. metadataCache \in [Dir -> Steps \cup {NotCached}]
    OBVIOUS
  <2>3. topStatus \in [Dir -> Status \cup {Unresolved}]
    OBVIOUS
  <2>4. reads \in [Dir -> Nat] /\ expansions \in [Dir -> Nat]
    OBVIOUS
  <2>5. queue \in Seq(Dir) /\ stepIndex \in Nat \ {0}
    OBVIOUS
  <2>6. QED  BY <2>1, <2>2, <2>3, <2>4, <2>5 DEF TypeOK
<1>2. TopPhase /\ PendingIsNew /\ TopIsCached
  BY UnresolvedAssumption DEF TopPhase, PendingIsNew, TopIsCached, Resolved, Status
<1>3. Covered /\ CurrentIsSound /\ DoneIsDrained
  BY DEF Covered, CurrentIsSound, DoneIsDrained
<1>4. QueueIsSound /\ ResolvedIsCached /\ OnlyReachable
  BY UnresolvedAssumption DEF QueueIsSound, ResolvedIsCached, OnlyReachable, Resolved, Status
<1>5. CallsAreSound /\ CallsAreUnique /\ CallsAreComplete
  BY DEF CallsAreSound, CallsAreUnique, CallsAreComplete
<1>6. QED  BY <1>1, <1>2, <1>3, <1>4, <1>5 DEF IInv

LEMMA CheckTopLevelIInv == IInv /\ CheckTopLevel => IInv'
<1> SUFFICES ASSUME IInv, CheckTopLevel PROVE IInv'
  OBVIOUS
<1> USE DEF IInv, CheckTopLevel, diskVars, topVars, walkVars, workVars
<1>1. Cached' = Cached /\ TopLevel' = TopLevel /\ Queued' = Queued
  BY DEF Cached, TopLevel, Queued
<1>2. TypeOK'
  BY DEF TypeOK
<1>3. (TopPhase /\ PendingIsNew /\ TopIsCached)'
  BY <1>1 DEF TopPhase, PendingIsNew, TopIsCached
<1>4. (Covered /\ CurrentIsSound /\ DoneIsDrained)'
  BY <1>1 DEF Covered, CurrentIsSound, DoneIsDrained, Nested, Expanding, Current, HasStep, CurrentStep
<1>5. (QueueIsSound /\ ResolvedIsCached /\ OnlyReachable)'
  BY <1>1 DEF QueueIsSound, ResolvedIsCached, OnlyReachable, ClosedUnderCalls
<1>6. (CallsAreSound /\ CallsAreUnique)'
  BY <1>1 DEF CallsAreSound, CallsAreUnique, Nested, Expanding
<1>7. CallsAreComplete'
  BY <1>1 DEF CallsAreComplete, Recorded, Nested, Expanding
<1>8. QED  BY <1>2, <1>3, <1>4, <1>5, <1>6, <1>7

LEMMA FinishIInv == IInv /\ Finish => IInv'
<1> SUFFICES ASSUME IInv, Finish PROVE IInv'
  OBVIOUS
<1> USE DEF IInv, Finish, diskVars, topVars, walkVars, workVars
<1>1. Cached' = Cached /\ TopLevel' = TopLevel /\ Queued' = Queued
  BY DEF Cached, TopLevel, Queued
<1>2. TypeOK'
  BY DEF TypeOK
<1>3. (TopPhase /\ PendingIsNew /\ TopIsCached)'
  BY <1>1 DEF TopPhase, PendingIsNew, TopIsCached
<1>4. (Covered /\ CurrentIsSound /\ DoneIsDrained)'
  BY <1>1 DEF Covered, CurrentIsSound, DoneIsDrained, Nested, Expanding, Current, HasStep, CurrentStep
<1>5. (QueueIsSound /\ ResolvedIsCached /\ OnlyReachable)'
  BY <1>1 DEF QueueIsSound, ResolvedIsCached, OnlyReachable, ClosedUnderCalls
<1>6. (CallsAreSound /\ CallsAreUnique)'
  BY <1>1 DEF CallsAreSound, CallsAreUnique, Nested, Expanding
<1>7. CallsAreComplete'
  BY <1>1 DEF CallsAreComplete, Recorded, Nested, Expanding
<1>8. QED  BY <1>2, <1>3, <1>4, <1>5, <1>6, <1>7

LEMMA AbortIInv == IInv /\ Abort => IInv'
<1> SUFFICES ASSUME IInv, Abort PROVE IInv'
  OBVIOUS
<1> USE DEF IInv, Abort, diskVars, topVars, walkVars, workVars
<1>1. Cached' = Cached /\ TopLevel' = TopLevel /\ Queued' = Queued
  BY DEF Cached, TopLevel, Queued
<1>2. TypeOK'
  BY DEF TypeOK
<1>3. (TopPhase /\ PendingIsNew /\ TopIsCached)'
  BY <1>1 DEF TopPhase, PendingIsNew, TopIsCached
<1>4. (Covered /\ CurrentIsSound /\ DoneIsDrained)'
  BY <1>1 DEF Covered, CurrentIsSound, DoneIsDrained, Nested, Expanding, Current, HasStep, CurrentStep
<1>5. (QueueIsSound /\ ResolvedIsCached /\ OnlyReachable)'
  BY <1>1 DEF QueueIsSound, ResolvedIsCached, OnlyReachable, ClosedUnderCalls
<1>6. (CallsAreSound /\ CallsAreUnique)'
  BY <1>1 DEF CallsAreSound, CallsAreUnique, Nested, Expanding
<1>7. CallsAreComplete'
  BY <1>1 DEF CallsAreComplete, Recorded, Nested, Expanding
<1>8. QED  BY <1>2, <1>3, <1>4, <1>5, <1>6, <1>7

LEMMA CancelIInv == IInv /\ Cancel => IInv'
<1> SUFFICES ASSUME IInv, Cancel PROVE IInv'
  OBVIOUS
<1> USE DEF IInv, Cancel, Running, diskVars, topVars, walkVars, workVars
<1>1. Cached' = Cached /\ TopLevel' = TopLevel /\ Queued' = Queued
  BY DEF Cached, TopLevel, Queued
<1>2. TypeOK'
  BY DEF TypeOK
<1>3. (TopPhase /\ PendingIsNew /\ TopIsCached)'
  BY <1>1 DEF TopPhase, PendingIsNew, TopIsCached
<1>4. (Covered /\ CurrentIsSound /\ DoneIsDrained)'
  BY <1>1 DEF Covered, CurrentIsSound, DoneIsDrained, Nested, Expanding, Current, HasStep, CurrentStep
<1>5. (QueueIsSound /\ ResolvedIsCached /\ OnlyReachable)'
  BY <1>1 DEF QueueIsSound, ResolvedIsCached, OnlyReachable, ClosedUnderCalls
<1>6. (CallsAreSound /\ CallsAreUnique)'
  BY <1>1 DEF CallsAreSound, CallsAreUnique, Nested, Expanding
<1>7. CallsAreComplete'
  BY <1>1 DEF CallsAreComplete, Recorded, Nested, Expanding
<1>8. QED  BY <1>2, <1>3, <1>4, <1>5, <1>6, <1>7

\* The action being expanded has cached metadata.
LEMMA CurrentIsCached ==
  ASSUME IInv, Expanding
  PROVE  /\ directory \in Dir /\ directory \in Cached
         /\ metadataCache[directory] \in Seq(Ref)
         /\ Len(metadataCache[directory]) \in Nat
         /\ directory \notin expanded /\ directory \notin Queued
<1>1. directory \in Cached \ (expanded \cup Queued)
  BY DEF IInv, CurrentIsSound
<1>2. metadataCache[directory] \in Steps
  BY <1>1 DEF Cached, IInv, TypeOK
<1>3. QED  BY <1>1, <1>2 DEF Cached, Steps

LEMMA CheckStepIInv == IInv /\ CheckStep => IInv'
<1> SUFFICES ASSUME IInv, CheckStep PROVE IInv'
  OBVIOUS
<1> USE DEF IInv, diskVars, topVars, walkVars, workVars
<1>1. /\ Cached' = Cached /\ TopLevel' = TopLevel /\ Queued' = Queued
      /\ metadataCache' = metadataCache /\ nestedCalls' = nestedCalls
      /\ queue' = queue /\ queued' = queued /\ expanded' = expanded
      /\ expansions' = expansions /\ directory' = directory
  BY DEF Cached, TopLevel, Queued, CheckStep
<1>2. /\ pc = "step" /\ Expanding /\ Expanding' /\ Nested /\ Nested'
      /\ Current' = Current
  BY <1>1 DEF CheckStep, Expanding, Nested, Current
<1>3. /\ directory \in Dir /\ metadataCache[directory] \in Seq(Ref)
      /\ stepIndex \in Nat \ {0} /\ stepIndex <= Len(metadataCache[directory])
      /\ Len(metadataCache[directory]) \in Nat
  BY <1>2, CurrentIsCached DEF CheckStep, HasStep, TypeOK
<1>4. \/ /\ CurrentStep.kind = "none" /\ stepIndex' = stepIndex + 1 /\ pc' = "step"
      \/ /\ CurrentStep.kind # "none" /\ stepIndex' = stepIndex /\ pc' = "ref"
  BY DEF CheckStep
<1>5. TypeOK'
  BY <1>3, <1>4 DEF TypeOK, CheckStep
<1>6. (TopPhase /\ PendingIsNew /\ TopIsCached)'
  BY <1>1 DEF TopPhase, PendingIsNew, TopIsCached, CheckStep
<1>7. Covered' /\ DoneIsDrained'
  BY <1>1, <1>2, <1>4 DEF Covered, DoneIsDrained
<1>8. CurrentIsSound'
  BY <1>1, <1>2, <1>3, <1>4 DEF CurrentIsSound, HasStep, CurrentStep
<1>9. (QueueIsSound /\ ResolvedIsCached /\ OnlyReachable)'
  BY <1>1 DEF QueueIsSound, ResolvedIsCached, OnlyReachable, ClosedUnderCalls
<1>10. CallsAreUnique'
  BY <1>1 DEF CallsAreUnique
<1>11. CallsAreSound'
  <2>1. \A c \in nestedCalls : c.step \in Nat
    BY DEF TypeOK
  <2>2. \A c \in nestedCalls : c.step < stepIndex => c.step < stepIndex'
    BY <1>3, <1>4, <2>1
  <2>3. QED  BY <1>1, <1>2, <2>2 DEF CallsAreSound
<1>12. CallsAreComplete'
  <2>1. ASSUME NEW i \in 1 .. (stepIndex' - 1)
        PROVE  Recorded(directory, i)
    <3>1. CASE i < stepIndex
      BY <1>2, <1>3, <3>1 DEF CallsAreComplete
    <3>2. CASE i = stepIndex
      BY <1>3, <1>4, <3>2 DEF Recorded, CurrentStep
    <3>3. QED  BY <1>3, <1>4, <3>1, <3>2
  <2>2. QED  BY <1>1, <1>2, <2>1 DEF CallsAreComplete, Recorded
<1>13. QED  BY <1>5, <1>6, <1>7, <1>8, <1>9, <1>10, <1>11, <1>12

LEMMA EditIInv == ASSUME NEW d \in Dir PROVE IInv /\ Edit(d) => IInv'
<1> SUFFICES ASSUME IInv, Edit(d) PROVE IInv'
  OBVIOUS
<1> USE DEF IInv, Edit, topVars, walkVars, workVars
<1>1. Cached' = Cached /\ TopLevel' = TopLevel /\ Queued' = Queued
  BY DEF Cached, TopLevel, Queued
<1>2. TypeOK'
  <2>1. disk' \in [Dir -> Contents]
    BY DEF TypeOK
  <2>2. edits' \in 0 .. MaxEdits
    BY MaxEditsAssumption DEF TypeOK
  <2>3. QED  BY <2>1, <2>2 DEF TypeOK
<1>3. (TopPhase /\ PendingIsNew /\ TopIsCached)'
  BY <1>1 DEF TopPhase, PendingIsNew, TopIsCached
<1>4. (Covered /\ CurrentIsSound /\ DoneIsDrained)'
  BY <1>1 DEF Covered, CurrentIsSound, DoneIsDrained, Nested, Expanding, Current, HasStep, CurrentStep
<1>5. (QueueIsSound /\ ResolvedIsCached /\ OnlyReachable)'
  BY <1>1 DEF QueueIsSound, ResolvedIsCached, OnlyReachable, ClosedUnderCalls
<1>6. (CallsAreSound /\ CallsAreUnique)'
  BY <1>1 DEF CallsAreSound, CallsAreUnique, Nested, Expanding
<1>7. CallsAreComplete'
  BY <1>1 DEF CallsAreComplete, Recorded, Nested, Expanding
<1>8. QED  BY <1>2, <1>3, <1>4, <1>5, <1>6, <1>7

LEMMA EnterNestedIInv == IInv /\ EnterNested => IInv'
<1> SUFFICES ASSUME IInv, EnterNested PROVE IInv'
  OBVIOUS
<1> USE DEF IInv, EnterNested, diskVars, topVars, walkVars
<1>1. Cached' = Cached /\ TopLevel' = TopLevel /\ Queued' = Queued
  BY DEF Cached, TopLevel, Queued
<1>2. /\ expanded = {} /\ nestedCalls = {} /\ Queued = Cached
      /\ \A d \in Dir : expansions[d] = 0
  BY DEF TopPhase
<1>3. TypeOK'
  BY <1>2 DEF TypeOK, Cached
<1>4. (TopPhase /\ PendingIsNew /\ TopIsCached)'
  BY <1>1 DEF TopPhase, PendingIsNew, TopIsCached
<1>5. (Covered /\ CurrentIsSound /\ DoneIsDrained)'
  BY <1>1, <1>2 DEF Covered, CurrentIsSound, DoneIsDrained, Nested, Expanding, Current
<1>6. (QueueIsSound /\ ResolvedIsCached /\ OnlyReachable)'
  BY <1>1 DEF QueueIsSound, ResolvedIsCached, OnlyReachable, ClosedUnderCalls
<1>7. (CallsAreSound /\ CallsAreUnique /\ CallsAreComplete)'
  BY <1>1, <1>2 DEF CallsAreSound, CallsAreUnique, CallsAreComplete, Nested, Expanding
<1>8. QED  BY <1>3, <1>4, <1>5, <1>6, <1>7

LEMMA NextDirectoryIInv == IInv /\ NextDirectory => IInv'
<1> SUFFICES ASSUME IInv, NextDirectory PROVE IInv'
  OBVIOUS
<1> USE DEF IInv, diskVars, topVars, walkVars
<1> DEFINE d == Head(queue)
<1>1. /\ Cached' = Cached /\ TopLevel' = TopLevel
      /\ metadataCache' = metadataCache /\ nestedCalls' = nestedCalls
      /\ queued' = queued /\ queue' = Tail(queue) /\ pc = "queue"
      /\ queue \in Seq(Dir) /\ queue # <<>>
  BY DEF Cached, TopLevel, NextDirectory, Rest, TypeOK
<1>2. /\ d = queue[1] /\ d \in Dir /\ Tail(queue) \in Seq(Dir)
      /\ Len(queue) >= 1 /\ Len(Tail(queue)) = Len(queue) - 1
      /\ \A i \in 1 .. Len(Tail(queue)) : Tail(queue)[i] = queue[i + 1]
      /\ Queued = {d} \cup Queued'
  <2>1. /\ Head(queue) = queue[1] /\ Head(queue) \in Dir /\ Tail(queue) \in Seq(Dir)
        /\ Len(queue) >= 1 /\ Len(Tail(queue)) = Len(queue) - 1
        /\ \A i \in 1 .. Len(Tail(queue)) : Tail(queue)[i] = queue[i + 1]
        /\ {queue[i] : i \in 1 .. Len(queue)}
              = {queue[1]} \cup {Tail(queue)[i] : i \in 1 .. Len(Tail(queue))}
    BY <1>1, QueueTail, Zenon
  <2>2. Queued' = {Tail(queue)[i] : i \in 1 .. Len(Tail(queue))}
    BY <1>1 DEF Queued
  <2>3. Queued = {d} \cup Queued'
    BY <2>1, <2>2 DEF Queued
  <2>4. QED  BY <2>1, <2>3
<1>3. d \in Cached \ expanded /\ d \notin Queued'
  <2>1. d \in Queued
    BY <1>2
  <2>2. ASSUME NEW i \in 1 .. Len(Tail(queue)) PROVE Tail(queue)[i] # d
    <3>1. i + 1 \in 1 .. Len(queue) /\ 1 \in 1 .. Len(queue) /\ i + 1 # 1
      BY <1>2
    <3>2. QED  BY <1>2, <3>1 DEF QueueIsSound
  <2>3. QED  BY <1>1, <2>1, <2>2 DEF QueueIsSound, Queued
<1>4. /\ directory' = d /\ stepIndex' = 1 /\ pc' = "step" /\ expanded' = expanded
      /\ expansions' = [expansions EXCEPT ![d] = @ + 1]
  BY <1>1, <1>3 DEF NextDirectory, Skips
<1>5. /\ Nested /\ Nested' /\ ~Expanding /\ Expanding' /\ Current = {} /\ Current' = {d}
  BY <1>1, <1>4 DEF Nested, Expanding, Current
<1>6. /\ queued = Cached /\ expanded \subseteq Cached /\ Cached \subseteq expanded \cup Queued
      /\ \A e \in expanded : expansions[e] = 1
      /\ \A e \in Dir \ expanded : expansions[e] = 0
  BY <1>5 DEF Covered
<1>7. metadataCache[d] \in Seq(Ref)
  BY <1>2, <1>3 DEF Cached, TypeOK, Steps
<1>8. TypeOK'
  BY <1>1, <1>2, <1>4 DEF TypeOK, NextDirectory
<1>9. (TopPhase /\ PendingIsNew /\ TopIsCached /\ DoneIsDrained)'
  BY <1>1, <1>4 DEF TopPhase, PendingIsNew, TopIsCached, DoneIsDrained, NextDirectory
<1>10. expansions' \in [Dir -> Nat] /\ expansions'[d] = 1 /\ \A e \in Dir \ {d} : expansions'[e] = expansions[e]
  <2>1. expansions \in [Dir -> Nat] /\ d \in Dir /\ expansions[d] = 0
    BY <1>2, <1>3, <1>6 DEF TypeOK
  <2>2. QED  BY <1>4, <2>1
<1>11. Covered'
  BY <1>1, <1>2, <1>3, <1>4, <1>5, <1>6, <1>10 DEF Covered
<1>12. CurrentIsSound'
  BY <1>1, <1>3, <1>4, <1>7, <1>10 DEF CurrentIsSound
<1>13. QueueIsSound'
  <2>1. Queued' \subseteq Cached' \ expanded'
    BY <1>1, <1>2, <1>4 DEF QueueIsSound
  <2>2. ASSUME NEW i \in 1 .. Len(Tail(queue)), NEW j \in 1 .. Len(Tail(queue)),
               Tail(queue)[i] = Tail(queue)[j]
        PROVE  i = j
    <3>1. i + 1 \in 1 .. Len(queue) /\ j + 1 \in 1 .. Len(queue)
      BY <1>2
    <3>2. i + 1 = j + 1
      BY <1>2, <2>2, <3>1 DEF QueueIsSound
    <3>3. QED  BY <3>2
  <2>3. QED  BY <1>1, <2>1, <2>2 DEF QueueIsSound
<1>14. (ResolvedIsCached /\ OnlyReachable)'
  BY <1>1 DEF ResolvedIsCached, OnlyReachable, ClosedUnderCalls
<1>15. (CallsAreSound /\ CallsAreUnique)'
  BY <1>1, <1>4, <1>5 DEF CallsAreSound, CallsAreUnique
<1>16. CallsAreComplete'
  BY <1>1, <1>4, <1>5 DEF CallsAreComplete, Recorded
<1>17. QED  BY <1>8, <1>9, <1>11, <1>12, <1>13, <1>14, <1>15, <1>16

LEMMA FinishDirectoryIInv == IInv /\ FinishDirectory => IInv'
<1> SUFFICES ASSUME IInv, FinishDirectory PROVE IInv'
  OBVIOUS
<1> USE DEF IInv, FinishDirectory, diskVars, topVars, walkVars
<1>1. Cached' = Cached /\ TopLevel' = TopLevel /\ Queued' = Queued
  BY DEF Cached, TopLevel, Queued
<1>2. /\ Nested /\ Nested' /\ Expanding /\ ~Expanding'
      /\ Current = {directory} /\ Current' = {}
  BY DEF Nested, Expanding, Current
<1>3. /\ directory \in Cached /\ directory \in Dir /\ directory \notin Queued
      /\ metadataCache[directory] \in Seq(Ref)
      /\ stepIndex = Len(metadataCache[directory]) + 1
      /\ expansions[directory] = 1
  <2>1. ~(stepIndex <= Len(metadataCache[directory])) /\ stepIndex \in Nat
    BY DEF HasStep, TypeOK
  <2>2. stepIndex <= Len(metadataCache[directory]) + 1 /\ expansions[directory] = 1
    BY <1>2 DEF CurrentIsSound
  <2>3. QED  BY <1>2, <2>1, <2>2, CurrentIsCached
<1>4. TypeOK'
  BY <1>3 DEF TypeOK
<1>5. (TopPhase /\ PendingIsNew /\ TopIsCached /\ DoneIsDrained)'
  BY <1>1 DEF TopPhase, PendingIsNew, TopIsCached, DoneIsDrained
<1>6. Covered'
  BY <1>1, <1>2, <1>3 DEF Covered
<1>7. CurrentIsSound'
  BY <1>2 DEF CurrentIsSound
<1>8. (QueueIsSound /\ ResolvedIsCached /\ OnlyReachable)'
  BY <1>1, <1>3 DEF QueueIsSound, ResolvedIsCached, OnlyReachable, ClosedUnderCalls
<1>9. (CallsAreSound /\ CallsAreUnique)'
  BY <1>1, <1>2 DEF CallsAreSound, CallsAreUnique
<1>10. CallsAreComplete'
  BY <1>2, <1>3 DEF CallsAreComplete, Recorded
<1>11. QED  BY <1>4, <1>5, <1>6, <1>7, <1>8, <1>9, <1>10

LEMMA ResolveTopLevelIInv ==
  ASSUME NEW d \in Dir PROVE IInv /\ ResolveTopLevel(d) => IInv'
<1> SUFFICES ASSUME IInv, ResolveTopLevel(d) PROVE IInv'
  OBVIOUS
<1> USE DEF IInv, diskVars, walkVars
<1> DEFINE status == resolveDirectory(disk[d], ctxDone)
<1>1. /\ pc = "dir" /\ pc' = "dirs" /\ d \in pending /\ pending' = pending \ {d}
      /\ topStatus' = [topStatus EXCEPT ![d] = status]
      /\ reads' = [reads EXCEPT ![d] = @ + 1]
      /\ metadataCache' = IF status = Resolved
                            THEN [metadataCache EXCEPT ![d] = disk[d].steps] ELSE metadataCache
      /\ queue' = IF status = Resolved THEN Append(queue, d) ELSE queue
      /\ UNCHANGED <<disk, edits, directory, stepIndex, expansions,
                     queued, expanded, ctxDone, nestedCalls>>
  BY DEF ResolveTopLevel, Keep
<1>2. status \in Status /\ disk[d].steps \in Steps
  <2>1. disk[d] \in DirContents
    BY ContentsAssumption DEF TypeOK
  <2>2. QED  BY <2>1, OutcomeIsStatus DEF TypeOK, DirContents
<1>3. /\ queued = {} /\ expanded = {} /\ nestedCalls = {} /\ Queued = Cached
      /\ \A e \in Dir : expansions[e] = 0
  BY <1>1 DEF TopPhase
<1>4. Cached = TopLevel /\ d \notin Cached
  <2>1. d \notin TopLevel
    BY <1>1, UnresolvedAssumption DEF TopLevel, PendingIsNew, Resolved, Status
  <2>2. QED  BY <1>1, <2>1 DEF TopIsCached
<1>5. TopLevel' = IF status = Resolved THEN TopLevel \cup {d} ELSE TopLevel
  BY <1>1, <1>4 DEF TopLevel, TypeOK
<1>6. Cached' = IF status = Resolved THEN Cached \cup {d} ELSE Cached
  BY <1>1, <1>2, NotCachedAssumption DEF Cached, TypeOK
<1>7. /\ queue' \in Seq(Dir)
      /\ Queued' = IF status = Resolved THEN Queued \cup {d} ELSE Queued
  BY <1>1, QueueAppend DEF Queued, TypeOK
<1>8. TypeOK'
  <2>1. metadataCache' \in [Dir -> Steps \cup {NotCached}]
    BY <1>1, <1>2 DEF TypeOK
  <2>2. topStatus' \in [Dir -> Status \cup {Unresolved}]
    BY <1>1, <1>2 DEF TypeOK
  <2>3. reads' \in [Dir -> Nat]
    BY <1>1 DEF TypeOK
  <2>4. QED  BY <1>1, <1>7, <2>1, <2>2, <2>3 DEF TypeOK
<1>9. (TopPhase /\ TopIsCached /\ DoneIsDrained)'
  BY <1>1, <1>3, <1>4, <1>5, <1>6, <1>7 DEF TopPhase, TopIsCached, DoneIsDrained
<1>10. PendingIsNew'
  BY <1>1 DEF PendingIsNew, TypeOK
<1>11. (Covered /\ CurrentIsSound /\ CallsAreSound /\ CallsAreUnique /\ CallsAreComplete)'
  BY <1>1, <1>3 DEF Covered, CurrentIsSound, CallsAreSound, CallsAreUnique,
                    CallsAreComplete, Nested, Expanding
<1>12. QueueIsSound'
  <2>1. CASE status # Resolved
    BY <1>1, <1>3, <1>6, <1>7, <2>1 DEF QueueIsSound
  <2>2. CASE status = Resolved
    <3>1. Queued' \subseteq Cached' \ expanded'
      BY <1>1, <1>3, <1>6, <1>7, <2>2
    <3>2. \A i \in 1 .. Len(queue) : queue[i] # d
      BY <1>3, <1>4 DEF Queued
    <3>3. /\ queue' = Append(queue, d) /\ queue \in Seq(Dir)
      BY <1>1, <2>2 DEF TypeOK
    <3>4. \A i, j \in 1 .. Len(queue') : queue'[i] = queue'[j] => i = j
      <4>1. /\ Len(queue') = Len(queue) + 1 /\ queue'[Len(queue) + 1] = d
            /\ \A i \in 1 .. Len(queue) : queue'[i] = queue[i]
            /\ Len(queue) \in Nat
        BY <3>3, QueueAppend
      <4>2. \A i \in 1 .. Len(queue') : i \in 1 .. Len(queue) \/ i = Len(queue) + 1
        BY <4>1
      <4>3. QED  BY <3>2, <4>1, <4>2 DEF QueueIsSound
    <3>5. QED  BY <3>1, <3>4 DEF QueueIsSound
  <2>3. QED  BY <2>1, <2>2
<1>13. (ResolvedIsCached /\ OnlyReachable)'
  BY <1>1, <1>3, <1>4, <1>5, <1>6 DEF ResolvedIsCached, OnlyReachable, ClosedUnderCalls
<1>14. QED  BY <1>8, <1>9, <1>10, <1>11, <1>12, <1>13

(***************************************************************************)
(* What a call record adds, whatever the reference resolved to: calls stay *)
(* sound, unique and complete, and the walk moves to the next step.        *)
(***************************************************************************)
LEMMA RecordCallEffect ==
  ASSUME IInv, pc = "ref", NEW status \in Status, RecordCall(status),
         directory' = directory, expanded' = expanded,
         Cached \subseteq Cached',
         \A e \in Cached : metadataCache'[e] = metadataCache[e]
  PROVE  /\ directory \in Dir /\ directory \in Cached /\ CurrentStep \in Ref
         /\ stepIndex \in Nat \ {0} /\ stepIndex' = stepIndex + 1 /\ pc' = "step"
         /\ stepIndex' <= Len(metadataCache[directory]) + 1
         /\ nestedCalls' = nestedCalls \cup
              {[parent |-> directory, step |-> stepIndex,
                ref |-> CurrentStep, status |-> status]}
         /\ nestedCalls' \in SUBSET [parent : Dir, step : Nat, ref : Ref, status : Status]
         /\ CallsAreSound' /\ CallsAreUnique' /\ CallsAreComplete'
<1> DEFINE call == [parent |-> directory, step |-> stepIndex,
                    ref |-> CurrentStep, status |-> status]
<1>1. /\ nestedCalls' = nestedCalls \cup {call}
      /\ stepIndex' = stepIndex + 1 /\ pc' = "step"
  BY DEF RecordCall
<1>2. Nested /\ Nested' /\ Expanding /\ Expanding'
  BY <1>1 DEF Nested, Expanding
<1>3. /\ directory \in Dir /\ directory \in Cached
      /\ metadataCache[directory] \in Seq(Ref) /\ Len(metadataCache[directory]) \in Nat
      /\ directory \notin expanded
  BY <1>2, CurrentIsCached
<1>4. /\ stepIndex \in Nat \ {0} /\ stepIndex <= Len(metadataCache[directory])
      /\ stepIndex \in 1 .. Len(metadataCache[directory])
  BY <1>2, <1>3 DEF IInv, TypeOK, CurrentIsSound, HasStep
<1>5. CurrentStep \in Ref /\ CurrentStep = metadataCache[directory][stepIndex]
  BY <1>3, <1>4 DEF CurrentStep
<1>6. nestedCalls \in SUBSET [parent : Dir, step : Nat, ref : Ref, status : Status]
  BY DEF IInv, TypeOK
<1>7. nestedCalls' \in SUBSET [parent : Dir, step : Nat, ref : Ref, status : Status]
  BY <1>1, <1>3, <1>4, <1>5, <1>6
<1>8. \A c \in nestedCalls :
        /\ c.parent \in Cached /\ c.step \in 1 .. Len(metadataCache[c.parent])
        /\ c.ref = metadataCache[c.parent][c.step] /\ c.step \in Nat
        /\ \/ c.parent \in expanded
           \/ c.parent = directory /\ c.step < stepIndex
  BY <1>2, <1>6 DEF IInv, CallsAreSound
<1>9. /\ call.parent = directory /\ call.step = stepIndex /\ call.ref = CurrentStep
  OBVIOUS
<1>10. CallsAreSound'
  <2>1. ASSUME NEW c \in nestedCalls
        PROVE  /\ c.parent \in Cached' /\ c.step \in 1 .. Len(metadataCache'[c.parent])
               /\ c.ref = metadataCache'[c.parent][c.step]
               /\ c.parent \in expanded' \/ (c.parent = directory' /\ c.step < stepIndex')
    <3>1. c.step < stepIndex => c.step < stepIndex'
      BY <1>1, <1>4, <1>8
    <3>2. QED  BY <1>8, <3>1
  <2>2. /\ call.parent \in Cached' /\ call.step \in 1 .. Len(metadataCache'[call.parent])
        /\ call.ref = metadataCache'[call.parent][call.step]
        /\ call.parent = directory' /\ call.step < stepIndex'
    BY <1>1, <1>3, <1>4, <1>5, <1>9
  <2>3. QED  BY <1>1, <1>2, <2>1, <2>2 DEF CallsAreSound
<1>11. CallsAreUnique'
  <2>1. \A c \in nestedCalls : ~(c.parent = directory /\ c.step = stepIndex)
    BY <1>3, <1>4, <1>8
  <2>2. \A c, e \in nestedCalls : c.parent = e.parent /\ c.step = e.step => c = e
    BY DEF IInv, CallsAreUnique
  <2>3. QED  BY <1>1, <1>9, <2>1, <2>2 DEF CallsAreUnique
<1>12. CallsAreComplete'
  <2>1. \A e \in Cached : \A i \in Nat : Recorded(e, i) => Recorded(e, i)'
    BY <1>1 DEF Recorded
  <2>2. \A e \in expanded : \A i \in 1 .. Len(metadataCache[e]) : Recorded(e, i)
    BY <1>2 DEF IInv, CallsAreComplete
  <2>3. expanded \subseteq Cached
    BY <1>2 DEF IInv, Covered
  <2>4. \A e \in expanded' : \A i \in 1 .. Len(metadataCache'[e]) : Recorded(e, i)'
    BY <2>1, <2>2, <2>3
  <2>5. ASSUME NEW i \in 1 .. (stepIndex' - 1) PROVE Recorded(directory, i)'
    <3>1. CASE i < stepIndex
      <4>1. Recorded(directory, i)
        BY <1>2, <1>4, <3>1 DEF IInv, CallsAreComplete
      <4>2. QED  BY <1>3, <2>1, <4>1
    <3>2. CASE i = stepIndex
      BY <1>1, <1>9, <3>2 DEF Recorded
    <3>3. QED  BY <1>1, <1>4, <3>1, <3>2
  <2>6. QED  BY <1>2, <2>4, <2>5 DEF CallsAreComplete, Recorded
<1>13. QED  BY <1>1, <1>3, <1>4, <1>5, <1>7, <1>10, <1>11, <1>12

LEMMA ClassifyRefIInv == IInv /\ ClassifyRef => IInv'
<1> SUFFICES ASSUME IInv, ClassifyRef PROVE IInv'
  OBVIOUS
<1> USE DEF diskVars, topVars, workVars
<1> DEFINE status == ClassifiedStatus(CurrentStep.kind)
<1>1. /\ pc = "ref" /\ RecordCall(status) /\ CurrentStep.kind # "local"
      /\ directory' = directory /\ expanded' = expanded
      /\ metadataCache' = metadataCache /\ queue' = queue /\ queued' = queued
      /\ expansions' = expansions
  BY DEF ClassifyRef
<1>2. /\ Cached' = Cached /\ TopLevel' = TopLevel /\ Queued' = Queued
  BY <1>1 DEF Cached, TopLevel, Queued, ClassifyRef
<1>3. Expanding /\ Nested
  BY <1>1 DEF Expanding, Nested
<1>4. CurrentStep \in Ref /\ CurrentStep.kind \in RefKind \ {"none", "local"}
  <2>1. stepIndex \in 1 .. Len(metadataCache[directory]) /\ CurrentStep.kind # "none"
    BY <1>1, <1>3, CurrentIsCached DEF IInv, TypeOK, CurrentIsSound, HasStep
  <2>2. CurrentStep \in Ref
    BY <1>3, <2>1, CurrentIsCached DEF CurrentStep
  <2>3. QED  BY <1>1, <2>1, <2>2 DEF Ref
<1>5. status \in Status \ {Resolved}
  BY <1>4 DEF ClassifiedStatus, RefKind, Status, Resolved
<1>6. /\ directory \in Dir /\ directory \in Cached
      /\ stepIndex \in Nat \ {0} /\ stepIndex' = stepIndex + 1 /\ pc' = "step"
      /\ stepIndex' <= Len(metadataCache[directory]) + 1
      /\ nestedCalls' = nestedCalls \cup
           {[parent |-> directory, step |-> stepIndex,
             ref |-> CurrentStep, status |-> status]}
      /\ nestedCalls' \in SUBSET [parent : Dir, step : Nat, ref : Ref, status : Status]
      /\ CallsAreSound' /\ CallsAreUnique' /\ CallsAreComplete'
  BY <1>1, <1>2, <1>5, RecordCallEffect
<1>7. Expanding' /\ Nested' /\ Current = {directory} /\ Current' = {directory}
  BY <1>1, <1>3, <1>6 DEF Expanding, Nested, Current
<1>8. TypeOK'
  BY <1>1, <1>6 DEF IInv, TypeOK, ClassifyRef
<1>9. (TopPhase /\ PendingIsNew /\ TopIsCached /\ DoneIsDrained)'
  BY <1>2, <1>6 DEF IInv, TopPhase, PendingIsNew, TopIsCached, DoneIsDrained, ClassifyRef
<1>10. (Covered /\ CurrentIsSound)'
  BY <1>1, <1>2, <1>3, <1>6, <1>7 DEF IInv, Covered, CurrentIsSound
<1>11. QueueIsSound'
  BY <1>1, <1>2 DEF IInv, QueueIsSound
<1>12. ResolvedIsCached'
  BY <1>2, <1>5, <1>6 DEF IInv, ResolvedIsCached
<1>13. OnlyReachable'
  <2>1. \A S \in SUBSET Dir : ClosedUnderCalls(S)' => ClosedUnderCalls(S)
    BY <1>6 DEF ClosedUnderCalls
  <2>2. QED  BY <1>2, <2>1 DEF IInv, OnlyReachable
<1>14. QED  BY <1>6, <1>8, <1>9, <1>10, <1>11, <1>12, <1>13 DEF IInv

LEMMA CacheHitIInv == IInv /\ CacheHit => IInv'
<1> SUFFICES ASSUME IInv, CacheHit PROVE IInv'
  OBVIOUS
<1> USE DEF diskVars, topVars
<1>1. /\ pc = "ref" /\ RecordCall(Resolved) /\ CurrentStep.kind = "local"
      /\ CurrentStep.dir \in Cached /\ Enqueue(CurrentStep.dir)
      /\ directory' = directory /\ expanded' = expanded
      /\ metadataCache' = metadataCache /\ expansions' = expansions
  BY DEF CacheHit
<1>2. Expanding /\ Nested
  BY <1>1 DEF Expanding, Nested
<1>3. queue' = queue /\ queued' = queued
  BY <1>1, <1>2 DEF Enqueue, IInv, Covered
<1>4. /\ Cached' = Cached /\ TopLevel' = TopLevel /\ Queued' = Queued
  BY <1>1, <1>3 DEF Cached, TopLevel, Queued, CacheHit
<1>5. Resolved \in Status
  BY DEF Status
<1>6. /\ directory \in Dir /\ directory \in Cached
      /\ stepIndex \in Nat \ {0} /\ stepIndex' = stepIndex + 1 /\ pc' = "step"
      /\ stepIndex' <= Len(metadataCache[directory]) + 1
      /\ nestedCalls' = nestedCalls \cup
           {[parent |-> directory, step |-> stepIndex,
             ref |-> CurrentStep, status |-> Resolved]}
      /\ nestedCalls' \in SUBSET [parent : Dir, step : Nat, ref : Ref, status : Status]
      /\ CallsAreSound' /\ CallsAreUnique' /\ CallsAreComplete'
  BY <1>1, <1>4, <1>5, RecordCallEffect
<1>7. Expanding' /\ Nested' /\ Current = {directory} /\ Current' = {directory}
  BY <1>1, <1>2, <1>6 DEF Expanding, Nested, Current
<1>8. TypeOK'
  BY <1>1, <1>3, <1>6 DEF IInv, TypeOK, CacheHit
<1>9. (TopPhase /\ PendingIsNew /\ TopIsCached /\ DoneIsDrained)'
  BY <1>4, <1>6 DEF IInv, TopPhase, PendingIsNew, TopIsCached, DoneIsDrained, CacheHit
<1>10. (Covered /\ CurrentIsSound)'
  BY <1>1, <1>2, <1>3, <1>4, <1>6, <1>7 DEF IInv, Covered, CurrentIsSound
<1>11. QueueIsSound'
  BY <1>1, <1>3, <1>4 DEF IInv, QueueIsSound
<1>12. ResolvedIsCached'
  BY <1>1, <1>4, <1>6 DEF IInv, ResolvedIsCached
<1>13. OnlyReachable'
  <2>1. \A S \in SUBSET Dir : ClosedUnderCalls(S)' => ClosedUnderCalls(S)
    BY <1>6 DEF ClosedUnderCalls
  <2>2. QED  BY <1>4, <2>1 DEF IInv, OnlyReachable
<1>14. QED  BY <1>6, <1>8, <1>9, <1>10, <1>11, <1>12, <1>13 DEF IInv

LEMMA CacheMissIInv == IInv /\ CacheMiss => IInv'
<1> SUFFICES ASSUME IInv, CacheMiss PROVE IInv'
  OBVIOUS
<1> USE DEF diskVars, topVars
<1> DEFINE d      == CurrentStep.dir
           status == resolveDirectory(disk[d], ctxDone)
<1>1. /\ pc = "ref" /\ RecordCall(status) /\ CurrentStep.kind = "local"
      /\ d \notin Cached /\ Keep(d, status)
      /\ IF status = Resolved THEN Enqueue(d) ELSE UNCHANGED <<queue, queued>>
      /\ reads' = [reads EXCEPT ![d] = @ + 1]
      /\ UNCHANGED <<disk, edits, pending, topStatus, directory,
                     expansions, expanded, ctxDone>>
  BY DEF CacheMiss, NeedsRead
<1>2. Expanding /\ Nested
  BY <1>1 DEF Expanding, Nested
<1>3. CurrentStep \in Ref /\ d \in Dir
  <2>1. stepIndex \in 1 .. Len(metadataCache[directory])
    BY <1>1, <1>2, CurrentIsCached DEF IInv, TypeOK, CurrentIsSound, HasStep
  <2>2. CurrentStep \in Ref
    BY <1>2, <2>1, CurrentIsCached DEF CurrentStep
  <2>3. QED  BY <2>2 DEF Ref
<1>4. status \in Status /\ disk[d].steps \in Steps
  <2>1. disk[d] \in DirContents
    BY <1>3, ContentsAssumption DEF IInv, TypeOK
  <2>2. QED  BY <2>1, OutcomeIsStatus DEF IInv, TypeOK, DirContents
<1>5. metadataCache' = IF status = Resolved
                         THEN [metadataCache EXCEPT ![d] = disk[d].steps] ELSE metadataCache
  BY <1>1 DEF Keep
<1>6. Cached' = IF status = Resolved THEN Cached \cup {d} ELSE Cached
  BY <1>3, <1>4, <1>5, NotCachedAssumption DEF Cached, IInv, TypeOK
<1>7. \A e \in Cached : metadataCache'[e] = metadataCache[e]
  BY <1>1, <1>3, <1>5 DEF IInv, TypeOK, Cached
<1>8. /\ queued = Cached /\ expanded \subseteq Cached
      /\ Cached \subseteq expanded \cup Queued \cup Current
      /\ \A e \in expanded : expansions[e] = 1
      /\ \A e \in Dir \ (expanded \cup Current) : expansions[e] = 0
  BY <1>2 DEF IInv, Covered
<1>9. /\ queue' = IF status = Resolved THEN Append(queue, d) ELSE queue
      /\ queued' = IF status = Resolved THEN queued \cup {d} ELSE queued
  BY <1>1, <1>8 DEF Enqueue
<1>10. /\ queue \in Seq(Dir) /\ queue' \in Seq(Dir)
       /\ Queued' = IF status = Resolved THEN Queued \cup {d} ELSE Queued
  <2>1. queue \in Seq(Dir)
    BY DEF IInv, TypeOK
  <2>2. QED  BY <1>3, <1>9, <2>1, QueueAppend DEF Queued
<1>11. TopLevel' = TopLevel
  BY <1>1 DEF TopLevel
<1>12. /\ directory \in Dir /\ directory \in Cached
       /\ stepIndex \in Nat \ {0} /\ stepIndex' = stepIndex + 1 /\ pc' = "step"
       /\ stepIndex' <= Len(metadataCache[directory]) + 1
       /\ nestedCalls' = nestedCalls \cup
            {[parent |-> directory, step |-> stepIndex,
              ref |-> CurrentStep, status |-> status]}
       /\ nestedCalls' \in SUBSET [parent : Dir, step : Nat, ref : Ref, status : Status]
       /\ CallsAreSound' /\ CallsAreUnique' /\ CallsAreComplete'
  BY <1>1, <1>4, <1>6, <1>7, RecordCallEffect
<1>13. Expanding' /\ Nested' /\ Current = {directory} /\ Current' = {directory}
  BY <1>1, <1>2, <1>12 DEF Expanding, Nested, Current
<1>14. TypeOK'
  <2>1. metadataCache' \in [Dir -> Steps \cup {NotCached}]
    BY <1>4, <1>5 DEF IInv, TypeOK
  <2>2. reads' \in [Dir -> Nat]
    BY <1>1, <1>3 DEF IInv, TypeOK
  <2>3. QED  BY <1>1, <1>3, <1>9, <1>10, <1>12, <2>1, <2>2 DEF IInv, TypeOK
<1>15. (TopPhase /\ PendingIsNew /\ TopIsCached /\ DoneIsDrained)'
  BY <1>1, <1>6, <1>11, <1>12 DEF IInv, TopPhase, PendingIsNew, TopIsCached, DoneIsDrained
<1>16. Covered'
  BY <1>1, <1>6, <1>8, <1>9, <1>10, <1>13 DEF Covered
<1>17. CurrentIsSound'
  <2>1. directory \notin expanded /\ directory \notin Queued /\ expansions[directory] = 1
    BY <1>2 DEF IInv, CurrentIsSound
  <2>2. directory # d
    BY <1>1, <1>12
  <2>3. QED  BY <1>1, <1>6, <1>7, <1>10, <1>12, <2>1, <2>2 DEF CurrentIsSound
<1>18. QueueIsSound'
  <2>1. CASE status # Resolved
    BY <1>1, <1>6, <1>9, <1>10, <2>1 DEF IInv, QueueIsSound
  <2>2. CASE status = Resolved
    <3>1. Queued' \subseteq Cached' \ expanded'
      BY <1>1, <1>6, <1>8, <1>10, <2>2 DEF IInv, QueueIsSound
    <3>2. \A i \in 1 .. Len(queue) : queue[i] # d
      BY <1>1 DEF IInv, QueueIsSound, Queued
    <3>3. /\ Len(queue') = Len(queue) + 1 /\ queue'[Len(queue) + 1] = d
          /\ \A i \in 1 .. Len(queue) : queue'[i] = queue[i]
          /\ Len(queue) \in Nat
      BY <1>3, <1>9, <1>10, <2>2, QueueAppend
    <3>4. \A i \in 1 .. Len(queue') : i \in 1 .. Len(queue) \/ i = Len(queue) + 1
      BY <3>3
    <3>5. \A i, j \in 1 .. Len(queue') : queue'[i] = queue'[j] => i = j
      BY <3>2, <3>3, <3>4 DEF IInv, QueueIsSound
    <3>6. QED  BY <3>1, <3>5 DEF QueueIsSound
  <2>3. QED  BY <2>1, <2>2
<1>19. ResolvedIsCached'
  BY <1>1, <1>6, <1>11, <1>12 DEF IInv, ResolvedIsCached
<1>20. OnlyReachable'
  <2>1. ASSUME NEW S \in SUBSET Dir, TopLevel \subseteq S, ClosedUnderCalls(S)'
        PROVE  Cached' \subseteq S
    <3>1. ClosedUnderCalls(S)
      BY <1>12, <2>1 DEF ClosedUnderCalls
    <3>2. Cached \subseteq S
      BY <2>1, <3>1 DEF IInv, OnlyReachable
    <3>3. directory \in S
      BY <1>12, <3>2
    <3>4. ASSUME status = Resolved PROVE d \in S
      <4> DEFINE call == [parent |-> directory, step |-> stepIndex,
                          ref |-> CurrentStep, status |-> status]
      <4>1. call \in nestedCalls'
        BY <1>12
      <4>2. call.status = Resolved /\ call.parent \in S /\ call.ref.dir = d
        BY <3>3, <3>4
      <4>3. QED  BY <2>1, <4>1, <4>2 DEF ClosedUnderCalls
    <3>5. QED  BY <1>6, <3>2, <3>4
  <2>2. QED  BY <1>11, <2>1 DEF OnlyReachable
<1>21. QED  BY <1>12, <1>14, <1>15, <1>16, <1>17, <1>18, <1>19, <1>20 DEF IInv

LEMMA StutterIInv == IInv /\ UNCHANGED vars => IInv'
<1> SUFFICES ASSUME IInv, UNCHANGED vars PROVE IInv'
  OBVIOUS
<1> USE DEF IInv, vars, diskVars, topVars, walkVars, workVars
<1>1. Cached' = Cached /\ TopLevel' = TopLevel /\ Queued' = Queued
  BY DEF Cached, TopLevel, Queued
<1>2. TypeOK'
  BY DEF TypeOK
<1>3. (TopPhase /\ PendingIsNew /\ TopIsCached)'
  BY <1>1 DEF TopPhase, PendingIsNew, TopIsCached
<1>4. (Covered /\ CurrentIsSound /\ DoneIsDrained)'
  BY <1>1 DEF Covered, CurrentIsSound, DoneIsDrained, Nested, Expanding, Current, HasStep, CurrentStep
<1>5. (QueueIsSound /\ ResolvedIsCached /\ OnlyReachable)'
  BY <1>1 DEF QueueIsSound, ResolvedIsCached, OnlyReachable, ClosedUnderCalls
<1>6. (CallsAreSound /\ CallsAreUnique)'
  BY <1>1 DEF CallsAreSound, CallsAreUnique, Nested, Expanding
<1>7. CallsAreComplete'
  BY <1>1 DEF CallsAreComplete, Recorded, Nested, Expanding
<1>8. QED  BY <1>2, <1>3, <1>4, <1>5, <1>6, <1>7

(***************************************************************************)
(* The inductive invariant holds in every reachable state.                 *)
(***************************************************************************)
THEOREM Inductive == Spec => []IInv
<1>1. Init => IInv
  BY InitIInv
<1>2. IInv /\ [Next]_vars => IInv'
  BY CheckTopLevelIInv, ResolveTopLevelIInv, EnterNestedIInv, NextDirectoryIInv,
     CheckStepIInv, ClassifyRefIInv, CacheHitIInv, CacheMissIInv,
     FinishDirectoryIInv, FinishIInv, AbortIInv, CancelIInv, EditIInv, StutterIInv
     DEF Next, Resolve
<1>3. QED  BY <1>1, <1>2, PTL DEF Spec

(***************************************************************************)
(* Every state of a resolution is well typed.                              *)
(***************************************************************************)
THEOREM TypeCorrect == Spec => []TypeOK
<1>1. IInv => TypeOK
  BY DEF IInv
<1>2. QED  BY <1>1, Inductive, PTL

(***************************************************************************)
(* The queue never holds a directory that is not cached, that was expanded *)
(* already, or twice: resolveNested's defensive branches are unreachable.  *)
(***************************************************************************)
THEOREM QueueSoundness == Spec => []QueueIsSound
<1>1. IInv => QueueIsSound
  BY DEF IInv
<1>2. QED  BY <1>1, Inductive, PTL

(***************************************************************************)
(* The metadata of every call that is reported resolved is in the result.  *)
(***************************************************************************)
THEOREM ResolvedCallsHaveMetadata == Spec => []ResolvedIsCached
<1>1. IInv => ResolvedIsCached
  BY DEF IInv
<1>2. QED  BY <1>1, Inductive, PTL

(***************************************************************************)
(* A returned result is complete: the steps of all its actions were walked *)
(* exactly once and each has its one call record.                          *)
(***************************************************************************)
THEOREM Completeness == Spec => []DoneIsComplete
<1>1. IInv => DoneIsComplete
  <2> SUFFICES ASSUME IInv, pc = "done", NEW d \in Cached
                 PROVE  /\ expansions[d] = 1
                        /\ \A i \in 1 .. Len(metadataCache[d]) :
                             metadataCache[d][i].kind # "none" =>
                               \E c \in CallsOf(d) :
                                 /\ c.step = i /\ c.ref = metadataCache[d][i]
                                 /\ \A e \in CallsOf(d) : e.step = i => e = c
    BY DEF DoneIsComplete
  <2>2. Nested /\ ~Expanding /\ Queued = {}
    BY DEF Nested, Expanding, IInv, DoneIsDrained, Queued
  <2>3. d \in expanded /\ expansions[d] = 1
    BY <2>2 DEF IInv, Covered, Current
  <2>4. ASSUME NEW i \in 1 .. Len(metadataCache[d]), metadataCache[d][i].kind # "none"
        PROVE  \E c \in CallsOf(d) :
                 /\ c.step = i /\ c.ref = metadataCache[d][i]
                 /\ \A e \in CallsOf(d) : e.step = i => e = c
    <3>1. PICK c \in nestedCalls : c.parent = d /\ c.step = i
      BY <2>2, <2>3, <2>4 DEF IInv, CallsAreComplete, Recorded
    <3>2. c.ref = metadataCache[d][i]
      BY <3>1 DEF IInv, CallsAreSound
    <3>3. \A e \in CallsOf(d) : e.step = i => e = c
      BY <3>1 DEF IInv, CallsAreUnique, CallsOf
    <3>4. QED  BY <3>1, <3>2, <3>3 DEF CallsOf
  <2>5. QED  BY <2>3, <2>4
<1>2. QED  BY <1>1, Inductive, PTL

(***************************************************************************)
(* Every cached action is reachable by resolved calls from an action that  *)
(* a workflow references.                                                  *)
(***************************************************************************)
THEOREM Minimality == Spec => []OnlyReachable
<1>1. IInv => OnlyReachable
  BY DEF IInv
<1>2. QED  BY <1>1, Inductive, PTL

(***************************************************************************)
(* Cached metadata is never read again nor replaced.                       *)
(***************************************************************************)
THEOREM CacheStability == Spec => CacheStable
<1>1. IInv /\ [Next]_vars =>
        [\A d \in Cached : metadataCache'[d] = metadataCache[d] /\ reads'[d] = reads[d]]_vars
  <2> SUFFICES ASSUME IInv, Next, NEW d \in Cached
                 PROVE  metadataCache'[d] = metadataCache[d] /\ reads'[d] = reads[d]
    OBVIOUS
  <2>2. d \in Dir
    BY DEF Cached
  <2>3. ASSUME NEW e \in Dir, ResolveTopLevel(e)
        PROVE  metadataCache'[d] = metadataCache[d] /\ reads'[d] = reads[d]
    <3>1. e \in pending /\ pc = "dir"
      BY <2>3 DEF ResolveTopLevel
    <3>2. e \notin Cached
      BY <3>1, UnresolvedAssumption
         DEF IInv, PendingIsNew, TopIsCached, TopLevel, Resolved, Status
    <3>3. QED  BY <2>2, <2>3, <3>2 DEF ResolveTopLevel, Keep, IInv, TypeOK
  <2>4. CASE CacheMiss
    BY <2>2, <2>4 DEF CacheMiss, NeedsRead, Keep, IInv, TypeOK
  <2>5. CASE \/ CheckTopLevel \/ EnterNested \/ NextDirectory \/ CheckStep \/ ClassifyRef
             \/ CacheHit \/ FinishDirectory \/ Finish \/ Abort \/ Cancel
             \/ \E e \in Dir : Edit(e)
    BY <2>5 DEF CheckTopLevel, EnterNested, NextDirectory, CheckStep, ClassifyRef, CacheHit,
                FinishDirectory, Finish, Abort, Cancel, Edit
  <2>6. QED  BY <2>3, <2>4, <2>5 DEF Next, Resolve
<1>2. QED  BY <1>1, Inductive, PTL DEF Spec, CacheStable
=============================================================================
