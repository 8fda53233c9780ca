----------------------- MODULE DocumentPipelineProofs -----------------------
(***************************************************************************)
(* Proofs about DocumentPipeline, for any number of retries, jobs and      *)
(* crashes: its type, that a row has its file, that nothing is forgotten   *)
(* without a crash, and that row and index agree where nobody raced.       *)
(***************************************************************************)
EXTENDS DocumentPipeline, TLAPS

\* Somebody who found the row, or stored the file, and is going to write the row.
Working ==
  \/ row # "none"
  \/ upload = "row"
  \/ \E r \in Retries : retry[r] = "save"
  \/ \E j \in Jobs : job[j] \in Running

\* Until somebody deletes the document, they have a file.
FileInv == deletion = "idle" /\ Working => file = "stored"

\* No retry is about to save, no job runs.
Idle == (\A r \in Retries : retry[r] # "save") /\ \A j \in Jobs : job[j] \notin Running

\* Before the row is there nobody else can begin.
UploadInv == upload \in {"file", "row"} => row = "none" /\ deletion = "idle" /\ Idle

\* The index holds what j wrote, and all of it.
Whole(j) == index # {} /\ \A c \in index : c.job = j /\ c.part = "all"

\* Without a race, a job that is about to write the row has the document to itself
\* and knows what is in the index.
JobInv ==
  \A j \in Jobs :
    /\ job[j] \in {"parse", "clear", "write", "check", "finish"} => row # "done"
    /\ job[j] = "write" => index = {}
    /\ job[j] \in {"check", "finish"} => Whole(j)

\* Nobody works between another's steps: Overlap, said of each.
Apart ==
  /\ Deleting => Idle
  /\ \A j \in Jobs : job[j] \in Running =>
       /\ \A r \in Retries : retry[r] # "save"
       /\ \A i \in Jobs : job[i] \in Running => i = j

RaceInv ==
  raced = "no" =>
    /\ Apart
    /\ deletion = "over" => Idle /\ row = "none"
    /\ deletion \in {"file", "row", "over"} => index = {}
    /\ deletion = "idle" => JobInv
    /\ deletion = "idle" /\ row = "done" => \E j \in Jobs : Whole(j)

-----------------------------------------------------------------------------
(* Types.                                                                  *)

\* Making chunks searchable keeps their type.
LEMMA ClearedType ==
  ASSUME index \subseteq Chunks
  PROVE  Cleared \subseteq Chunks
BY DEF Cleared, Chunks

\* Refresh keeps the type of the index.
LEMMA RefreshType ==
  ASSUME index \subseteq Chunks
  PROVE  {[c EXCEPT !.seen = "visible"] : c \in index} \subseteq Chunks
BY DEF Chunks

\* dispatch_parse_document() queues one job and changes no other.
LEMMA DispatchType ==
  ASSUME TypeOK, Dispatch
  PROVE  job' \in [Jobs -> Running \cup {"none", "queued", "over"}]
BY DEF TypeOK, Dispatch

\* raced stays one of its two values.
LEMMA RacedType ==
  ASSUME TypeOK, Races \/ ClearRaces
  PROVE  raced' \in {"no", "yes"}
BY DEF TypeOK, Races, ClearRaces

\* Requests keep the type invariant.
LEMMA RequestType ==
  ASSUME TypeOK,
         \/ UploadNext \/ UploadBreaks \/ DeleteReads \/ DeleteNext \/ DeleteBreaks
         \/ \E r \in Retries : RetryReads(r) \/ RetryNext(r) \/ RetryBreaks(r)
  PROVE  TypeOK'
<1> USE RacedType DEF TypeOK, requestVars, storeVars, Failure
<1>1. CASE UploadNext \/ UploadBreaks
  BY <1>1, DispatchType DEF UploadNext, StoresFile, SavesRow, UploadDispatches, UploadBreaks
<1>2. CASE DeleteReads \/ DeleteNext \/ DeleteBreaks
  BY <1>2, ClearedType DEF DeleteReads, DeleteNext, DeletesChunks, DeletesFile,
     DeletesRow, DeleteBreaks
<1>3. ASSUME NEW r \in Retries, RetryReads(r) \/ RetryNext(r) \/ RetryBreaks(r) PROVE TypeOK'
  BY <1>3, DispatchType DEF RetryReads, RetryNext, RetrySaves, RetryDispatches, RetryBreaks
<1>4. QED
  BY <1>1, <1>2, <1>3

\* Jobs and the index keep the type invariant.
LEMMA JobType ==
  ASSUME TypeOK, Refresh \/ \E j \in Jobs : JobNext(j) \/ JobDies(j)
  PROVE  TypeOK'
<1> USE RacedType DEF TypeOK, requestVars, storeVars, Failure
<1>1. CASE Refresh
  BY <1>1, RefreshType DEF Refresh
<1>2. ASSUME NEW j \in Jobs, JobWrites(j) PROVE TypeOK'
  <2>1. index' \subseteq Chunks
    BY <1>2 DEF JobWrites, Chunks, Fresh
  <2>2. QED
    BY <1>2, <2>1 DEF JobWrites, JobTo, Running
<1>3. ASSUME NEW j \in Jobs, JobNext(j) \/ JobDies(j), ~JobWrites(j) PROVE TypeOK'
  BY <1>3, ClearedType DEF JobNext, JobDies, JobTo, Running, JobReads, JobMarks, JobParses,
     JobClears, JobChecks, JobFinishes, JobErrs, JobFails, JobRecordsFailure
<1>4. QED
  BY <1>1, <1>2, <1>3

\* Every variable keeps its type.
THEOREM TypeCorrect == Spec => []TypeOK
<1>1. Init => TypeOK
  BY DEF Init, TypeOK
<1>2. TypeOK /\ [Next]_vars => TypeOK'
  <2>1. ASSUME TypeOK, Next PROVE TypeOK'
    BY <2>1, RequestType, JobType DEF Next, Breaks
  <2>2. ASSUME TypeOK, UNCHANGED vars PROVE TypeOK'
    BY <2>2 DEF TypeOK, vars, storeVars, requestVars
  <2>3. QED
    BY <2>1, <2>2
<1>3. QED
  BY <1>1, <1>2, PTL DEF Spec

-----------------------------------------------------------------------------
(* The row and its file.                                                   *)

\* What a job does to the file, the deletion and the row, and where it can stand.
LEMMA JobFrame ==
  ASSUME TypeOK, NEW j \in Jobs, JobNext(j) \/ JobDies(j)
  PROVE  /\ UNCHANGED <<file, upload, retry, deletion>>
         /\ \A i \in Jobs \ {j} : job'[i] = job[i]
         /\ job'[j] \in Running => job[j] \in Running \/ row # "none"
         /\ row' # row => job[j] \in Running /\ row' # "none"
<1> USE DEF TypeOK, JobTo, storeVars, requestVars, Running
<1>1. CASE JobDies(j)
  BY <1>1 DEF JobDies
<1>2. CASE JobNext(j)
  BY <1>2 DEF JobNext, JobReads, JobMarks, JobParses, JobClears, JobWrites, JobChecks,
     JobFinishes, JobErrs, JobFails, JobRecordsFailure
<1>3. QED
  BY <1>1, <1>2

\* Dispatching a job starts none.
LEMMA DispatchFrame ==
  ASSUME TypeOK, Dispatch
  PROVE  \A j \in Jobs : job'[j] \in Running <=> job[j] \in Running
BY DEF TypeOK, Dispatch, Running

\* Where everybody's work leaves from: the two invariants hold again.
LEMMA FileStep ==
  ASSUME TypeOK, FileInv, UploadInv, Next
  PROVE  FileInv' /\ UploadInv'
<1> USE DEF FileInv, UploadInv, Working, Idle, storeVars, requestVars
<1>1. CASE UploadNext \/ UploadBreaks
  <2>1. CASE StoresFile
    BY <2>1 DEF StoresFile
  <2>2. CASE SavesRow
    BY <2>2 DEF SavesRow
  <2>3. CASE UploadDispatches
    BY <2>3, DispatchFrame DEF UploadDispatches
  <2>4. CASE UploadBreaks
    BY <2>4 DEF UploadBreaks
  <2>5. QED
    BY <1>1, <2>1, <2>2, <2>3, <2>4 DEF UploadNext
<1>2. CASE DeleteReads \/ DeleteNext \/ DeleteBreaks
  BY <1>2 DEF DeleteReads, DeleteNext, DeletesChunks, DeletesFile, DeletesRow, DeleteBreaks,
     Deleting
<1>3. ASSUME NEW r \in Retries, RetryReads(r) \/ RetryNext(r) \/ RetryBreaks(r)
      PROVE  FileInv' /\ UploadInv'
  <2>1. CASE RetryReads(r)
    BY <2>1 DEF RetryReads, TypeOK
  <2>2. CASE RetrySaves(r)
    BY <2>2 DEF RetrySaves, TypeOK
  <2>3. CASE RetryDispatches(r)
    BY <2>3, DispatchFrame DEF RetryDispatches, TypeOK
  <2>4. CASE RetryBreaks(r)
    BY <2>4 DEF RetryBreaks, TypeOK
  <2>5. QED
    BY <1>3, <2>1, <2>2, <2>3, <2>4 DEF RetryNext
<1>4. CASE Refresh
  BY <1>4 DEF Refresh
<1>5. ASSUME NEW j \in Jobs, JobNext(j) \/ JobDies(j) PROVE FileInv' /\ UploadInv'
  <2>1. Working' => Working
    BY <1>5, JobFrame
  <2>2. Idle /\ row = "none" => Idle' /\ row' = "none"
    BY <1>5, JobFrame
  <2>3. QED
    BY <1>5, <2>1, <2>2, JobFrame
<1>6. QED
  BY <1>1, <1>2, <1>3, <1>4, <1>5 DEF Next, Breaks

\* Until somebody deletes it, a document with a row has a file, however requests
\* and jobs of the document overlap, fail or crash.
THEOREM FileBehindRow == Spec => []RowHasFile
<1>1. Init => FileInv /\ UploadInv
  BY DEF Init, FileInv, UploadInv, Working, Idle, Running
<1>2. TypeOK /\ FileInv /\ UploadInv /\ [Next]_vars => FileInv' /\ UploadInv'
  <2>1. ASSUME FileInv, UploadInv, UNCHANGED vars PROVE FileInv' /\ UploadInv'
    BY <2>1 DEF FileInv, UploadInv, Working, Idle, vars, storeVars, requestVars
  <2>2. QED
    BY <2>1, FileStep
<1>3. FileInv => RowHasFile
  BY DEF FileInv, Working, RowHasFile
<1>4. QED
  BY <1>1, <1>2, <1>3, TypeCorrect, PTL DEF Spec

-----------------------------------------------------------------------------
(* Nothing is forgotten.                                                   *)

\* Every step leaves somebody with the document that waits.
LEMMA TendedStep ==
  ASSUME TypeOK, NoForgottenDocument, Next
  PROVE  NoForgottenDocument'
<1> USE DEF NoForgottenDocument, Tended, storeVars, requestVars, TypeOK
<1>1. CASE Breaks
  <2>1. breaks' = breaks + 1
    BY <1>1 DEF Breaks, UploadBreaks, DeleteBreaks, RetryBreaks, JobDies, Failure
  <2>2. QED
    BY <2>1
<1>2. ASSUME Dispatch, UNCHANGED row, UNCHANGED breaks PROVE NoForgottenDocument'
  BY <1>2 DEF Dispatch
<1>3. CASE UploadNext
  BY <1>2, <1>3 DEF UploadNext, StoresFile, SavesRow, UploadDispatches
<1>4. CASE DeleteReads \/ DeleteNext \/ Refresh
  BY <1>4 DEF DeleteReads, DeleteNext, DeletesChunks, DeletesFile, DeletesRow, Refresh
<1>5. ASSUME NEW r \in Retries, RetryReads(r) \/ RetryNext(r) PROVE NoForgottenDocument'
  BY <1>2, <1>5 DEF RetryReads, RetryNext, RetrySaves, RetryDispatches
<1>6. ASSUME NEW j \in Jobs, JobNext(j) PROVE NoForgottenDocument'
  <2>1. CASE job'[j] \in Running
    BY <1>6, <2>1 DEF JobNext, JobReads, JobMarks, JobParses, JobClears, JobWrites,
       JobChecks, JobFinishes, JobErrs, JobFails, JobRecordsFailure
  <2>2. CASE job'[j] \notin Running
    <3>1. row' \in {"none", "done", "failed"}
      BY <1>6, <2>2 DEF JobNext, JobReads, JobMarks, JobParses, JobClears, JobWrites,
         JobChecks, JobFinishes, JobErrs, JobFails, JobRecordsFailure, JobTo, Running
    <3>2. QED
      BY <3>1
  <2>3. QED
    BY <2>1, <2>2
<1>7. QED
  BY <1>1, <1>3, <1>4, <1>5, <1>6 DEF Next

\* Without a crash, a document that waits or is said to be parsed has a job or a
\* request that is going to work on it.
THEOREM NothingForgotten == Spec => []NoForgottenDocument
<1>1. Init => NoForgottenDocument
  BY DEF Init, NoForgottenDocument
<1>2. TypeOK /\ NoForgottenDocument /\ [Next]_vars => NoForgottenDocument'
  <2>1. ASSUME NoForgottenDocument, UNCHANGED vars PROVE NoForgottenDocument'
    BY <2>1 DEF NoForgottenDocument, Tended, vars, storeVars, requestVars
  <2>2. QED
    BY <2>1, TendedStep
<1>3. QED
  BY <1>1, <1>2, TypeCorrect, PTL DEF Spec

-----------------------------------------------------------------------------
(* Row and index.                                                          *)

\* Every step looks whether two work on the document.
LEMMA StepLooks ==
  ASSUME Next
  PROVE  Races \/ ClearRaces
<1>1. ASSUME NEW r \in Retries, RetryReads(r) \/ RetryNext(r) PROVE Races
  BY <1>1 DEF RetryReads, RetryNext, RetrySaves, RetryDispatches
<1>2. ASSUME NEW j \in Jobs, JobNext(j) PROVE Races \/ ClearRaces
  BY <1>2 DEF JobNext, JobReads, JobMarks, JobParses, JobClears, JobWrites, JobChecks,
     JobFinishes, JobErrs, JobFails, JobRecordsFailure
<1>3. CASE Breaks
  BY <1>3 DEF Breaks, UploadBreaks, DeleteBreaks, RetryBreaks, JobDies
<1>4. CASE UploadNext \/ DeleteReads \/ DeleteNext \/ Refresh
  BY <1>4 DEF UploadNext, StoresFile, SavesRow, UploadDispatches, DeleteReads, DeleteNext,
     DeletesChunks, DeletesFile, DeletesRow, Refresh
<1>5. QED
  BY <1>1, <1>2, <1>3, <1>4 DEF Next

\* Where nobody raced so far, nobody did before and nobody does now.
LEMMA NoRace ==
  ASSUME Next, raced' = "no"
  PROVE  raced = "no" /\ Apart'
<1>1. raced = "no" /\ ~Overlap'
  BY StepLooks DEF Races, ClearRaces
<1>2. ~Overlap' => Apart'
  BY DEF Overlap, Apart, Idle, ActiveJobs, ActiveRetries
<1>3. QED
  BY <1>1, <1>2

\* Where the index had nothing that could not be searched, a deletion empties it.
LEMMA ClearsAll ==
  ASSUME ClearRaces, raced' = "no", index \subseteq Chunks
  PROVE  Cleared = {}
BY DEF ClearRaces, Misses, Cleared

\* Making chunks searchable changes neither their job nor whether they are all.
LEMMA WholeRefresh ==
  ASSUME index \subseteq Chunks, index' = {[c EXCEPT !.seen = "visible"] : c \in index},
         NEW j \in Jobs, Whole(j)
  PROVE  Whole(j)'
<1>1. index' # {}
  BY DEF Whole
<1>2. ASSUME NEW d \in index' PROVE d.job = j /\ d.part = "all"
  <2>1. PICK c \in index : d = [c EXCEPT !.seen = "visible"]
    BY <1>2
  <2>2. d.job = c.job /\ d.part = c.part
    BY <2>1 DEF Chunks
  <2>3. QED
    BY <2>2 DEF Whole
<1>3. QED
  BY <1>1, <1>2 DEF Whole

\* A job that is alone keeps what it and the row say of the index.
LEMMA JobRaceStep ==
  ASSUME TypeOK, RaceInv, Next, raced' = "no", NEW j \in Jobs, JobNext(j)
  PROVE  RaceInv'
<1>1. raced = "no" /\ Apart'
  BY NoRace
<1>2. /\ UNCHANGED <<upload, retry, deletion>>
      /\ \A i \in Jobs \ {j} : job'[i] = job[i]
      /\ row' # row => job[j] \in Running /\ row' # "none"
  BY JobFrame
<1>3. CASE JobReads(j)
  BY <1>1, <1>2, <1>3 DEF RaceInv, JobReads, JobInv, Whole, Idle, JobTo, TypeOK, storeVars,
     Running, Deleting
<1>4. CASE job[j] \in Running
  <2>1. deletion \in {"idle", "broken"}
    BY <1>1, <1>4 DEF RaceInv, Apart, Deleting, Idle, TypeOK
  <2>2. CASE deletion = "broken"
    BY <1>1, <1>2, <2>2 DEF RaceInv
  <2>3. CASE deletion = "idle"
    <3>1. \A i \in Jobs \ {j} : job[i] \notin Running
      BY <1>1, <1>4 DEF RaceInv, Apart
    <3>2. \A i \in Jobs \ {j} : job'[i] \notin Running
      BY <1>2, <3>1
    <3>3. SUFFICES JobInv' /\ (row' = "done" => \E i \in Jobs : Whole(i)')
      BY <1>1, <1>2, <2>3 DEF RaceInv
    <3>4. JobInv /\ (row = "done" => \E i \in Jobs : Whole(i))
      BY <1>1, <2>3 DEF RaceInv
    <3> USE <1>1, <1>2, <1>4, <3>2, <3>4 DEF JobInv, JobTo, Running, TypeOK, storeVars
    <3>5. CASE JobClears(j)
      <4>1. index' = {}
        BY <3>5, ClearsAll DEF JobClears
      <4>2. QED
        BY <3>5, <4>1 DEF JobClears
    <3>6. CASE JobWrites(j)
      <4>1. CASE job'[j] = "check"
        <5>1. index = {}
          BY <3>6 DEF JobWrites
        <5>2. index' = index \cup {[job |-> j, part |-> "all", seen |-> Fresh]}
          BY <3>6, <4>1 DEF JobWrites
        <5>3. Whole(j)'
          BY <5>1, <5>2 DEF Whole
        <5>4. QED
          BY <3>6, <4>1, <5>3 DEF JobWrites
      <4>2. CASE job'[j] = "fail"
        BY <3>6, <4>2 DEF JobWrites
      <4>3. QED
        BY <3>6, <4>1, <4>2 DEF JobWrites
    <3>7. CASE JobMarks(j)
      BY <3>7 DEF JobMarks, Whole
    <3>8. CASE JobParses(j) \/ JobChecks(j) \/ JobErrs(j) \/ JobFails(j)
      BY <3>8 DEF JobParses, JobChecks, JobErrs, JobFails, Whole
    <3>9. CASE JobFinishes(j) \/ JobRecordsFailure(j)
      BY <3>9 DEF JobFinishes, JobRecordsFailure, Whole
    <3>10. QED
      BY <3>5, <3>6, <3>7, <3>8, <3>9 DEF JobNext, JobReads
  <2>4. QED
    BY <2>1, <2>2, <2>3
<1>5. QED
  BY <1>3, <1>4 DEF JobNext, JobMarks, JobParses, JobClears, JobWrites, JobChecks,
     JobFinishes, JobErrs, JobFails, JobRecordsFailure, Running

\* So does every other step.
LEMMA RaceStep ==
  ASSUME TypeOK, UploadInv, RaceInv, Next
  PROVE  RaceInv'
<1> SUFFICES ASSUME raced' = "no" PROVE RaceInv'
  BY DEF RaceInv
<1>1. raced = "no" /\ Apart'
  BY NoRace
<1> USE <1>1 DEF RaceInv, storeVars, requestVars, TypeOK, Idle
<1>2. CASE UploadNext \/ UploadBreaks
  <2>1. \A j \in Jobs : job'[j] \in Running <=> job[j] \in Running
    BY <1>2, DispatchFrame DEF UploadNext, StoresFile, SavesRow, UploadDispatches, UploadBreaks
  <2>2. \A j \in Jobs : job'[j] \in Running => job'[j] = job[j]
    BY <1>2, <2>1 DEF UploadNext, StoresFile, SavesRow, UploadDispatches, UploadBreaks, Dispatch, Running
  <2>3. row' = row \/ (row' = "pending" /\ deletion = "idle")
    BY <1>2 DEF UploadNext, StoresFile, SavesRow, UploadDispatches, UploadBreaks, UploadInv
  <2>4. UNCHANGED <<index, retry, deletion>>
    BY <1>2 DEF UploadNext, StoresFile, SavesRow, UploadDispatches, UploadBreaks
  <2>5. QED
    BY <2>1, <2>2, <2>3, <2>4 DEF JobInv, Whole, Running
<1>3. ASSUME NEW r \in Retries, RetryReads(r) \/ RetryNext(r) \/ RetryBreaks(r) PROVE RaceInv'
  <2>1. \A j \in Jobs : job'[j] \in Running <=> job[j] \in Running
    BY <1>3, DispatchFrame DEF RetryReads, RetryNext, RetrySaves, RetryDispatches, RetryBreaks
  <2>2. \A j \in Jobs : job'[j] \in Running => job'[j] = job[j]
    BY <1>3, <2>1 DEF RetryReads, RetryNext, RetrySaves, RetryDispatches, RetryBreaks, Dispatch, Running
  <2>3. UNCHANGED <<index, deletion>>
    BY <1>3 DEF RetryReads, RetryNext, RetrySaves, RetryDispatches, RetryBreaks
  <2>4. row' = row \/ (row' = "pending" /\ retry[r] = "save")
    BY <1>3 DEF RetryReads, RetryNext, RetrySaves, RetryDispatches, RetryBreaks
  <2>5. \A q \in Retries : retry'[q] = "save" => retry[q] = "save" \/ row # "none"
    BY <1>3 DEF RetryReads, RetryNext, RetrySaves, RetryDispatches, RetryBreaks
  <2>6. QED
    BY <2>1, <2>2, <2>3, <2>4, <2>5 DEF JobInv, Whole, Running
<1>4. CASE DeleteReads \/ DeleteBreaks
  BY <1>4 DEF DeleteReads, DeleteBreaks
<1>5. CASE DeletesChunks
  <2>1. index' = {}
    BY <1>5, ClearsAll DEF DeletesChunks
  <2>2. QED
    BY <1>5, <2>1 DEF DeletesChunks
<1>6. CASE DeletesFile
  BY <1>6 DEF DeletesFile
<1>7. CASE DeletesRow
  <2>1. Idle /\ index = {}
    BY <1>7 DEF DeletesRow, Apart, Deleting
  <2>2. QED
    BY <1>7, <2>1 DEF DeletesRow
<1>8. CASE Refresh
  <2>1. index = {} => index' = {}
    BY <1>8 DEF Refresh
  <2>2. \A j \in Jobs : Whole(j) => Whole(j)'
    BY <1>8, WholeRefresh DEF Refresh
  <2>3. QED
    BY <1>8, <2>1, <2>2 DEF Refresh, JobInv
<1>9. ASSUME NEW j \in Jobs, JobNext(j) PROVE RaceInv'
  BY <1>9, JobRaceStep
<1>10. ASSUME NEW j \in Jobs, JobDies(j) PROVE RaceInv'
  BY <1>10 DEF JobDies, JobTo, JobInv, Whole, Running
<1>11. QED
  BY <1>2, <1>3, <1>4, <1>5, <1>6, <1>7, <1>8, <1>9, <1>10 DEF Next, DeleteNext, Breaks

\* Where requests and jobs did not overlap, a parsed document has the chunks of one
\* parse, all of them, and a deleted one has neither row nor chunks.
THEOREM IndexFollowsRow == Spec => []IndexMatchesRow
<1>1. Init => FileInv /\ UploadInv /\ RaceInv
  BY DEF Init, FileInv, UploadInv, Working, Idle, RaceInv, Apart, JobInv, Deleting, Running
<1>2. TypeOK /\ FileInv /\ UploadInv /\ RaceInv /\ [Next]_vars
        => FileInv' /\ UploadInv' /\ RaceInv'
  <2>1. ASSUME FileInv, UploadInv, RaceInv, UNCHANGED vars
        PROVE  FileInv' /\ UploadInv' /\ RaceInv'
    BY <2>1 DEF FileInv, UploadInv, Working, RaceInv, Apart, JobInv, Whole, Deleting, Idle,
       vars, storeVars, requestVars
  <2>2. QED
    BY <2>1, FileStep, RaceStep
<1>3. TypeOK /\ RaceInv => IndexMatchesRow
  BY DEF TypeOK, RaceInv, IndexMatchesRow, Whole
<1>4. QED
  BY <1>1, <1>2, <1>3, TypeCorrect, PTL DEF Spec
=============================================================================
