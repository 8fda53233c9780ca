-------------------------- MODULE DocumentPipeline --------------------------
(***************************************************************************)
(* A document of the notebook, from its upload to its deletion: the        *)
(* requests of DocumentService, the Celery jobs that parse it, and the     *)
(* three stores they write one after the other: the object storage, the    *)
(* row in PostgreSQL and the chunks in Elasticsearch.                      *)
(*                                                                         *)
(* Documents share nothing, so one is enough.  Every step is one command   *)
(* to one store; a transaction that reads and then saves is two.           *)
(***************************************************************************)
EXTENDS Naturals, FiniteSets

CONSTANTS
  Retries,     \* requests to parse the document again
  MaxJobs,     \* bound: Celery messages, one for the upload and each retry
  Lag,         \* does Elasticsearch search an index that lags behind?
  MaxBreaks    \* bound: crashes and failures that end a request or a job

ASSUME LagAssumption == Lag \in BOOLEAN
ASSUME BoundsAssumption == {MaxJobs, MaxBreaks} \subseteq Nat

\* Jobs are numbered as they are dispatched.
Jobs == 1..MaxJobs

VARIABLES
  file,        \* is the file in the object storage: "none", "stored" or "deleted"
  row,         \* status in the row, "none" if there is no row
  index,       \* what jobs wrote to the index
  upload,      \* where the upload stands
  retry,       \* where the requests to parse again stand
  deletion,    \* where the request to delete stands
  job,         \* where the jobs stand
  raced,       \* history: two of them worked on the document at once
  breaks       \* failures so far

requestVars == <<upload, retry, deletion>>
storeVars   == <<file, row, index>>
vars == <<storeVars, requestVars, job, raced, breaks>>

\* What one job wrote: all its chunks or some, searchable yet or not.
Chunks == [job : Jobs, part : {"all", "some"}, seen : {"fresh", "visible"}]

Running == {"mark", "parse", "clear", "write", "check", "finish", "fail", "failsave"}

\* Those that are between two commands to the stores.
ActiveJobs == {j \in Jobs : job[j] \in Running}
ActiveRetries == {r \in Retries : retry[r] = "save"}
Deleting == deletion \in {"chunks", "file", "row"}

Overlap ==
  \/ Deleting /\ (ActiveJobs # {} \/ ActiveRetries # {})
  \/ \E j \in ActiveJobs : ActiveRetries # {} \/ ActiveJobs # {j}

-----------------------------------------------------------------------------

Init ==
  /\ file = "none" /\ row = "none" /\ index = {}
  /\ upload = "file"
  /\ retry = [r \in Retries |-> "idle"]
  /\ deletion = "idle"
  /\ job = [j \in Jobs |-> "none"]
  /\ raced = "no"
  /\ breaks = 0

\* dispatch_parse_document()
Dispatch ==
  \E j \in Jobs :
    /\ job[j] = "none" /\ \A i \in 1..(j - 1) : job[i] # "none"
    /\ job' = [job EXCEPT ![j] = "queued"]

Failure == breaks < MaxBreaks /\ breaks' = breaks + 1

\* delete_by_source() finds what it can search, and then refreshes the index.
Cleared == {[c EXCEPT !.seen = "visible"] : c \in {d \in index : d.seen = "fresh"}}

\* Every step looks whether two work on the document now.  A deletion of chunks
\* that misses those not yet searchable counts as a race, too.
Races == raced' = IF Overlap' THEN "yes" ELSE raced

Misses == \E c \in index : c.seen = "fresh"

ClearRaces == raced' = IF Misses \/ Overlap' THEN "yes" ELSE raced

-----------------------------------------------------------------------------
(* upload_document() and import_url().                                     *)

\* Mutant of StoresFile: the row is written first.
MutStoresFile ==
  /\ upload = "file"
  /\ row' = "pending"
  /\ upload' = "dispatch"
  /\ UNCHANGED <<file, index, retry, deletion, job, breaks>>
  /\ Races

StoresFile ==
  /\ upload = "file"
  /\ file' = "stored"
  /\ upload' = "row"
  /\ UNCHANGED <<row, index, retry, deletion, job, breaks>>
  /\ Races

SavesRow ==
  /\ upload = "row"
  /\ row' = "pending"
  /\ upload' = "dispatch"
  /\ UNCHANGED <<file, index, retry, deletion, job, breaks>>
  /\ Races

UploadDispatches ==
  /\ upload = "dispatch"
  /\ Dispatch
  /\ upload' = "over"
  /\ UNCHANGED <<storeVars, retry, deletion, breaks>>
  /\ Races

UploadBreaks ==
  /\ Failure
  /\ upload # "over"
  /\ upload' = "over"
  /\ UNCHANGED <<storeVars, retry, deletion, job>>
  /\ Races

-----------------------------------------------------------------------------
(* retry_document().                                                       *)

RetryReads(r) ==
  /\ retry[r] = "idle"
  /\ retry' = [retry EXCEPT ![r] = IF row = "none" THEN "over" ELSE "save"]
  /\ UNCHANGED <<storeVars, upload, deletion, job, breaks>>
  /\ Races

\* save() inserts the row if it is gone by now.
RetrySaves(r) ==
  /\ retry[r] = "save"
  /\ row' = "pending"
  /\ retry' = [retry EXCEPT ![r] = "dispatch"]
  /\ UNCHANGED <<file, index, upload, deletion, job, breaks>>
  /\ Races

RetryDispatches(r) ==
  /\ retry[r] = "dispatch"
  /\ Dispatch
  /\ retry' = [retry EXCEPT ![r] = "over"]
  /\ UNCHANGED <<storeVars, upload, deletion, breaks>>
  /\ Races

RetryBreaks(r) ==
  /\ Failure
  /\ retry[r] \in {"save", "dispatch"}
  /\ retry' = [retry EXCEPT ![r] = "over"]
  /\ UNCHANGED <<storeVars, upload, deletion, job>>
  /\ Races

-----------------------------------------------------------------------------
(* delete_document().                                                      *)

DeleteReads ==
  /\ deletion = "idle"
  /\ row # "none"
  /\ deletion' = "chunks"
  /\ UNCHANGED <<storeVars, upload, retry, job, breaks>>
  /\ Races

DeletesChunks ==
  /\ deletion = "chunks"
  /\ deletion' = "file"
  /\ index' = Cleared
  /\ UNCHANGED <<file, row, upload, retry, job, breaks>>
  /\ ClearRaces

\* A file that cannot be deleted stays; the rest goes on.
DeletesFile ==
  /\ deletion = "file"
  /\ file' \in {"deleted", file}
  /\ deletion' = "row"
  /\ UNCHANGED <<row, index, upload, retry, job, breaks>>
  /\ Races

\* Mutant of DeletesRow: the row is kept with a status of its own.
MutDeletesRow ==
  /\ deletion = "row"
  /\ row' = "deleted"
  /\ deletion' = "over"
  /\ UNCHANGED <<file, index, upload, retry, job, breaks>>
  /\ Races

DeletesRow ==
  /\ deletion = "row"
  /\ row' = "none"
  /\ deletion' = "over"
  /\ UNCHANGED <<file, index, upload, retry, job, breaks>>
  /\ Races

DeleteBreaks ==
  /\ Failure
  /\ Deleting
  /\ deletion' = "broken"
  /\ UNCHANGED <<storeVars, upload, retry, job>>
  /\ Races

-----------------------------------------------------------------------------
(* parse_document_task().                                                  *)

JobTo(j, there) == job' = [job EXCEPT ![j] = there]

JobReads(j) ==
  /\ job[j] = "queued"
  /\ JobTo(j, IF row = "none" THEN "over" ELSE "mark")
  /\ UNCHANGED <<storeVars, requestVars, breaks>>
  /\ Races

JobMarks(j) ==
  /\ job[j] = "mark"
  /\ row' = "parsing"
  /\ JobTo(j, "parse")
  /\ UNCHANGED <<file, index, requestVars, breaks>>
  /\ Races

\* The file is read, split and embedded.
JobParses(j) ==
  /\ job[j] = "parse"
  /\ file = "stored"
  /\ JobTo(j, "clear")
  /\ UNCHANGED <<storeVars, requestVars, breaks>>
  /\ Races

\* Mutant of JobClears: the chunks of an earlier parse stay.
MutJobClears(j) ==
  /\ job[j] = "clear"
  /\ JobTo(j, "write")
  /\ UNCHANGED <<storeVars, requestVars, breaks>>
  /\ Races

JobClears(j) ==
  /\ job[j] = "clear"
  /\ JobTo(j, "write")
  /\ index' = Cleared
  /\ UNCHANGED <<file, row, requestVars, breaks>>
  /\ ClearRaces

Fresh == IF Lag THEN "fresh" ELSE "visible"

JobWrites(j) ==
  /\ job[j] = "write"
  /\ \/ /\ index' = index \cup {[job |-> j, part |-> "all", seen |-> Fresh]}
        /\ JobTo(j, "check")
     \/ /\ index' = index \cup {[job |-> j, part |-> "some", seen |-> Fresh]}
        /\ JobTo(j, "fail")
  /\ UNCHANGED <<file, row, requestVars, breaks>>
  /\ Races

JobChecks(j) ==
  /\ job[j] = "check"
  /\ JobTo(j, IF row = "none" THEN "over" ELSE "finish")
  /\ UNCHANGED <<storeVars, requestVars, breaks>>
  /\ Races

JobFinishes(j) ==
  /\ job[j] = "finish"
  /\ row' = "done"
  /\ JobTo(j, "over")
  /\ UNCHANGED <<file, index, requestVars, breaks>>
  /\ Races

\* An exception: the file is missing, empty or of another size, a model or a
\* store does not answer.
JobErrs(j) ==
  /\ job[j] \in {"mark", "parse", "clear", "write", "check", "finish"}
  /\ JobTo(j, "fail")
  /\ UNCHANGED <<storeVars, requestVars, breaks>>
  /\ Races

\* Mutant of JobFails: the job is tried again at once.
MutJobFails(j) ==
  /\ job[j] = "fail"
  /\ JobTo(j, IF row = "none" THEN "over" ELSE "parse")
  /\ UNCHANGED <<storeVars, requestVars, breaks>>
  /\ Races

JobFails(j) ==
  /\ job[j] = "fail"
  /\ JobTo(j, IF row = "none" THEN "over" ELSE "failsave")
  /\ UNCHANGED <<storeVars, requestVars, breaks>>
  /\ Races

\* Mutant of JobRecordsFailure: the failure is only logged.
MutJobRecordsFailure(j) ==
  /\ job[j] = "failsave"
  /\ JobTo(j, "over")
  /\ UNCHANGED <<storeVars, requestVars, breaks>>
  /\ Races

JobRecordsFailure(j) ==
  /\ job[j] = "failsave"
  /\ row' = "failed"
  /\ JobTo(j, "over")
  /\ UNCHANGED <<file, index, requestVars, breaks>>
  /\ Races

\* The worker dies, or cannot even record the failure: the message was
\* acknowledged when it was delivered, and the job is lost.
JobDies(j) ==
  /\ Failure
  /\ job[j] \in Running \cup {"queued"}
  /\ JobTo(j, "over")
  /\ UNCHANGED <<storeVars, requestVars>>
  /\ Races

\* Elasticsearch makes what was written searchable, every second or so.
Refresh ==
  /\ \E c \in index : c.seen = "fresh"
  /\ index' = {[c EXCEPT !.seen = "visible"] : c \in index}
  /\ UNCHANGED <<file, row, requestVars, job, breaks>>
  /\ Races

-----------------------------------------------------------------------------

UploadNext == StoresFile \/ SavesRow \/ UploadDispatches

RetryNext(r) == RetrySaves(r) \/ RetryDispatches(r)

DeleteNext == DeletesChunks \/ DeletesFile \/ DeletesRow

JobNext(j) ==
  \/ JobReads(j) \/ JobMarks(j) \/ JobParses(j) \/ JobClears(j) \/ JobWrites(j)
  \/ JobChecks(j) \/ JobFinishes(j) \/ JobErrs(j) \/ JobFails(j) \/ JobRecordsFailure(j)

Breaks ==
  \/ UploadBreaks \/ DeleteBreaks
  \/ \E r \in Retries : RetryBreaks(r)
  \/ \E j \in Jobs : JobDies(j)

Next ==
  \/ UploadNext \/ DeleteReads \/ DeleteNext \/ Refresh \/ Breaks
  \/ \E r \in Retries : RetryReads(r) \/ RetryNext(r)
  \/ \E j \in Jobs : JobNext(j)

Spec == Init /\ [][Next]_vars

\* Requests and workers go on until they end; nobody has to send a request.
Fairness ==
  /\ WF_vars(UploadNext)
  /\ WF_vars(DeleteNext)
  /\ \A r \in Retries : WF_vars(RetryNext(r))
  /\ \A j \in Jobs : WF_vars(JobNext(j))

FairSpec == Spec /\ Fairness

-----------------------------------------------------------------------------
(* Properties.                                                             *)

\* Type invariant: the places requests, jobs and stores can be in.
TypeOK ==
  /\ file \in {"none", "stored", "deleted"}
  /\ row \in {"none", "pending", "parsing", "done", "failed"}
  /\ index \subseteq Chunks
  /\ upload \in {"file", "row", "dispatch", "over"}
  /\ retry \in [Retries -> {"idle", "save", "dispatch", "over"}]
  /\ deletion \in {"idle", "chunks", "file", "row", "over", "broken"}
  /\ job \in [Jobs -> Running \cup {"none", "queued", "over"}]
  /\ raced \in {"no", "yes"}
  /\ breaks \in Nat

\* Until somebody deletes it, a document with a row has a file: no crash of the
\* upload leaves a row whose file was never stored.
RowHasFile == row # "none" /\ deletion = "idle" => file = "stored"

\* Where requests and jobs did not overlap, the index says what the row says: a
\* parsed document has the chunks of one parse, all of them, and a deleted one
\* has neither row nor chunks.  Jobs that failed half way do not matter.
IndexMatchesRow ==
  raced = "no" =>
    /\ row = "done" /\ deletion = "idle" =>
         \E j \in Jobs : \A c \in Chunks : c \in index => c.job = j /\ c.part = "all"
    /\ row = "done" /\ deletion = "idle" => index # {}
    /\ deletion = "over" => row = "none" /\ index = {}

\* Without a crash, a document that waits or is said to be parsed is one that a
\* job or a request is going to work on, however jobs overlap.
Tended ==
  \/ upload = "dispatch"
  \/ \E r \in Retries : retry[r] = "dispatch"
  \/ \E j \in Jobs : job[j] \in Running \cup {"queued"}

NoForgottenDocument == breaks = 0 /\ row \in {"pending", "parsing"} => Tended

\* And it comes to an end: it is parsed, has failed or is deleted.
EveryParseEnds ==
  row \in {"pending", "parsing"} ~> row \in {"none", "done", "failed"} \/ breaks > 0

\* "重试解析时先清理旧 chunk，再批量写入新 chunk，保证索引幂等": whatever was retried,
\* the index holds the chunks of one parse.
IndexIsIdempotent == \A c, d \in index : c.job = d.job
=============================================================================
