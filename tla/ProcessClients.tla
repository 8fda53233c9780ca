---------------------------- MODULE ProcessClients ----------------------------
(***************************************************************************)
(* The clients of one process to the stores: a worker opens them for each  *)
(* job, in that job's event loop, and closes them after it; the web        *)
(* process opens them when it starts and closes them when it ends.  An     *)
(* opening or a closing may fail, and those that were to follow are then   *)
(* not done.                                                               *)
(***************************************************************************)
EXTENDS Naturals, Sequences, SequencesExt

CONSTANTS
  MaxJobs       \* bound: jobs that a worker takes

VARIABLES
  open,         \* stores whose client is assigned
  unchecked,    \* open ones whose first request failed
  foreign,      \* open ones of the event loop of an earlier job
  job,          \* what the process does
  faults,       \* an opening or a closing has failed
  jobs          \* jobs so far

processVars == <<open, unchecked, foreign, job, faults, jobs>>

WorkerJobs == {"cluster", "reflect", "consolidate", "extract", "parse", "scheduled"}

\* What a job opens first of all, and in the end the order in which it closes.
Opens(kind) ==
  CASE kind = "web" -> <<"redis", "postgres", "cos", "elasticsearch", "neo4j">>
    [] kind \in {"cluster", "reflect", "extract"} -> <<"postgres", "neo4j">>
    [] kind = "parse" -> <<"postgres", "cos", "elasticsearch">>
    [] kind = "scheduled" -> <<"postgres">>
    [] kind = "consolidate" -> << >>

\* Mutant of ClosesAfterExtraction: the engine is closed with Redis only.
MutClosesAfterExtraction(redisReady) ==
  IF redisReady THEN <<"redis", "neo4j", "postgres">> ELSE <<"neo4j">>

ClosesAfterExtraction(redisReady) ==
  IF redisReady THEN <<"redis", "neo4j", "postgres">> ELSE <<"neo4j", "postgres">>

ClosingOrder(kind, redisReady) ==
  CASE kind = "extract" -> ClosesAfterExtraction(redisReady)
    [] kind = "parse" -> <<"elasticsearch", "postgres", "cos">>
    [] kind \in {"cluster", "reflect"} -> Reverse(Opens(kind))
    [] OTHER -> Opens(kind)

Unoccupied == [kind |-> "none", at |-> "idle", todo |-> << >>, whole |-> TRUE]

ProcessInit ==
  /\ open = {} /\ unchecked = {} /\ foreign = {}
  /\ job = Unoccupied
  /\ faults = FALSE
  /\ jobs = 0

-----------------------------------------------------------------------------
(* The clients.                                                            *)

\* A client that is there is taken for connected.  A new one that a request checks
\* is assigned before that, and stays when the request fails.
Initialises(s, checks, ok) ==
  IF s \in open THEN ok /\ UNCHANGED <<open, unchecked>>
  ELSE /\ open' = IF checks \/ ok THEN open \cup {s} ELSE open
       /\ unchecked' = IF checks /\ ~ok THEN unchecked \cup {s} ELSE unchecked

RedisInit(s, ok) == s = "redis" /\ Initialises(s, TRUE, ok)
PostgresInit(s, ok) == s = "postgres" /\ Initialises(s, TRUE, ok)
Neo4jInit(s, ok) == s = "neo4j" /\ Initialises(s, TRUE, ok)
CosInit(s, ok) == s = "cos" /\ Initialises(s, FALSE, ok)
ElasticsearchInit(s, ok) == s = "elasticsearch" /\ Initialises(s, FALSE, ok)

InitialisesStore(s, ok) ==
  \/ RedisInit(s, ok) \/ PostgresInit(s, ok) \/ Neo4jInit(s, ok)
  \/ CosInit(s, ok) \/ ElasticsearchInit(s, ok)

\* One whose closing fails stays assigned.
ShutsDown(s, ok) ==
  /\ open' = IF ok THEN open \ {s} ELSE open
  /\ unchecked' = unchecked \cap open'

RedisShutdown(s, ok) == s = "redis" /\ ShutsDown(s, ok)
PostgresShutdown(s, ok) == s = "postgres" /\ ShutsDown(s, ok)
Neo4jShutdown(s, ok) == s = "neo4j" /\ ShutsDown(s, ok)
CosShutdown(s, ok) == s = "cos" /\ ok /\ ShutsDown(s, ok)
ElasticsearchShutdown(s, ok) == s = "elasticsearch" /\ ShutsDown(s, ok)

ShutsDownStore(s, ok) ==
  \/ RedisShutdown(s, ok) \/ PostgresShutdown(s, ok) \/ Neo4jShutdown(s, ok)
  \/ CosShutdown(s, ok) \/ ElasticsearchShutdown(s, ok)

-----------------------------------------------------------------------------
(* Jobs.                                                                   *)

\* The next phase once everything is open.
AfterOpening(kind) ==
  CASE kind = "extract" -> "redis"
    [] kind \in {"parse", "web"} -> "preparing"
    [] OTHER -> "working"
Works(j) == [j EXCEPT !.at = "working", !.todo = ClosingOrder(j.kind, FALSE)]

\* A worker process, or a web process that has yet to start.
TakesJob(kind) ==
  /\ job.at = "idle" /\ jobs < MaxJobs
  /\ kind = "web" => jobs = 0
  /\ jobs' = jobs + 1
  /\ job' = IF kind = "consolidate" THEN Works([Unoccupied EXCEPT !.kind = kind])
            ELSE [Unoccupied EXCEPT !.kind = kind, !.at = "opening", !.todo = Opens(kind)]
  /\ UNCHANGED <<open, unchecked, foreign, faults>>

\* The loop is over: what is still open belongs to no loop that runs.
LoopEnds(whole) ==
  /\ job' = [job EXCEPT !.at = IF job.kind = "web" THEN "gone" ELSE "idle",
                        !.todo = << >>, !.whole = whole]
  /\ foreign' = open'

OpensNext(ok) ==
  /\ job.at = "opening"
  /\ InitialisesStore(Head(job.todo), ok)
  /\ faults' = (faults \/ ~ok)
  /\ IF ~ok THEN LoopEnds(FALSE)
     ELSE LET left == Tail(job.todo)  next == AfterOpening(job.kind)
          IN /\ job' = IF left # << >> THEN [job EXCEPT !.todo = left]
                       ELSE IF next = "working" THEN Works(job)
                       ELSE [job EXCEPT !.at = next, !.todo = left]
             /\ UNCHANGED foreign
  /\ UNCHANGED jobs

\* Without Redis the extraction only starts no reflection.
OpensRedisToo(ok) ==
  /\ job.at = "redis"
  /\ InitialisesStore("redis", ok)
  /\ faults' = (faults \/ ~ok)
  /\ job' = [job EXCEPT !.at = "working", !.todo = ClosingOrder(job.kind, ok)]
  /\ UNCHANGED <<foreign, jobs>>

\* Indexes, the graph's schema, the administrator: a failure closes nothing.
Prepares(ok) ==
  /\ job.at = "preparing"
  /\ IF ok THEN job' = Works(job) /\ UNCHANGED <<open, foreign>>
     ELSE UNCHANGED open /\ LoopEnds(FALSE)
  /\ faults' = (faults \/ ~ok)
  /\ UNCHANGED <<unchecked, jobs>>

\* Done, failed, or the web process is told to stop and its agents have stopped.
LeavesWork ==
  /\ job.at = "working"
  /\ IF job.todo # << >> THEN job' = [job EXCEPT !.at = "closing"] /\ UNCHANGED <<open, foreign>>
     ELSE UNCHANGED open /\ LoopEnds(TRUE)
  /\ UNCHANGED <<unchecked, faults, jobs>>

ClosesNext(ok) ==
  /\ job.at = "closing"
  /\ ShutsDownStore(Head(job.todo), ok)
  /\ IF ok /\ Len(job.todo) > 1
     THEN job' = [job EXCEPT !.todo = Tail(@)] /\ foreign' = foreign \cap open'
     ELSE LoopEnds(ok)
  /\ faults' = (faults \/ ~ok)
  /\ UNCHANGED jobs

\* The process is killed, and another takes its place.
ReplacesProcess ==
  /\ jobs > 0
  /\ open' = {} /\ unchecked' = {} /\ foreign' = {}
  /\ job' = Unoccupied
  /\ faults' = FALSE
  /\ UNCHANGED jobs

ProcessNext ==
  \/ \E kind \in WorkerJobs \cup {"web"} : TakesJob(kind)
  \/ \E ok \in BOOLEAN : OpensNext(ok) \/ OpensRedisToo(ok) \/ Prepares(ok) \/ ClosesNext(ok)
  \/ LeavesWork \/ ReplacesProcess

ProcessSpec == ProcessInit /\ [][ProcessNext]_processVars

-----------------------------------------------------------------------------
(* Properties.                                                             *)

\* Until an opening or a closing fails, a job works with just the clients that it
\* opened in its own loop, connected, and none outlives a job.  Whatever failed
\* before, a job that gets to its work and closes to the end leaves open none of
\* the clients that it opened, those of an earlier loop included.
JobsCloseWhatTheyOpen ==
  /\ ~faults /\ job.at = "working" =>
       /\ open \ {"redis"} = ToSet(Opens(job.kind)) \ {"redis"}
       /\ foreign = {} /\ unchecked = {}
  /\ ~faults /\ job.at \in {"idle", "gone"} => open = {}
  /\ job.at \in {"idle", "gone"} /\ job.whole /\ job.kind # "none" =>
       open \cap ToSet(Opens(job.kind)) = {}
=============================================================================
