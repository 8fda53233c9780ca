# Boxify Agent in TLA+

TLA+ models of the backend of Boxify Agent (`src/app`, a FastAPI application
with Celery workers), the TLC configurations that check them on small instances
and TLAPS proofs about them. Every definition is translated from the code; the
field `map` of `PROJECT.json` names the lines each one stands for.

## 1. The system

| component | code | state | operations | works with |
|---|---|---|---|---|
| agent task lifecycle | `application/services/agent_service.py`, `domain/agent_task_runner.py`, `infrastructure/external/task/redis_stream_task.py` | session row (`status`, `task_id`), the class-level task registry, one asyncio execution and two Redis streams per task | chat, stop, shutdown, invoke, cancel, destroy | flow, message queue, sessions |
| message queue | `infrastructure/external/message_queue/redis_stream_message_queue.py` | a Redis stream, a lock key that expires | put, get, pop | called by the task lifecycle |
| planner and ReAct flow | `domain/services/flows/planner_react.py`, `domain/services/agents/*` | status of the flow, plan, current step, memory of each agent | create and update the plan, execute a step, summarise, wait for the user, roll back | LLM, tools, session row |
| MCP and A2A tools | `domain/services/tools/mcp.py`, `a2a.py` | clients, cached tools, `_initialized` | initialise, list, invoke, clean up | task runner |
| sessions and projects | `application/services/session_service.py`, `infrastructure/repositories/db_session_repository.py`, `db_session_project_repository.py` | rows with events, files, memories | whole-row save, field updates, deletion | all of the above |
| sandbox and files | `infrastructure/sandbox/docker_sandbox.py`, `domain/agent_task_runner.py`, file storage | one container per session, objects and rows of files | create, find again, destroy; copy into and out of it | task runner, sessions |
| notebook documents | `application/services/document_service.py`, `tasks/notebook/document_parse.py` | object storage, row, Elasticsearch chunks, Celery messages | upload, import, retry, delete, parse | Celery, three stores |
| long-term memory jobs | `application/services/memory_service.py`, `domain/services/memory/manager.py`, `tasks/memory/*`, the task dispatcher | memory rows, Neo4j graph, a counter in Redis | create, extract, cluster, reflect, consolidate, scheduled jobs | Celery, graph repository |
| memory graph algorithms | `domain/services/memory/*` | none | label propagation, merging of communities, deduplication, recall | graph repository |
| memory graph repository | `infrastructure/repositories/neo4j_memory_graph_repository.py` | the graph of each user | save, merge, promote, assign, prune, delete; the queries of the pages and of recall | jobs, pages, agents |
| accounts and OAuth | `application/services/auth_service.py`, `oauth.py` | users, refresh tokens, login states | bootstrap, register, log in, refresh, revoke | Redis, PostgreSQL |
| application configuration | `application/services/app_config_service.py` | one row per user, secrets sealed | read, change a part, save the whole | everything that builds clients |
| clients of the stores | `infrastructure/storage/*`, `tasks/*`, `main.py` | one client per store and process | open, check, close, per job or per process | every job |
| adapters and interface | LLM client, browser, search, routes, schemas | none of their own | I/O | |

How they interact. A chat request reads the session row, creates a task or finds
it in the registry, puts its message in the task's input stream, invokes the task
and then blocks on the output stream until a final event. The task's execution
pops messages, drives the flow for each of them and drops the flow's generator
wherever it yielded when a new message arrives. The flow drives two agents, which
keep their memories in the session row. Stop and shutdown requests cancel
executions by way of the registry. The notebook and the long-term memory are fed
by requests and carried out by Celery jobs that share rows and stores with them,
and no lock.

What is hard. Requests of one session interleave at every `await`; rows are read
in one transaction and written in another, often whole; an execution can end in
five ways, each with handlers that await; locks expire under their holders;
messages of a broker are acknowledged before they are carried out; the server
can crash between any two commands; the search index lags behind what was
written. The list `hazards` of `PROJECT.json` has every such place with its line
and the properties that watch it.

What makes each component correct:

* task lifecycle: a message of the user reaches exactly one execution of its own
  session; a task that can be found is not finished; readers and executions end;
  stops and shutdowns leave nothing behind;
* message queue: first in first out, nothing is lost without a failure, a lock
  left behind does not block the stream for good;
* flow: the LLM never sees a tool call without an answer, a reply answers the
  question that was asked and the step goes on that asked it, a step that
  the stored plan shows as finished is not started again, every invocation ends;
* documents: row, file and index agree, no document is parsed for ever;
* memory jobs: a completed row has its trace in the graph, reflections are earned
  and what is long-term stays so;
* memory graph: merging duplicates loses nothing, insights count their sources,
  an entity is in one community, the parts of a page fit one another;
* sessions and configuration: updates of different columns or parts do not undo
  each other, and a secret comes back as it was typed;
* tools: clients are released once per execution and never used after;
* sandbox and files: what the session lists can be downloaded and is current, and
  no container is forgotten;
* accounts: whoever logs in gets the account of his own identity;
* clients of the stores: a job works with what it opened and closes it.

## 2. Modules

| module | models | instance | runs |
|---|---|---|---|
| `AgentTask` | the task lifecycle, with the row as far as it steers it | `MCAgentTask` | `agent_messages`, `agent_stop`, `agent_live`, `agent_one_live_task`, `agent_stranded`, `agent_destroy` |
| `RedisStream` | `put()` and `pop()` command by command | `MCRedisStream` | `redis_stream` |
| `MessageQueue` | the abstract queue that `RedisStream` implements | | (`redis_stream`) |
| `PlannerFlow` | the flow, its agents and what the row keeps of them | `MCPlannerFlow` | `planner_flow`, `planner_roll_back` |
| `DocumentPipeline` | one document over its stores, requests and jobs | `MCDocumentPipeline` | `document_pipeline`, `document_idempotent` |
| `MemoryGraph` | the graph of one user: every writing method of the repository as an operator | | (used by the next three) |
| `MemoryJobs` | rows, extraction and its workers, counter, reflection, the user's operations on the graph | `MCServices` | `services` |
| `MemoryClustering` | full and incremental clustering, write by write, overlapping | `MCServices` | `services` |
| `MemoryViews` | pages and recall, query by query | `MCServices` | `services` |
| `AppConfig` | the row of the configuration | `MCServices` | `services` |
| `SessionStore` | the rows of sessions and projects | `MCServices` | `services` |
| `ToolClients` | MCP and A2A clients over the runs of one runner | `MCServices` | `services` |
| `Accounts` | bootstrap, first and later logins | `MCServices` | `services` |
| `ProcessClients` | the clients of one process to its stores | `MCServices` | `services` |
| `SandboxFiles` | the container and the files of one session | `MCServices` | `services` |
| `AgentTaskProofs`, `RedisStreamProofs`, `PlannerFlowProofs`, `DocumentPipelineProofs`, `MemoryProofs`, `ViewsProofs`, `RunnerProofs`, `RowsProofs` | theorems | | |

The modules meet at these seams. `AgentTask` uses the stream as `RedisStream`
shows it to be: a pop that removes the first message, or returns nothing when
the lock cannot be had. It uses the flow as a source of events that ends with one
of three kinds; `PlannerFlow` shows that it ends, and takes from `AgentTask` that
it can be dropped at any `yield`, stopped anywhere, and started again by the same
task or a new one.

### AgentTask

An action is the code between two awaits; any coroutine may run between two
actions. `status` and `taskId` are the columns of the row, `registry` is
`_task_registry`, `exec` says where the execution of a task stands (the names in
`Body`, `ErrorHandler` and `CancelHandler` follow the `try` of
`AgentTaskRunner.invoke`), `cancelled` are the executions whose `CancelledError`
is pending. A chat request goes through `lookup`, `create`, `save`, `put`,
`invoke`, `read`, `deliver`. Events are known by their kind, as the reader and
the runner look at nothing else. `Restart` is a crash or the end of the process:
the rows and streams stay.

### RedisStream and MessageQueue

An action is one Redis command: `SET NX EX` of the lock, `XRANGE`, `XDEL`, the
script that releases it. The lock may expire under its holder (`late`). Entries are their ids. `MessageQueue` is
what the protocol class promises of a queue, with two honest additions: a late
pop may repeat what another returned, and a failure after `XDEL` loses an entry.
`RedisStream` refines it with a mapping that counts a message as taken when it
is deleted.

In the program every stream has one popper at a time; two poppers stand for that one
and for one that was cancelled or died and left its lock.

### PlannerFlow

`pc` is the point `invoke()` reached; every `yield` is one of `Yielded`. The row
(`row`, `rowPlan`, `rowMem`) is what transactions wrote, `mem` and `plan` are the
objects. A message in the memory is its kind, so that order and pairing of calls
and answers are modelled and texts are not; what lies before the last query is one
element, which says whether all its calls are answered, as nothing looks at it or
removes it again. The planner answers with any number
of steps; the LLM with text, a call, a call that names no function, a question, nothing,
or an error.

### DocumentPipeline

An action is one command to one store; a transaction that reads and then saves
is two. `raced` records that two actors worked on the document between each
other's commands, so that a property can say what holds without a race.
Failures of the parse itself (`JobErrs`) are unbounded; crashes are counted.

### MemoryGraph and MemoryJobs

A graph is a record of sets; a method of the repository that writes is an operator
from the graph to the graph that its one transaction leaves (`SaveGraph`,
`MergeDuplicateEntities`, `PromoteShortToLong`, ...). A memory has one dialogue, at
most one statement and at most one event, so these are named by the memory.

`MemoryJobs` decides when they are called. A worker goes through `marking`,
`extracting` (when it reads the entities of the graph, those of each type at a moment
of its own: `ReadsType`, then `MergesWithGraph`), `saving`, `latest`, `completing`,
`counting`, `dispatching`, and to
`failed` or nowhere (it dies) from any of them: each is a transaction, a write to the
graph, or a dispatch of `run_extract_memory`. What the language model makes of a text
is a choice from `Extractions`; what the deduplicator takes for one is a choice within
`Similar`. Two workers may have the same memory, and the user may delete it, or edit
the graph, between any two of their steps. `counter` is the key in Redis, `total` and
`reflected` are history.

### MemoryClustering

A job reads labels and neighbours once (`target`), then writes one entity or
community per step. The query that assigns an entity takes two: it matches the entity,
its community and the edges to delete before it locks anything (`Matches`), and writes
later (`AssignsMatched`); others may write in between, delete what it matched (then it
does nothing) or give the entity an edge that it does not delete (`late`, `doubled`).
In a full clustering a job then goes through the pairs of communities
with the members and averages it read before the first merge (`members`, `similar`,
`pairs`). `current` is the entity that is joining, or the pair that is being merged.
`Root` is what the loop of `root()` comes to: of the communities that every way from a
given one passes, the one that was not dissolved. How votes are weighed is left open: an entity may end with any label of
what it is connected to, and any two communities may be similar. `into` and
`disturbed` are history: where a dissolved community went, and which jobs were
written under.

### MemoryViews

A view is the list of queries of one page or recall (`view.todo`), each of which sees
the graph of one moment; the graph is written, entities are looked up and
relations expire between them (`view.fresh` tells). A recall runs its lanes in any
order against a timeout and each may fail; ranking is left out.

### AppConfig and SessionStore

Both model what `save()` does: it reads the row a second time and, on commit, writes
only the columns in which the object differs from that second reading. An update
between the two readings is undone, one after the second only in the columns that
are written. `contested` and `raced` record the parts and columns to which that
happened; the startup reads the row three times (`Bootstraps`, `BootstrapLooksAgain`,
`BootstrapSaves`), so that its old file may go over a row made meanwhile, and then
contests every part; `wanted` and `intended` are the rows as their updates meant them.
`AppConfig` adds the sealing of secrets under a key that a process may run without;
`SessionStore` the row locks of read-modify-write statements, single UPDATE
statements, deletion and rollback.

### ToolClients, SandboxFiles and ProcessClients

`ToolClients` follows one runner through its runs: initialisation of each server, in
any of which it may fail or be cancelled, cleanup in `finally`, and `destroy()` from
another asyncio task. `SandboxFiles` has the container of a session, which may end at
any time, and the copies between it and the object storage, in both directions, each
command a step.
`ProcessClients` is a worker that takes one job after the other, each with an event
loop of its own, or the web process; an opening assigns the client and then checks
it, as the code does, so a failed check leaves an assigned client (`unchecked`).

### Accounts

`users` is the table with its unique columns, a login is an overlapping transaction
that looked before it inserts and inserts under the next name when the name is taken.
Identities may share names with one another and with the administrator.

### MCServices

These nine parts share no state, so `MCServices` picks one of them at the start
(`part`) and moves only it: one run checks each of them by itself, and the reachable
states are the sum of theirs, not the product.

| run | bounds | what it shows |
|---|---|---|
| `agent_messages` | 2 sessions, 2 chats, 2 tasks, 1 event besides the final one | a message is in one place, and with a task of its session |
| `agent_stop` | 1 session, 2 chats, 1 task, 2 stops | found tasks are unfinished, the handler of a cancellation is never cancelled, an ended stream ends with a final event, if Redis did not break off its execution and no cancel came before it began |
| `agent_live` | 1 session, 2 chats, 1 task, shutdown, 1 restart | readers and executions end |
| `redis_stream` | 2 poppers, 3 messages, 2 tries, 2 expiries, 1 failure | order, loss, mutual exclusion, refinement of `MessageQueue`, every message is taken |
| `planner_flow` | 3 messages, 3 steps, 1 iteration, 2 tries, 1 mishap | pairing of calls and answers, replies and resumption after a wait, finished steps kept and not started again, termination |
| `document_pipeline` | 2 retries, 3 jobs, 1 crash, a lagging index | row and file, row and index, no document forgotten, every parse ends |
| `services` | per part: memory 1 memory, 3 entities of 2 names, 2 workers, 2 moves; clustering 2 jobs, 3 entities (2 when both jobs are under way); views 1 rewrite; configuration 2 requests, 3 edits; sessions 2 writers, 4 writes; tools 2 + 2 servers, 2 runs; accounts 2 logins at a time, 3 in all, 3 users; processes 3 jobs; files 2 containers, 2 files, 2 touches | the 16 properties below |
| `agent_one_live_task`, `agent_stranded`, `agent_destroy`, `planner_roll_back`, `document_idempotent` | the same kind of instance | each refutes what a comment or docstring says (section 6) |

The properties of `services`, each of one part:

| property | says |
|---|---|
| `CompletedIsTraced` | a completed row has its trace in the graph, another database |
| `LongTermIsKept` | no extraction that read an entity before its promotion, and no merge, demotes it |
| `InsightSourcesCounted` | an insight shows no more sources than it states, though it is rewritten and entities vanish |
| `MergeKeepsTraces` | merging leaves no duplicate and every trace as it was |
| `ReflectionsAreEarned` | no entity is counted towards two reflections, in whatever order workers count |
| `OneCommunityPerEntity` | overlapping jobs leave an entity in the community it names only, unless it took over a duplicate or two assignments of it overlapped inside the query, and was not assigned since |
| `UndisturbedClusteringSettles` | an undisturbed clustering leaves property, edge and counts in agreement |
| `UndisturbedViewsAgree` | the queries of a page fit one another if nothing was written between them |
| `UncontestedEditsStand` | a part that nobody else had open is read as it was written, with the secret that was typed |
| `UnracedColumnsStand` | a column holds what its updates meant, unless one fell between the readings of a save |
| `A2aClientOnlyInRun` | between runs no http client is open |
| `OfferedToolsAreConnected` | the model is offered only tools of servers this run is connected to |
| `OneAccountPerIdentity` | tokens are for the account of the identity that logged in |
| `JobsCloseWhatTheyOpen` | a job works with what it opened, and nothing outlives it, unless an opening or closing failed |
| `ListedFilesAreCurrent` | a listed file can be downloaded, and holds what the last completed copy saw |
| `RunningSandboxesAreKnown` | a running container is the session's or the runner's, or its creation was cut short |

The premises (`disturbed`, `view.fresh`, `contested`, `raced`, `faults`, `forgotten`,
`doubled`) are where the code does race; section 6 says what happens there. None of
them is so wide that it hides the code: for every property there is a plausible change of
the code that breaks it within its premise (`mutants` of `PROJECT.json`).

Why the bounds are enough for what they are used for. Two requests, tasks or
jobs are the least that can interleave, and the third job meets the index that
two others left; two sessions let a message go astray. Three messages interrupt
a flow everywhere and let a question be answered and the answer be interrupted;
three steps let a revised plan have a finished and an unfinished part. One iteration lets the limit be hit both by
text and by a call; one crash can fall between any two steps, and what follows
runs on whatever it left. Two expiries give two late pops at once. All safety
properties and action properties of these runs that hold are proved for all bounds as
well (section 4).

In `services`, three entities of two names give a pair of duplicates and another they
are related to; one memory extracted twice overlaps with itself; three communities of
one entity each are the least in which a merge meets one that was dissolved before
(`ClusteringsFit` keeps that size for one job at a time, and lets two overlap on
smaller graphs). Three edits are one made between the two readings of another, and
one after both; four writes do the same with a deletion or a rollback. Two runs
show what the first leaves to the second, three jobs what an earlier one
leaves to one that fails. `SYMMETRY` permutes the actors, and the contents of
files, which no definition tells apart; the run has no liveness property.

Deadlock is not checked: an idle server, or one whose bounded requests are all
answered, may stop, and so do the nine parts of `services` when their bounds are used up.

Fairness. The parts of `services` have none: their jobs may die at any step, and
nothing delivers them again. `AgentTask`: weak fairness of every coroutine's next step, as the event
loop resumes what can be resumed, and strong fairness of a pop that misses the
lock, as locks expire; requests, failures, lost connections and crashes are
never owed. `RedisStream`: weak fairness of a pop's commands and of the expiry of
an abandoned lock, strong fairness of the acquisition. `PlannerFlow`: weak
fairness of the invocation as a whole: the LLM, the tools and the database answer
or fail. `DocumentPipeline`: weak fairness of a request that was begun and of
each job; nothing for `Refresh`, on which no liveness property depends, nor for crashes.

Premises of the liveness properties. `FollowerEnds` assumes no
`latest_event_id`, no stop and no outage: with any of these a reader can block for ever, by
design of the `BLOCK 0` (see the hazards). `InvocationEnds` assumes that the
planner stops inventing steps. `EveryParseEnds` assumes no crash: a job lost
with its worker is never delivered again.

## 4. Proofs

All proofs assume only the `ASSUME`s of the modules: sentinels differ from
values, bounds are natural numbers, switches are Boolean.

`AgentTaskProofs`. The inductive invariant `IInv` joins the type invariant, with
a finite registry and `Seq`-typed streams, to four parts: `OwnersInv` (the task of
a request or of a popped message has an owner, which never changes),
`RegistryInv` (who is registered, and which executions may have a cancellation
pending), `StreamInv` (what the output stream ends with at each point of the
execution) and `MessageInOnePlace`. None of the properties is inductive alone:
that a cancellation handler is not cancelled needs that `cancel()` took the task
off the registry, and that an ended stream is closed needs the point of the
handler that puts its last event. `aborted` has the two exceptions, which the code
really makes: Redis breaks off a pop or a handler, and a cancel comes before the
execution has begun, so that no handler runs and the stream stays empty.

`RedisStreamProofs`. `Inv` is `TypeOK`, `LockGuards`, `InOrder` and `StreamInv`,
which says that an entry found by a pop in time is the first of the stream
(`FoundInv`), that `late` and the lock agree (`StallInv`) and that ids are given
in order (`NextInv`). The theorem `ImplementsMessageQueue` maps every command to
a step of `MessageQueue` or a stutter.

`PlannerFlowProofs`. The type invariant is proved in two parts, `Data` (values) and
`Place` (where the flow can stand). `CallsAreAnswered` speaks of the moment the LLM
is asked; what makes it true is what the memory looks like wherever the flow can be
dropped. `MemInv` says so: a memory that was not spoilt has all calls answered, or
all but its last message (`Pending`), and only between a call and its answer is it
the latter. It holds for the saved memory too, which is what a new task
starts from, and `roll_back()` repairs exactly such memories (`RollBackAnswers`).
`WaitInv` adds that in a call the saved memory is the agent's, so that the question
is still the last message when a session is found waiting.

`FinishedStepsStay` and `ResumesWhereItAsked` follow from
`PlanInv`: identities of steps are given in order (`IdsInv`), finished steps come
first (`OrderInv`, without which `update_plan()` could cut a finished step off), the
stored plan and the flow's differ by the step in execution only (`CopyInv`), and the
stored plan of a waiting session has the step that asked as its next one
(`ResumeInv`). That a flow never starts a step which the stored plan shows as completed
needs, besides, that identities occur once (`OneEach`): the step it starts is unfinished
in its own plan, which differs from the stored one by no other step (`StartsUnfinished`).

`DocumentPipelineProofs`. `RowHasFile` needs that everybody who is going to write
the row has the file behind it (`FileInv`) and that nobody can begin before the
upload wrote the row (`UploadInv`). `NoForgottenDocument` is inductive with the
types. `IndexMatchesRow` needs `RaceInv`: while nobody raced, nobody is between
another's steps (`Apart`), a job about to write finds the index empty and one that
finishes finds its own chunks and all of them (`JobInv`).

`MemoryProofs`. `TraceInv`: a worker that is about to complete its row has left the
dialogue of the memory in the graph, and no operation of the repository takes a dialogue
away again. `CountInv` counts the workers that have dropped a full count and not yet
dispatched: each of them stands for a threshold of entities. `SourceInv` adds to
`InsightSourcesCounted` that what a reflection in progress read are entities, so that
its edges are finitely many. The two action properties need `WholeInv`: layers and edges
are at existing nodes only, and a draft that is about to be saved brings every entity it
speaks of. Without it, moving a duplicate's edges to its keeper would not show that a
trace names the same entities. `OneCommunityPerEntity` needs to know what an assignment
under way has matched (`Matched`): all edges of its entity, unless another edge was
added since, and then its job is `late`. The proof goes through every writer of the
graph, and shows that only the entities of late assignments and keepers of merges are
excepted.

`SettleInv` says what a clustering that nobody disturbed relies on at each of its steps
(`Agrees`): which of its entities are in the community it decided on, by property and by
edge (`Settled`), and which communities are counted right. While it merges, an entity is
where its own community went in *one* step, `into[target[e]]`, not at the end of that
way, as members are those of before the merges; this is why the property excepts
dissolved communities that had kept others' members. The counts are right except for
the two communities of the pair in hand, so that what is pruned is empty indeed. That
`root()` ends is part of the invariant (`EndsSomewhere`): each set of communities that
is closed under `into` has one that went nowhere, which needs no induction. A write by
anybody else either leaves the graph as it was or makes the job a disturbed one
(`Leaves`), so the invariant of a job is proved for its own steps only.

`ViewsProofs`. `ViewInv`: the queries a view still has to ask are what is left of its
lanes (`IsView`), a query that counts is answered or ahead, and what it is put together
from was answered before it (`InTurn`); as long as nothing was written, each answer is
what the graph would answer now, or one of the answers it may give (`AnswersStand`). That separate answers fit one another is then a fact about one
graph: the lemmas say it for each page, and those on counts of duplicates and types
count a finite set by the classes of a partition (`DuplicatesCounted`, `TypesCounted`).

`RunnerProofs`. `A2aInv` says that a run which has yet to open its own client finds none
open, `McpInv` that the tools of a manager are those of its clients and that a run past
its initialisation has a manager. `BoxInv` ties the runner's container to the session's
for every stage after its creation. `ProcessInv` says, for every point of a job, what is
open if nothing failed and what is closed whatever did, by what is left of the list
(`job.todo`) that is being opened or closed. `FilesInv` follows a copy from stage to
stage (`CopyStands`): the old copy it has found is the one that is listed, once it has
removed that one none is, and once it has stored the new one that file holds its data and
has no entry yet. Listed files are stored, and what was copied last is listed under its
path and no other (`ListStands`). The list is a set of entries, each with the touch after
which it was added (`ListInOrder`): the code asks it only for the first entry of a path
or of an id.

`RowsProofs`. `AccountsInv`: what a login has found out stands until it ends
(`Stands`), no two logins insert under one id (`Own`), rows differ in name and identity,
and every token is for a row that has its identity. `SessionInv`: every column of a row
is what the committed updates meant or is among the raced (`RowStands`), and for each
writer, after its first reading the object agrees with the stored row, and after its
second with that reading, in every column that it has not set and nobody raced for
(`WriterStands`). The proof corrected the history: a `save()` whose row was
deleted after its second reading inserts *every* column, so each column counts as raced
then. `ConfigInv` is the same for parts of the configuration, where a part reads as meant
when the texts of its secrets agree, however often they are sealed (`Alike`); what a
request holds agrees with the row in all parts it does not edit, unless contested
(`RequestStands`).

Assumptions of these four: sentinels differ from values and ids from one another;
entities, workers and the graphs that views find are finite; the language model names nothing for a text
that states nothing and relates only what it names (`ExtractionAssumption`, and the drafts
in `ClusteringAssumption`, as `fact_extractor.extract_triplets` and the graph extractor
drop the rest); the graphs that jobs and views find have edges between their nodes only,
and each relation is from a statement (`KnownAssumption`, `WorldsAssumption`), as every
write of the repository leaves them; the first clustering finds every entity in one
community at most; a configuration file from before the row is a whole configuration
(`ConfigAssumption`); `pending` is one of the statuses (`SessionAssumption`) and the path
of uploads one of the paths (`SandboxAssumption`).

So every safety property of the passing runs is a theorem. Only model-checked are the
liveness properties, as fairness and `ENABLED` are out of the prover's reach.

## 5. Not modelled

Contents of messages, prompts and the compaction of memories; the memory of the
planner, which calls no tools; the planner's choice of words; the parsers, splitters
and embeddings; the hybrid search and the ranking of recall; how votes and
similarities are computed from vectors, so that no promise is checked about *which*
community or entity is chosen; the sharing of the vector indexes by all users; the
calls of single tools, and how their prefixed names are told apart; a sandbox at a
fixed address; the state and code exchange of OAuth and the expiry of tokens, which
are cryptography and external services; health checks, tags and single queries without
a protocol. The LLM client, browser, search, routes, schemas and
migrations are I/O or declarations without state of their own. The parts of `MCServices`
are composed only where they share state in the code and a property depends on it:
`MemoryGraph` under three of them; the rest meet through values that the models choose
freely. `PROJECT.json` lists all components with the reason.

## 6. Where code and text disagree

* `agent_one_live_task`: two chat requests can start two tasks for one session,
  although the row is read to prevent it.
* `agent_stranded`: a message can stay in the input stream of a task that is done.
* `agent_destroy`: `destroy()` fails after the first of several tasks.
* `planner_roll_back`: an answer that could not be saved leaves a call without an
  answer in the memory, and `roll_back()` does not look that far.
* `document_idempotent`: two parses of one document leave its chunks twice.

Further disagreements and losses met while modelling; the models contain them, as
transitions that the properties except, and no run is spent on refuting them.

Memory. `stable_memory_graph_id` returns a bare uuid, so the test for the prefix
`community-` never succeeds and every full clustering renames every community, although
`community_clusterer.py:257-258` says that existing ones are kept. Incremental clustering
does not refresh the count of the community an entity left, merging and deleting
refresh none, and a merge after a merge leaves the members taken over in a community
that is dissolved (`community_clusterer.py:170`). Pruning by stored counts can remove a
community that another job has just made. Two assignments of one entity that overlap
inside the query leave it with two edges, as each deletes only what it matched
(`neo4j_memory_graph_repository.py:838-843`). Merging duplicates gives the keeper several
communities; while an extraction runs, the merged node comes back. A
re-extraction counts mentions again. Deleting a memory removes its row only, and a
`save()` that read the row before brings it back. A dispatch that fails leaves the row
pending, which the default re-extraction does not pick up. The counter is reset before
the reflection is dispatched, so a crash between them loses it.

Processes. `consolidate._run` (`consolidate.py:21-23`) opens no client, so its jobs fail
in a fresh worker. The clients of Redis, PostgreSQL and Neo4j are assigned before they
are checked, so the initialisation after a failed one takes them for connected;
initialisations outside `try` leave clients to the next job, whose event loop is
another. A failed startup of the web process closes nothing.

Files. `remove_file` comes before the upload, so a failure between them takes the file
off the session. Attachments of one name overwrite each other in the sandbox and are
listed as two files of one path. A container whose address cannot be read, or whose
creating request is cut, is forgotten until it ends by itself; when Docker does not
answer, a running sandbox is replaced.

Agent. A cancel that comes before the execution has begun runs no handler, so the output
stream stays empty and a reader that is blocked on it stays so (`agent_service.py:299`). A
tool call that names no function is passed over and never answered (`base.py:264-265`). A
step that finished is executed again when its revised plan was not stored yet.

Configuration and sessions. The startup looks twice for a row, but `save()` reads a third
time and writes the old file over one that it finds (`app_config_bootstrap_service.py:51-54`).
Without the key, a sealed environment fails validation and
every operation on the configuration with it. Whole-object saves undo what was
written between their readings, and insert a deleted session or project again.

Tools. `MCPClientManager._initialized` is never set (`mcp.py:58-73`), so its cleanup
closes nothing. `A2ATool._initialized` stays set after cleanup, so a second run has
neither cards nor client. The path of the card is misspelt (`a2a.py:86`). The comment at
`mcp.py:77` says that disabled servers are filtered elsewhere; nothing does.

Accounts. Two processes that start at once both see an empty table; the unique name
decides. If somebody signs in through OAuth before the first startup completes, no
administrator is ever made.

## 7. Plan

In this order; all of it is done, with what was changed on the way.

1. `AgentTask`, with proofs of its safety properties.
2. `RedisStream` and `MessageQueue`, with the refinement proved.
3. `PlannerFlow`, with proofs of its safety properties.
4. `DocumentPipeline`, with proofs of its safety properties.
5. `MemoryGraph`, the repository, as operators, before its users; `MemoryJobs` with
   the counter's conservation and the traces proved.
6. `MemoryClustering`, with the votes as choices instead of label propagation as a
   function: the properties do not depend on the weights, and choices cover them all.
   The stale pairs of `_merge_communities` turned out to leave members behind, as
   section 6 says; the property excepts just that case.
7. `MemoryViews`, `AppConfig`, `SessionStore`, `ToolClients`, `Accounts`,
   `ProcessClients`, `SandboxFiles`, with proofs for clients, containers and accounts,
   and then for sessions, the configuration, files, views and clusterings. For these,
   `SandboxFiles` keeps its list as a set of entries, `MemoryClustering` its pairs as a
   set with positions and `Root` without recursion, and `SessionStore` counts the columns
   of a row inserted again as raced.

What would come next: an abstract life of a memory row that `MemoryJobs` implements; the
protocol of a task together with its files and clients.
