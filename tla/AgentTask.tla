------------------------------ MODULE AgentTask ------------------------------
(***************************************************************************)
(* The life of an agent task: the chat requests that create and feed it,   *)
(* the asyncio execution that runs it, the stop requests that cancel it,   *)
(* and the shutdown of the server that destroys what is left.              *)
(*                                                                         *)
(* A step of the model is the code between two awaits: what the code does  *)
(* without awaiting is one action, and any other coroutine may run between *)
(* two actions.  The session row lives in the database and the two streams *)
(* of a task in Redis, so both survive a restart; the registry, the        *)
(* executions and the requests in flight live in the process and do not.   *)
(***************************************************************************)
EXTENDS Naturals, Sequences, FiniteSets

CONSTANTS
  Sessions,     \* rows of the table sessions
  Chats,        \* chat requests; a request's message is named after it
  Stops,        \* stop requests
  Tasks,        \* identities of RedisStreamTask objects
  NoTask,       \* "no task": a null task_id, a lookup that finds nothing
  NoSession,    \* the owner of a task that was not created yet
  MaxOutput,    \* bound: non-final events a flow puts in an output stream
  MaxRestarts,  \* bound: process crashes and restarts
  Resume,       \* whether clients may pass latest_event_id
  Outages,      \* whether Redis may fail under an exception handler
  Shutdowns     \* whether the server may be shut down

ASSUME NoTaskAssumption == NoTask \notin Tasks
ASSUME NoSessionAssumption == NoSession \notin Sessions
ASSUME BoundsAssumption == MaxOutput \in Nat /\ MaxRestarts \in Nat
ASSUME SwitchAssumption == {Resume, Outages, Shutdowns} \subseteq BOOLEAN

VARIABLES
  status,     \* [Sessions -> Status], the row's status column
  taskId,     \* [Sessions -> Tasks \cup {NoTask}], the row's task_id column
  registry,   \* the tasks in RedisStreamTask._task_registry
  owner,      \* the session a task's runner was built for
  exec,       \* where the execution of a task stands
  cancelled,  \* tasks whose execution was cancelled and has not seen it yet
  aborted,    \* history: executions broken off where no handler put a final
              \* event: by Redis while they popped a message or closed their
              \* output, or by a cancel before they had begun
  input,      \* the input stream of a task: the messages not popped yet
  output,     \* the output stream of a task: kinds of the events put so far
  ran,        \* history: pairs of a message and the task that popped it
  chat,       \* where a chat request stands
  chatSession,\* the session it was sent to
  chatMsg,    \* whether it carries a message, until it has looked up its task
  chatSnap,   \* the status and task_id it read from the row
  chatTask,   \* the task it works with
  chatPos,    \* how many events of the output stream it has read
  stop,       \* where a stop request stands
  stopSession,\* the session to stop
  stopTask,   \* the task_id it read from the row
  server,     \* where the server's shutdown stands
  iterSize,   \* size of the registry when destroy() began to iterate
  victim,     \* the task whose runner destroy() is destroying
  restarts    \* crashes and restarts so far

rowVars == <<status, taskId>>
execVars == <<registry, owner, exec, cancelled, aborted>>
streamVars == <<input, output, ran>>
chatVars == <<chat, chatSession, chatMsg, chatSnap, chatTask, chatPos>>
stopVars == <<stop, stopSession, stopTask>>
serverVars == <<server, iterSize, victim, restarts>>
vars == <<rowVars, execVars, streamVars, chatVars, stopVars, serverVars>>

Status == {"pending", "running", "waiting", "completed"}

\* The events a flow yields, by what the reader and the runner do on them;
\* the reader ends on a final one (a done, error or wait event).
EventKind == {"message", "error", "wait", "done"}
Final == {"error", "wait", "done"}

\* invoke() of the runner outside its exception handlers ...
Body == {"init", "check", "pop", "enter", "flow", "effect", "recheck", "finish"}
\* ... and inside them, before the finally block.
ErrorHandler == {"errorPut", "errorStatus"}
CancelHandler == {"cancelPut", "cancelStatus"}
ExecState == Body \cup ErrorHandler \cup CancelHandler
               \cup {"none", "scheduled", "cleanup", "done", "gone"}

ChatState == {"idle", "lookup", "create", "save", "put", "invoke", "read",
              "deliver", "ended"}
StopState == {"idle", "cancel", "status", "ended"}
ServerState == {"up", "iterate", "runner", "down"}

\* The property done of a task: no execution yet, or one that ended.
Done(t) == exec[t] \in {"none", "done"}
Live(t) == exec[t] \notin {"none", "done", "gone"}
Created == {t \in Tasks : owner[t] # NoSession}

NoSnap == [status |-> "pending", task |-> NoTask]

Last(seq) == seq[Len(seq)]
\* The reader of an output stream meets its end: the last event is a final one.
Closed(t) == output[t] # <<>> /\ Last(output[t]) \in Final

-----------------------------------------------------------------------------

Init ==
  /\ status = [s \in Sessions |-> "pending"]
  /\ taskId = [s \in Sessions |-> NoTask]
  /\ registry = {}
  /\ owner = [t \in Tasks |-> NoSession]
  /\ exec = [t \in Tasks |-> "none"]
  /\ cancelled = {}
  /\ aborted = {}
  /\ input = [t \in Tasks |-> <<>>]
  /\ output = [t \in Tasks |-> <<>>]
  /\ ran = {}
  /\ chat = [c \in Chats |-> "idle"]
  /\ chatSession = [c \in Chats |-> NoSession]
  /\ chatMsg = [c \in Chats |-> FALSE]
  /\ chatSnap = [c \in Chats |-> NoSnap]
  /\ chatTask = [c \in Chats |-> NoTask]
  /\ chatPos = [c \in Chats |-> 0]
  /\ stop = [x \in Stops |-> "idle"]
  /\ stopSession = [x \in Stops |-> NoSession]
  /\ stopTask = [x \in Stops |-> NoTask]
  /\ server = "up"
  /\ iterSize = 0
  /\ victim = NoTask
  /\ restarts = 0

ChatTo(c, pc) == chat' = [chat EXCEPT ![c] = pc]
ExecTo(t, pc) == exec' = [exec EXCEPT ![t] = pc]

\* A request that ends drops its local variables.
ChatsEnd(ended) ==
  /\ chat' = [c \in Chats |-> IF c \in ended THEN "ended" ELSE chat[c]]
  /\ chatSnap' = [c \in Chats |-> IF c \in ended THEN NoSnap ELSE chatSnap[c]]
  /\ chatTask' = [c \in Chats |-> IF c \in ended THEN NoTask ELSE chatTask[c]]
  /\ chatPos' = [c \in Chats |-> IF c \in ended THEN 0 ELSE chatPos[c]]
  /\ chatMsg' = [c \in Chats |-> IF c \in ended THEN FALSE ELSE chatMsg[c]]
  /\ UNCHANGED chatSession

-----------------------------------------------------------------------------
(* Chat requests.                                                          *)

\* The request reads the session row in a transaction of its own.
ChatStart(c) ==
  /\ server = "up"
  /\ chat[c] = "idle"
  /\ \E s \in Sessions, m \in BOOLEAN :
       /\ chatSession' = [chatSession EXCEPT ![c] = s]
       /\ chatMsg' = [chatMsg EXCEPT ![c] = m]
       /\ chatSnap' = [chatSnap EXCEPT
                         ![c] = [status |-> status[s], task |-> taskId[s]]]
  /\ ChatTo(c, "lookup")
  /\ UNCHANGED <<rowVars, execVars, streamVars, chatTask, chatPos, stopVars,
                 serverVars>>

\* _get_task: the task of the row as it was read, if it is still registered.
Found(c) ==
  IF chatSnap[c].task \in registry THEN chatSnap[c].task ELSE NoTask

\* A message goes to the task found when the row said running.
Reusable(c) == chatSnap[c].status = "running" /\ Found(c) # NoTask
\* A request without a message follows the task found if it has not ended.
Followable(c) == Found(c) # NoTask /\ ~Done(Found(c))

\* The events of task t a client may already hold: all of a prefix of them
\* when it passes latest_event_id, none when it does not.
Held(t) == IF Resume THEN 0..Len(output[t]) ELSE {0}

\* The request goes on with the task found, at the position its client claims;
\* it has no more use for what it read from the row.
ChatJoins(c, pc) ==
  /\ ChatTo(c, pc)
  /\ chatMsg' = [chatMsg EXCEPT ![c] = FALSE]
  /\ chatTask' = [chatTask EXCEPT ![c] = Found(c)]
  /\ \E p \in Held(Found(c)) : chatPos' = [chatPos EXCEPT ![c] = p]
  /\ chatSnap' = [chatSnap EXCEPT ![c] = NoSnap]
  /\ UNCHANGED chatSession

\* _get_task, and what the request does with the task it finds or misses.
ChatLookup(c) ==
  /\ chat[c] = "lookup"
  /\ \/ /\ chatMsg[c] /\ ~Reusable(c)
        /\ ChatTo(c, "create")
        /\ chatMsg' = [chatMsg EXCEPT ![c] = FALSE]
        /\ UNCHANGED <<chatSession, chatSnap, chatTask, chatPos>>
     \/ chatMsg[c] /\ Reusable(c) /\ ChatJoins(c, "put")
     \/ ~chatMsg[c] /\ Followable(c) /\ ChatJoins(c, "read")
     \/ ~chatMsg[c] /\ ~Followable(c) /\ ChatsEnd({c})
  /\ UNCHANGED <<rowVars, execVars, streamVars, stopVars, serverVars>>

\* _create_task up to its last await: the sandbox and its browser are there,
\* a task with two empty streams is built and registers itself.
ChatCreate(c) ==
  /\ chat[c] = "create"
  /\ \E t \in Tasks :
       /\ owner[t] = NoSession
       /\ owner' = [owner EXCEPT ![t] = chatSession[c]]
       /\ registry' = registry \cup {t}
       /\ chatTask' = [chatTask EXCEPT ![c] = t]
  /\ ChatTo(c, "save")
  /\ UNCHANGED <<rowVars, exec, cancelled, aborted, streamVars, chatSession,
                 chatMsg, chatSnap, chatPos, stopVars, serverVars>>

\* The end of _create_task: the whole row as it was read is written back with
\* the new task_id, the status included.
ChatSave(c) ==
  /\ chat[c] = "save"
  /\ status' = [status EXCEPT ![chatSession[c]] = chatSnap[c].status]
  /\ taskId' = [taskId EXCEPT ![chatSession[c]] = chatTask[c]]
  /\ chatSnap' = [chatSnap EXCEPT ![c] = NoSnap]
  /\ ChatTo(c, "put")
  /\ UNCHANGED <<execVars, streamVars, chatSession, chatMsg, chatTask, chatPos,
                 stopVars, serverVars>>

\* The message goes to the input stream of the task, and to the history.
ChatPut(c) ==
  /\ chat[c] = "put"
  /\ input' = [input EXCEPT ![chatTask[c]] = Append(@, c)]
  /\ ChatTo(c, "invoke")
  /\ UNCHANGED <<rowVars, execVars, output, ran, chatSession, chatMsg, chatSnap,
                 chatTask, chatPos, stopVars, serverVars>>

\* invoke() of the task: a new execution, unless the last one is not done.
ChatInvoke(c) ==
  /\ chat[c] = "invoke"
  /\ IF Done(chatTask[c]) THEN ExecTo(chatTask[c], "scheduled")
                          ELSE exec' = exec
  /\ ChatTo(c, "read")
  /\ UNCHANGED <<rowVars, registry, owner, cancelled, aborted, streamVars,
                 chatSession, chatMsg, chatSnap, chatTask, chatPos, stopVars,
                 serverVars>>

\* XREAD with BLOCK 0: it returns when there is an event to return.
ChatRead(c) ==
  /\ chat[c] = "read"
  /\ chatPos[c] < Len(output[chatTask[c]])
  /\ chatPos' = [chatPos EXCEPT ![c] = @ + 1]
  /\ ChatTo(c, "deliver")
  /\ UNCHANGED <<rowVars, execVars, streamVars, chatSession, chatMsg, chatSnap,
                 chatTask, stopVars, serverVars>>

\* Mutant of ChatDeliver: the loop goes on after a final event.
MutChatDeliver(c) ==
  /\ chat[c] = "deliver"
  /\ IF Done(chatTask[c])
       THEN ChatsEnd({c})
       ELSE /\ ChatTo(c, "read")
            /\ UNCHANGED <<chatSession, chatMsg, chatSnap, chatTask, chatPos>>
  /\ UNCHANGED <<rowVars, execVars, streamVars, stopVars, serverVars>>

\* The event is yielded; the loop ends after a final event, or when the
\* execution is found done before the next read.
ChatDeliver(c) ==
  /\ chat[c] = "deliver"
  /\ IF output[chatTask[c]][chatPos[c]] \in Final \/ Done(chatTask[c])
       THEN ChatsEnd({c})
       ELSE /\ ChatTo(c, "read")
            /\ UNCHANGED <<chatSession, chatMsg, chatSnap, chatTask, chatPos>>
  /\ UNCHANGED <<rowVars, execVars, streamVars, stopVars, serverVars>>

\* The client goes away, or a call of the request raises (no sandbox, no
\* browser, a lost row): whatever the request had left to do is not done.
ChatBreaks(c) ==
  /\ chat[c] \notin {"idle", "ended"}
  /\ ChatsEnd({c})
  /\ UNCHANGED <<rowVars, execVars, streamVars, stopVars, serverVars>>

ChatGoesOn(c) ==
  \/ ChatLookup(c) \/ ChatCreate(c) \/ ChatSave(c) \/ ChatPut(c)
  \/ ChatInvoke(c) \/ ChatRead(c)   \/ ChatDeliver(c)

ChatNext(c) == ChatStart(c) \/ ChatGoesOn(c) \/ ChatBreaks(c)

-----------------------------------------------------------------------------
(* The execution of a task: _execute_task around invoke() of the runner.   *)

\* What an execution may do next, unless it was cancelled: the next time it is
\* resumed it finds a CancelledError instead of its result.
At(t, pc) == exec[t] = pc /\ t \notin cancelled

\* An execution's step that touches nothing but its own position.
Moves(t, pc) ==
  /\ ExecTo(t, pc)
  /\ UNCHANGED <<rowVars, registry, owner, cancelled, aborted, streamVars,
                 chatVars, stopVars, serverVars>>

\* An execution's step that writes the status of its session.
WritesStatus(t, st, pc) ==
  /\ status' = [status EXCEPT ![owner[t]] = st]
  /\ ExecTo(t, pc)
  /\ UNCHANGED <<taskId, registry, owner, cancelled, aborted, streamVars,
                 chatVars, stopVars, serverVars>>

\* An execution's step that puts an event in the output stream.
PutsEvent(t, e, pc) ==
  /\ output' = [output EXCEPT ![t] = Append(@, e)]
  /\ ExecTo(t, pc)
  /\ UNCHANGED <<rowVars, registry, owner, cancelled, aborted, input, ran,
                 chatVars, stopVars, serverVars>>

\* The loop gets to the execution; it waits for the sandbox, MCP and A2A.
RunBegins(t) == At(t, "scheduled") /\ Moves(t, "init")
RunReady(t) == At(t, "init") /\ Moves(t, "check")

\* Mutant of RunChecks: an empty input stream is polled, not the end.
MutRunChecks(t) ==
  /\ At(t, "check")
  /\ Moves(t, IF input[t] = <<>> THEN "check" ELSE "pop")

\* while not await input_stream.is_empty()
RunChecks(t) ==
  /\ At(t, "check")
  /\ Moves(t, IF input[t] = <<>> THEN "finish" ELSE "pop")

\* Mutant of RunPops: the message is read and not deleted.
MutRunPops(t) ==
  /\ At(t, "pop")
  /\ input[t] # <<>>
  /\ ran' = ran \cup {<<Head(input[t]), t>>}
  /\ ExecTo(t, "enter")
  /\ UNCHANGED <<rowVars, registry, owner, cancelled, aborted, input, output,
                 chatVars, stopVars, serverVars>>

\* pop() removes the first message, or returns nothing when it cannot get the
\* lock of the stream in time, and the loop goes round.
RunPops(t) ==
  /\ At(t, "pop")
  /\ input[t] # <<>>
  /\ input' = [input EXCEPT ![t] = Tail(@)]
  /\ ran' = ran \cup {<<Head(input[t]), t>>}
  /\ ExecTo(t, "enter")
  /\ UNCHANGED <<rowVars, registry, owner, cancelled, aborted, output, chatVars,
                 stopVars, serverVars>>

RunMissesPop(t) == At(t, "pop") /\ Moves(t, "check")

\* Redis fails after it deleted the message: pop() returns nothing.
RunLosesPop(t) ==
  /\ Outages
  /\ At(t, "pop")
  /\ input[t] # <<>>
  /\ input' = [input EXCEPT ![t] = Tail(@)]
  /\ aborted' = aborted \cup {t}
  /\ ExecTo(t, "check")
  /\ UNCHANGED <<rowVars, registry, owner, cancelled, output, ran, chatVars,
                 stopVars, serverVars>>

\* The flow takes the message and marks the session running.
RunEnters(t) == At(t, "enter") /\ WritesStatus(t, "running", "flow")

\* The flow yields an event and it is put in the output stream.
RunYields(t, e) ==
  /\ At(t, "flow")
  /\ e \in {"message", "error"} => Len(output[t]) < MaxOutput
  /\ PutsEvent(t, e, "effect")

\* What follows an event: a wait event ends the execution with the session
\* waiting; any other one goes on to look for new messages.
RunHandlesEvent(t) ==
  /\ At(t, "effect")
  /\ IF Last(output[t]) = "wait" THEN WritesStatus(t, "waiting", "cleanup")
                                 ELSE Moves(t, "recheck")

\* A new message makes the runner leave the flow; so does the end of the flow,
\* whose last event is a done event.
RunRechecks(t) ==
  /\ At(t, "recheck")
  /\ Moves(t, IF input[t] # <<>> \/ Last(output[t]) = "done"
                THEN "check" ELSE "flow")

RunFinishes(t) == At(t, "finish") /\ WritesStatus(t, "completed", "cleanup")

\* Any exception in the body of invoke(): an error event, then completed.
RunFails(t) == exec[t] \in Body /\ At(t, exec[t]) /\ Moves(t, "errorPut")
RunPutsError(t) == At(t, "errorPut") /\ PutsEvent(t, "error", "errorStatus")
RunErrorStatus(t) ==
  At(t, "errorStatus") /\ WritesStatus(t, "completed", "cleanup")

\* The handler of CancelledError: a done event, then completed.
RunPutsDone(t) == At(t, "cancelPut") /\ PutsEvent(t, "done", "cancelStatus")
RunCancelStatus(t) ==
  At(t, "cancelStatus") /\ WritesStatus(t, "completed", "cleanup")

\* A handler fails on its own put or write: the finally blocks still run.
HandlerBreaks(t) ==
  /\ Outages
  /\ exec[t] \in ErrorHandler \cup CancelHandler
  /\ t \notin cancelled
  /\ ExecTo(t, "cleanup")
  /\ aborted' = IF exec[t] \in {"errorPut", "cancelPut"} THEN aborted \cup {t}
                                                         ELSE aborted
  /\ UNCHANGED <<rowVars, registry, owner, cancelled, streamVars, chatVars,
                 stopVars, serverVars>>

\* Mutant of RunEnds: the task stays in the registry.
MutRunEnds(t) == At(t, "cleanup") /\ Moves(t, "done")

\* The tools are released, and _on_task_done takes the task off the registry.
RunEnds(t) ==
  /\ At(t, "cleanup")
  /\ ExecTo(t, "done")
  /\ registry' = registry \ {t}
  /\ UNCHANGED <<rowVars, owner, cancelled, aborted, streamVars, chatVars,
                 stopVars, serverVars>>

\* Mutant of AfterCancel: the handler writes the status and puts no done event.
MutAfterCancel(pc) ==
  CASE pc \in {"scheduled", "cleanup"} -> "done"
    [] pc \in Body -> "cancelStatus"
    [] OTHER -> "cleanup"

\* Where a CancelledError takes an execution.  One that has not begun ends
\* there and then: neither its handlers nor _on_task_done run.  One that pops
\* may have deleted its message already.
AfterCancel(pc) ==
  CASE pc \in {"scheduled", "cleanup"} -> "done"
    [] pc \in Body -> "cancelPut"
    [] OTHER -> "cleanup"

RunSeesCancel(t) ==
  /\ t \in cancelled
  /\ cancelled' = cancelled \ {t}
  /\ ExecTo(t, AfterCancel(exec[t]))
  /\ registry' = IF exec[t] = "cleanup" THEN registry \ {t} ELSE registry
  /\ aborted' = IF exec[t] \in {"scheduled", "errorPut", "cancelPut"}
                  THEN aborted \cup {t} ELSE aborted
  /\ \/ input' = input
     \/ /\ exec[t] = "pop" /\ input[t] # <<>>
        /\ input' = [input EXCEPT ![t] = Tail(@)]
  /\ UNCHANGED <<rowVars, owner, output, ran, chatVars, stopVars, serverVars>>

RunGoesOn(t) ==
  \/ RunBegins(t)    \/ RunReady(t)        \/ RunChecks(t)   \/ RunPops(t)
  \/ RunEnters(t)    \/ RunHandlesEvent(t) \/ RunRechecks(t) \/ RunFinishes(t)
  \/ RunPutsError(t) \/ RunErrorStatus(t)  \/ RunPutsDone(t) \/ RunCancelStatus(t)
  \/ RunEnds(t)      \/ RunSeesCancel(t)
  \/ \E e \in EventKind : RunYields(t, e)

RunNext(t) ==
  \/ RunGoesOn(t) \/ RunMissesPop(t) \/ RunLosesPop(t)
  \/ RunFails(t)  \/ HandlerBreaks(t)

-----------------------------------------------------------------------------
(* Stop requests, shutdown and restart.                                    *)

\* Mutant of Cancel: a task that is being cancelled stays in the registry.
MutCancel(t) ==
  /\ cancelled' = IF Done(t) THEN cancelled ELSE cancelled \cup {t}
  /\ registry' = IF Done(t) THEN registry \ {t} ELSE registry

\* cancel() of a task: its execution, if it is not done, is to see a
\* CancelledError; either way the task leaves the registry.
Cancel(t) ==
  /\ cancelled' = IF Done(t) THEN cancelled ELSE cancelled \cup {t}
  /\ registry' = registry \ {t}

StopsEnd(ended) ==
  /\ stop' = [x \in Stops |-> IF x \in ended THEN "ended" ELSE stop[x]]
  /\ stopSession' = [x \in Stops |-> IF x \in ended THEN NoSession
                                                   ELSE stopSession[x]]
  /\ stopTask' = [x \in Stops |-> IF x \in ended THEN NoTask ELSE stopTask[x]]

StopStart(x) ==
  /\ server = "up"
  /\ stop[x] = "idle"
  /\ \E s \in Sessions :
       /\ stopSession' = [stopSession EXCEPT ![x] = s]
       /\ stopTask' = [stopTask EXCEPT ![x] = taskId[s]]
  /\ stop' = [stop EXCEPT ![x] = "cancel"]
  /\ UNCHANGED <<rowVars, execVars, streamVars, chatVars, serverVars>>

StopCancels(x) ==
  /\ stop[x] = "cancel"
  /\ IF stopTask[x] \in registry THEN Cancel(stopTask[x])
                                 ELSE UNCHANGED <<cancelled, registry>>
  /\ stop' = [stop EXCEPT ![x] = "status"]
  /\ UNCHANGED <<rowVars, owner, exec, aborted, streamVars, chatVars,
                 stopSession, stopTask, serverVars>>

\* Mutant of StopCompletes: the row gets a status that is none.
MutStopCompletes(x) ==
  /\ stop[x] = "status"
  /\ status' = [status EXCEPT ![stopSession[x]] = "stopped"]
  /\ StopsEnd({x})
  /\ UNCHANGED <<taskId, execVars, streamVars, chatVars, serverVars>>

StopCompletes(x) ==
  /\ stop[x] = "status"
  /\ status' = [status EXCEPT ![stopSession[x]] = "completed"]
  /\ StopsEnd({x})
  /\ UNCHANGED <<taskId, execVars, streamVars, chatVars, serverVars>>

StopNext(x) == StopStart(x) \/ StopCancels(x) \/ StopCompletes(x)

\* The open requests of a process are gone with it.
RequestsEnd ==
  /\ ChatsEnd({c \in Chats : chat[c] # "idle"})
  /\ StopsEnd({x \in Stops : stop[x] # "idle"})

\* The lifespan's finally block calls destroy(), which iterates the registry.
ShutdownBegins ==
  /\ Shutdowns
  /\ server = "up"
  /\ server' = "iterate"
  /\ iterSize' = Cardinality(registry)
  /\ RequestsEnd
  /\ UNCHANGED <<rowVars, execVars, streamVars, victim, restarts>>

\* One turn of the loop: cancel() takes the task off the registry that is
\* being iterated, then the runner is destroyed.
DestroyVisits ==
  /\ server = "iterate"
  /\ Cardinality(registry) = iterSize
  /\ \E t \in registry : Cancel(t) /\ victim' = t
  /\ server' = "runner"
  /\ UNCHANGED <<rowVars, owner, exec, aborted, streamVars, chatVars, stopVars,
                 iterSize, restarts>>

DestroyRunner ==
  /\ server = "runner"
  /\ server' = "iterate"
  /\ victim' = NoTask
  /\ UNCHANGED <<rowVars, execVars, streamVars, chatVars, stopVars, iterSize,
                 restarts>>

\* The lifespan waits thirty seconds for destroy(), and goes on without it.
ShutdownTimesOut ==
  /\ server = "runner"
  /\ server' = "down"
  /\ UNCHANGED <<rowVars, execVars, streamVars, chatVars, stopVars, iterSize,
                 victim, restarts>>

\* A dict that changed size raises on the next turn, and what is left in it
\* stays; the loop runs to its end and clears it when it is empty.
DestroyEnds ==
  /\ server = "iterate"
  /\ \/ Cardinality(registry) # iterSize /\ registry' = registry
     \/ Cardinality(registry) = iterSize /\ registry = {} /\ registry' = {}
  /\ server' = "down"
  /\ UNCHANGED <<rowVars, owner, exec, cancelled, aborted, streamVars, chatVars,
                 stopVars, iterSize, victim, restarts>>

\* The process ends, by a crash or after its shutdown, and a new one starts:
\* only the rows and the streams are left.
Restart ==
  /\ restarts < MaxRestarts
  /\ restarts' = restarts + 1
  /\ server' = "up"
  /\ iterSize' = 0
  /\ victim' = NoTask
  /\ registry' = {}
  /\ cancelled' = {}
  /\ exec' = [t \in Tasks |-> IF t \in Created THEN "gone" ELSE "none"]
  /\ RequestsEnd
  /\ UNCHANGED <<rowVars, owner, aborted, streamVars>>

ServerNext ==
  \/ ShutdownBegins \/ DestroyVisits \/ DestroyRunner \/ ShutdownTimesOut
  \/ DestroyEnds    \/ Restart

-----------------------------------------------------------------------------

Next ==
  \/ \E c \in Chats : ChatNext(c)
  \/ \E t \in Tasks : RunNext(t)
  \/ \E x \in Stops : StopNext(x)
  \/ ServerNext

Spec == Init /\ [][Next]_vars

\* What the event loop gives: a coroutine that can be resumed is resumed.  A pop
\* that missed the lock of its stream gets it in the end: a lock expires.  No
\* request, failure or broken connection is owed.
Fairness ==
  /\ \A c \in Chats : WF_vars(ChatGoesOn(c))
  /\ \A t \in Tasks : WF_vars(RunGoesOn(t)) /\ SF_vars(RunPops(t))
  /\ \A x \in Stops : WF_vars(StopCancels(x) \/ StopCompletes(x))

FairSpec == Spec /\ Fairness

-----------------------------------------------------------------------------
(* Properties.                                                             *)

\* Every variable has its type.
TypeOK ==
  /\ status \in [Sessions -> Status]
  /\ taskId \in [Sessions -> Tasks \cup {NoTask}]
  /\ registry \subseteq Tasks
  /\ owner \in [Tasks -> Sessions \cup {NoSession}]
  /\ exec \in [Tasks -> ExecState]
  /\ cancelled \subseteq Tasks
  /\ aborted \subseteq Tasks
  /\ input \in [Tasks -> Seq(Chats)]
  /\ output \in [Tasks -> Seq(EventKind)]
  /\ ran \subseteq Chats \X Tasks
  /\ chat \in [Chats -> ChatState]
  /\ chatSession \in [Chats -> Sessions \cup {NoSession}]
  /\ chatMsg \in [Chats -> BOOLEAN]
  /\ chatSnap \in [Chats -> [status : Status, task : Tasks \cup {NoTask}]]
  /\ chatTask \in [Chats -> Tasks \cup {NoTask}]
  /\ chatPos \in [Chats -> Nat]
  /\ stop \in [Stops -> StopState]
  /\ stopSession \in [Stops -> Sessions \cup {NoSession}]
  /\ stopTask \in [Stops -> Tasks \cup {NoTask}]
  /\ server \in ServerState
  /\ iterSize \in Nat
  /\ victim \in Tasks \cup {NoTask}
  /\ restarts \in Nat

\* A task that get() can still return has not finished: every way an execution
\* can end, and cancel(), takes the task off the registry first.
RegisteredTaskIsUnfinished ==
  \A t \in registry : t \in Created /\ exec[t] \notin {"done", "gone"}

\* stop_session() never interrupts the handler that closes a cancelled task:
\* cancel() took the task off the registry, so a second stop cannot find it.
CancelHandlerUninterrupted ==
  \A t \in Tasks : exec[t] \in CancelHandler => t \notin cancelled \cup registry

\* The user's message is in at most one place: once in one input stream or
\* taken by one execution, and then by a task of the session it was sent to.
Queued(c, t) == \E i \in DOMAIN input[t] : input[t][i] = c
Holds(t, c) == Queued(c, t) \/ <<c, t>> \in ran

MessageInOnePlace ==
  \A c \in Chats, t \in Tasks :
    /\ \A i, j \in DOMAIN input[t] : input[t][i] = c /\ input[t][j] = c => i = j
    /\ Queued(c, t) => <<c, t>> \notin ran
    /\ \A u \in Tasks : Holds(t, c) /\ Holds(u, c) => t = u
    /\ Holds(t, c) => owner[t] = chatSession[c]
    /\ Holds(t, c) => chat[c] \in {"invoke", "read", "deliver", "ended"}

\* A reader that blocks on the output stream of an ended task would find a
\* final event there: whatever made the execution end (its last message, a
\* wait, an exception, a cancel while it ran), unless Redis broke it off, or it
\* was cancelled before it had begun: stop_session() right after chat() runs no
\* handler, nothing is put, and a reader already blocked stays blocked.
EndedStreamIsClosed ==
  \A t \in Tasks \ aborted : exec[t] \in {"cleanup", "done"} => Closed(t)

\* A chat request that follows a task ends, if the client does not claim to
\* have read events already, no stop interferes and the stores work.
FollowerEnds ==
  \A c \in Chats : chat[c] \in {"read", "deliver"} ~> chat[c] = "ended"

\* An execution that was started ends, and one that was cancelled too.
ExecutionEnds ==
  \A t \in Tasks : Live(t) ~> ~Live(t)

\* What the test of the row's status in chat() is for: no second task is
\* started for a session while one runs.
OneLiveTask ==
  \A t, u \in Tasks :
    owner[t] = owner[u] /\ Live(t) /\ Live(u) /\ {t, u} \cap cancelled = {}
      => t = u

\* invoke() processes the input stream: an execution that ended with a done
\* event left no message in it that a request had put there and invoked.
NoMessageStranded ==
  \A t \in Tasks :
    /\ exec[t] = "done" /\ output[t] # <<>> /\ Last(output[t]) = "done"
    /\ \A c \in Chats : chatTask[c] = t => chat[c] # "invoke"
    => input[t] = <<>>

\* destroy() destroys every task: none is left in the registry after it, unless
\* it was broken off while it destroyed a runner.
DestroyEmptiesRegistry == server = "down" /\ victim = NoTask => registry = {}
=============================================================================
