-------------------------- MODULE AgentTaskProofs --------------------------
(***************************************************************************)
(* Proofs about AgentTask, for any number of sessions, requests, tasks and *)
(* events.                                                                 *)
(***************************************************************************)
EXTENDS AgentTask, FiniteSetTheorems, SequenceTheorems, TLAPS

(***************************************************************************)
(* Types.                                                                  *)
(***************************************************************************)

\* dict.__len__ is a number: the registry gains one task at a time.
FiniteRegistry == IsFiniteSet(registry)

TypeInv == TypeOK /\ FiniteRegistry

\* The server starts with every variable in its type.
LEMMA InitType == Init => TypeInv
<1> SUFFICES ASSUME Init PROVE TypeInv
  OBVIOUS
<1>1. IsFiniteSet({})
  BY FS_EmptySet
<1>2. FiniteRegistry
  BY <1>1 DEF Init, FiniteRegistry
<1>3. TypeOK
  BY DEF Init, TypeOK, Status, ExecState, ChatState, StopState, ServerState, NoSnap
<1>4. QED
  BY <1>2, <1>3 DEF TypeInv

\* The steps of a request keep the types.
LEMMA ChatType ==
  ASSUME TypeInv, NEW c \in Chats, ChatNext(c)
  PROVE  TypeInv'
<1> USE DEF TypeInv, TypeOK, rowVars, execVars, streamVars, chatVars, stopVars,
            serverVars, ChatTo, ExecTo
<1>1. CASE ChatStart(c)
  <2>1. chatSnap' \in [Chats -> [status : Status, task : Tasks \cup {NoTask}]]
    BY <1>1 DEF ChatStart
  <2>2. QED
    BY <1>1, <2>1 DEF ChatStart, ChatState, FiniteRegistry
<1>2. CASE ChatLookup(c)
  <2>1. NoSnap \in [status : Status, task : Tasks \cup {NoTask}]
    BY DEF NoSnap, Status
  <2>2. CASE ChatsEnd({c}) /\ UNCHANGED <<rowVars, execVars, streamVars, stopVars, serverVars>>
    BY <2>1, <2>2 DEF ChatsEnd, ChatState, FiniteRegistry
  <2>3. ASSUME NEW pc \in {"put", "read"}, Found(c) \in Tasks, ChatJoins(c, pc),
               UNCHANGED <<rowVars, execVars, streamVars, stopVars, serverVars>>
        PROVE  TypeInv'
    <3>1. Len(output[Found(c)]) \in Nat
      BY <2>3
    <3>2. chatPos' \in [Chats -> Nat]
      BY <3>1, <2>3 DEF ChatJoins, Held
    <3>3. QED
      BY <2>1, <2>3, <3>2 DEF ChatJoins, ChatState, FiniteRegistry
  <2>4. Found(c) # NoTask => Found(c) \in Tasks
    BY DEF Found
  <2>5. QED
    BY <1>2, <2>2, <2>3, <2>4 DEF ChatLookup, Reusable, Followable, ChatState, FiniteRegistry
<1>3. CASE ChatCreate(c)
  <2>1. PICK t \in Tasks : registry' = registry \cup {t}
    BY <1>3 DEF ChatCreate
  <2>2. FiniteRegistry'
    BY <2>1, FS_AddElement, Zenon DEF FiniteRegistry
  <2>3. QED
    BY <1>3, <2>2 DEF ChatCreate, ChatState
<1>4. CASE ChatSave(c)
  BY <1>4 DEF ChatSave, ChatState, NoSnap, Status, FiniteRegistry
<1>5. CASE ChatPut(c)
  <2>1. ASSUME NEW t \in Tasks PROVE Append(input[t], c) \in Seq(Chats)
    BY <2>1
  <2>2. input' \in [Tasks -> Seq(Chats)]
    BY <1>5, <2>1 DEF ChatPut
  <2>3. QED
    BY <1>5, <2>2 DEF ChatPut, ChatState, FiniteRegistry
<1>6. CASE ChatInvoke(c)
  BY <1>6 DEF ChatInvoke, ChatState, ExecState, FiniteRegistry
<1>7. CASE ChatRead(c)
  BY <1>7 DEF ChatRead, ChatState, FiniteRegistry
<1>8. CASE ChatDeliver(c)
  <2>1. CASE ChatsEnd({c})
    BY <1>8, <2>1 DEF ChatDeliver, ChatsEnd, NoSnap, Status, ChatState, FiniteRegistry
  <2>2. CASE ChatTo(c, "read") /\ UNCHANGED <<chatSession, chatMsg, chatSnap, chatTask, chatPos>>
    BY <1>8, <2>2 DEF ChatDeliver, ChatState, FiniteRegistry
  <2>3. QED
    BY <1>8, <2>1, <2>2 DEF ChatDeliver
<1>9. CASE ChatBreaks(c)
  BY <1>9 DEF ChatBreaks, ChatsEnd, NoSnap, Status, ChatState, FiniteRegistry
<1>10. QED
  BY <1>1, <1>2, <1>3, <1>4, <1>5, <1>6, <1>7, <1>8, <1>9 DEF ChatNext, ChatGoesOn

\* So do those of an execution.
LEMMA RunType ==
  ASSUME TypeInv, NEW t \in Tasks, RunNext(t)
  PROVE  TypeInv'
<1> USE DEF TypeInv, TypeOK, rowVars, execVars, streamVars, chatVars, stopVars,
            serverVars, ExecTo
<1>1. ASSUME NEW pc \in ExecState, Moves(t, pc)
      PROVE  TypeInv'
  BY <1>1 DEF Moves, FiniteRegistry
<1>2. ASSUME NEW st \in Status, NEW pc \in ExecState, WritesStatus(t, st, pc)
      PROVE  TypeInv'
  BY <1>2 DEF WritesStatus, FiniteRegistry
<1>3. ASSUME NEW e \in EventKind, NEW pc \in ExecState, PutsEvent(t, e, pc)
      PROVE  TypeInv'
  <2>1. Append(output[t], e) \in Seq(EventKind)
    OBVIOUS
  <2>2. output' \in [Tasks -> Seq(EventKind)]
    BY <1>3, <2>1 DEF PutsEvent
  <2>3. QED
    BY <1>3, <2>2 DEF PutsEvent, FiniteRegistry
<1>4. /\ Body \subseteq ExecState /\ ErrorHandler \subseteq ExecState
      /\ CancelHandler \subseteq ExecState
      /\ {"scheduled", "cleanup", "done"} \subseteq ExecState
  BY DEF ExecState
<1>5. CASE RunBegins(t) \/ RunReady(t) \/ RunChecks(t) \/ RunMissesPop(t)
             \/ RunRechecks(t) \/ RunFails(t)
  <2>1. PICK pc \in ExecState : Moves(t, pc)
    BY <1>4, <1>5 DEF RunBegins, RunReady, RunChecks, RunMissesPop, RunRechecks,
                      RunFails, Body, ErrorHandler
  <2>2. QED
    BY <1>1, <2>1
<1>6. CASE RunEnters(t) \/ RunFinishes(t) \/ RunErrorStatus(t) \/ RunCancelStatus(t)
  <2>1. PICK st \in Status, pc \in ExecState : WritesStatus(t, st, pc)
    BY <1>4, <1>6 DEF RunEnters, RunFinishes, RunErrorStatus, RunCancelStatus,
                      Body, Status
  <2>2. QED
    BY <1>2, <2>1
<1>7. CASE RunHandlesEvent(t)
  <2>1. CASE WritesStatus(t, "waiting", "cleanup")
    BY <1>2, <1>4, <2>1 DEF Status
  <2>2. CASE Moves(t, "recheck")
    BY <1>1, <1>4, <2>2 DEF Body
  <2>3. QED
    BY <1>7, <2>1, <2>2 DEF RunHandlesEvent
<1>8. CASE RunPutsError(t) \/ RunPutsDone(t) \/ \E e \in EventKind : RunYields(t, e)
  <2>1. PICK e \in EventKind, pc \in ExecState : PutsEvent(t, e, pc)
    BY <1>4, <1>8 DEF RunPutsError, RunPutsDone, RunYields, Body, ErrorHandler,
                      CancelHandler, EventKind
  <2>2. QED
    BY <1>3, <2>1
<1>seq. input[t] # <<>> => Tail(input[t]) \in Seq(Chats) /\ Head(input[t]) \in Chats
  <2>1. input[t] \in Seq(Chats)
    OBVIOUS
  <2>2. QED
    BY <2>1
<1>9. CASE RunPops(t) \/ RunLosesPop(t)
  <2>1. CASE RunPops(t)
    BY <2>1, <1>seq, <1>4 DEF RunPops, Body, FiniteRegistry
  <2>2. CASE RunLosesPop(t)
    BY <2>2, <1>seq, <1>4 DEF RunLosesPop, Body, FiniteRegistry
  <2>3. QED
    BY <1>9, <2>1, <2>2
<1>10. CASE HandlerBreaks(t)
  BY <1>10, <1>4 DEF HandlerBreaks, FiniteRegistry
<1>11. IsFiniteSet(registry \ {t})
  BY FS_RemoveElement DEF FiniteRegistry
<1>12. CASE RunEnds(t)
  BY <1>12, <1>11, <1>4 DEF RunEnds, FiniteRegistry
<1>13. CASE RunSeesCancel(t)
  <2>1. AfterCancel(exec[t]) \in ExecState
    BY <1>4 DEF AfterCancel, CancelHandler
  <2>2. QED
    BY <1>13, <1>11, <1>seq, <2>1 DEF RunSeesCancel, FiniteRegistry
<1>14. QED
  BY <1>5, <1>6, <1>7, <1>8, <1>9, <1>10, <1>12, <1>13 DEF RunNext, RunGoesOn

\* And those of a stop request and of the server.
LEMMA StopType ==
  ASSUME TypeInv, NEW x \in Stops, StopNext(x)
  PROVE  TypeInv'
<1> USE DEF TypeInv, TypeOK, rowVars, execVars, streamVars, chatVars, stopVars,
            serverVars, StopState
<1>1. CASE StopStart(x)
  BY <1>1 DEF StopStart, FiniteRegistry
<1>2. CASE StopCancels(x)
  <2>1. IsFiniteSet(registry \ {stopTask[x]})
    BY FS_RemoveElement DEF FiniteRegistry
  <2>2. QED
    BY <1>2, <2>1 DEF StopCancels, Cancel, FiniteRegistry
<1>3. CASE StopCompletes(x)
  BY <1>3 DEF StopCompletes, StopsEnd, Status, FiniteRegistry
<1>4. QED
  BY <1>1, <1>2, <1>3 DEF StopNext

\* A start, a stop or a crash of the server keeps the types.
LEMMA ServerType ==
  ASSUME TypeInv, ServerNext
  PROVE  TypeInv'
<1> USE DEF TypeInv, TypeOK, rowVars, execVars, streamVars, chatVars, stopVars,
            serverVars, ServerState
<1>1. ASSUME NEW C \in SUBSET Chats, NEW X \in SUBSET Stops, ChatsEnd(C), StopsEnd(X)
      PROVE  /\ chat' \in [Chats -> ChatState] /\ chatMsg' \in [Chats -> BOOLEAN]
             /\ chatSession' \in [Chats -> Sessions \cup {NoSession}]
             /\ chatSnap' \in [Chats -> [status : Status, task : Tasks \cup {NoTask}]]
             /\ chatTask' \in [Chats -> Tasks \cup {NoTask}]
             /\ chatPos' \in [Chats -> Nat]
             /\ stop' \in [Stops -> StopState]
             /\ stopSession' \in [Stops -> Sessions \cup {NoSession}]
             /\ stopTask' \in [Stops -> Tasks \cup {NoTask}]
  BY <1>1 DEF ChatsEnd, StopsEnd, NoSnap, Status, ChatState, StopState
<1>2. CASE ShutdownBegins
  <2>1. Cardinality(registry) \in Nat
    BY FS_CardinalityType DEF FiniteRegistry
  <2>2. QED
    BY <1>1, <1>2, <2>1 DEF ShutdownBegins, RequestsEnd, FiniteRegistry
<1>3. CASE DestroyVisits
  <2>1. PICK t \in registry : Cancel(t) /\ victim' = t
    BY <1>3 DEF DestroyVisits
  <2>2. IsFiniteSet(registry \ {t})
    BY FS_RemoveElement DEF FiniteRegistry
  <2>3. QED
    BY <1>3, <2>1, <2>2 DEF DestroyVisits, Cancel, FiniteRegistry
<1>4. CASE DestroyRunner \/ ShutdownTimesOut
  BY <1>4 DEF DestroyRunner, ShutdownTimesOut, FiniteRegistry
<1>5. CASE DestroyEnds
  BY <1>5 DEF DestroyEnds, FiniteRegistry
<1>6. CASE Restart
  <2>1. IsFiniteSet({})
    BY FS_EmptySet
  <2>2. exec' \in [Tasks -> ExecState]
    BY <1>6 DEF Restart, ExecState
  <2>3. PICK C \in SUBSET Chats, X \in SUBSET Stops : ChatsEnd(C) /\ StopsEnd(X)
    BY <1>6 DEF Restart, RequestsEnd
  <2>4. FiniteRegistry' /\ registry' \subseteq Tasks /\ cancelled' \subseteq Tasks
    BY <1>6, <2>1 DEF Restart, FiniteRegistry
  <2>5. /\ server' \in ServerState /\ iterSize' \in Nat /\ restarts' \in Nat
        /\ victim' \in Tasks \cup {NoTask}
        /\ UNCHANGED <<status, taskId, owner, aborted, input, output, ran>>
    BY <1>6, BoundsAssumption DEF Restart
  <2>6. QED
    BY <1>1, <2>2, <2>3, <2>4, <2>5
<1>7. QED
  BY <1>2, <1>3, <1>4, <1>5, <1>6 DEF ServerNext

\* Every behaviour of the service keeps every variable in its type.
THEOREM TypeCorrect == Spec => []TypeOK
<1>1. ASSUME TypeInv, UNCHANGED vars PROVE TypeInv'
  BY <1>1 DEF TypeInv, TypeOK, FiniteRegistry, vars, rowVars, execVars,
              streamVars, chatVars, stopVars, serverVars
<1>2. TypeInv /\ [Next]_vars => TypeInv'
  BY <1>1, ChatType, RunType, StopType, ServerType DEF Next
<1>3. TypeInv => TypeOK
  BY DEF TypeInv
<1>4. QED
  BY InitType, <1>2, <1>3, PTL DEF Spec

(***************************************************************************)
(* The registry and the executions.                                        *)
(***************************************************************************)

\* What a request, a row or a lookup says of a task and its session.
Holding == {"save", "put", "invoke", "read", "deliver"}

OwnersInv ==
  /\ \A c \in Chats : chat[c] # "idle" => chatSession[c] \in Sessions
  /\ \A c \in Chats : chat[c] \in Holding =>
       chatTask[c] \in Tasks /\ owner[chatTask[c]] = chatSession[c]
  /\ \A s \in Sessions : taskId[s] # NoTask => owner[taskId[s]] = s
  /\ \A c \in Chats : chat[c] = "lookup" /\ chatSnap[c].task # NoTask =>
       owner[chatSnap[c].task] = chatSession[c]

\* A task off the registry is the only one a CancelledError is under way to,
\* and a task that was not created has no execution.
RegistryInv ==
  /\ RegisteredTaskIsUnfinished
  /\ CancelHandlerUninterrupted
  /\ registry \cap cancelled = {}
  /\ \A t \in cancelled : Live(t) /\ t \in Created
  /\ \A t \in Tasks \ Created : exec[t] = "none"

\* Only the creation of a task changes the owner of one.
LEMMA OwnerStable ==
  ASSUME TypeInv, OwnersInv, Next
  PROVE  \A t \in Created : owner'[t] = owner[t]
<1> USE DEF rowVars, execVars, streamVars, chatVars, stopVars, serverVars
<1>1. CASE \E c \in Chats : ChatNext(c)
  <2>1. CASE \E c \in Chats : ChatCreate(c)
    BY <2>1 DEF ChatCreate, Created, TypeInv, TypeOK
  <2>2. CASE owner' = owner
    BY <2>2
  <2>3. QED
    BY <1>1, <2>1, <2>2 DEF ChatNext, ChatGoesOn, ChatStart, ChatLookup, ChatSave,
                            ChatPut, ChatInvoke, ChatRead, ChatDeliver, ChatBreaks
<1>2. CASE \E t \in Tasks : RunNext(t)
  BY <1>2 DEF RunNext, RunGoesOn, RunBegins, RunReady, RunChecks, RunPops, RunMissesPop, RunLosesPop,
              RunEnters, RunYields, RunHandlesEvent, RunRechecks, RunFinishes,
              RunFails, RunPutsError, RunErrorStatus, RunPutsDone,
              RunCancelStatus, HandlerBreaks, RunEnds, RunSeesCancel,
              Moves, WritesStatus, PutsEvent
<1>3. CASE (\E x \in Stops : StopNext(x)) \/ ServerNext
  BY <1>3 DEF StopNext, StopStart, StopCancels, StopCompletes, ServerNext,
              ShutdownBegins, DestroyVisits, DestroyRunner, ShutdownTimesOut,
              DestroyEnds, Restart
<1>4. QED
  BY <1>1, <1>2, <1>3 DEF Next

\* An execution touches no request, no task_id and no other execution.
LEMMA RunFrame ==
  ASSUME TypeInv, NEW t \in Tasks, RunNext(t)
  PROVE  /\ UNCHANGED <<taskId, owner, chatVars, stopVars, serverVars>>
         /\ \A u \in Tasks \ {t} :
              /\ exec'[u] = exec[u] /\ input'[u] = input[u] /\ output'[u] = output[u]
              /\ u \in registry' <=> u \in registry
              /\ u \in cancelled' <=> u \in cancelled
              /\ u \in aborted' <=> u \in aborted
         /\ aborted \subseteq aborted'
<1> USE DEF rowVars, execVars, streamVars, ExecTo, TypeInv, TypeOK
<1>1. CASE \/ RunBegins(t) \/ RunReady(t) \/ RunChecks(t) \/ RunMissesPop(t)
           \/ RunRechecks(t) \/ RunFails(t)
  BY <1>1 DEF RunBegins, RunReady, RunChecks, RunMissesPop, RunRechecks, RunFails, Moves
<1>2. CASE \/ RunEnters(t) \/ RunFinishes(t) \/ RunErrorStatus(t)
           \/ RunCancelStatus(t) \/ RunHandlesEvent(t)
  BY <1>2 DEF RunEnters, RunFinishes, RunErrorStatus, RunCancelStatus,
              RunHandlesEvent, Moves, WritesStatus
<1>3. CASE \/ RunPutsError(t) \/ RunPutsDone(t) \/ \E e \in EventKind : RunYields(t, e)
  BY <1>3 DEF RunPutsError, RunPutsDone, RunYields, PutsEvent
<1>4. CASE \/ RunPops(t) \/ RunLosesPop(t) \/ RunEnds(t) \/ HandlerBreaks(t)
           \/ RunSeesCancel(t)
  BY <1>4 DEF RunPops, RunLosesPop, RunEnds, HandlerBreaks, RunSeesCancel
<1>5. QED
  BY <1>1, <1>2, <1>3, <1>4 DEF RunNext, RunGoesOn

\* How the position of an execution changes.
LEMMA RunPosition ==
  ASSUME TypeInv, RegistryInv, NEW t \in Tasks, RunNext(t)
  PROVE  /\ t \in Created
         /\ exec'[t] \notin {"none", "gone"}
         /\ registry' \in {registry, registry \ {t}}
         /\ cancelled' = cancelled \ {t}
         /\ exec'[t] \in CancelHandler => t \notin registry
         /\ exec'[t] = "done" => t \notin registry'
<1> USE DEF rowVars, execVars, streamVars, ExecTo, TypeInv, TypeOK, At, Body, ErrorHandler, CancelHandler
<1>1. t \in cancelled \/ exec[t] # "none"
  BY DEF RunNext, RunGoesOn, RunBegins, RunReady, RunChecks, RunPops, RunMissesPop, RunLosesPop,
         RunEnters, RunYields, RunHandlesEvent, RunRechecks, RunFinishes, RunFails,
         RunPutsError, RunErrorStatus, RunPutsDone, RunCancelStatus, HandlerBreaks,
         RunEnds, RunSeesCancel
<1>2. t \in Created
  BY <1>1 DEF RegistryInv
<1>3. CASE RunSeesCancel(t)
  BY <1>2, <1>3 DEF RunSeesCancel, AfterCancel, RegistryInv
<1>4. CASE \/ RunBegins(t) \/ RunReady(t) \/ RunChecks(t) \/ RunMissesPop(t)
           \/ RunRechecks(t) \/ RunFails(t)
  BY <1>2, <1>4 DEF RunBegins, RunReady, RunChecks, RunMissesPop, RunRechecks, RunFails, Moves
<1>5. CASE \/ RunEnters(t) \/ RunFinishes(t) \/ RunErrorStatus(t)
           \/ RunHandlesEvent(t)
  BY <1>2, <1>5 DEF RunEnters, RunFinishes, RunErrorStatus,
              RunHandlesEvent, Moves, WritesStatus
<1>6. CASE RunPutsError(t) \/ \E e \in EventKind : RunYields(t, e)
  BY <1>2, <1>6 DEF RunPutsError, RunYields, PutsEvent
<1>7. CASE RunPutsDone(t) \/ RunCancelStatus(t)
  BY <1>2, <1>7 DEF RunPutsDone, RunCancelStatus, PutsEvent, WritesStatus,
                    RegistryInv, CancelHandlerUninterrupted
<1>8. CASE RunPops(t) \/ RunLosesPop(t) \/ RunEnds(t) \/ HandlerBreaks(t)
  BY <1>2, <1>8 DEF RunPops, RunLosesPop, RunEnds, HandlerBreaks
<1>9. QED
  BY <1>3, <1>4, <1>5, <1>6, <1>7, <1>8 DEF RunNext, RunGoesOn

\* A request leaves the executions alone, but for the one it schedules.
LEMMA ChatFrame ==
  ASSUME TypeInv, NEW c \in Chats, ChatNext(c)
  PROVE  /\ UNCHANGED <<cancelled, aborted, output, ran, stopVars, serverVars>>
         /\ registry \subseteq registry'
         /\ \A t \in registry' \ registry : t \notin Created
         /\ \A t \in Tasks :
              \/ exec'[t] = exec[t]
              \/ ChatInvoke(c) /\ t = chatTask[c] /\ Done(t) /\ exec'[t] = "scheduled"
         /\ \A d \in Chats \ {c} :
              /\ chat'[d] = chat[d] /\ chatSession'[d] = chatSession[d]
              /\ chatTask'[d] = chatTask[d] /\ chatSnap'[d] = chatSnap[d]
<1> USE DEF TypeInv, TypeOK, rowVars, execVars, streamVars, chatVars, stopVars,
            serverVars, ChatTo, ExecTo
<1>1. CASE ChatStart(c) \/ ChatSave(c) \/ ChatPut(c) \/ ChatRead(c)
  BY <1>1 DEF ChatStart, ChatSave, ChatPut, ChatRead
<1>2. CASE ChatLookup(c)
  BY <1>2 DEF ChatLookup, ChatJoins, ChatsEnd
<1>3. CASE ChatCreate(c)
  BY <1>3 DEF ChatCreate, Created
<1>4. CASE ChatInvoke(c)
  BY <1>4 DEF ChatInvoke
<1>5. CASE ChatDeliver(c) \/ ChatBreaks(c)
  BY <1>5 DEF ChatDeliver, ChatBreaks, ChatsEnd
<1>6. QED
  BY <1>1, <1>2, <1>3, <1>4, <1>5 DEF ChatNext, ChatGoesOn

\* A stop request and the server touch no stream, no owner and no task_id; the
\* requests they end keep nothing but their session.
LEMMA ControlFrame ==
  ASSUME TypeInv, (\E x \in Stops : StopNext(x)) \/ ServerNext
  PROVE  /\ UNCHANGED <<taskId, owner, aborted, streamVars, chatSession>>
         /\ \A c \in Chats :
              \/ chat'[c] = chat[c] /\ chatTask'[c] = chatTask[c] /\ chatSnap'[c] = chatSnap[c]
              \/ chat'[c] = "ended" /\ chat[c] # "idle"
         /\ \/ Restart
            \/ exec' = exec /\ UNCHANGED <<registry, cancelled>>
            \/ exec' = exec /\ \E t \in registry : Cancel(t)
<1> USE DEF TypeInv, TypeOK, rowVars, execVars, streamVars, chatVars, stopVars, serverVars
<1>1. ASSUME NEW x \in Stops, StopNext(x) PROVE chatVars' = chatVars
  BY <1>1 DEF StopNext, StopStart, StopCancels, StopCompletes
<1>2. CASE \E x \in Stops : StopNext(x)
  BY <1>1, <1>2 DEF StopNext, StopStart, StopCancels, StopCompletes
<1>3. CASE ShutdownBegins \/ Restart
  BY <1>3 DEF ShutdownBegins, Restart, RequestsEnd, ChatsEnd
<1>4. CASE DestroyVisits \/ DestroyRunner \/ ShutdownTimesOut \/ DestroyEnds
  BY <1>4 DEF DestroyVisits, DestroyRunner, ShutdownTimesOut, DestroyEnds
<1>5. QED
  BY <1>2, <1>3, <1>4 DEF ServerNext

\* No step gives a chat, a stop or an execution a task of another session.
LEMMA OwnersStep ==
  ASSUME TypeInv, OwnersInv, RegistryInv, Next
  PROVE  OwnersInv'
<1> USE DEF OwnersInv
<1>1. ASSUME NEW t \in Tasks, RunNext(t) PROVE OwnersInv'
  BY <1>1, RunFrame DEF chatVars
<1>2. CASE (\E x \in Stops : StopNext(x)) \/ ServerNext
  BY <1>2, ControlFrame DEF Holding
<1>3. ASSUME NEW c \in Chats, ChatNext(c) PROVE OwnersInv'
  <2> USE DEF TypeInv, TypeOK, rowVars, execVars, streamVars, chatVars, ChatTo, Holding
  <2>1. CASE ChatStart(c)
    BY <2>1, NoTaskAssumption DEF ChatStart
  <2>2. CASE ChatLookup(c)
    <3>1. Found(c) # NoTask => Found(c) \in Tasks /\ owner[Found(c)] = chatSession[c]
      BY <2>2, NoTaskAssumption DEF Found, ChatLookup
    <3>2. chat[c] = "lookup" /\ UNCHANGED <<taskId, owner>>
      BY <2>2 DEF ChatLookup
    <3>3. CASE ChatsEnd({c})
      BY <3>2, <3>3 DEF ChatsEnd
    <3>4. ASSUME NEW pc \in {"put", "read"}, Found(c) # NoTask, ChatJoins(c, pc)
          PROVE  OwnersInv'
      BY <3>1, <3>2, <3>4 DEF ChatJoins
    <3>5. CASE ChatTo(c, "create") /\ UNCHANGED <<chatSession, chatSnap, chatTask>>
      BY <3>2, <3>5
    <3>6. QED
      BY <2>2, <3>3, <3>4, <3>5 DEF ChatLookup, Reusable, Followable
  <2>3. CASE ChatCreate(c)
    <3>1. \A t \in Created : owner'[t] = owner[t]
      BY <2>3 DEF ChatCreate, Created
    <3>2. \A s \in Sessions : taskId'[s] # NoTask => owner'[taskId'[s]] = s
      <4>1. ASSUME NEW s \in Sessions, taskId[s] # NoTask
            PROVE  taskId[s] \in Created
        BY <4>1, NoSessionAssumption DEF Created
      <4>2. taskId' = taskId
        BY <2>3 DEF ChatCreate
      <4>3. QED
        BY <3>1, <4>1, <4>2
    <3>3. ASSUME NEW d \in Chats, NEW t \in Tasks, owner[t] = chatSession[d],
                 chat[d] # "idle"
          PROVE  owner'[t] = chatSession[d]
      BY <3>1, <3>3, NoSessionAssumption DEF Created
    <3>4. \A d \in Chats : chat'[d] = "lookup" /\ chatSnap'[d].task # NoTask =>
            owner'[chatSnap'[d].task] = chatSession'[d]
      BY <2>3, <3>3 DEF ChatCreate
    <3>5. \A d \in Chats : chat'[d] \in Holding =>
            chatTask'[d] \in Tasks /\ owner'[chatTask'[d]] = chatSession'[d]
      <4>1. ASSUME NEW d \in Chats \ {c}, chat'[d] \in Holding
            PROVE  chatTask'[d] \in Tasks /\ owner'[chatTask'[d]] = chatSession'[d]
        <5>1. chat[d] \in Holding /\ chatTask'[d] = chatTask[d] /\ chatSession'[d] = chatSession[d]
          BY <2>3, <4>1 DEF ChatCreate
        <5>2. QED
          BY <3>3, <5>1
      <4>2. chatTask'[c] \in Tasks /\ owner'[chatTask'[c]] = chatSession'[c]
        BY <2>3 DEF ChatCreate
      <4>3. QED
        BY <4>1, <4>2
    <3>6. \A d \in Chats : chat'[d] # "idle" => chatSession'[d] \in Sessions
      BY <2>3 DEF ChatCreate
    <3>7. QED
      BY <3>2, <3>4, <3>5, <3>6
  <2>4. CASE ChatSave(c)
    BY <2>4, NoTaskAssumption DEF ChatSave
  <2>5. CASE ChatPut(c) \/ ChatInvoke(c) \/ ChatRead(c)
    BY <2>5 DEF ChatPut, ChatInvoke, ChatRead
  <2>6. CASE ChatDeliver(c) \/ ChatBreaks(c)
    <3>1. CASE ChatsEnd({c}) /\ chat[c] # "idle" /\ UNCHANGED <<taskId, owner>>
      BY <3>1 DEF ChatsEnd
    <3>2. CASE ChatTo(c, "read") /\ UNCHANGED <<taskId, owner, chatSession, chatSnap, chatTask>>
               /\ chat[c] = "deliver"
      BY <3>2
    <3>3. QED
      BY <2>6, <3>1, <3>2 DEF ChatDeliver, ChatBreaks
  <2>7. QED
    BY <1>3, <2>1, <2>2, <2>3, <2>4, <2>5, <2>6 DEF ChatNext, ChatGoesOn
<1>4. QED
  BY <1>1, <1>2, <1>3 DEF Next

\* No step leaves a registered task whose execution is over, or takes an
\* execution that goes on out of the registry behind its back.
LEMMA RegistryStep ==
  ASSUME TypeInv, OwnersInv, RegistryInv, Next
  PROVE  RegistryInv'
<1> USE DEF RegistryInv, RegisteredTaskIsUnfinished, CancelHandlerUninterrupted,
            Created, Live
<1>1. ASSUME NEW t \in Tasks, RunNext(t) PROVE RegistryInv'
  <2> USE DEF TypeInv, TypeOK
  <2>1. owner' = owner
    BY <1>1, RunFrame
  <2>2. ASSUME NEW u \in Tasks \ {t}
        PROVE  /\ exec'[u] = exec[u]
               /\ u \in registry' <=> u \in registry
               /\ u \in cancelled' <=> u \in cancelled
    BY <1>1, RunFrame
  <2>3. registry' \subseteq Tasks /\ cancelled' \subseteq Tasks
    BY <1>1, RunPosition
  <2>4. /\ t \in Created /\ exec'[t] \notin {"none", "gone"}
        /\ registry' \subseteq registry
        /\ cancelled' = cancelled \ {t}
        /\ exec'[t] \in CancelHandler => t \notin registry'
        /\ exec'[t] = "done" => t \notin registry'
    BY <1>1, RunPosition
  <2>5. RegisteredTaskIsUnfinished'
    BY <2>1, <2>2, <2>3, <2>4
  <2>6. CancelHandlerUninterrupted'
    BY <2>2, <2>4
  <2>7. registry' \cap cancelled' = {}
    BY <2>2, <2>4
  <2>8. \A u \in cancelled' : Live(u)' /\ u \in Created'
    BY <2>1, <2>2, <2>3, <2>4
  <2>9. \A u \in Tasks \ Created' : exec'[u] = "none"
    BY <2>1, <2>2, <2>4
  <2>10. QED
    BY <2>5, <2>6, <2>7, <2>8, <2>9
<1>2. CASE (\E x \in Stops : StopNext(x)) \/ ServerNext
  <2> USE DEF TypeInv, TypeOK
  <2>1. owner' = owner
    BY <1>2, ControlFrame
  <2>2. CASE exec' = exec /\ UNCHANGED <<registry, cancelled>>
    BY <2>1, <2>2
  <2>3. ASSUME NEW t \in registry, exec' = exec, Cancel(t)
        PROVE  RegistryInv'
    BY <2>1, <2>3 DEF Cancel, Done
  <2>4. CASE Restart
    BY <2>1, <2>4 DEF Restart, CancelHandler
  <2>5. QED
    BY <1>2, <2>2, <2>3, <2>4, ControlFrame
<1>3. ASSUME NEW c \in Chats, ChatNext(c) PROVE RegistryInv'
  <2>1. \A t \in Created : owner'[t] = owner[t]
    BY OwnerStable
  <2>2. CASE ~ChatCreate(c)
    <3>1. owner' = owner /\ registry' = registry
      BY <1>3, <2>2 DEF ChatNext, ChatGoesOn, ChatStart, ChatLookup, ChatSave, ChatPut,
                        ChatInvoke, ChatRead, ChatDeliver, ChatBreaks, execVars
    <3>2. CASE ChatInvoke(c)
      <4>1. chatTask[c] \in Created
        BY <3>2, NoSessionAssumption DEF ChatInvoke, OwnersInv, Holding
      <4>2. QED
        BY <1>3, <3>1, <3>2, <4>1, ChatFrame DEF CancelHandler, Done, TypeInv, TypeOK
    <3>3. CASE ~ChatInvoke(c)
      <4>1. \A t \in Tasks : exec'[t] = exec[t]
        BY <1>3, <3>3, ChatFrame
      <4>2. cancelled' = cancelled
        BY <1>3, ChatFrame
      <4>3. QED
        BY <3>1, <4>1, <4>2 DEF TypeInv, TypeOK
    <3>4. QED
      BY <3>2, <3>3
  <2>3. CASE ChatCreate(c)
    <3>1. chatSession[c] \in Sessions
      BY <2>3 DEF ChatCreate, OwnersInv
    <3>2. PICK t \in Tasks : /\ owner[t] = NoSession
                             /\ owner' = [owner EXCEPT ![t] = chatSession[c]]
                             /\ registry' = registry \cup {t}
      BY <2>3 DEF ChatCreate
    <3>3. owner'[t] # NoSession /\ exec[t] = "none"
      BY <3>1, <3>2, NoSessionAssumption DEF TypeInv, TypeOK
    <3>4. exec' = exec /\ cancelled' = cancelled
      BY <2>3 DEF ChatCreate
    <3>5. QED
      BY <2>1, <3>2, <3>3, <3>4 DEF CancelHandler, TypeInv, TypeOK
  <2>4. QED
    BY <2>2, <2>3
<1>4. QED
  BY <1>1, <1>2, <1>3 DEF Next

(***************************************************************************)
(* The output streams.                                                     *)
(***************************************************************************)

\* The positions in which the last event of the stream is a final one, if the
\* execution was not broken off where no handler put one.
Settled == {"finish", "errorStatus", "cancelStatus", "cleanup", "done"}

\* A request is about to invoke the task.
Invoked(t) == \E c \in Chats : chat[c] = "invoke" /\ chatTask[c] = t

\* An execution that is about to begin has a message to run, or one that came
\* before it ran the message and closed the stream.
StreamOf(t) ==
  /\ exec[t] \in Settled => Closed(t)
  /\ exec[t] \in {"scheduled", "init", "check"} => input[t] # <<>> \/ Closed(t)
  /\ exec[t] = "pop" => input[t] # <<>>
  /\ exec[t] \in {"effect", "recheck"} => output[t] # <<>>
  /\ exec[t] = "none" /\ Invoked(t) => input[t] # <<>>

StreamInv == \A t \in Tasks \ aborted : StreamOf(t)

\* The event put last is the last one of a stream.
LEMMA LastAppend ==
  ASSUME NEW S, NEW seq \in Seq(S), NEW e \in S
  PROVE  Append(seq, e) # <<>> /\ Last(Append(seq, e)) = e
BY DEF Last

\* A step of an execution keeps its own stream as its position demands.
LEMMA RunStream ==
  ASSUME TypeInv, RegistryInv, NEW t \in Tasks, t \notin aborted', StreamOf(t), RunNext(t)
  PROVE  StreamOf(t)'
<1> USE DEF StreamOf, Settled, TypeInv, TypeOK, ExecTo, At, streamVars, execVars
<1>0. exec'[t] # "none"
  BY RunPosition
<1>1. ASSUME NEW e \in EventKind, NEW pc \in {"effect", "errorStatus", "cancelStatus"},
             PutsEvent(t, e, pc), pc # "effect" => e \in Final
      PROVE  StreamOf(t)'
  <2>1. output'[t] = Append(output[t], e) /\ exec'[t] = pc
    BY <1>1 DEF PutsEvent
  <2> HIDE DEF StreamOf
  <2>2. output'[t] # <<>> /\ Last(output'[t]) = e
    <3>1. output[t] \in Seq(EventKind)
      OBVIOUS
    <3>2. Append(output[t], e) # <<>> /\ Last(Append(output[t], e)) = e
      BY <3>1, LastAppend
    <3>3. QED
      BY <2>1, <3>2
  <2> USE DEF StreamOf
  <2>3. pc # "effect" => Closed(t)'
    BY <1>1, <2>2 DEF Closed
  <2>4. QED
    BY <1>1, <2>1, <2>2, <2>3
<1>2. CASE RunPutsError(t) \/ RunPutsDone(t) \/ \E e \in EventKind : RunYields(t, e)
  BY <1>1, <1>2 DEF RunPutsError, RunPutsDone, RunYields, EventKind, Final
<1>3. CASE RunHandlesEvent(t) \/ RunRechecks(t)
  <2>1. UNCHANGED <<input, output>>
    BY <1>3 DEF RunHandlesEvent, RunRechecks, Moves, WritesStatus
  <2>2. /\ output[t] # <<>>
        /\ Last(output[t]) \in {"wait", "done"} => Closed(t)'
    BY <1>3, <2>1 DEF RunHandlesEvent, RunRechecks, Closed, Final
  <2>3. \/ exec'[t] = "cleanup" /\ Last(output[t]) = "wait"
        \/ exec'[t] = "check" /\ (input[t] # <<>> \/ Last(output[t]) = "done")
        \/ exec'[t] \in {"flow", "recheck"}
    BY <1>3 DEF RunHandlesEvent, RunRechecks, Moves, WritesStatus
  <2>4. QED
    BY <2>1, <2>2, <2>3
<1>4. CASE \/ RunBegins(t) \/ RunReady(t) \/ RunChecks(t) \/ RunMissesPop(t) \/ RunFails(t)
  BY <1>4 DEF RunBegins, RunReady, RunChecks, RunMissesPop, RunFails, Moves, Closed
<1>5. CASE RunEnters(t) \/ RunFinishes(t) \/ RunErrorStatus(t) \/ RunCancelStatus(t)
  BY <1>5 DEF RunEnters, RunFinishes, RunErrorStatus, RunCancelStatus, WritesStatus, Closed
<1>6. CASE RunPops(t) \/ RunLosesPop(t) \/ RunEnds(t)
  BY <1>6 DEF RunPops, RunLosesPop, RunEnds, Closed
<1>7. CASE HandlerBreaks(t)
  BY <1>7 DEF HandlerBreaks, ErrorHandler, CancelHandler, Closed
<1>8. CASE RunSeesCancel(t)
  <2>1. exec[t] \notin {"none", "done", "gone"}
    BY <1>8 DEF RunSeesCancel, RegistryInv, Live
  <2>2. /\ output' = output
        /\ exec'[t] = AfterCancel(exec[t])
        /\ exec[t] \notin {"scheduled", "errorPut", "cancelPut"}
    BY <1>8 DEF RunSeesCancel
  <2>3. AfterCancel(exec[t]) \in {"done", "cleanup"} =>
          exec[t] \in {"cleanup", "errorStatus", "cancelStatus"}
    BY <2>1, <2>2 DEF AfterCancel, Body, ExecState, ErrorHandler, CancelHandler
  <2>4. AfterCancel(exec[t]) \in {"done", "cleanup", "cancelPut"}
    BY DEF AfterCancel
  <2>5. QED
    BY <2>2, <2>3, <2>4 DEF Closed
<1>9. QED
  BY <1>2, <1>3, <1>4, <1>5, <1>6, <1>7, <1>8 DEF RunNext, RunGoesOn

\* No step of anybody breaks the relation of executions and their streams.
LEMMA StreamStep ==
  ASSUME TypeInv, OwnersInv, RegistryInv, StreamInv, Next
  PROVE  StreamInv'
<1>1. ASSUME NEW t \in Tasks, RunNext(t) PROVE StreamInv'
  <2>1. ASSUME NEW u \in Tasks \ {t}, u \notin aborted' PROVE StreamOf(u)'
    BY <1>1, <2>1, RunFrame DEF StreamInv, StreamOf, Closed, Invoked, chatVars
  <2>2. t \notin aborted' => StreamOf(t)'
    BY <1>1, RunFrame, RunStream DEF StreamInv
  <2>3. QED
    BY <2>1, <2>2 DEF StreamInv
<1>2. CASE (\E x \in Stops : StopNext(x)) \/ ServerNext
  <2>1. UNCHANGED <<input, output, aborted>>
    BY <1>2, ControlFrame DEF streamVars
  <2>2. ASSUME NEW t \in Tasks, t \notin aborted PROVE StreamOf(t)'
    <3>1. exec'[t] \in {exec[t], "gone"}
      BY <1>2, ControlFrame DEF Restart, RegistryInv
    <3>2. Invoked(t)' => Invoked(t)
      BY <1>2, ControlFrame DEF Invoked
    <3>3. QED
      BY <2>1, <2>2, <3>1, <3>2 DEF StreamInv, StreamOf, Settled, Closed
  <2>3. QED
    BY <2>1, <2>2 DEF StreamInv
<1>3. ASSUME NEW c \in Chats, ChatNext(c) PROVE StreamInv'
  <2>1. UNCHANGED <<output, aborted>>
    BY <1>3, ChatFrame
  <2>2. ASSUME NEW t \in Tasks, t \notin aborted PROVE StreamOf(t)'
    <3>1. input[t] # <<>> => input'[t] # <<>>
      <4>1. CASE ChatPut(c)
        <5>1. input'[t] \in {input[t], Append(input[t], c)}
          BY <4>1 DEF ChatPut, TypeInv, TypeOK
        <5>2. input[t] \in Seq(Chats)
          BY DEF TypeInv, TypeOK
        <5>3. Append(input[t], c) # <<>>
          BY <5>2, LastAppend
        <5>4. QED
          BY <5>1, <5>3
      <4>2. CASE input' = input
        BY <4>2
      <4>3. QED
        BY <1>3, <4>1, <4>2 DEF ChatNext, ChatGoesOn, ChatStart, ChatLookup, ChatCreate,
             ChatSave, ChatInvoke, ChatRead, ChatDeliver, ChatBreaks, streamVars
    <3>2. \/ exec'[t] = exec[t]
          \/ exec'[t] = "scheduled" /\ exec[t] \in {"none", "done"} /\ Invoked(t)
      BY <1>3, ChatFrame DEF Done, ChatInvoke, Invoked
    <3>3. Invoked(t)' => Invoked(t) \/ input'[t] # <<>>
      <4>1. ASSUME NEW d \in Chats, chat'[d] = "invoke", chatTask'[d] = t
            PROVE  Invoked(t) \/ input'[t] # <<>>
        <5>1. CASE d # c
          BY <1>3, <4>1, <5>1, ChatFrame DEF Invoked
        <5>2. CASE d = c /\ ChatPut(c)
          <6>1. chatTask[c] = t /\ input'[t] = Append(input[t], c) /\ input[t] \in Seq(Chats)
            BY <4>1, <5>2 DEF ChatPut, TypeInv, TypeOK
          <6>2. QED
            BY <6>1, LastAppend
        <5>3. CASE d = c /\ ~ChatPut(c)
          BY <1>3, <4>1, <5>3 DEF ChatNext, ChatGoesOn, ChatStart, ChatLookup, ChatJoins,
             ChatsEnd, ChatCreate, ChatSave, ChatInvoke, ChatRead, ChatDeliver, ChatBreaks,
             ChatTo, TypeInv, TypeOK
        <5>4. QED
          BY <5>1, <5>2, <5>3
      <4>2. QED
        BY <4>1 DEF Invoked
    <3>4. QED
      BY <2>1, <2>2, <3>1, <3>2, <3>3 DEF StreamInv, StreamOf, Settled, Closed
  <2>3. QED
    BY <2>1, <2>2 DEF StreamInv
<1>4. QED
  BY <1>1, <1>2, <1>3 DEF Next

(***************************************************************************)
(* The messages.                                                           *)
(***************************************************************************)

Sent == {"invoke", "read", "deliver", "ended"}

\* An execution that takes the first message of its stream leaves every message
\* in one place.
LEMMA MessagePop ==
  ASSUME TypeInv, OwnersInv, MessageInOnePlace, NEW t \in Tasks,
         input[t] # <<>>, input' = [input EXCEPT ![t] = Tail(input[t])],
         ran' \in {ran, ran \cup {<<Head(input[t]), t>>}},
         UNCHANGED <<chat, chatSession, owner>>
  PROVE  MessageInOnePlace'
<1> USE DEF TypeInv, TypeOK
<1>1. /\ input[t] \in Seq(Chats) /\ input[t] # <<>>
      /\ input' = [input EXCEPT ![t] = Tail(input[t])]
      /\ ran' \in {ran, ran \cup {<<Head(input[t]), t>>}}
      /\ UNCHANGED <<chat, chatSession, owner>>
  OBVIOUS
<1>2. /\ Head(input[t]) = input[t][1] /\ 1 \in DOMAIN input[t]
      /\ \A i \in DOMAIN Tail(input[t]) :
           /\ i \in Nat \ {0} /\ i + 1 \in DOMAIN input[t]
           /\ Tail(input[t])[i] = input[t][i + 1]
  BY <1>1
<1>3. ASSUME NEW c \in Chats
      PROVE  /\ Queued(c, t) => (Queued(c, t)' <=> c # Head(input[t]))
             /\ Queued(c, t)' => Queued(c, t)
             /\ \A i, j \in DOMAIN input'[t] :
                  input'[t][i] = c /\ input'[t][j] = c => i = j
  <2>1. \A i, j \in DOMAIN input[t] : input[t][i] = c /\ input[t][j] = c => i = j
    BY DEF MessageInOnePlace
  <2>2. input'[t] = Tail(input[t])
    BY <1>1
  <2>3. ASSUME NEW i \in DOMAIN input'[t] PROVE i + 1 \in DOMAIN input[t]
                                               /\ input'[t][i] = input[t][i + 1]
    BY <1>2, <2>2, <2>3
  <2>4. \A i, j \in DOMAIN input'[t] : input'[t][i] = c /\ input'[t][j] = c => i = j
    <3> SUFFICES ASSUME NEW i \in DOMAIN input'[t], NEW j \in DOMAIN input'[t],
                        input'[t][i] = c, input'[t][j] = c
                 PROVE  i = j
      OBVIOUS
    <3>1. i + 1 = j + 1
      BY <2>1, <2>3
    <3>2. i \in Nat /\ j \in Nat
      BY <1>2, <2>2
    <3>3. QED
      BY <3>1, <3>2
  <2>5. Queued(c, t)' => Queued(c, t) /\ c # Head(input[t])
    <3> SUFFICES ASSUME NEW i \in DOMAIN input'[t], input'[t][i] = c
                 PROVE  Queued(c, t) /\ c # Head(input[t])
      BY DEF Queued
    <3>1. i + 1 # 1
      BY <1>2, <2>2
    <3>2. QED
      BY <1>2, <2>1, <2>3, <3>1 DEF Queued
  <2>6. ASSUME Queued(c, t), c # Head(input[t]) PROVE Queued(c, t)'
    <3>1. PICK i \in DOMAIN input[t] : input[t][i] = c
      BY <2>6 DEF Queued
    <3>2. i \in 2..Len(input[t])
      BY <1>1, <1>2, <2>6, <3>1
    <3>3. i - 1 \in DOMAIN Tail(input[t]) /\ Tail(input[t])[i - 1] = input[t][i]
      BY <1>1, <3>2
    <3>4. QED
      BY <2>2, <3>1, <3>3 DEF Queued
  <2>7. QED
    BY <2>4, <2>5, <2>6
<1>4. ASSUME NEW c \in Chats, NEW u \in Tasks
      PROVE  /\ Queued(c, u)' => Queued(c, u)
             /\ <<c, u>> \in ran' => <<c, u>> \in ran \/ (u = t /\ c = Head(input[t]) /\ Queued(c, t))
             /\ u # t => (Queued(c, u)' <=> Queued(c, u))
  BY <1>1, <1>2, <1>3 DEF Queued
<1>5. ASSUME NEW c \in Chats, NEW u \in Tasks
      PROVE  Holds(u, c)' => Holds(u, c)
  BY <1>4 DEF Holds
<1>6. ASSUME NEW c \in Chats, NEW u \in Tasks
      PROVE  Queued(c, u)' => <<c, u>> \notin ran'
  <2>1. Queued(c, u) => <<c, u>> \notin ran
    BY DEF MessageInOnePlace
  <2>2. u = t /\ Queued(c, u)' => c # Head(input[t])
    BY <1>3, <1>4
  <2>3. QED
    BY <1>4, <2>1, <2>2
<1>7. ASSUME NEW c \in Chats, NEW u \in Tasks
      PROVE  \A i, j \in DOMAIN input'[u] : input'[u][i] = c /\ input'[u][j] = c => i = j
  <2>1. CASE u = t
    BY <1>3, <2>1
  <2>2. CASE u # t
    <3>1. input'[u] = input[u]
      BY <1>1, <2>2
    <3>2. \A i, j \in DOMAIN input[u] : input[u][i] = c /\ input[u][j] = c => i = j
      BY DEF MessageInOnePlace
    <3>3. QED
      BY <3>1, <3>2
  <2>3. QED
    BY <2>1, <2>2
<1>8. ASSUME NEW c \in Chats, NEW u \in Tasks, Holds(u, c)'
      PROVE  /\ \A v \in Tasks : Holds(v, c)' => u = v
             /\ owner'[u] = chatSession'[c]
             /\ chat'[c] \in Sent
  BY <1>1, <1>5, <1>8 DEF MessageInOnePlace, Sent
<1>9. QED
  BY <1>6, <1>7, <1>8 DEF MessageInOnePlace, Sent

\* A chat that puts its message puts a new one, and in one place.
LEMMA MessagePut ==
  ASSUME TypeInv, OwnersInv, MessageInOnePlace, NEW c \in Chats, ChatPut(c)
  PROVE  MessageInOnePlace'
<1> USE DEF TypeInv, TypeOK
<1>1. PICK t \in Tasks : t = chatTask[c] /\ owner[t] = chatSession[c]
  BY DEF ChatPut, OwnersInv, Holding
<1>2. /\ input' = [input EXCEPT ![t] = Append(input[t], c)]
      /\ chat' = [chat EXCEPT ![c] = "invoke"]
      /\ UNCHANGED <<ran, chatSession, owner>>
  BY <1>1 DEF ChatPut, ChatTo, execVars
<1>3. ASSUME NEW u \in Tasks PROVE ~Holds(u, c)
  <2>1. chat[c] = "put"
    BY DEF ChatPut
  <2>2. Holds(u, c) => chat[c] \in Sent
    BY DEF MessageInOnePlace, Sent
  <2>3. QED
    BY <2>1, <2>2 DEF Sent
<1>4. /\ input[t] \in Seq(Chats)
      /\ \A i \in DOMAIN input'[t] :
           \/ i = Len(input[t]) + 1 /\ input'[t][i] = c
           \/ i \in DOMAIN input[t] /\ input'[t][i] = input[t][i]
      /\ \A i \in DOMAIN input[t] : i \in DOMAIN input'[t] /\ input'[t][i] = input[t][i]
      /\ Len(input[t]) + 1 \in DOMAIN input'[t] /\ input'[t][Len(input[t]) + 1] = c
  BY <1>2
<1>5. ASSUME NEW d \in Chats \ {c}, NEW u \in Tasks PROVE Holds(u, d)' <=> Holds(u, d)
  BY <1>2, <1>4, <1>5 DEF Holds, Queued
<1>6. ASSUME NEW u \in Tasks PROVE Holds(u, c)' <=> u = t
  <2>1. u # t => ~Holds(u, c)'
    BY <1>2, <1>3 DEF Holds, Queued
  <2>2. Holds(t, c)'
    BY <1>4 DEF Holds, Queued
  <2>3. QED
    BY <2>1, <2>2
<1>7. ASSUME NEW d \in Chats, NEW u \in Tasks, NEW i \in DOMAIN input'[u],
             NEW j \in DOMAIN input'[u], input'[u][i] = d, input'[u][j] = d
      PROVE  i = j
  <2>1. \A k, l \in DOMAIN input[u] : input[u][k] = d /\ input[u][l] = d => k = l
    BY DEF MessageInOnePlace
  <2>2. \A k \in DOMAIN input[t] : input[t][k] # c
    BY <1>3 DEF Holds, Queued
  <2>3. CASE u = t
    BY <1>4, <1>7, <2>1, <2>2, <2>3
  <2>4. CASE u # t
    BY <1>2, <1>7, <2>1, <2>4
  <2>5. QED
    BY <2>3, <2>4
<1>8. ASSUME NEW d \in Chats, NEW u \in Tasks, Queued(d, u)'
      PROVE  <<d, u>> \notin ran'
  <2>1. d = c => <<d, u>> \notin ran
    BY <1>3 DEF Holds
  <2>2. d # c => Queued(d, u)
    BY <1>2, <1>4, <1>8 DEF Queued
  <2>3. QED
    BY <1>2, <2>1, <2>2 DEF MessageInOnePlace
<1>9. ASSUME NEW d \in Chats, NEW u \in Tasks, Holds(u, d)'
      PROVE  /\ \A v \in Tasks : Holds(v, d)' => u = v
             /\ owner'[u] = chatSession'[d]
             /\ chat'[d] \in Sent
  <2>1. CASE d = c
    BY <1>1, <1>2, <1>6, <1>9, <2>1 DEF Sent
  <2>2. CASE d # c
    <3>1. Holds(u, d) /\ \A v \in Tasks : Holds(v, d)' => Holds(v, d)
      BY <1>5, <1>9, <2>2
    <3>2. (\A v \in Tasks : Holds(v, d) => u = v) /\ owner[u] = chatSession[d] /\ chat[d] \in Sent
      BY <3>1 DEF MessageInOnePlace, Sent
    <3>3. QED
      BY <1>2, <2>2, <3>1, <3>2
  <2>3. QED
    BY <2>1, <2>2
<1>10. ASSUME NEW d \in Chats, NEW u \in Tasks
       PROVE  \A i, j \in DOMAIN input'[u] : input'[u][i] = d /\ input'[u][j] = d => i = j
  BY <1>7
<1>11. QED
  BY <1>8, <1>9, <1>10 DEF MessageInOnePlace, Sent

\* No step of anybody copies a message.
LEMMA MessageStep ==
  ASSUME TypeInv, OwnersInv, RegistryInv, MessageInOnePlace, [Next]_vars
  PROVE  MessageInOnePlace'
<1> USE DEF TypeInv, TypeOK
<1>1. ASSUME /\ UNCHANGED <<input, ran>>
             /\ \A c \in Chats, t \in Tasks : Holds(t, c) =>
                  /\ owner'[t] = owner[t] /\ chatSession'[c] = chatSession[c]
                  /\ chat'[c] \in Sent
      PROVE  MessageInOnePlace'
  <2>1. ASSUME NEW c \in Chats, NEW t \in Tasks PROVE Holds(t, c)' <=> Holds(t, c)
    BY <1>1 DEF Holds, Queued
  <2>2. ASSUME NEW c \in Chats, NEW t \in Tasks PROVE Queued(c, t)' <=> Queued(c, t)
    BY <1>1 DEF Queued
  <2>3. ASSUME NEW c \in Chats, NEW t \in Tasks
        PROVE  /\ \A i, j \in DOMAIN input'[t] : input'[t][i] = c /\ input'[t][j] = c => i = j
               /\ Queued(c, t)' => <<c, t>> \notin ran'
    <3>1. \A i, j \in DOMAIN input[t] : input[t][i] = c /\ input[t][j] = c => i = j
      BY DEF MessageInOnePlace
    <3>2. Queued(c, t) => <<c, t>> \notin ran
      BY DEF MessageInOnePlace
    <3>3. QED
      BY <1>1, <2>2, <3>1, <3>2
  <2>4. ASSUME NEW c \in Chats, NEW t \in Tasks, Holds(t, c)'
        PROVE  /\ \A u \in Tasks : Holds(u, c)' => t = u
               /\ owner'[t] = chatSession'[c] /\ chat'[c] \in Sent
    <3>1. Holds(t, c) /\ \A u \in Tasks : Holds(u, c)' => Holds(u, c)
      BY <2>1, <2>4
    <3>2. (\A u \in Tasks : Holds(u, c) => t = u) /\ owner[t] = chatSession[c]
      BY <3>1 DEF MessageInOnePlace
    <3>3. QED
      BY <1>1, <3>1, <3>2
  <2>5. QED
    BY <2>3, <2>4 DEF MessageInOnePlace, Sent
<1>2. \A c \in Chats, t \in Tasks : Holds(t, c) =>
        chat[c] \in Sent /\ owner[t] = chatSession[c] /\ t \in Created
  <2> SUFFICES ASSUME NEW c \in Chats, NEW t \in Tasks, Holds(t, c)
               PROVE  chat[c] \in Sent /\ owner[t] = chatSession[c] /\ t \in Created
    OBVIOUS
  <2>1. chat[c] \in Sent /\ owner[t] = chatSession[c]
    BY DEF MessageInOnePlace, Sent
  <2>2. chatSession[c] \in Sessions
    BY <2>1 DEF OwnersInv, Sent
  <2>3. QED
    BY <2>1, <2>2, NoSessionAssumption DEF Created
<1>3. \A t \in Created : owner'[t] = owner[t]
  BY OwnerStable DEF vars, execVars
<1>4. ASSUME NEW t \in Tasks, RunNext(t) PROVE MessageInOnePlace'
  <2>1. CASE /\ input[t] # <<>> /\ input' = [input EXCEPT ![t] = Tail(input[t])]
             /\ ran' \in {ran, ran \cup {<<Head(input[t]), t>>}}
    BY <1>4, <2>1, MessagePop, RunFrame DEF chatVars
  <2>2. CASE RunPops(t) \/ RunLosesPop(t) \/ RunSeesCancel(t)
    <3>1. CASE UNCHANGED <<input, ran>>
      BY <1>1, <1>2, <1>4, <3>1, RunFrame DEF chatVars
    <3>2. QED
      BY <2>1, <2>2, <3>1 DEF RunPops, RunLosesPop, RunSeesCancel
  <2>3. CASE ~(RunPops(t) \/ RunLosesPop(t) \/ RunSeesCancel(t))
    <3>1. UNCHANGED <<input, ran>>
      BY <1>4, <2>3 DEF RunNext, RunGoesOn, RunBegins, RunReady, RunChecks,
         RunMissesPop, RunEnters, RunYields, RunHandlesEvent, RunRechecks,
         RunFinishes, RunFails, RunPutsError, RunErrorStatus, RunPutsDone,
         RunCancelStatus, HandlerBreaks, RunEnds,
         Moves, WritesStatus, PutsEvent, streamVars
    <3>2. UNCHANGED <<owner, chat, chatSession>>
      BY <1>4, RunFrame DEF chatVars
    <3>3. QED
      BY <1>1, <1>2, <3>1, <3>2
  <2>4. QED
    BY <2>2, <2>3
<1>5. CASE (\E x \in Stops : StopNext(x)) \/ ServerNext
  <2>1. /\ UNCHANGED <<input, ran, owner, chatSession>>
        /\ \A c \in Chats : chat'[c] \in {chat[c], "ended"}
    BY <1>5, ControlFrame DEF streamVars
  <2>2. QED
    BY <1>1, <1>2, <2>1 DEF Sent
<1>6. ASSUME NEW c \in Chats, ChatNext(c) PROVE MessageInOnePlace'
  <2>1. CASE ChatPut(c)
    BY <2>1, MessagePut
  <2>2. CASE ~ChatPut(c)
    <3>1. UNCHANGED <<input, ran>>
      BY <1>6, <2>2 DEF ChatNext, ChatGoesOn, ChatStart, ChatLookup, ChatCreate,
           ChatSave, ChatInvoke, ChatRead, ChatDeliver, ChatBreaks, streamVars
    <3>2. \A d \in Chats \ {c} : chat'[d] = chat[d] /\ chatSession'[d] = chatSession[d]
      BY <1>6, ChatFrame
    <3>3. chat[c] \in Sent => chat'[c] \in Sent /\ chatSession'[c] = chatSession[c]
      BY <1>6, <2>2 DEF ChatNext, ChatGoesOn, ChatStart, ChatLookup, ChatCreate, ChatSave,
           ChatInvoke, ChatRead, ChatDeliver, ChatBreaks, ChatsEnd, ChatTo, Sent, chatVars
    <3>4. QED
      BY <1>1, <1>2, <1>3, <3>1, <3>2, <3>3
  <2>3. QED
    BY <2>1, <2>2
<1>7. CASE UNCHANGED vars
  BY <1>1, <1>2, <1>7 DEF vars, execVars, streamVars, chatVars
<1>8. QED
  BY <1>4, <1>5, <1>6, <1>7 DEF Next

(***************************************************************************)
(* The theorems.                                                           *)
(***************************************************************************)

IInv == TypeInv /\ OwnersInv /\ RegistryInv /\ StreamInv /\ MessageInOnePlace

\* The inductive invariant holds when the server starts.
LEMMA InitIInv == Init => IInv
<1> SUFFICES ASSUME Init PROVE IInv
  OBVIOUS
<1>1. TypeInv
  BY InitType
<1>2. OwnersInv
  BY DEF Init, OwnersInv, Holding, NoSnap
<1>3. RegistryInv
  BY DEF Init, RegistryInv, RegisteredTaskIsUnfinished, CancelHandlerUninterrupted,
         CancelHandler
<1>4. StreamInv
  BY DEF Init, StreamInv, StreamOf, Settled, Closed, Invoked
<1>5. MessageInOnePlace
  BY DEF Init, MessageInOnePlace, Holds, Queued
<1>6. QED
  BY <1>1, <1>2, <1>3, <1>4, <1>5 DEF IInv

\* The inductive invariant is kept by every step.
LEMMA StepIInv == IInv /\ [Next]_vars => IInv'
<1> SUFFICES ASSUME IInv, [Next]_vars PROVE IInv'
  OBVIOUS
<1>1. CASE Next
  <2>1. TypeInv'
    BY <1>1, ChatType, RunType, StopType, ServerType DEF Next, IInv
  <2>2. QED
    BY <1>1, <2>1, OwnersStep, RegistryStep, StreamStep, MessageStep DEF IInv
<1>2. CASE UNCHANGED vars
  <2> USE <1>2 DEF IInv, vars, rowVars, execVars, streamVars, chatVars, stopVars, serverVars
  <2>1. TypeInv'
    BY DEF TypeInv, TypeOK, FiniteRegistry
  <2>2. OwnersInv'
    BY DEF OwnersInv
  <2>3. RegistryInv'
    BY DEF RegistryInv, RegisteredTaskIsUnfinished, CancelHandlerUninterrupted, Live, Created
  <2>4. StreamInv'
    BY DEF StreamInv, StreamOf, Closed, Invoked
  <2>5. MessageInOnePlace'
    BY MessageStep
  <2>6. QED
    BY <2>1, <2>2, <2>3, <2>4, <2>5
<1>3. QED
  BY <1>1, <1>2

\* get() never returns a task that has finished: whatever ends an execution,
\* and cancel() itself, has taken the task off the registry.
THEOREM RegistryHoldsUnfinishedTasks == Spec => []RegisteredTaskIsUnfinished
<1>1. IInv => RegisteredTaskIsUnfinished
  BY DEF IInv, RegistryInv
<1>2. QED
  BY InitIInv, StepIInv, <1>1, PTL DEF Spec

\* No number of stop requests interrupts the handler that closes the stream of
\* a cancelled task.
THEOREM CancelHandlerRunsOnce == Spec => []CancelHandlerUninterrupted
<1>1. IInv => CancelHandlerUninterrupted
  BY DEF IInv, RegistryInv
<1>2. QED
  BY InitIInv, StepIInv, <1>1, PTL DEF Spec

\* A message is never lost to another task, duplicated or given to two
\* executions, in any interleaving of the requests.
THEOREM MessagesStayInOnePlace == Spec => []MessageInOnePlace
<1>1. IInv => MessageInOnePlace
  BY DEF IInv
<1>2. QED
  BY InitIInv, StepIInv, <1>1, PTL DEF Spec

\* Every way an execution ends leaves a final event for the reader to find, if
\* the execution had begun and Redis did not break it off.
THEOREM StreamsAreClosed == Spec => []EndedStreamIsClosed
<1>1. IInv => EndedStreamIsClosed
  BY DEF IInv, StreamInv, StreamOf, Settled, EndedStreamIsClosed
<1>2. QED
  BY InitIInv, StepIInv, <1>1, PTL DEF Spec
=============================================================================
