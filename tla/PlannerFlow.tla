---------------------------- MODULE PlannerFlow ----------------------------
(***************************************************************************)
(* PlannerReActFlow.invoke() and the two agents it drives: the planner     *)
(* makes a plan and revises it after every step, the ReAct agent carries   *)
(* the steps out with tools.  A message of the user may break off the flow *)
(* wherever it yields an event, a stop, an error or a crash anywhere; what *)
(* the next invocation finds is what the row of the session kept.          *)
(*                                                                         *)
(* One session, one flow at a time (AgentTask says when there are two).    *)
(* A message of the ReAct agent's memory is known by its kind.  The memory *)
(* of the planner, which may not call tools, is left out, and so are the   *)
(* contents of messages and with them what compact() removes.              *)
(***************************************************************************)
EXTENDS Naturals, Sequences

CONSTANTS
  MaxSends,        \* bound: messages of the user
  MaxSteps,        \* bound: steps the planner thinks of
  MaxIterations,   \* agent_config.max_iterations
  MaxRetries,      \* agent_config.max_retries
  MaxMishaps       \* bound: LLM calls that fail, say nothing or cannot be saved

ASSUME BoundsAssumption ==
  {MaxSends, MaxSteps, MaxIterations, MaxRetries, MaxMishaps} \subseteq Nat

VARIABLES
  row,       \* status of the session
  rowPlan,   \* the plan of the latest PlanEvent of the session
  rowMem,    \* the ReAct agent's memory as saved
  pc,        \* where invoke() stands; "off": no execution
  seen,      \* the status invoke() read
  status,    \* FlowStatus
  plan,      \* the steps of self.plan
  step,      \* index of the step being executed, 0 for None
  mem,       \* the ReAct agent's memory
  rounds,    \* iterations of the agent's loop
  tries,     \* failed calls of the LLM
  inbox,     \* messages in the input stream
  sent,      \* messages sent so far
  born,      \* steps thought of so far
  mishaps,   \* LLM calls that went wrong so far
  asked,     \* history: the step that asked, until one is executed again
  spoilt     \* history: what went wrong with the memory

rowVars   == <<row, rowPlan, rowMem>>
flowVars  == <<status, plan, step>>
agentVars == <<mem, rounds, tries>>
inVars    == <<inbox, sent>>
logVars   == <<asked, spoilt>>
vars == <<rowVars, pc, seen, flowVars, agentVars, inVars, born, mishaps, logVars>>

Message == {"system", "broken", "user", "text", "call", "ask", "tool"}

\* An assistant message with a tool call; "ask" calls message_ask_user.
Call == {"call", "ask"}

\* Where the flow has yielded an event and the runner looks for new input.
Yielded == {"titled", "planned", "started", "calling", "called", "failed",
            "finished", "updated", "summed", "published", "over"}

IsDone(s) == s.status \in {"completed", "failed"}

\* get_next_step()
NextStep(p, i) == i \in DOMAIN p /\ ~IsDone(p[i]) /\ \A j \in 1..(i - 1) : IsDone(p[j])

NoNextStep(p) == \A i \in DOMAIN p : IsDone(p[i])

Steps(n) == [i \in 1..n |-> [id |-> born + i, status |-> "pending"]]

LastOf(m) == m[Len(m)]

\* Every tool call is followed by its answer, and every answer follows a call.
Answered(m) ==
  \A i \in DOMAIN m :
    /\ m[i] # "broken"
    /\ m[i] \in Call => i < Len(m) /\ m[i + 1] = "tool"
    /\ m[i] = "tool" => i > 1 /\ m[i - 1] \in Call

\* _add_to_memory(): the system prompt comes first.  Here "system" stands for it
\* and all that was said before the last query, of which nothing is looked at or
\* removed again; "broken" for the same with a call that has no answer.
Added(m, ms) ==
  LET all == (IF m = <<>> THEN <<"system">> ELSE m) \o ms
  IN IF LastOf(all) # "user" THEN all
     ELSE <<IF Answered(all) THEN "system" ELSE "broken", "user">>

-----------------------------------------------------------------------------

Init ==
  /\ row = "pending" /\ rowPlan = <<>> /\ rowMem = <<>>
  /\ pc = "off" /\ seen = "pending"
  /\ status = "idle" /\ plan = <<>> /\ step = 0
  /\ mem = <<>> /\ rounds = 0 /\ tries = 0
  /\ inbox = 0 /\ sent = 0 /\ born = 0 /\ mishaps = 0
  /\ asked = 0 /\ spoilt = {}

At(here, there) == pc = here /\ pc' = there
AtTop(s) == pc = "loop" /\ status = s

\* The invocation is over.  Its locals are gone, and self.plan is set again before
\* the next one reads it.
Leaves(there) ==
  /\ pc' = there
  /\ seen' = "pending" /\ plan' = <<>> /\ step' = 0 /\ rounds' = 0 /\ tries' = 0

-----------------------------------------------------------------------------
(* The runner: chat() feeds it, an execution invokes the flow.             *)

Send ==
  /\ sent < MaxSends
  /\ sent' = sent + 1
  /\ inbox' = inbox + 1
  /\ UNCHANGED <<rowVars, pc, seen, flowVars, agentVars, born, mishaps, logVars>>

\* A new task has a new flow, whose agent reads the saved memory; a task that is
\* invoked again has the flow it had.
Starts ==
  /\ inbox > 0
  /\ At("off", "enter")
  /\ inbox' = inbox - 1
  /\ \/ status' = "idle" /\ mem' = rowMem
     \/ UNCHANGED <<status, mem>>
  /\ UNCHANGED <<rowVars, seen, plan, step, rounds, tries, sent, born, mishaps, logVars>>

\* New input: the runner drops the generator and invokes the flow again.
Interrupt ==
  /\ inbox > 0
  /\ pc \in Yielded
  /\ Leaves("enter")
  /\ inbox' = inbox - 1
  /\ UNCHANGED <<rowVars, status, mem, sent, born, mishaps, logVars>>

RunnerEnds ==
  /\ inbox = 0
  /\ pc = "over" /\ Leaves("off")
  /\ row' = "completed"
  /\ UNCHANGED <<rowPlan, rowMem, status, mem, inVars, born, mishaps, logVars>>

\* stop_session(), or an exception the flow raises: an agent whose tries are
\* used up, a reply that is no JSON, a tool nobody knows, a failing database.
Breaks ==
  /\ Leaves("off")
  /\ row' = "completed"
  /\ UNCHANGED <<rowPlan, rowMem, status, mem, inVars, born, mishaps, logVars>>

\* The server ends: the flow is gone.
Crash ==
  /\ pc # "off"
  /\ Leaves("off")
  /\ status' = "idle" /\ mem' = rowMem
  /\ UNCHANGED <<rowVars, inVars, born, mishaps, logVars>>

-----------------------------------------------------------------------------
(* Entering the flow.                                                      *)

\* Mutant of RolledBack: a question to the user is removed like any call.
MutRolledBack(m) ==
  IF m = <<>> \/ LastOf(m) \notin Call THEN m ELSE SubSeq(m, 1, Len(m) - 1)

\* roll_back(): the last message may not be a call without an answer.
RolledBack(m) ==
  IF m = <<>> \/ LastOf(m) \notin Call THEN m
  ELSE IF LastOf(m) = "ask" THEN Append(m, "tool")
  ELSE SubSeq(m, 1, Len(m) - 1)

\* Mutant of Enters: only a running session is rolled back.
MutEnters ==
  /\ At("enter", "mark")
  /\ seen' = row
  /\ IF row # "running" \/ RolledBack(mem) = mem
       THEN UNCHANGED <<mem, rowMem>>
       ELSE mem' = RolledBack(mem) /\ rowMem' = mem'
  /\ status' = CASE row = "running" -> "planning"
                 [] row = "waiting" -> "executing"
                 [] OTHER           -> status
  /\ UNCHANGED <<row, rowPlan, plan, step, rounds, tries, inVars, born, mishaps, logVars>>

Enters ==
  /\ At("enter", "mark")
  /\ seen' = row
  /\ IF row = "pending" \/ RolledBack(mem) = mem
       THEN UNCHANGED <<mem, rowMem>>
       ELSE mem' = RolledBack(mem) /\ rowMem' = mem'
  /\ status' = CASE row = "running" -> "planning"
                 [] row = "waiting" -> "executing"
                 [] OTHER           -> status
  /\ UNCHANGED <<row, rowPlan, plan, step, rounds, tries, inVars, born, mishaps, logVars>>

\* Mutant of MarksRunning: the stored plan is read without its progress.
MutMarksRunning ==
  /\ At("mark", "loop")
  /\ row' = "running"
  /\ plan' = [i \in DOMAIN rowPlan |-> [rowPlan[i] EXCEPT !.status = "pending"]]
  /\ step' = 0
  /\ UNCHANGED <<rowPlan, rowMem, seen, status, agentVars, inVars, born, mishaps, logVars>>

MarksRunning ==
  /\ At("mark", "loop")
  /\ row' = "running"
  /\ plan' = rowPlan
  /\ step' = 0
  /\ UNCHANGED <<rowPlan, rowMem, seen, status, agentVars, inVars, born, mishaps, logVars>>

LeavesIdle ==
  /\ AtTop("idle")
  /\ status' = "planning"
  /\ UNCHANGED <<rowVars, pc, seen, plan, step, agentVars, inVars, born, mishaps, logVars>>

-----------------------------------------------------------------------------
(* Planning.                                                               *)

CreatesPlan ==
  /\ AtTop("planning")
  /\ \E n \in 0..(MaxSteps - born) : plan' = Steps(n) /\ born' = born + n
  /\ pc' = "titled"
  /\ UNCHANGED <<rowVars, seen, status, step, agentVars, inVars, mishaps, logVars>>

PublishesPlan ==
  /\ At("titled", "planned")
  /\ rowPlan' = plan
  /\ UNCHANGED <<row, rowMem, seen, flowVars, agentVars, inVars, born, mishaps, logVars>>

LeavesPlanning ==
  /\ At("planned", "loop")
  /\ status' = IF plan = <<>> THEN "completed" ELSE "executing"
  /\ UNCHANGED <<rowVars, seen, plan, step, agentVars, inVars, born, mishaps, logVars>>

\* The steps from the first unfinished one on are replaced, if there is one.
Revised(p, new) ==
  IF \E i \in DOMAIN p : NextStep(p, i)
    THEN SubSeq(p, 1, (CHOOSE i \in DOMAIN p : NextStep(p, i)) - 1) \o new
    ELSE p

\* Mutant of UpdatesPlan: the revised plan is not stored with the events.
MutUpdatesPlan ==
  /\ AtTop("updating")
  /\ step # 0
  /\ \E n \in 0..(MaxSteps - born) : plan' = Revised(plan, Steps(n)) /\ born' = born + n
  /\ pc' = "updated"
  /\ UNCHANGED <<rowVars, seen, status, step, agentVars, inVars, mishaps, logVars>>

\* Without a step (a flow invoked again after an error) this raises.
UpdatesPlan ==
  /\ AtTop("updating")
  /\ step # 0
  /\ \E n \in 0..(MaxSteps - born) : plan' = Revised(plan, Steps(n)) /\ born' = born + n
  /\ rowPlan' = plan'
  /\ pc' = "updated"
  /\ UNCHANGED <<row, rowMem, seen, status, step, agentVars, inVars, mishaps, logVars>>

\* Mutant of LeavesUpdating: the status stays.
MutLeavesUpdating ==
  /\ At("updated", "loop")
  /\ UNCHANGED <<rowVars, seen, flowVars, agentVars, inVars, born, mishaps, logVars>>

LeavesUpdating ==
  /\ At("updated", "loop")
  /\ status' = "executing"
  /\ UNCHANGED <<rowVars, seen, plan, step, agentVars, inVars, born, mishaps, logVars>>

-----------------------------------------------------------------------------
(* Executing.                                                              *)

\* Mutant of ExecutesStep: the index is counted from zero.
MutExecutesStep ==
  /\ AtTop("executing")
  /\ \E i \in DOMAIN plan :
       /\ NextStep(plan, i)
       /\ step' = i - 1
       /\ plan' = [plan EXCEPT ![i].status = "running"]
  /\ pc' = "started"
  /\ asked' = 0
  /\ UNCHANGED <<rowVars, seen, status, agentVars, inVars, born, mishaps, spoilt>>

ExecutesStep ==
  /\ AtTop("executing")
  /\ \E i \in DOMAIN plan :
       /\ NextStep(plan, i)
       /\ step' = i
       /\ plan' = [plan EXCEPT ![i].status = "running"]
  /\ pc' = "started"
  /\ asked' = 0
  /\ UNCHANGED <<rowVars, seen, status, agentVars, inVars, born, mishaps, spoilt>>

LeavesExecuting ==
  /\ AtTop("executing")
  /\ NoNextStep(plan)
  /\ status' = "summarizing"
  /\ step' = 0
  /\ UNCHANGED <<rowVars, pc, seen, plan, agentVars, inVars, born, mishaps, logVars>>

\* A message is in the memory, and the database fails to save it: invoke() raises.
NotSaved(ms) ==
  /\ mishaps < MaxMishaps /\ mishaps' = mishaps + 1
  /\ mem' = Added(mem, ms)
  /\ row' = "completed"
  /\ Leaves("off")
  /\ UNCHANGED <<rowPlan, rowMem, status, inVars, born, logVars>>

\* The query of execute_step() or summarize() enters the memory.
Asks ==
  /\ pc = "started" \/ AtTop("summarizing")
  /\ \/ /\ mem' = Added(mem, <<"user">>)
        /\ rowMem' = mem'
        /\ rounds' = 0
        /\ pc' = "llm"
        /\ UNCHANGED <<row, rowPlan, seen, flowVars, tries, inVars, born, mishaps, logVars>>
     \/ NotSaved(<<"user">>)

\* The last iteration is over: the loop ends whatever the LLM said.  Otherwise a
\* call is carried out, unless it names no function.
Decides(m) ==
  IF rounds = MaxIterations THEN {"exceeded"}
  ELSE IF m \notin Call THEN {"reply"}
  ELSE IF m = "ask" THEN {"calling"} ELSE {"calling", "skipped"}

\* The LLM answers with text or a tool call.
LLMAnswers ==
  /\ pc = "llm"
  /\ tries < MaxRetries
  /\ \E m \in {"text", "call", "ask"} : mem' = Added(mem, <<m>>) /\ pc' \in Decides(m)
  /\ rowMem' = mem'
  /\ tries' = 0
  /\ UNCHANGED <<row, rowPlan, seen, flowVars, rounds, inVars, born, mishaps, logVars>>

Mishap ==
  /\ tries < MaxRetries /\ mishaps < MaxMishaps
  /\ tries' = tries + 1 /\ mishaps' = mishaps + 1

LLMIsEmpty ==
  /\ pc = "llm"
  /\ mem' = Added(mem, <<"text", "user">>)
  /\ rowMem' = mem'
  /\ Mishap
  /\ UNCHANGED <<row, rowPlan, pc, seen, flowVars, rounds, inVars, born, logVars>>

LLMFails ==
  /\ pc = "llm"
  /\ Mishap
  /\ UNCHANGED <<rowVars, pc, seen, flowVars, mem, rounds, inVars, born, logVars>>

\* The answer is in the memory when saving it fails, and the LLM is asked again.
AnswerIsNotSaved ==
  /\ pc = "llm"
  /\ \E ms \in {<<"text">>, <<"call">>, <<"ask">>, <<"text", "user">>} :
       /\ mem' = Added(mem, ms)
       /\ spoilt' = IF ms[1] \in Call THEN spoilt \cup {"save"} ELSE spoilt
  /\ Mishap
  /\ UNCHANGED <<rowVars, pc, seen, flowVars, rounds, inVars, born, asked>>

\* Asking the user ends a step with a WaitEvent, not a summary.
ToolReturns ==
  /\ pc = "calling"
  /\ pc' = IF status = "executing" /\ LastOf(mem) = "ask" THEN "asking" ELSE "called"
  /\ UNCHANGED <<rowVars, seen, flowVars, agentVars, inVars, born, mishaps, logVars>>

Waits ==
  /\ pc = "asking" /\ Leaves("off")
  /\ row' = "waiting"
  /\ asked' = plan[step].id
  /\ UNCHANGED <<rowPlan, rowMem, status, mem, inVars, born, mishaps, spoilt>>

ToolAnswers ==
  /\ pc = "called"
  /\ \/ /\ mem' = Added(mem, <<"tool">>)
        /\ rowMem' = mem'
        /\ rounds' = rounds + 1
        /\ pc' = "llm"
        /\ UNCHANGED <<row, rowPlan, seen, flowVars, tries, inVars, born, mishaps, logVars>>
     \/ NotSaved(<<"tool">>)

\* A call that names no function is passed over, and the LLM is asked again with
\* nothing added.
SkipsCall ==
  /\ At("skipped", "llm")
  /\ rounds' = rounds + 1
  /\ spoilt' = spoilt \cup {"shape"}
  /\ UNCHANGED <<rowVars, seen, flowVars, mem, tries, inVars, born, mishaps, asked>>

\* The ErrorEvent of the agent makes the step a failed one, for now.
Exceeds ==
  /\ At("exceeded", "failed")
  /\ plan' = IF status = "executing" THEN [plan EXCEPT ![step].status = "failed"] ELSE plan
  /\ spoilt' = IF LastOf(mem) \in Call THEN spoilt \cup {"limit"} ELSE spoilt
  /\ UNCHANGED <<rowVars, seen, status, step, agentVars, inVars, born, mishaps, asked>>

\* The content of the last answer is the result, of a step or of all.
Replies ==
  /\ pc \in {"reply", "failed"}
  /\ IF status = "executing"
       THEN pc' = "finished" /\ plan' = [plan EXCEPT ![step].status = "completed"]
       ELSE pc' = "summed" /\ plan' = plan
  /\ UNCHANGED <<rowVars, seen, status, step, agentVars, inVars, born, mishaps, logVars>>

Compacts ==
  /\ At("finished", "loop")
  /\ rowMem' = mem
  /\ status' = "updating"
  /\ UNCHANGED <<row, rowPlan, seen, plan, step, agentVars, inVars, born, mishaps, logVars>>

LeavesSummarizing ==
  /\ At("summed", "loop")
  /\ status' = "completed"
  /\ UNCHANGED <<rowVars, seen, plan, step, agentVars, inVars, born, mishaps, logVars>>

Completes ==
  /\ AtTop("completed")
  /\ status' = "idle"
  /\ rowPlan' = plan
  /\ pc' = "published"
  /\ UNCHANGED <<row, rowMem, seen, plan, step, agentVars, inVars, born, mishaps, logVars>>

YieldsDone ==
  /\ At("published", "over")
  /\ UNCHANGED <<rowVars, seen, flowVars, agentVars, inVars, born, mishaps, logVars>>

-----------------------------------------------------------------------------

EnterNext == Interrupt \/ Enters \/ MarksRunning \/ LeavesIdle

PlanNext ==
  \/ CreatesPlan \/ PublishesPlan \/ LeavesPlanning \/ UpdatesPlan \/ LeavesUpdating
  \/ Completes \/ YieldsDone \/ RunnerEnds

AgentNext ==
  \/ ExecutesStep \/ LeavesExecuting \/ Asks \/ LLMAnswers \/ LLMIsEmpty \/ LLMFails
  \/ AnswerIsNotSaved \/ ToolReturns \/ Waits \/ ToolAnswers \/ SkipsCall \/ Exceeds
  \/ Replies \/ Compacts \/ LeavesSummarizing

Next == Send \/ Starts \/ Breaks \/ Crash \/ EnterNext \/ PlanNext \/ AgentNext

Spec == Init /\ [][Next]_vars

\* The event loop runs an invocation on; the LLM, the tools and the database
\* answer or fail, and where the flow can only raise it does.
Raises == pc # "off" /\ Breaks

Fairness == WF_vars(Raises \/ EnterNext \/ PlanNext \/ AgentNext)

FairSpec == Spec /\ Fairness

-----------------------------------------------------------------------------
(* Properties.                                                             *)

Status == {"pending", "running", "waiting", "completed"}
FlowStatus == {"idle", "planning", "executing", "updating", "summarizing", "completed"}
StepRecord == [id : Nat, status : {"pending", "running", "completed", "failed"}]

\* Every variable has its type, and a step that is being executed is one of the
\* plan.
TypeOK ==
  /\ row \in Status /\ seen \in Status
  /\ rowPlan \in Seq(StepRecord) /\ plan \in Seq(StepRecord)
  /\ rowMem \in Seq(Message) /\ mem \in Seq(Message)
  /\ pc \in Yielded \cup {"off", "enter", "mark", "loop", "llm", "reply", "asking", "exceeded",
                        "skipped"}
  /\ status \in FlowStatus
  /\ step \in Nat
  /\ rounds \in Nat /\ tries \in Nat
  /\ inbox \in Nat /\ sent \in Nat /\ born \in Nat /\ mishaps \in Nat /\ asked \in Nat
  /\ spoilt \subseteq {"save", "limit", "shape"}
  /\ pc = "asking" => step \in DOMAIN plan
  /\ pc \in {"started", "llm", "calling", "called", "exceeded", "failed", "reply", "skipped"}
       /\ status = "executing" => step \in DOMAIN plan

\* The LLM is never asked with a tool call in the memory that has no answer:
\* neither after an interruption, a stop, an error or a crash between the call
\* and its answer, nor in a new task that reads the saved memory.  Excepted is a
\* memory that was spoilt: an answer with a call could not be saved, the iterations
\* ran out at a call, or a call named no function and was passed over.
CallsAreAnswered == pc = "llm" /\ spoilt = {} => Answered(mem)

\* When the flow goes on after a wait, the last thing the agent remembers is
\* its question, now with the user's reply as the answer.
ReplyAnswersTheQuestion ==
  pc = "mark" /\ seen = "waiting" =>
    Len(mem) > 1 /\ LastOf(mem) = "tool" /\ mem[Len(mem) - 1] = "ask"

\* And the step it goes on with, found in the plan of the stored events, is the
\* one that asked.
ResumesWhereItAsked ==
  [][pc = "loop" /\ pc' = "started" /\ step = 0 /\ seen = "waiting"
       => plan'[step'].id = asked]_vars

\* A step that was completed is in the revised plan.  One the stored plan shows as
\* completed is not taken back or dropped, unless another plan, of other steps,
\* replaces the whole; and it is never the one the flow starts, not even a flow that
\* goes on after a wait or an error.  (A step that finished, but whose revised plan was
\* not stored yet when the invocation ended, is executed again.)
Completed(p) == {p[i].id : i \in {j \in DOMAIN p : p[j].status = "completed"}}
Ids(p) == {p[i].id : i \in DOMAIN p}

FinishedStepsStay ==
  [][/\ Completed(rowPlan) \subseteq Completed(rowPlan') \/ Ids(rowPlan) \cap Ids(rowPlan') = {}
     /\ pc' = "updated" => Completed(plan) \subseteq Completed(rowPlan')
     /\ pc = "loop" /\ pc' = "started" => plan'[step'].id \notin Completed(rowPlan)]_vars

\* Every invocation ends, whatever the LLM answers, once the planner stops
\* thinking of further steps.
InvocationEnds == pc # "off" ~> pc = "off"

\* What roll_back() says of itself: "该函数确保Agent的消息列表状态时正确的", it makes
\* sure that the list of messages is in a correct state.
RollBackRepairs == pc = "mark" /\ seen # "pending" => Answered(mem)
=============================================================================
