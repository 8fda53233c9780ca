------------------------- MODULE PlannerFlowProofs -------------------------
(***************************************************************************)
(* Proofs about PlannerFlow, for any number of messages, steps, iterations *)
(* and failures: its type, that the LLM never sees a tool call without an  *)
(* answer, that a reply answers the question that was asked, that finished *)
(* steps stay finished, and that after a wait the step goes on that asked. *)
(***************************************************************************)
EXTENDS PlannerFlow, SequenceTheorems, TLAPS

-----------------------------------------------------------------------------
(* The sequences.                                                          *)

\* A message behind others: what the memory is made of then.
LEMMA Behind ==
  ASSUME NEW m \in Seq(Message), NEW x \in Message
  PROVE  /\ m \o <<x>> \in Seq(Message)
         /\ Len(m \o <<x>>) = Len(m) + 1
         /\ \A i \in 1..Len(m) : (m \o <<x>>)[i] = m[i]
         /\ (m \o <<x>>)[Len(m) + 1] = x
<1>1. <<x>> \in Seq(Message) /\ Len(<<x>>) = 1 /\ <<x>>[1] = x
  OBVIOUS
<1>2. QED
  BY <1>1, ConcatProperties

\* _add_to_memory() keeps a list of messages one.
LEMMA AddedType ==
  ASSUME NEW m \in Seq(Message), NEW ms \in Seq(Message)
  PROVE  Added(m, ms) \in Seq(Message)
<1> DEFINE start == IF m = <<>> THEN <<"system">> ELSE m
<1>1. start \in Seq(Message)
  <2>1. <<"system">> \in Seq(Message)
    BY DEF Message
  <2>2. QED
    BY <2>1
<1>2. start \o ms \in Seq(Message)
  BY <1>1, ConcatProperties
<1>3. <<"system", "user">> \in Seq(Message) /\ <<"broken", "user">> \in Seq(Message)
  BY DEF Message
<1>4. Added(m, ms) \in {start \o ms, <<"system", "user">>, <<"broken", "user">>}
  BY DEF Added
<1>5. QED
  BY <1>2, <1>3, <1>4

\* roll_back() keeps a list of messages one.
LEMMA RolledBackType ==
  ASSUME NEW m \in Seq(Message)
  PROVE  RolledBack(m) \in Seq(Message)
<1>1. Append(m, "tool") \in Seq(Message)
  BY DEF Message
<1>2. m # <<>> => SubSeq(m, 1, Len(m) - 1) \in Seq(Message)
  BY SubSeqProperties, LenProperties, ElementOfSeq
<1>3. QED
  BY <1>1, <1>2 DEF RolledBack

\* Changing the status of a step keeps the plan one, of the same steps.
LEMMA PlanExcept ==
  ASSUME NEW p \in Seq(StepRecord), NEW i \in DOMAIN p,
         NEW s \in {"pending", "running", "completed", "failed"}
  PROVE  /\ [p EXCEPT ![i].status = s] \in Seq(StepRecord)
         /\ DOMAIN [p EXCEPT ![i].status = s] = DOMAIN p
<1>1. i \in 1..Len(p)
  BY LenProperties
<1>2. p[i] \in StepRecord
  BY <1>1, ElementOfSeq
<1>3. [p[i] EXCEPT !.status = s] \in StepRecord
  BY <1>2 DEF StepRecord
<1>4. [p EXCEPT ![i] = [p[i] EXCEPT !.status = s]] \in Seq(StepRecord)
  BY <1>1, <1>3, ExceptSeq
<1>5. [p EXCEPT ![i].status = s] = [p EXCEPT ![i] = [p[i] EXCEPT !.status = s]]
  OBVIOUS
<1>6. QED
  BY <1>4, <1>5

\* What the planner thinks of is a plan.
LEMMA StepsType ==
  ASSUME born \in Nat, NEW n \in Nat
  PROVE  Steps(n) \in Seq(StepRecord)
<1>1. \A i \in 1..n : [id |-> born + i, status |-> "pending"] \in StepRecord
  BY DEF StepRecord
<1>2. Steps(n) \in [1..n -> StepRecord]
  BY <1>1 DEF Steps
<1>3. QED
  BY <1>2, SeqDef

\* And so is a revised plan.
LEMMA RevisedType ==
  ASSUME NEW p \in Seq(StepRecord), NEW q \in Seq(StepRecord)
  PROVE  Revised(p, q) \in Seq(StepRecord)
<1> DEFINE k == CHOOSE i \in DOMAIN p : NextStep(p, i)
<1>1. CASE ~\E i \in DOMAIN p : NextStep(p, i)
  BY <1>1 DEF Revised
<1>2. CASE \E i \in DOMAIN p : NextStep(p, i)
  <2>1. k \in 1..Len(p)
    BY <1>2, LenProperties
  <2>2. SubSeq(p, 1, k - 1) \in Seq(StepRecord)
    <3>1. \A i \in 1..(k - 1) : i \in 1..Len(p)
      BY <2>1, LenProperties
    <3>2. \A i \in 1..(k - 1) : p[i] \in StepRecord
      BY <3>1, ElementOfSeq
    <3>3. QED
      BY <2>1, <3>2, SubSeqProperties
  <2>3. QED
    BY <1>2, <2>2, ConcatProperties DEF Revised
<1>3. QED
  BY <1>1, <1>2

-----------------------------------------------------------------------------
(* Types.                                                                  *)

\* The values of the variables.  The type invariant has this part and another,
\* where the flow can stand.
Data ==
  /\ row \in Status /\ seen \in Status
  /\ rowPlan \in Seq(StepRecord) /\ plan \in Seq(StepRecord)
  /\ rowMem \in Seq(Message) /\ mem \in Seq(Message)
  /\ status \in FlowStatus
  /\ step \in Nat
  /\ rounds \in Nat /\ tries \in Nat
  /\ inbox \in Nat /\ sent \in Nat /\ born \in Nat /\ mishaps \in Nat /\ asked \in Nat
  /\ spoilt \subseteq {"save", "limit", "shape"}

\* Where a step, or the summary, is being carried out.
InStep == {"started", "llm", "calling", "called", "exceeded", "failed", "reply", "skipped"}

\* The points the flow can reach; a step in execution is one of the plan.
Place ==
  /\ pc \in Yielded \cup {"off", "enter", "mark", "loop", "llm", "reply", "asking", "exceeded",
                        "skipped"}
  /\ pc = "asking" => step \in DOMAIN plan
  /\ pc \in InStep /\ status = "executing" => step \in DOMAIN plan

\* Together they are the type invariant.
LEMMA TypeSplit == TypeOK <=> Data /\ Place
BY DEF TypeOK, Data, Place, InStep

\* The messages the agent adds are lists of messages.
LEMMA MessageLists ==
  /\ \A x \in Message : <<x>> \in Seq(Message)
  /\ <<"text", "user">> \in Seq(Message)
BY DEF Message

\* And there is a plan without steps.
LEMMA NoSteps == <<>> \in Seq(StepRecord)
OBVIOUS

\* The values keep their types when the runner acts ...
LEMMA RunnerData ==
  ASSUME Data, Send \/ Starts \/ Breaks \/ Crash \/ Interrupt \/ RunnerEnds
  PROVE  Data'
<1> USE NoSteps DEF Data, rowVars, flowVars, agentVars, inVars, logVars, At, Leaves, Status,
            FlowStatus
<1>1. CASE Send
  BY <1>1 DEF Send
<1>2. CASE Starts
  BY <1>2 DEF Starts
<1>3. CASE Breaks
  BY <1>3 DEF Breaks
<1>4. CASE Crash
  BY <1>4 DEF Crash
<1>5. CASE Interrupt
  BY <1>5 DEF Interrupt
<1>6. CASE RunnerEnds
  BY <1>6 DEF RunnerEnds
<1>7. QED
  BY <1>1, <1>2, <1>3, <1>4, <1>5, <1>6

\* ... when the flow does ...
LEMMA FlowData ==
  ASSUME Data,
         \/ Enters \/ MarksRunning \/ LeavesIdle \/ CreatesPlan \/ PublishesPlan \/ LeavesPlanning
         \/ UpdatesPlan \/ LeavesUpdating \/ Completes \/ YieldsDone \/ Compacts
         \/ LeavesExecuting \/ LeavesSummarizing
  PROVE  Data'
<1> USE BoundsAssumption DEF Data, rowVars, flowVars, agentVars, inVars, logVars, Status, FlowStatus
<1>1. CASE Enters
  <2>1. mem' \in Seq(Message) /\ rowMem' \in Seq(Message)
    BY <1>1, RolledBackType DEF Enters
  <2>2. QED
    BY <1>1, <2>1 DEF Enters
<1>2. CASE MarksRunning
  BY <1>2 DEF MarksRunning
<1>3. CASE LeavesIdle
  BY <1>3 DEF LeavesIdle
<1>4. CASE CreatesPlan
  <2>1. PICK n \in 0..(MaxSteps - born) : plan' = Steps(n) /\ born' = born + n
    BY <1>4 DEF CreatesPlan
  <2>2. n \in Nat /\ plan' \in Seq(StepRecord)
    BY <2>1, StepsType
  <2>3. QED
    BY <1>4, <2>1, <2>2 DEF CreatesPlan
<1>5. CASE UpdatesPlan
  <2>1. PICK n \in 0..(MaxSteps - born) : plan' = Revised(plan, Steps(n)) /\ born' = born + n
    BY <1>5 DEF UpdatesPlan
  <2>2. n \in Nat /\ plan' \in Seq(StepRecord)
    BY <2>1, StepsType, RevisedType
  <2>3. QED
    BY <1>5, <2>1, <2>2 DEF UpdatesPlan
<1>6. CASE PublishesPlan \/ YieldsDone
  BY <1>6 DEF PublishesPlan, YieldsDone
<1>7. CASE LeavesPlanning \/ LeavesUpdating
  BY <1>7 DEF LeavesPlanning, LeavesUpdating
<1>8. CASE Completes \/ Compacts
  BY <1>8 DEF Completes, Compacts
<1>9. CASE LeavesExecuting
  BY <1>9 DEF LeavesExecuting
<1>10. CASE LeavesSummarizing
  BY <1>10 DEF LeavesSummarizing
<1>11. QED
  BY <1>1, <1>2, <1>3, <1>4, <1>5, <1>6, <1>7, <1>8, <1>9, <1>10

\* Finishing the step that is carried out gives a plan.
LEMMA FinishedStepType ==
  ASSUME Data, Place, pc \in InStep, NEW s \in {"completed", "failed"}
  PROVE  (IF status = "executing" THEN [plan EXCEPT ![step].status = s] ELSE plan) \in Seq(StepRecord)
<1>1. plan \in Seq(StepRecord)
  BY DEF Data
<1>2. status = "executing" => step \in DOMAIN plan
  BY DEF Place
<1>3. QED
  BY <1>1, <1>2, PlanExcept

\* The step that asks the user has an identity.
LEMMA StepId ==
  ASSUME Data, step \in DOMAIN plan
  PROVE  plan[step].id \in Nat
<1>1. plan \in Seq(StepRecord)
  BY DEF Data
<1>2. plan[step] \in StepRecord
  BY <1>1, LenProperties, ElementOfSeq
<1>3. QED
  BY <1>2 DEF StepRecord

\* The values keep their types also when the agent carries out a step ...
LEMMA StepData ==
  ASSUME Data, Place, ExecutesStep \/ Exceeds \/ Replies \/ Waits
  PROVE  Data'
<1> USE DEF Data, rowVars, flowVars, agentVars, inVars, logVars
<1>1. CASE ExecutesStep
  <2>1. PICK i \in DOMAIN plan : step' = i /\ plan' = [plan EXCEPT ![i].status = "running"]
    BY <1>1 DEF ExecutesStep
  <2>2. plan' \in Seq(StepRecord)
    BY <2>1, PlanExcept
  <2>3. i \in Nat
    BY LenProperties
  <2>4. QED
    BY <1>1, <2>1, <2>2, <2>3 DEF ExecutesStep
<1>2. CASE Exceeds
  <2>1. plan' \in Seq(StepRecord)
    BY <1>2, FinishedStepType DEF Exceeds, InStep, At
  <2>2. spoilt' \subseteq {"save", "limit", "shape"}
    BY <1>2 DEF Exceeds
  <2>3. QED
    BY <1>2, <2>1, <2>2 DEF Exceeds
<1>3. CASE Replies
  <2>1. plan' \in Seq(StepRecord)
    <3>1. plan' = IF status = "executing" THEN [plan EXCEPT ![step].status = "completed"] ELSE plan
      BY <1>3 DEF Replies
    <3>2. pc \in InStep
      BY <1>3 DEF Replies, InStep
    <3>3. QED
      BY <3>1, <3>2, FinishedStepType
  <2>2. QED
    BY <1>3, <2>1 DEF Replies
<1>4. CASE Waits
  <2>1. plan[step].id \in Nat
    BY <1>4, StepId DEF Waits, Place
  <2>2. QED
    BY <1>4, <2>1, NoSteps DEF Waits, Leaves, Status
<1>5. QED
  BY <1>1, <1>2, <1>3, <1>4

\* ... and when it talks to the LLM.
LEMMA TalkData ==
  ASSUME Data,
         \/ Asks \/ LLMAnswers \/ LLMIsEmpty \/ LLMFails \/ AnswerIsNotSaved \/ ToolReturns
         \/ ToolAnswers \/ SkipsCall
  PROVE  Data'
<1> USE DEF Data, rowVars, flowVars, agentVars, inVars, logVars, Mishap
<1>1. ASSUME NEW x \in Message PROVE Added(mem, <<x>>) \in Seq(Message)
  BY <1>1, MessageLists, AddedType
<1>2. Added(mem, <<"text", "user">>) \in Seq(Message)
  BY MessageLists, AddedType
<1>3. ASSUME NEW x \in Message, NotSaved(<<x>>) PROVE Data'
  <2>1. mem' \in Seq(Message)
    BY <1>1, <1>3 DEF NotSaved
  <2>2. QED
    BY <1>3, <2>1, NoSteps DEF NotSaved, Leaves, Status
<1>4. "user" \in Message /\ "tool" \in Message /\ {"text", "call", "ask"} \subseteq Message
  BY DEF Message
<1>5. CASE Asks
  <2>1. CASE NotSaved(<<"user">>)
    BY <1>3, <1>4, <2>1
  <2>2. CASE ~NotSaved(<<"user">>)
    <3>1. mem' \in Seq(Message) /\ rowMem' = mem'
      BY <1>1, <1>4, <1>5, <2>2 DEF Asks
    <3>2. UNCHANGED <<row, rowPlan, seen, flowVars, tries, inVars, born, mishaps, logVars>> /\ rounds' \in Nat
      BY <1>5, <2>2 DEF Asks
    <3>3. QED
      BY <3>1, <3>2
  <2>3. QED
    BY <2>1, <2>2
<1>6. CASE ToolAnswers
  <2>1. CASE NotSaved(<<"tool">>)
    BY <1>3, <1>4, <2>1
  <2>2. CASE ~NotSaved(<<"tool">>)
    <3>1. mem' \in Seq(Message) /\ rowMem' = mem'
      BY <1>1, <1>4, <1>6, <2>2 DEF ToolAnswers
    <3>2. UNCHANGED <<row, rowPlan, seen, flowVars, tries, inVars, born, mishaps, logVars>> /\ rounds' \in Nat
      BY <1>6, <2>2 DEF ToolAnswers
    <3>3. QED
      BY <3>1, <3>2
  <2>3. QED
    BY <2>1, <2>2
<1>7. CASE LLMAnswers
  <2>1. mem' \in Seq(Message) /\ rowMem' = mem'
    BY <1>1, <1>4, <1>7 DEF LLMAnswers
  <2>2. QED
    BY <1>7, <2>1 DEF LLMAnswers
<1>8. CASE LLMIsEmpty
  BY <1>2, <1>8 DEF LLMIsEmpty
<1>9. CASE LLMFails
  BY <1>9 DEF LLMFails
<1>10. CASE ToolReturns
  BY <1>10 DEF ToolReturns
<1>11. CASE AnswerIsNotSaved
  <2>1. mem' \in Seq(Message)
    BY <1>1, <1>2, <1>4, <1>11 DEF AnswerIsNotSaved
  <2>2. spoilt' \subseteq {"save", "limit", "shape"}
    BY <1>11 DEF AnswerIsNotSaved
  <2>3. QED
    BY <1>11, <2>1, <2>2 DEF AnswerIsNotSaved
<1>12. CASE SkipsCall
  BY <1>12 DEF SkipsCall
<1>13. QED
  BY <1>5, <1>6, <1>7, <1>8, <1>9, <1>10, <1>11, <1>12

\* The step that is carried out stays one of the plan.
LEMMA PlaceStep ==
  ASSUME Data, Place, Next
  PROVE  Place'
<1> USE DEF Place, InStep, Yielded, At, AtTop, rowVars, flowVars, agentVars, inVars, logVars
<1>1. CASE Send \/ Starts \/ Breaks \/ Crash \/ Interrupt \/ RunnerEnds
  BY <1>1 DEF Send, Starts, Breaks, Crash, Interrupt, RunnerEnds, Leaves
<1>2. CASE Enters \/ MarksRunning \/ LeavesIdle \/ CreatesPlan \/ PublishesPlan \/ LeavesPlanning
  BY <1>2 DEF Enters, MarksRunning, LeavesIdle, CreatesPlan, PublishesPlan, LeavesPlanning
<1>3. CASE UpdatesPlan \/ LeavesUpdating \/ Completes \/ YieldsDone \/ Compacts
  BY <1>3 DEF UpdatesPlan, LeavesUpdating, Completes, YieldsDone, Compacts
<1>4. CASE LeavesExecuting \/ LeavesSummarizing \/ Waits
  BY <1>4 DEF LeavesExecuting, LeavesSummarizing, Waits, Leaves
<1>5. CASE ExecutesStep
  <2>1. PICK i \in DOMAIN plan : step' = i /\ plan' = [plan EXCEPT ![i].status = "running"]
    BY <1>5 DEF ExecutesStep
  <2>2. DOMAIN plan' = DOMAIN plan
    BY <2>1
  <2>3. QED
    BY <1>5, <2>1, <2>2 DEF ExecutesStep
<1>6. CASE Exceeds
  <2>1. DOMAIN plan' = DOMAIN plan
    BY <1>6 DEF Exceeds
  <2>2. QED
    BY <1>6, <2>1 DEF Exceeds
<1>7. CASE Replies
  BY <1>7 DEF Replies
<1>8. CASE LLMAnswers
  <2>1. pc' \in {"exceeded", "calling", "skipped", "reply"}
    BY <1>8 DEF LLMAnswers, Decides
  <2>2. QED
    BY <1>8, <2>1 DEF LLMAnswers
<1>9. CASE LLMIsEmpty \/ LLMFails \/ AnswerIsNotSaved
  BY <1>9 DEF LLMIsEmpty, LLMFails, AnswerIsNotSaved
<1>10. CASE ToolReturns \/ SkipsCall
  BY <1>10 DEF ToolReturns, SkipsCall
<1>11. CASE Asks
  BY <1>11 DEF Asks, NotSaved, Leaves
<1>12. CASE ToolAnswers
  BY <1>12 DEF ToolAnswers, NotSaved, Leaves
<1>13. QED
  BY <1>1, <1>2, <1>3, <1>4, <1>5, <1>6, <1>7, <1>8, <1>9, <1>10, <1>11, <1>12
     DEF Next, EnterNext, PlanNext, AgentNext

\* Every variable keeps its type, and a step that is executed is one of the plan.
THEOREM TypeCorrect == Spec => []TypeOK
<1>1. Init => Data /\ Place
  BY NoSteps DEF Init, Data, Place, InStep, Status, FlowStatus, Yielded
<1>2. Data /\ Place /\ [Next]_vars => Data' /\ Place'
  <2>1. ASSUME Data, Place, Next PROVE Data' /\ Place'
    BY <2>1, RunnerData, FlowData, StepData, TalkData, PlaceStep
       DEF Next, EnterNext, PlanNext, AgentNext
  <2>2. ASSUME Data, Place, UNCHANGED vars PROVE Data' /\ Place'
    BY <2>2 DEF Data, Place, vars, rowVars, flowVars, agentVars, inVars, logVars
  <2>3. QED
    BY <2>1, <2>2
<1>3. QED
  BY <1>1, <1>2, TypeSplit, PTL DEF Spec

-----------------------------------------------------------------------------
(* The memory: calls and their answers.                                    *)

\* The last message is a call, and before it all is answered.
Pending(m) ==
  /\ m # <<>> /\ LastOf(m) \in Call
  /\ \A i \in 1..(Len(m) - 1) :
       /\ m[i] # "broken"
       /\ m[i] \in Call => m[i + 1] = "tool"
       /\ m[i] = "tool" => i > 1 /\ m[i - 1] \in Call

\* What roll_back() can repair.
Sound(m) == Answered(m) \/ Pending(m)

\* The memory a message is put behind.
Start(m) == IF m = <<>> THEN <<"system">> ELSE m

\* An answered memory stays so when somebody talks.
LEMMA AnsweredTalk ==
  ASSUME NEW m \in Seq(Message), Answered(m), NEW x \in {"user", "text"}
  PROVE  Answered(m \o <<x>>)
<1>1. x \in Message /\ x \notin Call /\ x # "tool" /\ x # "broken"
  BY DEF Message, Call
<1>2. Len(m) \in Nat /\ DOMAIN m = 1..Len(m)
  BY LenProperties
<1>3. DOMAIN (m \o <<x>>) = 1..(Len(m) + 1)
  BY <1>1, Behind, LenProperties
<1>4. SUFFICES ASSUME NEW i \in 1..(Len(m) + 1)
               PROVE  /\ (m \o <<x>>)[i] # "broken"
                      /\ (m \o <<x>>)[i] \in Call => i < Len(m) + 1 /\ (m \o <<x>>)[i + 1] = "tool"
                      /\ (m \o <<x>>)[i] = "tool" => i > 1 /\ (m \o <<x>>)[i - 1] \in Call
  BY <1>1, <1>3, Behind DEF Answered
<1>5. CASE i = Len(m) + 1
  BY <1>1, <1>5, Behind
<1>6. CASE i \in 1..Len(m)
  <2>1. /\ m[i] # "broken"
        /\ m[i] \in Call => i < Len(m) /\ m[i + 1] = "tool"
        /\ m[i] = "tool" => i > 1 /\ m[i - 1] \in Call
    BY <1>2, <1>6 DEF Answered
  <2>2. (m \o <<x>>)[i] = m[i] /\ (i > 1 => (m \o <<x>>)[i - 1] = m[i - 1])
    BY <1>1, <1>2, <1>6, Behind
  <2>3. i < Len(m) => (m \o <<x>>)[i + 1] = m[i + 1]
    BY <1>1, <1>2, <1>6, Behind
  <2>4. QED
    BY <1>2, <1>6, <2>1, <2>2, <2>3
<1>7. QED
  BY <1>2, <1>5, <1>6

\* A call behind an answered memory is the only one without an answer.
LEMMA AnsweredCall ==
  ASSUME NEW m \in Seq(Message), Answered(m), NEW x \in Call
  PROVE  Pending(m \o <<x>>)
<1>1. x \in Message
  BY DEF Message, Call
<1>2. Len(m) \in Nat /\ DOMAIN m = 1..Len(m)
  BY LenProperties
<1>3. /\ Len(m \o <<x>>) = Len(m) + 1
      /\ LastOf(m \o <<x>>) = x
      /\ m \o <<x>> # <<>>
  BY <1>1, <1>2, Behind, EmptySeq DEF LastOf
<1>4. ASSUME NEW i \in 1..Len(m)
      PROVE  /\ (m \o <<x>>)[i] # "broken"
             /\ (m \o <<x>>)[i] \in Call => (m \o <<x>>)[i + 1] = "tool"
             /\ (m \o <<x>>)[i] = "tool" => i > 1 /\ (m \o <<x>>)[i - 1] \in Call
  <2>1. /\ m[i] # "broken"
        /\ m[i] \in Call => i < Len(m) /\ m[i + 1] = "tool"
        /\ m[i] = "tool" => i > 1 /\ m[i - 1] \in Call
    BY <1>2, <1>4 DEF Answered
  <2>2. (m \o <<x>>)[i] = m[i] /\ (i > 1 => (m \o <<x>>)[i - 1] = m[i - 1])
    BY <1>1, <1>2, <1>4, Behind
  <2>3. i < Len(m) => (m \o <<x>>)[i + 1] = m[i + 1]
    BY <1>1, <1>2, <1>4, Behind
  <2>4. QED
    BY <1>2, <1>4, <2>1, <2>2, <2>3
<1>5. QED
  BY <1>2, <1>3, <1>4 DEF Pending

\* And its answer repairs it.
LEMMA PendingTool ==
  ASSUME NEW m \in Seq(Message), Pending(m)
  PROVE  Answered(m \o <<"tool">>)
<1>1. "tool" \in Message /\ "tool" \notin Call
  BY DEF Message, Call
<1>2. Len(m) \in Nat \ {0} /\ m[Len(m)] \in Call
  BY LenProperties, EmptySeq DEF Pending, LastOf
<1>3. DOMAIN (m \o <<"tool">>) = 1..(Len(m) + 1)
  BY <1>1, Behind, LenProperties
<1>4. SUFFICES ASSUME NEW i \in 1..(Len(m) + 1)
               PROVE  /\ (m \o <<"tool">>)[i] # "broken"
                      /\ (m \o <<"tool">>)[i] \in Call
                           => i < Len(m) + 1 /\ (m \o <<"tool">>)[i + 1] = "tool"
                      /\ (m \o <<"tool">>)[i] = "tool"
                           => i > 1 /\ (m \o <<"tool">>)[i - 1] \in Call
  BY <1>1, <1>3, Behind DEF Answered
<1>5. CASE i = Len(m) + 1
  BY <1>1, <1>2, <1>5, Behind
<1>6. CASE i = Len(m)
  BY <1>1, <1>2, <1>6, Behind DEF Call
<1>7. CASE i \in 1..(Len(m) - 1)
  <2>1. /\ m[i] # "broken"
        /\ m[i] \in Call => m[i + 1] = "tool"
        /\ m[i] = "tool" => i > 1 /\ m[i - 1] \in Call
    BY <1>7 DEF Pending
  <2>2. (m \o <<"tool">>)[i] = m[i] /\ (i > 1 => (m \o <<"tool">>)[i - 1] = m[i - 1])
    BY <1>1, <1>2, <1>7, Behind
  <2>3. (m \o <<"tool">>)[i + 1] = m[i + 1]
    BY <1>1, <1>2, <1>7, Behind
  <2>4. QED
    BY <1>2, <1>7, <2>1, <2>2, <2>3
<1>8. QED
  BY <1>2, <1>5, <1>6, <1>7

\* roll_back() repairs what it is made for.
LEMMA RollBackAnswers ==
  ASSUME NEW m \in Seq(Message), Sound(m)
  PROVE  Answered(RolledBack(m))
<1>1. CASE m = <<>> \/ LastOf(m) \notin Call
  BY <1>1 DEF RolledBack, Sound, Pending
<1>2. CASE m # <<>> /\ LastOf(m) \in Call
  <2>1. Len(m) \in Nat \ {0} /\ DOMAIN m = 1..Len(m) /\ m[Len(m)] \in Call
    BY <1>2, LenProperties, EmptySeq DEF LastOf
  <2>2. Pending(m)
    <3>1. ASSUME Answered(m) PROVE FALSE
      <4>1. Len(m) \in DOMAIN m
        BY <2>1
      <4>2. Len(m) < Len(m)
        BY <2>1, <3>1, <4>1 DEF Answered
      <4>3. QED
        BY <2>1, <4>2
    <3>2. QED
      BY <3>1 DEF Sound
  <2>3. CASE LastOf(m) = "ask"
    <3>1. Append(m, "tool") = m \o <<"tool">>
      BY AppendIsConcat DEF Message
    <3>2. QED
      BY <1>2, <2>2, <2>3, <3>1, PendingTool DEF RolledBack
  <2>4. CASE LastOf(m) # "ask"
    <3> DEFINE r == SubSeq(m, 1, Len(m) - 1)
    <3>1. RolledBack(m) = r
      BY <1>2, <2>4 DEF RolledBack
    <3>2. \A i \in 1..(Len(m) - 1) : m[i] \in Message
      BY <2>1, ElementOfSeq
    <3>3. /\ r \in Seq(Message)
          /\ Len(r) = Len(m) - 1
          /\ \A i \in 1..(Len(m) - 1) : r[i] = m[i]
      BY <2>1, <3>2, SubSeqProperties
    <3>4. DOMAIN r = 1..(Len(m) - 1)
      BY <3>3, LenProperties
    <3>5. ASSUME NEW i \in 1..(Len(m) - 1)
          PROVE  /\ r[i] # "broken"
                 /\ r[i] \in Call => i < Len(r) /\ r[i + 1] = "tool"
                 /\ r[i] = "tool" => i > 1 /\ r[i - 1] \in Call
      <4>1. /\ m[i] # "broken"
            /\ m[i] \in Call => m[i + 1] = "tool"
            /\ m[i] = "tool" => i > 1 /\ m[i - 1] \in Call
        BY <2>2, <3>5 DEF Pending
      <4>2. ASSUME m[i] \in Call, i = Len(m) - 1 PROVE FALSE
        <5>1. i + 1 = Len(m)
          BY <2>1, <4>2
        <5>2. m[Len(m)] = "tool"
          BY <4>1, <4>2, <5>1
        <5>3. QED
          BY <2>1, <5>2 DEF Call
      <4>3. r[i] = m[i] /\ (i > 1 => r[i - 1] = m[i - 1]) /\ (i < Len(m) - 1 => r[i + 1] = m[i + 1])
        BY <2>1, <3>3, <3>5
      <4>4. ASSUME r[i] \in Call PROVE i < Len(r) /\ r[i + 1] = "tool"
        <5>1. i < Len(m) - 1
          <6>1. m[i] \in Call
            BY <4>3, <4>4
          <6>2. i # Len(m) - 1
            BY <4>2, <6>1
          <6>3. Len(m) \in Nat /\ i \in Int /\ i <= Len(m) - 1
            BY <2>1, <3>5
          <6>4. QED
            BY <6>2, <6>3
        <5>2. QED
          BY <3>3, <4>1, <4>3, <4>4, <5>1
      <4>5. ASSUME r[i] = "tool" PROVE i > 1 /\ r[i - 1] \in Call
        BY <4>1, <4>3, <4>5
      <4>6. QED
        BY <4>1, <4>3, <4>4, <4>5
    <3>6. QED
      BY <3>1, <3>4, <3>5 DEF Answered
  <2>5. QED
    BY <2>3, <2>4
<1>3. QED
  BY <1>1, <1>2

\* A memory that begins with the system prompt begins answered.
LEMMA StartAnswered ==
  ASSUME NEW m \in Seq(Message)
  PROVE  /\ Start(m) \in Seq(Message)
         /\ Answered(m) => Answered(Start(m))
         /\ Pending(m) => Start(m) = m
<1>1. <<"system">> \in Seq(Message)
  BY MessageLists DEF Message
<1>2. Answered(<<"system">>)
  BY DEF Answered, Call
<1>3. QED
  BY <1>1, <1>2 DEF Start, Pending

\* What is added is the last message of the memory.
LEMMA AddedOne ==
  ASSUME NEW m \in Seq(Message), NEW x \in Message \ {"user"}
  PROVE  /\ Added(m, <<x>>) = Start(m) \o <<x>>
         /\ Added(m, <<x>>) # <<>>
         /\ LastOf(Added(m, <<x>>)) = x
<1>1. Start(m) \in Seq(Message)
  BY StartAnswered
<1>2. Start(m) \o <<x>> # <<>> /\ LastOf(Start(m) \o <<x>>) = x
  BY <1>1, Behind, LenProperties, EmptySeq DEF LastOf
<1>3. QED
  BY <1>2 DEF Added, Start

\* A query, or an empty answer and the prompt to go on, leave no call open.
LEMMA AddedQuery ==
  ASSUME NEW m \in Seq(Message), Answered(m)
  PROVE  Answered(Added(m, <<"user">>)) /\ Answered(Added(m, <<"text", "user">>))
<1>1. Start(m) \in Seq(Message) /\ Answered(Start(m))
  BY StartAnswered
<1>2. Answered(Start(m) \o <<"user">>)
  BY <1>1, AnsweredTalk
<1>3. Answered(<<"system", "user">>)
  BY DEF Answered, Call
<1>4. Start(m) \o <<"text">> \in Seq(Message) /\ Answered(Start(m) \o <<"text">>)
  BY <1>1, Behind, AnsweredTalk DEF Message
<1>5. Answered((Start(m) \o <<"text">>) \o <<"user">>)
  BY <1>4, AnsweredTalk
<1>6. (Start(m) \o <<"text">>) \o <<"user">> = Start(m) \o <<"text", "user">>
  <2>1. <<"text">> \in Seq(Message) /\ <<"user">> \in Seq(Message)
    BY MessageLists DEF Message
  <2>2. <<"text">> \o <<"user">> = <<"text", "user">>
    <3>1. /\ <<"text">> \o <<"user">> \in Seq(Message)
          /\ Len(<<"text">> \o <<"user">>) = 2
          /\ (<<"text">> \o <<"user">>)[1] = "text"
          /\ (<<"text">> \o <<"user">>)[2] = "user"
      BY <2>1, Behind DEF Message
    <3>2. /\ <<"text", "user">> \in Seq(Message)
          /\ Len(<<"text", "user">>) = 2
          /\ <<"text", "user">>[1] = "text"
          /\ <<"text", "user">>[2] = "user"
      BY MessageLists
    <3>3. \A i \in 1..2 : (<<"text">> \o <<"user">>)[i] = <<"text", "user">>[i]
      <4>1. ASSUME NEW i \in 1..2 PROVE i = 1 \/ i = 2
        OBVIOUS
      <4>2. QED
        BY <3>1, <3>2, <4>1
    <3>4. QED
      BY <3>1, <3>2, <3>3, SeqEqual
  <2>3. QED
    BY <1>1, <2>1, <2>2, ConcatAssociative
<1>7. QED
  BY <1>2, <1>3, <1>5, <1>6 DEF Added, Start

\* What the LLM and the tools say does what it should.
LEMMA AddedAnswers ==
  ASSUME NEW m \in Seq(Message)
  PROVE  /\ Answered(m) => Answered(Added(m, <<"text">>))
         /\ Answered(m) => \A x \in Call : Pending(Added(m, <<x>>))
         /\ Pending(m) => Answered(Added(m, <<"tool">>))
<1>1. /\ "text" \in Message \ {"user"} /\ "tool" \in Message \ {"user"}
      /\ Call \subseteq Message \ {"user"}
  BY DEF Message, Call
<1>2. Answered(m) => Answered(Added(m, <<"text">>))
  BY <1>1, AddedOne, StartAnswered, AnsweredTalk
<1>3. ASSUME Answered(m), NEW x \in Call PROVE Pending(Added(m, <<x>>))
  <2>1. Start(m) \in Seq(Message) /\ Answered(Start(m))
    BY <1>3, StartAnswered
  <2>2. Pending(Start(m) \o <<x>>)
    BY <2>1, AnsweredCall
  <2>3. Added(m, <<x>>) = Start(m) \o <<x>>
    BY <1>1, AddedOne
  <2>4. QED
    BY <2>2, <2>3
<1>4. Pending(m) => Answered(Added(m, <<"tool">>))
  BY <1>1, AddedOne, StartAnswered, PendingTool
<1>5. QED
  BY <1>2, <1>3, <1>4

-----------------------------------------------------------------------------
(* Where the flow stands and what it remembers.                            *)

\* Outside an invocation, or at its beginning; and between a call and its answer.
Between == {"off", "enter"}
InCall == {"calling", "called", "asking", "skipped"}

\* A session nobody has run has no memory; and unless it was spoilt, a memory has
\* at most its last call open, and where the flow goes on it has none.
MemInv ==
  /\ row = "pending" => mem = <<>> /\ rowMem = <<>> /\ pc \in Between \cup {"mark"}
  /\ spoilt = {} =>
       /\ Sound(rowMem) /\ Sound(mem)
       /\ pc \in InCall => Pending(mem)
       /\ pc \notin Between \cup InCall \cup {"exceeded"} => Answered(mem)

\* The memory ends with the question, answered or not yet.
Replied(m) == Len(m) > 1 /\ LastOf(m) = "tool" /\ m[Len(m) - 1] = "ask"
Asking(m) == m # <<>> /\ LastOf(m) = "ask"

WaitInv ==
  /\ row = "waiting" =>
       /\ pc \in Between \cup {"mark"}
       /\ Asking(mem) \/ Replied(mem)
       /\ Asking(rowMem) \/ Replied(rowMem)
  /\ pc = "mark" => seen = row
  /\ pc = "mark" /\ row = "waiting" => Replied(mem)
  /\ pc \in InCall => rowMem = mem /\ mem # <<>>
  /\ pc = "asking" => LastOf(mem) = "ask"

\* Some steps leave the memory and what is at stake as it is.
Quiet ==
  /\ UNCHANGED <<mem, spoilt>>
  /\ rowMem' \in {rowMem, mem}
  /\ row' = row \/ row' \in {"running", "completed"}
  /\ row = "pending" => row' # row \/ pc' \in Between \cup {"mark"}
  /\ row' = "waiting" => pc' \in Between
  /\ pc' # "mark"
  /\ \/ pc' \in Between /\ rowMem' = rowMem
     \/ /\ pc \notin Between \cup InCall \cup {"exceeded"}
        /\ pc' \notin InCall

\* Such a step keeps the two invariants.
LEMMA QuietStep ==
  ASSUME MemInv, WaitInv, Quiet
  PROVE  MemInv' /\ WaitInv'
<1>1. MemInv'
  BY DEF MemInv, Quiet, Between, InCall, Sound
<1>2. WaitInv'
  BY DEF MemInv, WaitInv, Quiet, Between, InCall
<1>3. QED
  BY <1>1, <1>2

\* The steps of the plan and of the loop, and the ends of an invocation, are quiet.
LEMMA QuietSteps ==
  ASSUME MemInv, WaitInv, Place,
         \/ Breaks \/ Interrupt \/ RunnerEnds \/ MarksRunning \/ LeavesIdle \/ CreatesPlan
         \/ PublishesPlan \/ LeavesPlanning \/ UpdatesPlan \/ LeavesUpdating \/ Completes
         \/ YieldsDone \/ Compacts \/ ExecutesStep \/ LeavesExecuting \/ LeavesSummarizing
         \/ LLMFails \/ Replies
  PROVE  Quiet
<1> USE DEF MemInv, WaitInv, Quiet, Between, InCall, At, AtTop, rowVars, flowVars, agentVars, inVars,
            logVars
<1>1. CASE Breaks \/ RunnerEnds
  BY <1>1 DEF Breaks, RunnerEnds, Leaves
<1>2. CASE Interrupt
  BY <1>2 DEF Interrupt, Leaves, Yielded
<1>3. CASE MarksRunning \/ LeavesIdle
  BY <1>3 DEF MarksRunning, LeavesIdle
<1>4. CASE CreatesPlan \/ UpdatesPlan
  BY <1>4 DEF CreatesPlan, UpdatesPlan
<1>5. CASE PublishesPlan \/ LeavesPlanning \/ LeavesUpdating
  BY <1>5 DEF PublishesPlan, LeavesPlanning, LeavesUpdating
<1>6. CASE Completes \/ YieldsDone \/ Compacts
  BY <1>6 DEF Completes, YieldsDone, Compacts
<1>7. CASE ExecutesStep \/ LeavesExecuting \/ LeavesSummarizing
  BY <1>7 DEF ExecutesStep, LeavesExecuting, LeavesSummarizing
<1>8. CASE LLMFails \/ Replies
  BY <1>8 DEF LLMFails, Replies
<1>9. QED
  BY <1>1, <1>2, <1>3, <1>4, <1>5, <1>6, <1>7, <1>8

\* What roll_back() makes of a memory that ends with a question.
LEMMA RollBackReplies ==
  ASSUME NEW m \in Seq(Message), Asking(m) \/ Replied(m)
  PROVE  Replied(RolledBack(m))
<1>1. CASE Asking(m)
  <2>1. Len(m) \in Nat \ {0} /\ m[Len(m)] = "ask"
    BY <1>1, LenProperties, EmptySeq DEF Asking, LastOf
  <2>2. RolledBack(m) = m \o <<"tool">>
    <3>1. Append(m, "tool") = m \o <<"tool">>
      BY AppendIsConcat DEF Message
    <3>2. QED
      BY <1>1, <3>1 DEF RolledBack, Asking, Call
  <2>3. /\ Len(m \o <<"tool">>) = Len(m) + 1
        /\ (m \o <<"tool">>)[Len(m)] = m[Len(m)]
        /\ (m \o <<"tool">>)[Len(m) + 1] = "tool"
    BY <2>1, Behind DEF Message
  <2>4. QED
    BY <2>1, <2>2, <2>3 DEF Replied, LastOf
<1>2. CASE Replied(m)
  BY <1>2 DEF RolledBack, Replied, Call
<1>3. QED
  BY <1>1, <1>2

\* Entering the flow repairs the memory and answers the question.
LEMMA EnterStep ==
  ASSUME Data, MemInv, WaitInv, Enters
  PROVE  MemInv' /\ WaitInv'
<1>1. /\ pc = "enter" /\ pc' = "mark" /\ seen' = row
      /\ UNCHANGED <<row, spoilt>>
  BY DEF Enters, At, logVars
<1>2. mem \in Seq(Message)
  BY DEF Data
<1>3. CASE row = "pending"
  <2>1. UNCHANGED <<mem, rowMem>>
    BY <1>3 DEF Enters
  <2>2. Answered(mem)
    BY <1>3 DEF MemInv, Answered
  <2>3. QED
    BY <1>1, <1>3, <2>1, <2>2 DEF MemInv, WaitInv, Between, InCall
<1>4. CASE row # "pending"
  <2>1. mem' = RolledBack(mem) /\ rowMem' \in {rowMem, mem'}
    BY <1>4 DEF Enters
  <2>2. spoilt = {} => Answered(mem')
    BY <1>2, <2>1, RollBackAnswers DEF MemInv
  <2>3. row = "waiting" => Replied(mem')
    BY <1>2, <2>1, RollBackReplies DEF WaitInv
  <2>4. MemInv'
    BY <1>1, <1>4, <2>1, <2>2 DEF MemInv, Sound, Between, InCall
  <2>5. WaitInv'
    BY <1>1, <2>1, <2>3 DEF WaitInv, Between, InCall
  <2>6. QED
    BY <2>4, <2>5
<1>5. QED
  BY <1>3, <1>4

\* A message that enters the memory, in a running invocation.
LEMMA AddStep ==
  ASSUME MemInv, WaitInv, pc \notin Between \cup {"mark"},
         row' \in {row, "completed"},
         spoilt' = {} => spoilt = {} /\ Sound(mem'),
         rowMem' \in {rowMem, mem'},
         pc' \in {"off", "llm", "reply", "exceeded"},
         pc' \in {"llm", "reply"} /\ spoilt' = {} => Answered(mem')
  PROVE  MemInv' /\ WaitInv'
<1>1. row \notin {"pending", "waiting"}
  BY DEF MemInv, WaitInv
<1>2. QED
  BY <1>1 DEF MemInv, WaitInv, Between, InCall

\* The query, the answers and the results of tools keep the two invariants.
LEMMA TalkStep ==
  ASSUME Data, MemInv, WaitInv, Asks \/ LLMIsEmpty \/ AnswerIsNotSaved \/ ToolAnswers
  PROVE  MemInv' /\ WaitInv'
<1>1. mem \in Seq(Message)
  BY DEF Data
<1>2. pc \in {"started", "loop", "llm", "called"}
  BY DEF Asks, LLMIsEmpty, AnswerIsNotSaved, ToolAnswers, AtTop
<1>3. spoilt = {} => IF pc = "called" THEN Pending(mem) ELSE Answered(mem)
  BY <1>2 DEF MemInv, Between, InCall
<1> USE <1>1, <1>2, <1>3 DEF Between
<1>4. CASE Asks
  <2>1. /\ mem' = Added(mem, <<"user">>) /\ pc # "called" /\ UNCHANGED spoilt
        /\ row' \in {row, "completed"} /\ rowMem' \in {rowMem, mem'}
        /\ pc' \in {"off", "llm"}
    BY <1>4 DEF Asks, NotSaved, Leaves, AtTop, logVars
  <2>2. QED
    BY <2>1, AddedQuery, AddStep DEF Sound
<1>5. CASE LLMIsEmpty
  <2>1. /\ mem' = Added(mem, <<"text", "user">>) /\ pc # "called" /\ UNCHANGED <<spoilt, row, pc>>
        /\ rowMem' = mem' /\ pc = "llm"
    BY <1>5 DEF LLMIsEmpty, logVars
  <2>2. QED
    BY <2>1, AddedQuery, AddStep DEF Sound
<1>6. CASE AnswerIsNotSaved
  <2>1. PICK ms \in {<<"text">>, <<"call">>, <<"ask">>, <<"text", "user">>} :
          /\ mem' = Added(mem, ms)
          /\ spoilt' = IF ms[1] \in Call THEN spoilt \cup {"save"} ELSE spoilt
    BY <1>6 DEF AnswerIsNotSaved
  <2>2. UNCHANGED <<row, rowMem, pc>> /\ pc = "llm"
    BY <1>6 DEF AnswerIsNotSaved, rowVars
  <2>3. spoilt' = {} => spoilt = {} /\ (ms = <<"text">> \/ ms = <<"text", "user">>)
    BY <2>1 DEF Call
  <2>4. spoilt' = {} => Answered(mem')
    BY <2>1, <2>2, <2>3, AddedQuery, AddedAnswers
  <2>5. QED
    BY <2>2, <2>3, <2>4, AddStep DEF Sound
<1>7. CASE ToolAnswers
  <2>1. /\ mem' = Added(mem, <<"tool">>) /\ pc = "called" /\ UNCHANGED spoilt
        /\ row' \in {row, "completed"} /\ rowMem' \in {rowMem, mem'}
        /\ pc' \in {"off", "llm"}
    BY <1>7 DEF ToolAnswers, NotSaved, Leaves, logVars
  <2>2. QED
    BY <2>1, AddedAnswers, AddStep DEF Sound
<1>8. QED
  BY <1>4, <1>5, <1>6, <1>7

\* So does the answer of the LLM, with which a call may begin.
LEMMA AnswerStep ==
  ASSUME Data, MemInv, WaitInv, LLMAnswers
  PROVE  MemInv' /\ WaitInv'
<1>1. PICK m \in {"text", "call", "ask"} : mem' = Added(mem, <<m>>) /\ pc' \in Decides(m)
  BY DEF LLMAnswers
<1>2. /\ mem \in Seq(Message) /\ m \in Message \ {"user"}
      /\ pc = "llm" /\ rowMem' = mem' /\ UNCHANGED <<row, spoilt>>
  BY DEF Data, LLMAnswers, Message, logVars
<1>3. /\ mem' # <<>>
      /\ spoilt = {} => IF m \in Call THEN Pending(mem') ELSE Answered(mem')
  <2>1. spoilt = {} => Answered(mem)
    BY <1>2 DEF MemInv, Between, InCall
  <2>2. mem' # <<>>
    BY <1>1, <1>2, AddedOne
  <2>3. m \notin Call => m = "text"
    BY DEF Call
  <2>4. QED
    BY <1>1, <1>2, <2>1, <2>2, <2>3, AddedAnswers
<1>4. row \notin {"pending", "waiting"}
  BY <1>2 DEF MemInv, WaitInv, Between
<1>5. \/ pc' = "exceeded"
      \/ pc' \in {"calling", "skipped"} /\ m \in Call
      \/ pc' = "reply" /\ m \notin Call
  BY <1>1 DEF Decides, Call
<1>6. QED
  BY <1>2, <1>3, <1>4, <1>5 DEF MemInv, WaitInv, Between, InCall, Sound

\* And the tools, a call that is passed over, and the end of the iterations.
LEMMA ToolStep ==
  ASSUME MemInv, WaitInv, ToolReturns \/ Waits \/ Exceeds \/ SkipsCall
  PROVE  MemInv' /\ WaitInv'
<1> USE DEF rowVars, agentVars, logVars
<1>1. CASE ToolReturns
  <2>1. /\ UNCHANGED <<row, rowMem, mem, spoilt>> /\ pc = "calling"
        /\ pc' \in {"asking", "called"} /\ (pc' = "asking" => LastOf(mem) = "ask")
    BY <1>1 DEF ToolReturns
  <2>2. QED
    BY <2>1 DEF MemInv, WaitInv, Between, InCall
<1>2. CASE Waits
  <2>1. /\ UNCHANGED <<rowMem, mem, spoilt>> /\ pc = "asking" /\ pc' = "off" /\ row' = "waiting"
    BY <1>2 DEF Waits, Leaves
  <2>2. Asking(mem) /\ Asking(rowMem)
    BY <2>1 DEF WaitInv, InCall, Asking
  <2>3. QED
    BY <2>1, <2>2 DEF MemInv, WaitInv, Between, InCall, Asking
<1>3. CASE Exceeds
  <2>1. /\ UNCHANGED <<row, rowMem, mem>> /\ pc = "exceeded" /\ pc' = "failed"
        /\ spoilt' = IF LastOf(mem) \in Call THEN spoilt \cup {"limit"} ELSE spoilt
    BY <1>3 DEF Exceeds, At
  <2>2. spoilt' = {} => spoilt = {} /\ Answered(mem)
    BY <2>1 DEF MemInv, Sound, Pending
  <2>3. QED
    BY <2>1, <2>2 DEF MemInv, WaitInv, Between, InCall
<1>4. CASE SkipsCall
  <2>1. /\ UNCHANGED <<row, rowMem, mem>> /\ pc = "skipped" /\ pc' = "llm" /\ spoilt' # {}
    BY <1>4 DEF SkipsCall, At
  <2>2. QED
    BY <2>1 DEF MemInv, WaitInv, Between, InCall
<1>5. QED
  BY <1>1, <1>2, <1>3, <1>4

\* And the runner, with a flow of its own or the one that was.
LEMMA RunnerStep ==
  ASSUME MemInv, WaitInv, Send \/ Starts \/ Crash
  PROVE  MemInv' /\ WaitInv'
<1> USE DEF rowVars, agentVars, logVars
<1>1. CASE Send
  BY <1>1 DEF Send, MemInv, WaitInv, Sound, Replied, Asking
<1>2. CASE Starts \/ Crash
  <2>1. /\ UNCHANGED <<row, rowMem, spoilt>> /\ mem' \in {mem, rowMem} /\ pc' \in Between
        /\ mem' = rowMem \/ pc \in Between
    BY <1>2 DEF Starts, Crash, Leaves, At, Between
  <2>2. QED
    BY <2>1 DEF MemInv, WaitInv, Between, InCall
<1>3. QED
  BY <1>1, <1>2

\* Every step keeps the two invariants.
LEMMA MemoryStep ==
  ASSUME Data, Place, MemInv, WaitInv, Next
  PROVE  MemInv' /\ WaitInv'
BY QuietSteps, QuietStep, EnterStep, TalkStep, AnswerStep, ToolStep, RunnerStep
   DEF Next, EnterNext, PlanNext, AgentNext

\* Types, places and the two invariants hold together.
LEMMA MemoryInvariant == Spec => [](MemInv /\ WaitInv)
<1>1. Init => MemInv /\ WaitInv
  <2>1. Answered(<<>>)
    BY DEF Answered
  <2>2. QED
    BY <2>1 DEF Init, MemInv, WaitInv, Sound, Between, InCall
<1>2. TypeOK /\ MemInv /\ WaitInv /\ [Next]_vars => MemInv' /\ WaitInv'
  <2>1. ASSUME MemInv, WaitInv, UNCHANGED vars PROVE MemInv' /\ WaitInv'
    BY <2>1 DEF MemInv, WaitInv, Sound, Replied, Asking, vars, rowVars, agentVars, logVars
  <2>2. QED
    BY <2>1, MemoryStep, TypeSplit
<1>3. QED
  BY <1>1, <1>2, TypeCorrect, PTL DEF Spec

\* The LLM is never asked with a call that has no answer in its memory, whatever
\* interrupted, stopped or broke the flow between the two.
THEOREM CallsHaveAnswers == Spec => []CallsAreAnswered
<1>1. MemInv => CallsAreAnswered
  BY DEF MemInv, CallsAreAnswered, Between, InCall
<1>2. QED
  BY <1>1, MemoryInvariant, PTL

\* When the flow goes on after a wait, the user's reply is the answer to the
\* question it had asked, also in a new task or after a crash.
THEOREM RepliesAnswerQuestions == Spec => []ReplyAnswersTheQuestion
<1>1. WaitInv => ReplyAnswersTheQuestion
  BY DEF WaitInv, ReplyAnswersTheQuestion, Replied
<1>2. QED
  BY <1>1, MemoryInvariant, PTL

-----------------------------------------------------------------------------
(* Plans.                                                                  *)

\* The finished steps come first.
DonePrefix(p) == \A i, j \in DOMAIN p : i < j /\ IsDone(p[j]) => IsDone(p[i])

\* The two plans differ at k only, which is the next step of q.
Alike(p, q, k) ==
  /\ DOMAIN p = DOMAIN q
  /\ NextStep(q, k)
  /\ p[k].id = q[k].id
  /\ \A j \in DOMAIN p \ {k} : p[j] = q[j]

\* The next step of the plan is the one that asked.
AsksAt(p, a) == \E i \in DOMAIN p : NextStep(p, i) /\ p[i].id = a

\* No step of the plan has an identity beyond b.
UpTo(p, b) == \A i \in DOMAIN p : p[i].id <= b

\* No two steps of the plan have the same identity.
OneEach(p) == \A i, j \in DOMAIN p : p[i].id = p[j].id => i = j

\* The steps of a plan have identities.
LEMMA Identities ==
  ASSUME NEW p \in Seq(StepRecord), NEW i \in DOMAIN p
  PROVE  p[i].id \in Nat
<1>1. p[i] \in StepRecord
  BY LenProperties, ElementOfSeq
<1>2. QED
  BY <1>1 DEF StepRecord

\* A plan has one next step.
LEMMA OneNextStep ==
  ASSUME NEW p \in Seq(StepRecord), NEW i, NEW k, NextStep(p, i), NextStep(p, k)
  PROVE  i = k
<1>1. i \in 1..Len(p) /\ k \in 1..Len(p) /\ Len(p) \in Nat
  BY LenProperties DEF NextStep
<1>2. ~(i < k)
  BY <1>1 DEF NextStep
<1>3. ~(k < i)
  BY <1>1 DEF NextStep
<1>4. QED
  BY <1>1, <1>2, <1>3

\* The steps the planner thinks of are new and unfinished.
LEMMA NewSteps ==
  ASSUME born \in Nat, NEW n \in Nat
  PROVE  /\ \A i \in DOMAIN Steps(n) :
              /\ Steps(n)[i].id \in (born + 1)..(born + n)
              /\ Steps(n)[i].status = "pending"
              /\ ~IsDone(Steps(n)[i])
         /\ DonePrefix(Steps(n)) /\ Completed(Steps(n)) = {} /\ UpTo(Steps(n), born + n)
         /\ OneEach(Steps(n))
<1>1. \A i \in DOMAIN Steps(n) :
        /\ Steps(n)[i].id \in (born + 1)..(born + n)
        /\ Steps(n)[i].status = "pending"
        /\ ~IsDone(Steps(n)[i])
  BY DEF Steps, IsDone
<1>2. DonePrefix(Steps(n))
  BY <1>1 DEF DonePrefix
<1>3. Completed(Steps(n)) = {}
  BY <1>1 DEF Completed
<1>4. UpTo(Steps(n), born + n)
  BY <1>1 DEF UpTo
<1>5. OneEach(Steps(n))
  BY DEF OneEach, Steps
<1>6. QED
  BY <1>1, <1>2, <1>3, <1>4, <1>5

\* Starting or finishing the next step takes no finished step back.
LEMMA AlikeKeeps ==
  ASSUME NEW p \in Seq(StepRecord), NEW q \in Seq(StepRecord), NEW k, Alike(p, q, k)
  PROVE  /\ Completed(q) \subseteq Completed(p)
         /\ DonePrefix(q) => DonePrefix(p)
         /\ \A b : UpTo(q, b) => UpTo(p, b)
         /\ OneEach(q) => OneEach(p)
<1>1. /\ k \in DOMAIN q /\ ~IsDone(q[k]) /\ \A j \in 1..(k - 1) : IsDone(q[j])
      /\ DOMAIN p = DOMAIN q /\ p[k].id = q[k].id
      /\ \A j \in DOMAIN p \ {k} : p[j] = q[j]
  BY DEF Alike, NextStep
<1>2. DOMAIN q = 1..Len(q) /\ Len(q) \in Nat
  BY LenProperties
<1>3. Completed(q) \subseteq Completed(p)
  <2>1. ASSUME NEW j \in DOMAIN q, q[j].status = "completed" PROVE q[j].id \in Completed(p)
    <3>1. j # k
      BY <1>1, <2>1 DEF IsDone
    <3>2. QED
      BY <1>1, <2>1, <3>1 DEF Completed
  <2>2. QED
    BY <2>1 DEF Completed
<1>4. ASSUME DonePrefix(q) PROVE DonePrefix(p)
  <2>1. SUFFICES ASSUME NEW i \in DOMAIN p, NEW j \in DOMAIN p, i < j, IsDone(p[j])
                 PROVE  IsDone(p[i])
    BY DEF DonePrefix
  <2>2. ~(k < j)
    BY <1>1, <1>2, <1>4, <2>1 DEF DonePrefix
  <2>3. i \in 1..(k - 1) /\ i # k
    BY <1>1, <1>2, <2>1, <2>2
  <2>4. QED
    BY <1>1, <2>1, <2>3
<1>5. ASSUME NEW b, UpTo(q, b) PROVE UpTo(p, b)
  <2>1. SUFFICES ASSUME NEW i \in DOMAIN p PROVE p[i].id <= b
    BY DEF UpTo
  <2>2. p[i].id = q[i].id
    BY <1>1, <2>1
  <2>3. QED
    BY <1>1, <1>5, <2>1, <2>2 DEF UpTo
<1>6. ASSUME OneEach(q) PROVE OneEach(p)
  <2>1. \A i \in DOMAIN p : p[i].id = q[i].id
    BY <1>1
  <2>2. QED
    BY <1>1, <1>6, <2>1 DEF OneEach
<1>7. QED
  BY <1>3, <1>4, <1>5, <1>6

\* Another status of the same step keeps two plans alike.
LEMMA AlikeExcept ==
  ASSUME NEW p \in Seq(StepRecord), NEW q \in Seq(StepRecord), NEW k,
         NEW s \in {"pending", "running", "completed", "failed"},
         Alike(p, q, k) \/ (p = q /\ NextStep(q, k))
  PROVE  Alike([p EXCEPT ![k].status = s], q, k)
<1>1. k \in DOMAIN p
  BY DEF Alike, NextStep
<1>2. p[k] \in StepRecord
  BY <1>1, LenProperties, ElementOfSeq
<1>3. [p EXCEPT ![k].status = s][k].id = p[k].id
  BY <1>1, <1>2 DEF StepRecord
<1>4. QED
  BY <1>1, <1>3 DEF Alike

\* Two plans, one behind the other.
LEMMA PlanBehind ==
  ASSUME NEW a \in Seq(StepRecord), NEW q \in Seq(StepRecord)
  PROVE  /\ a \o q \in Seq(StepRecord)
         /\ \A i \in 1..Len(a) : i \in DOMAIN (a \o q) /\ (a \o q)[i] = a[i]
         /\ \A i \in DOMAIN (a \o q) :
              \/ i \in 1..Len(a)
              \/ i > Len(a) /\ i - Len(a) \in DOMAIN q /\ (a \o q)[i] = q[i - Len(a)]
<1> DEFINE r == a \o q
<1>1. /\ r \in Seq(StepRecord) /\ Len(r) = Len(a) + Len(q)
      /\ \A i \in 1..(Len(a) + Len(q)) : r[i] = IF i <= Len(a) THEN a[i] ELSE q[i - Len(a)]
  BY ConcatProperties
<1>2. Len(a) \in Nat /\ Len(q) \in Nat /\ DOMAIN q = 1..Len(q)
  BY LenProperties
<1>3. DOMAIN r = 1..(Len(a) + Len(q))
  BY <1>1, LenProperties
<1> HIDE DEF r
<1>4. ASSUME NEW i \in 1..Len(a) PROVE i \in DOMAIN r /\ r[i] = a[i]
  BY <1>1, <1>2, <1>3, <1>4
<1>5. ASSUME NEW i \in DOMAIN r
      PROVE  i \in 1..Len(a) \/ (i > Len(a) /\ i - Len(a) \in DOMAIN q /\ r[i] = q[i - Len(a)])
  BY <1>1, <1>2, <1>3, <1>5
<1>6. QED
  BY <1>1, <1>4, <1>5 DEF r

\* A revised plan has the finished steps and the new ones.
LEMMA RevisedKeeps ==
  ASSUME NEW p \in Seq(StepRecord), NEW q \in Seq(StepRecord), DonePrefix(p),
         \A i \in DOMAIN q : ~IsDone(q[i])
  PROVE  /\ Completed(p) \subseteq Completed(Revised(p, q))
         /\ DonePrefix(Revised(p, q))
         /\ \A b : UpTo(p, b) /\ UpTo(q, b) => UpTo(Revised(p, q), b)
         /\ OneEach(p) /\ OneEach(q) /\ (\A i \in DOMAIN p, j \in DOMAIN q : p[i].id # q[j].id)
              => OneEach(Revised(p, q))
<1>1. CASE ~\E i \in DOMAIN p : NextStep(p, i)
  BY <1>1 DEF Revised
<1>2. CASE \E i \in DOMAIN p : NextStep(p, i)
  <2> DEFINE k == CHOOSE i \in DOMAIN p : NextStep(p, i)
             r == Revised(p, q)
  <2>1. /\ k \in 1..Len(p) /\ Len(p) \in Nat /\ DOMAIN p = 1..Len(p)
        /\ ~IsDone(p[k]) /\ \A j \in 1..(k - 1) : IsDone(p[j])
    BY <1>2, LenProperties DEF NextStep
  <2> HIDE DEF k, r
  <2>2. /\ SubSeq(p, 1, k - 1) \in Seq(StepRecord)
        /\ Len(SubSeq(p, 1, k - 1)) = k - 1
        /\ \A i \in 1..(k - 1) : SubSeq(p, 1, k - 1)[i] = p[i]
    <3>1. \A i \in 1..(k - 1) : i \in 1..Len(p)
      BY <2>1
    <3>2. \A i \in 1..(k - 1) : p[i] \in StepRecord
      BY <3>1, ElementOfSeq
    <3>3. QED
      BY <2>1, <3>2, SubSeqProperties
  <2>3. r = SubSeq(p, 1, k - 1) \o q
    BY <1>2 DEF Revised, k, r
  <2>4. k - 1 \in Nat /\ DOMAIN r \subseteq Int
    <3>1. r \in Seq(StepRecord)
      BY RevisedType DEF r
    <3>2. QED
      BY <2>1, <3>1, LenProperties
  <2>5. ASSUME NEW i \in 1..(k - 1) PROVE i \in DOMAIN r /\ r[i] = p[i] /\ IsDone(r[i])
    BY <2>1, <2>2, <2>3, <2>5, PlanBehind
  <2>6. ASSUME NEW i \in DOMAIN r
        PROVE  i \in 1..(k - 1) \/ (i > k - 1 /\ i - (k - 1) \in DOMAIN q /\ r[i] = q[i - (k - 1)])
    BY <2>2, <2>3, <2>6, PlanBehind
  <2>7. Completed(p) \subseteq Completed(r)
    <3>1. ASSUME NEW j \in DOMAIN p, p[j].status = "completed" PROVE p[j].id \in Completed(r)
      <4>1. IsDone(p[j])
        BY <3>1 DEF IsDone
      <4>2. j < k
        BY <2>1, <3>1, <4>1 DEF DonePrefix
      <4>3. j \in 1..(k - 1)
        BY <2>1, <3>1, <4>2
      <4>4. QED
        BY <2>5, <3>1, <4>3 DEF Completed
    <3>2. QED
      BY <3>1 DEF Completed
  <2>8. DonePrefix(r)
    <3>1. SUFFICES ASSUME NEW i \in DOMAIN r, NEW j \in DOMAIN r, i < j, IsDone(r[j])
                   PROVE  IsDone(r[i])
      BY DEF DonePrefix
    <3>2. j \in 1..(k - 1)
      BY <2>6, <3>1
    <3>3. i \in 1..(k - 1) \/ i > k - 1
      BY <2>6, <3>1
    <3>4. i \in 1..(k - 1)
      BY <2>4, <3>1, <3>2, <3>3
    <3>5. QED
      BY <2>5, <3>4
  <2>9. ASSUME NEW b, UpTo(p, b), UpTo(q, b) PROVE UpTo(r, b)
    <3>1. SUFFICES ASSUME NEW i \in DOMAIN r PROVE r[i].id <= b
      BY DEF UpTo
    <3>2. CASE i \in 1..(k - 1)
      BY <2>1, <2>5, <2>9, <3>2 DEF UpTo
    <3>3. CASE i - (k - 1) \in DOMAIN q /\ r[i] = q[i - (k - 1)]
      BY <2>9, <3>3 DEF UpTo
    <3>4. QED
      BY <2>6, <3>1, <3>2, <3>3
  <2>10. ASSUME OneEach(p), OneEach(q), \A i \in DOMAIN p, j \in DOMAIN q : p[i].id # q[j].id
         PROVE  OneEach(r)
    <3>1. SUFFICES ASSUME NEW i \in DOMAIN r, NEW j \in DOMAIN r, r[i].id = r[j].id PROVE i = j
      BY DEF OneEach
    <3>2. CASE i \in 1..(k - 1) /\ j \in 1..(k - 1)
      BY <2>1, <2>5, <2>10, <3>1, <3>2 DEF OneEach
    <3>3. CASE i \in 1..(k - 1) /\ j \notin 1..(k - 1)
      BY <2>1, <2>5, <2>6, <2>10, <3>1, <3>3
    <3>4. CASE i \notin 1..(k - 1) /\ j \in 1..(k - 1)
      BY <2>1, <2>5, <2>6, <2>10, <3>1, <3>4
    <3>5. CASE i \notin 1..(k - 1) /\ j \notin 1..(k - 1)
      <4>1. i - (k - 1) = j - (k - 1)
        BY <2>6, <2>10, <3>1, <3>5 DEF OneEach
      <4>2. QED
        BY <2>4, <3>1, <4>1
    <3>6. QED
      BY <3>2, <3>3, <3>4, <3>5
  <2>11. QED
    BY <2>7, <2>8, <2>9, <2>10 DEF r
<1>3. QED
  BY <1>1, <1>2

-----------------------------------------------------------------------------
(* The invariants.                                                         *)

\* Identities are given in order; a plan that replaces another has new ones.
IdsInv ==
  /\ UpTo(rowPlan, born) /\ UpTo(plan, born)
  /\ OneEach(rowPlan) /\ OneEach(plan)
  /\ pc = "titled" => \A i \in DOMAIN plan, j \in DOMAIN rowPlan : rowPlan[j].id < plan[i].id

OrderInv == DonePrefix(rowPlan) /\ DonePrefix(plan)

\* A step in execution, or waiting for the user.
Executing == pc \in InStep \cup {"asking"} /\ status = "executing"

\* How far the stored plan is behind the one of the flow: by the status of the step
\* in execution, and never by a finished step it has and the other has not.
CopyInv ==
  /\ pc \in {"planned", "updated"} \/ (pc = "loop" /\ status = "executing") => rowPlan = plan
  /\ Executing => Alike(plan, rowPlan, step)
  /\ pc = "asking" => Executing
  /\ pc \notin Between \cup {"mark", "titled"} => Completed(rowPlan) \subseteq Completed(plan)

\* The stored plan of a waiting session leads back to the step that asked, and so
\* does the plan of the flow, until it executes a step.
ResumeInv ==
  /\ row = "waiting" => AsksAt(rowPlan, asked)
  /\ pc = "updated" => step # 0
  /\ seen = "waiting" =>
       /\ pc = "mark" => status = "executing"
       /\ pc \notin {"titled", "planned"}
       /\ pc \notin Between \cup {"published", "over"} => status \notin {"idle", "planning"}
       /\ pc = "loop" /\ status = "executing" /\ step = 0 => AsksAt(plan, asked)

PlanInv == IdsInv /\ OrderInv /\ CopyInv /\ ResumeInv

\* The plan without steps has nothing to keep.
LEMMA EmptyPlan ==
  DonePrefix(<<>>) /\ Completed(<<>>) = {} /\ OneEach(<<>>) /\ \A b : UpTo(<<>>, b)
BY DEF DonePrefix, Completed, OneEach, UpTo

-----------------------------------------------------------------------------
(* The steps.                                                              *)

\* The invocation is over, or another begins; a session that waits then knows why.
Over ==
  /\ UNCHANGED <<rowPlan, born>>
  /\ plan' = <<>> /\ seen' = "pending" /\ pc' \in Between
  /\ \/ row' \in {row, "completed"} /\ asked' = asked
     \/ Executing /\ asked' = plan[step].id

\* The agent, which talks and acts within a step or the summary, changes no plan.
Within ==
  /\ UNCHANGED <<row, rowPlan, seen, status, plan, step, born, asked>>
  /\ \/ pc' = pc
     \/ pc' \in InStep \cup {"asking"} /\ pc \in InStep
     \/ pc' \in InStep /\ pc = "loop" /\ status = "summarizing"
  /\ pc' = "asking" => pc = "asking" \/ status = "executing"

\* The steps of the runner that end an invocation are such ends, ...
LEMMA OverSteps ==
  ASSUME Interrupt \/ RunnerEnds \/ Breaks \/ Crash \/ Waits
         \/ (\E ms \in Seq(Message) : NotSaved(ms)),
         pc = "asking" => Executing
  PROVE  Over
<1> USE DEF Leaves, rowVars, logVars, Over, Between, Executing
<1>1. CASE Interrupt \/ RunnerEnds \/ Breaks \/ Crash
  BY <1>1 DEF Interrupt, RunnerEnds, Breaks, Crash
<1>2. CASE Waits
  BY <1>2 DEF Waits
<1>3. CASE \E ms \in Seq(Message) : NotSaved(ms)
  BY <1>3 DEF NotSaved
<1>4. QED
  BY <1>1, <1>2, <1>3

\* ... and most of the agent's steps stay within.
LEMMA WithinSteps ==
  ASSUME \/ Send \/ LLMAnswers \/ LLMIsEmpty \/ LLMFails \/ AnswerIsNotSaved \/ ToolReturns
         \/ Asks \/ ToolAnswers \/ SkipsCall
  PROVE  Within \/ \E ms \in Seq(Message) : NotSaved(ms)
<1> USE DEF rowVars, flowVars, agentVars, logVars, Within, InStep
<1>1. CASE Send \/ LLMIsEmpty \/ LLMFails \/ AnswerIsNotSaved
  BY <1>1 DEF Send, LLMIsEmpty, LLMFails, AnswerIsNotSaved
<1>2. CASE LLMAnswers
  BY <1>2 DEF LLMAnswers, Decides
<1>3. CASE ToolReturns
  BY <1>3 DEF ToolReturns
<1>4. CASE Asks
  BY <1>4, MessageLists DEF Asks, AtTop, Message
<1>5. CASE ToolAnswers
  BY <1>5, MessageLists DEF ToolAnswers, Message
<1>6. CASE SkipsCall
  BY <1>6 DEF SkipsCall, At
<1>7. QED
  BY <1>1, <1>2, <1>3, <1>4, <1>5, <1>6

\* Both keep the invariants of the plan.
LEMMA OverKeeps ==
  ASSUME Data, WaitInv, PlanInv, Over
  PROVE  PlanInv'
<1> USE DEF Between, Over
<1>1. IdsInv'
  BY EmptyPlan DEF PlanInv, IdsInv
<1>2. OrderInv'
  BY EmptyPlan DEF PlanInv, OrderInv
<1>3. CopyInv'
  BY DEF CopyInv, Executing, InStep
<1>4. ResumeInv'
  <2>1. ASSUME Executing PROVE AsksAt(rowPlan, plan[step].id)
    BY <2>1 DEF PlanInv, CopyInv, Alike, NextStep, AsksAt
  <2>2. row' = "waiting" => AsksAt(rowPlan, asked)'
    BY <2>1 DEF PlanInv, ResumeInv
  <2>3. QED
    BY <2>2 DEF ResumeInv
<1>5. QED
  BY <1>1, <1>2, <1>3, <1>4 DEF PlanInv

\* What happens within a step keeps the plan, and the invariants of it.
LEMMA WithinKeeps ==
  ASSUME PlanInv, Within
  PROVE  PlanInv'
<1> USE DEF Within, InStep, Between
<1>1. IdsInv' /\ OrderInv'
  BY DEF PlanInv, IdsInv, OrderInv
<1>2. CopyInv'
  BY DEF PlanInv, CopyInv, Executing
<1>3. ResumeInv'
  BY DEF PlanInv, ResumeInv
<1>4. QED
  BY <1>1, <1>2, <1>3 DEF PlanInv

\* An invocation finds its way to the loop.
LEMMA EnterKeeps ==
  ASSUME Data, WaitInv, PlanInv, Starts \/ Enters \/ MarksRunning \/ LeavesIdle
  PROVE  PlanInv'
<1> USE DEF rowVars, flowVars, logVars, At, AtTop, InStep, Between
<1>1. CASE Starts
  <2>1. UNCHANGED <<row, rowPlan, plan, born, asked, seen>> /\ pc' = "enter"
    BY <1>1 DEF Starts
  <2>2. QED
    BY <2>1 DEF PlanInv, IdsInv, OrderInv, CopyInv, ResumeInv, Executing
<1>2. CASE Enters
  <2>1. /\ UNCHANGED <<row, rowPlan, plan, born, asked>>
        /\ pc' = "mark" /\ seen' = row
        /\ row = "waiting" => status' = "executing"
    BY <1>2 DEF Enters
  <2>2. QED
    BY <2>1 DEF PlanInv, IdsInv, OrderInv, CopyInv, ResumeInv, Executing
<1>3. CASE MarksRunning
  <2>1. /\ UNCHANGED <<rowPlan, born, asked, seen, status>>
        /\ pc = "mark" /\ pc' = "loop" /\ row' = "running" /\ plan' = rowPlan /\ step' = 0
    BY <1>3 DEF MarksRunning
  <2>2. IdsInv' /\ OrderInv' /\ CopyInv'
    BY <2>1 DEF PlanInv, IdsInv, OrderInv, CopyInv, Executing
  <2>3. seen = "waiting" => status = "executing" /\ AsksAt(rowPlan, asked)
    BY <2>1 DEF PlanInv, ResumeInv, WaitInv
  <2>4. QED
    BY <2>1, <2>2, <2>3 DEF PlanInv, ResumeInv
<1>4. CASE LeavesIdle
  <2>1. /\ UNCHANGED <<row, rowPlan, plan, born, asked, seen, pc>>
        /\ pc = "loop" /\ status = "idle" /\ status' = "planning"
    BY <1>4 DEF LeavesIdle
  <2>2. QED
    BY <2>1 DEF PlanInv, IdsInv, OrderInv, CopyInv, ResumeInv, Executing
<1>5. QED
  BY <1>1, <1>2, <1>3, <1>4

\* The planner makes a plan, which the runner stores.
LEMMA CreateKeeps ==
  ASSUME Data, WaitInv, PlanInv, CreatesPlan \/ PublishesPlan \/ LeavesPlanning
  PROVE  PlanInv'
<1> USE DEF rowVars, flowVars, logVars, At, AtTop, InStep, Between
<1>1. CASE CreatesPlan
  <2>1. PICK n \in 0..(MaxSteps - born) : plan' = Steps(n) /\ born' = born + n
    BY <1>1 DEF CreatesPlan
  <2>2. /\ UNCHANGED <<row, rowPlan, seen, status, step, asked>>
        /\ pc = "loop" /\ status = "planning" /\ pc' = "titled"
    BY <1>1 DEF CreatesPlan
  <2>3. n \in Nat /\ born \in Nat
    BY <2>1 DEF Data
  <2>4. \A j \in DOMAIN rowPlan : rowPlan[j].id \in Nat
    BY Identities DEF Data
  <2>5. IdsInv'
    <3>1. UpTo(rowPlan, born + n)
      BY <2>3, <2>4 DEF PlanInv, IdsInv, UpTo
    <3>2. UpTo(Steps(n), born + n)
      BY <2>3, NewSteps
    <3>3. \A i \in DOMAIN Steps(n), j \in DOMAIN rowPlan : rowPlan[j].id < Steps(n)[i].id
      BY <2>3, <2>4, NewSteps DEF PlanInv, IdsInv, UpTo
    <3>4. OneEach(rowPlan) /\ OneEach(Steps(n))
      BY <2>3, NewSteps DEF PlanInv, IdsInv
    <3>5. QED
      BY <2>1, <2>2, <3>1, <3>2, <3>3, <3>4 DEF IdsInv
  <2>6. OrderInv'
    BY <2>1, <2>2, <2>3, NewSteps DEF PlanInv, OrderInv
  <2>7. CopyInv'
    BY <2>2 DEF CopyInv, Executing
  <2>8. ResumeInv'
    BY <2>2 DEF PlanInv, ResumeInv, WaitInv
  <2>9. QED
    BY <2>5, <2>6, <2>7, <2>8 DEF PlanInv
<1>2. CASE PublishesPlan
  <2>1. /\ UNCHANGED <<row, seen, status, plan, step, born, asked>>
        /\ pc = "titled" /\ pc' = "planned" /\ rowPlan' = plan
    BY <1>2 DEF PublishesPlan
  <2>2. IdsInv' /\ OrderInv' /\ CopyInv'
    BY <2>1 DEF PlanInv, IdsInv, OrderInv, CopyInv, Executing
  <2>3. ResumeInv'
    BY <2>1 DEF PlanInv, ResumeInv, WaitInv
  <2>4. QED
    BY <2>2, <2>3 DEF PlanInv
<1>3. CASE LeavesPlanning
  <2>1. /\ UNCHANGED <<row, rowPlan, seen, plan, step, born, asked>>
        /\ pc = "planned" /\ pc' = "loop" /\ status' \in {"completed", "executing"}
    BY <1>3 DEF LeavesPlanning
  <2>2. QED
    BY <2>1 DEF PlanInv, IdsInv, OrderInv, CopyInv, ResumeInv, Executing
<1>4. QED
  BY <1>1, <1>2, <1>3

\* And revises it after a step.
LEMMA UpdateKeeps ==
  ASSUME Data, WaitInv, PlanInv, UpdatesPlan \/ LeavesUpdating
  PROVE  PlanInv'
<1> USE DEF rowVars, flowVars, logVars, At, AtTop, InStep, Between
<1>1. CASE UpdatesPlan
  <2>1. PICK n \in 0..(MaxSteps - born) : plan' = Revised(plan, Steps(n)) /\ born' = born + n
    BY <1>1 DEF UpdatesPlan
  <2>2. /\ UNCHANGED <<row, seen, status, step, asked>> /\ rowPlan' = plan'
        /\ pc = "loop" /\ pc' = "updated" /\ status = "updating" /\ step # 0
    BY <1>1 DEF UpdatesPlan
  <2>3. n \in Nat /\ born \in Nat /\ plan \in Seq(StepRecord)
    BY <2>1 DEF Data
  <2>4. /\ Steps(n) \in Seq(StepRecord) /\ UpTo(Steps(n), born + n) /\ OneEach(Steps(n))
        /\ \A i \in DOMAIN Steps(n) : ~IsDone(Steps(n)[i])
    BY <2>3, StepsType, NewSteps
  <2>5. UpTo(plan, born + n)
    <3>1. \A j \in DOMAIN plan : plan[j].id \in Nat
      BY <2>3, Identities
    <3>2. QED
      BY <2>3, <3>1 DEF PlanInv, IdsInv, UpTo
  <2>6. DonePrefix(plan') /\ UpTo(plan', born') /\ OneEach(plan')
    <3>1. \A i \in DOMAIN plan, j \in DOMAIN Steps(n) : plan[i].id # Steps(n)[j].id
      <4>1. SUFFICES ASSUME NEW i \in DOMAIN plan, NEW j \in DOMAIN Steps(n)
                     PROVE  plan[i].id # Steps(n)[j].id
        OBVIOUS
      <4>2. plan[i].id <= born /\ plan[i].id \in Nat
        BY <2>3, Identities DEF PlanInv, IdsInv, UpTo
      <4>3. Steps(n)[j].id \in (born + 1)..(born + n)
        BY <2>3, NewSteps
      <4>4. QED
        BY <2>3, <4>2, <4>3
    <3>2. QED
      BY <2>1, <2>3, <2>4, <2>5, <3>1, RevisedKeeps DEF PlanInv, OrderInv, IdsInv
  <2>7. IdsInv' /\ OrderInv' /\ CopyInv'
    BY <2>2, <2>6 DEF IdsInv, OrderInv, CopyInv, Executing
  <2>8. ResumeInv'
    BY <2>2 DEF PlanInv, ResumeInv, WaitInv
  <2>9. QED
    BY <2>7, <2>8 DEF PlanInv
<1>2. CASE LeavesUpdating
  <2>1. /\ UNCHANGED <<row, rowPlan, seen, plan, step, born, asked>>
        /\ pc = "updated" /\ pc' = "loop" /\ status' = "executing"
    BY <1>2 DEF LeavesUpdating
  <2>2. QED
    BY <2>1 DEF PlanInv, IdsInv, OrderInv, CopyInv, ResumeInv, Executing
<1>3. QED
  BY <1>1, <1>2

\* A step starts and ends.
LEMMA ExecuteKeeps ==
  ASSUME Data, Place, WaitInv, PlanInv, ExecutesStep \/ Exceeds \/ Replies
  PROVE  PlanInv'
<1> USE DEF rowVars, flowVars, logVars, At, AtTop, InStep, Between
<1>1. plan \in Seq(StepRecord) /\ rowPlan \in Seq(StepRecord)
  BY DEF Data
<1>2. ASSUME NEW i, NEW s \in {"pending", "running", "completed", "failed"},
             Alike(plan, rowPlan, i) \/ (plan = rowPlan /\ NextStep(rowPlan, i)),
             plan' = [plan EXCEPT ![i].status = s]
      PROVE  /\ Alike(plan', rowPlan, i)
             /\ Completed(rowPlan) \subseteq Completed(plan')
             /\ DonePrefix(plan') /\ UpTo(plan', born) /\ OneEach(plan')
  <2>1. i \in DOMAIN plan
    BY <1>2 DEF Alike, NextStep
  <2>2. plan' \in Seq(StepRecord)
    BY <1>1, <1>2, <2>1, PlanExcept
  <2>3. Alike(plan', rowPlan, i)
    BY <1>1, <1>2, AlikeExcept
  <2>4. QED
    BY <1>1, <2>2, <2>3, AlikeKeeps DEF PlanInv, OrderInv, IdsInv
<1>3. CASE ExecutesStep
  <2>1. PICK i \in DOMAIN plan :
          NextStep(plan, i) /\ step' = i /\ plan' = [plan EXCEPT ![i].status = "running"]
    BY <1>3 DEF ExecutesStep
  <2>2. /\ UNCHANGED <<row, rowPlan, seen, status, born>>
        /\ pc = "loop" /\ status = "executing" /\ pc' = "started"
    BY <1>3 DEF ExecutesStep
  <2>3. plan = rowPlan
    BY <2>2 DEF PlanInv, CopyInv
  <2>4. /\ Alike(plan', rowPlan, i) /\ Completed(rowPlan) \subseteq Completed(plan')
        /\ DonePrefix(plan') /\ UpTo(plan', born) /\ OneEach(plan')
    BY <1>2, <2>1, <2>3
  <2>5. IdsInv' /\ OrderInv' /\ CopyInv'
    BY <2>1, <2>2, <2>4 DEF PlanInv, IdsInv, OrderInv, CopyInv, Executing
  <2>6. ResumeInv'
    BY <2>2 DEF PlanInv, ResumeInv, WaitInv
  <2>7. QED
    BY <2>5, <2>6 DEF PlanInv
<1>4. CASE Exceeds \/ Replies
  <2>1. /\ UNCHANGED <<row, rowPlan, seen, status, step, born, asked>> /\ pc \in InStep
        /\ IF status = "executing" THEN pc' \in {"failed", "finished"} ELSE pc' \in {"failed", "summed"}
    BY <1>4 DEF Exceeds, Replies
  <2>2. IF status = "executing"
          THEN \E s \in {"completed", "failed"} : plan' = [plan EXCEPT ![step].status = s]
          ELSE plan' = plan
    BY <1>4 DEF Exceeds, Replies
  <2>3. CASE status = "executing"
    <3>1. Alike(plan, rowPlan, step)
      BY <2>1, <2>3 DEF PlanInv, CopyInv, Executing
    <3>2. /\ Alike(plan', rowPlan, step) /\ Completed(rowPlan) \subseteq Completed(plan')
          /\ DonePrefix(plan') /\ UpTo(plan', born) /\ OneEach(plan')
      BY <1>2, <2>2, <2>3, <3>1
    <3>3. IdsInv' /\ OrderInv' /\ CopyInv'
      BY <2>1, <2>3, <3>2 DEF PlanInv, IdsInv, OrderInv, CopyInv, Executing
    <3>4. ResumeInv'
      BY <2>1, <2>3 DEF PlanInv, ResumeInv
    <3>5. QED
      BY <3>3, <3>4 DEF PlanInv
  <2>4. CASE status # "executing"
    BY <2>1, <2>2, <2>4 DEF PlanInv, IdsInv, OrderInv, CopyInv, ResumeInv, Executing
  <2>5. QED
    BY <2>3, <2>4
<1>5. QED
  BY <1>3, <1>4

\* The rest of the loop leaves the plan as it is, and stores it in the end.
LEMMA LoopKeeps ==
  ASSUME Data, WaitInv, PlanInv,
         LeavesExecuting \/ Compacts \/ LeavesSummarizing \/ Completes \/ YieldsDone
  PROVE  PlanInv'
<1> USE DEF rowVars, flowVars, logVars, At, AtTop, InStep, Between
<1>1. CASE LeavesExecuting
  <2>1. /\ UNCHANGED <<row, rowPlan, seen, plan, born, asked, pc>>
        /\ pc = "loop" /\ status = "executing" /\ status' = "summarizing"
    BY <1>1 DEF LeavesExecuting
  <2>2. QED
    BY <2>1 DEF PlanInv, IdsInv, OrderInv, CopyInv, ResumeInv, Executing
<1>2. CASE Compacts \/ LeavesSummarizing
  <2>1. /\ UNCHANGED <<row, rowPlan, seen, plan, born, asked>>
        /\ pc \in {"finished", "summed"} /\ pc' = "loop" /\ status' \in {"updating", "completed"}
    BY <1>2 DEF Compacts, LeavesSummarizing
  <2>2. QED
    BY <2>1 DEF PlanInv, IdsInv, OrderInv, CopyInv, ResumeInv, Executing
<1>3. CASE Completes
  <2>1. /\ UNCHANGED <<row, seen, plan, born, asked>> /\ rowPlan' = plan
        /\ pc = "loop" /\ pc' = "published"
    BY <1>3 DEF Completes
  <2>2. QED
    BY <2>1 DEF PlanInv, IdsInv, OrderInv, CopyInv, ResumeInv, Executing, WaitInv
<1>4. CASE YieldsDone
  <2>1. UNCHANGED <<row, rowPlan, seen, plan, born, asked>> /\ pc = "published" /\ pc' = "over"
    BY <1>4 DEF YieldsDone
  <2>2. QED
    BY <2>1 DEF PlanInv, IdsInv, OrderInv, CopyInv, ResumeInv, Executing
<1>5. QED
  BY <1>1, <1>2, <1>3, <1>4

\* Every step keeps the invariants of the plan.
LEMMA PlanStep ==
  ASSUME Data, Place, WaitInv, PlanInv, Next
  PROVE  PlanInv'
<1>1. CASE Over
  BY <1>1, OverKeeps
<1>2. CASE Within
  BY <1>2, WithinKeeps
<1>3. CASE ~Over /\ ~Within
  BY <1>3, OverSteps, WithinSteps, EnterKeeps, CreateKeeps, UpdateKeeps, ExecuteKeeps, LoopKeeps
     DEF Next, EnterNext, PlanNext, AgentNext, PlanInv, CopyInv
<1>4. QED
  BY <1>1, <1>2, <1>3

-----------------------------------------------------------------------------

\* The invariants of the plan hold with those of the memory and the types.
LEMMA PlanInvariant == Spec => []PlanInv
<1>1. Init => PlanInv
  <2>1. Init => IdsInv /\ OrderInv
    BY EmptyPlan DEF Init, IdsInv, OrderInv
  <2>2. Init => CopyInv /\ ResumeInv
    BY DEF Init, CopyInv, ResumeInv, Executing, InStep, Between
  <2>3. QED
    BY <2>1, <2>2 DEF PlanInv
<1>2. TypeOK /\ WaitInv /\ PlanInv /\ [Next]_vars => PlanInv'
  <2>1. ASSUME PlanInv, UNCHANGED vars PROVE PlanInv'
    <3>1. Within
      BY <2>1 DEF vars, rowVars, flowVars, logVars, Within
    <3>2. QED
      BY <2>1, <3>1, WithinKeeps
  <2>2. QED
    BY <2>1, PlanStep, TypeSplit
<1>3. QED
  BY <1>1, <1>2, TypeCorrect, MemoryInvariant, PTL DEF Spec

\* The flow starts no step that the stored plan shows as completed: it starts the next
\* step of a plan that is the stored one, in which no other step is the same.
LEMMA StartsUnfinished ==
  ASSUME Data, PlanInv, Next, pc = "loop", pc' = "started"
  PROVE  plan'[step'].id \notin Completed(rowPlan)
<1>1. ExecutesStep
  BY DEF Next, EnterNext, PlanNext, AgentNext, Send, Starts, Breaks, Crash, Interrupt, Enters,
         MarksRunning, LeavesIdle, CreatesPlan, PublishesPlan, LeavesPlanning, UpdatesPlan,
         LeavesUpdating, Completes, YieldsDone, RunnerEnds, LeavesExecuting, Asks, LLMAnswers,
         LLMIsEmpty, LLMFails, AnswerIsNotSaved, ToolReturns, Waits, ToolAnswers, SkipsCall, Exceeds,
         Replies, Compacts, LeavesSummarizing, NotSaved, Leaves, At, AtTop
<1>2. PICK i \in DOMAIN plan :
        NextStep(plan, i) /\ step' = i /\ plan' = [plan EXCEPT ![i].status = "running"]
  BY <1>1 DEF ExecutesStep
<1>3. rowPlan = plan /\ OneEach(plan) /\ plan \in Seq(StepRecord)
  BY <1>1 DEF ExecutesStep, AtTop, PlanInv, CopyInv, IdsInv, Data
<1>4. plan[i].status # "completed" /\ plan[i] \in StepRecord
  BY <1>2, <1>3, LenProperties, ElementOfSeq DEF NextStep, IsDone
<1>5. plan'[step'].id = plan[i].id
  BY <1>2, <1>4 DEF StepRecord
<1>6. QED
  BY <1>3, <1>4, <1>5 DEF Completed, OneEach

\* A step that was completed is in every revised plan, and none that the stored plan
\* shows as completed is taken back or dropped before another plan replaces the whole,
\* nor is it ever started again.
THEOREM FinishedStaysFinished == Spec => FinishedStepsStay
<1> DEFINE Stays == /\ \/ Completed(rowPlan) \subseteq Completed(rowPlan')
                       \/ Ids(rowPlan) \cap Ids(rowPlan') = {}
                    /\ pc' = "updated" => Completed(plan) \subseteq Completed(rowPlan')
             Starting == pc = "loop" /\ pc' = "started"
                           => plan'[step'].id \notin Completed(rowPlan)
<1>1. TypeOK /\ PlanInv /\ Next => Stays
  <2>1. SUFFICES ASSUME Data, PlanInv, Next PROVE Stays
    BY TypeSplit
  <2>2. CASE rowPlan' = rowPlan /\ (pc' = "updated" => pc = pc' /\ plan = plan')
    BY <2>1, <2>2 DEF PlanInv, CopyInv
  <2>3. CASE PublishesPlan
    <3>1. pc = "titled" /\ pc' = "planned" /\ rowPlan' = plan
      BY <2>3 DEF PublishesPlan, At
    <3>2. \A i \in DOMAIN plan, j \in DOMAIN rowPlan :
            rowPlan[j].id < plan[i].id /\ rowPlan[j].id \in Nat /\ plan[i].id \in Nat
      <4>1. rowPlan \in Seq(StepRecord) /\ plan \in Seq(StepRecord)
        BY <2>1 DEF Data
      <4>2. QED
        BY <2>1, <3>1, <4>1, Identities DEF PlanInv, IdsInv
    <3>3. Ids(rowPlan) \cap Ids(plan) = {}
      BY <3>2 DEF Ids
    <3>4. QED
      BY <3>1, <3>3
  <2>4. CASE UpdatesPlan
    <3>1. PICK n \in 0..(MaxSteps - born) : plan' = Revised(plan, Steps(n))
      BY <2>4 DEF UpdatesPlan
    <3>2. Steps(n) \in Seq(StepRecord) /\ \A i \in DOMAIN Steps(n) : ~IsDone(Steps(n)[i])
      <4>1. n \in Nat /\ born \in Nat
        BY <2>1, <3>1 DEF Data
      <4>2. QED
        BY <4>1, StepsType, NewSteps
    <3>3. Completed(plan) \subseteq Completed(plan')
      BY <2>1, <3>1, <3>2, RevisedKeeps DEF Data, PlanInv, OrderInv
    <3>4. rowPlan' = plan' /\ Completed(rowPlan) \subseteq Completed(plan)
      BY <2>1, <2>4 DEF UpdatesPlan, AtTop, PlanInv, CopyInv, Between
    <3>5. QED
      BY <3>3, <3>4
  <2>5. CASE Completes
    BY <2>1, <2>5 DEF Completes, AtTop, PlanInv, CopyInv, Between
  <2>6. QED
    <3> USE DEF rowVars, flowVars, At, AtTop, Leaves, NotSaved
    <3>1. CASE Send \/ Starts \/ Breaks \/ Crash \/ EnterNext
      BY <2>2, <3>1 DEF Send, Starts, Breaks, Crash, EnterNext, Interrupt, Enters, MarksRunning, LeavesIdle
    <3>2. CASE PlanNext
      BY <2>2, <2>3, <2>4, <2>5, <3>2
         DEF PlanNext, CreatesPlan, LeavesPlanning, LeavesUpdating, YieldsDone, RunnerEnds
    <3>3. CASE ExecutesStep \/ LeavesExecuting \/ Asks \/ LLMAnswers \/ LLMIsEmpty \/ LLMFails
      BY <2>2, <3>3 DEF ExecutesStep, LeavesExecuting, Asks, LLMAnswers, Decides, LLMIsEmpty, LLMFails
    <3>4. CASE AnswerIsNotSaved \/ ToolReturns \/ Waits \/ ToolAnswers \/ SkipsCall \/ Exceeds
               \/ Replies
      BY <2>2, <3>4 DEF AnswerIsNotSaved, ToolReturns, Waits, ToolAnswers, SkipsCall, Exceeds, Replies
    <3>5. CASE Compacts \/ LeavesSummarizing
      BY <2>2, <3>5 DEF Compacts, LeavesSummarizing
    <3>6. QED
      BY <2>1, <3>1, <3>2, <3>3, <3>4, <3>5 DEF Next, AgentNext
<1>2. TypeOK /\ PlanInv /\ Next => Starting
  BY StartsUnfinished, TypeSplit
<1>3. QED
  BY <1>1, <1>2, TypeCorrect, PlanInvariant, PTL DEF Spec, FinishedStepsStay

\* The step that goes on after a wait, found in the plan of the stored events, is
\* the one that asked.
THEOREM GoesOnWhereItAsked == Spec => ResumesWhereItAsked
<1> DEFINE Resumes == pc = "loop" /\ pc' = "started" /\ step = 0 /\ seen = "waiting"
                        => plan'[step'].id = asked
<1>1. TypeOK /\ PlanInv /\ Next => Resumes
  <2>1. SUFFICES ASSUME Data, PlanInv, Next, pc = "loop", pc' = "started", step = 0, seen = "waiting"
                 PROVE  plan'[step'].id = asked
    BY TypeSplit
  <2>2. ExecutesStep
    BY <2>1 DEF Next, EnterNext, PlanNext, AgentNext, Send, Starts, Breaks, Crash, Interrupt, Enters,
         MarksRunning, LeavesIdle, CreatesPlan, PublishesPlan, LeavesPlanning, UpdatesPlan,
         LeavesUpdating, Completes, YieldsDone, RunnerEnds, LeavesExecuting, Asks, LLMAnswers,
         LLMIsEmpty, LLMFails, AnswerIsNotSaved, ToolReturns, Waits, ToolAnswers, SkipsCall, Exceeds,
         Replies, Compacts, LeavesSummarizing, NotSaved, Leaves, At, AtTop
  <2>3. PICK i \in DOMAIN plan :
          NextStep(plan, i) /\ step' = i /\ plan' = [plan EXCEPT ![i].status = "running"]
    BY <2>2 DEF ExecutesStep
  <2>4. PICK k \in DOMAIN plan : NextStep(plan, k) /\ plan[k].id = asked
    BY <2>1, <2>2 DEF PlanInv, ResumeInv, AsksAt, ExecutesStep, AtTop
  <2>5. plan \in Seq(StepRecord) /\ i = k
    BY <2>1, <2>3, <2>4, OneNextStep DEF Data
  <2>6. plan[i] \in StepRecord
    BY <2>5, LenProperties, ElementOfSeq
  <2>7. plan'[i].id = plan[i].id
    BY <2>3, <2>6 DEF StepRecord
  <2>8. QED
    BY <2>3, <2>4, <2>5, <2>7
<1>2. QED
  BY <1>1, TypeCorrect, PlanInvariant, PTL DEF Spec, ResumesWhereItAsked
=============================================================================
