------------------------- MODULE StageExchange_proofs -------------------------
(***************************************************************************)
(* Theorems about StageExchange, for any number of attempts: the halves of *)
(* the contract fit, a codex process answers once, agents are told their   *)
(* attempt.                                                                *)
(***************************************************************************)
EXTENDS StageExchange, TLAPS

Stages == {"planner", "executor", "reviewer"}
Values == Strings \cup Names.status \cup Names.decision \cup Names.created_at

-----------------------------------------------------------------------------
(* The contract.                                                            *)

\* What decodeOutput can return of a planner, of an executor and of a reviewer.
GoodPlan(v) ==
    /\ DOMAIN v = Fields.planner /\ Valid("planner", v)
    /\ v.summary \notin {"null", "number", "missing"}
    /\ v.body \notin {"null", "number", "missing"}
GoodExecution(v) == DOMAIN v = Fields.executor /\ Valid("executor", v) /\ v.notes # "null"
                      /\ v.notes # "number"
GoodReview(v) ==
    /\ DOMAIN v = Fields.reviewer /\ Valid("reviewer", v)
    /\ v.summary \notin {"null", "number", "missing"} /\ v.feedback \notin {"null", "number"}

LEMMA TaskIsRead ==
    ASSUME NEW t \in Tasks
    PROVE  TaskFields(Encoded(t))
<1>1. /\ DOMAIN t = {"title", "description", "labels"}
      /\ t.title = "empty" /\ t.description = "text" /\ t.labels = "empty"
  BY DEF Tasks, NewTask
<1> QED BY <1>1 DEF TaskFields, Encoded, OmitEmpty, Optional, Required, IsString

LEMMA PlanIsRead ==
    ASSUME NEW v, GoodPlan(v)
    PROVE  PlanFields(Encoded(v)) /\ IsString(Encoded(v).created_at)
BY DEF GoodPlan, PlanFields, Encoded, OmitEmpty, Valid, NewPlan, Fields, Required, IsString

LEMMA ExecutionIsRead ==
    ASSUME NEW v, GoodExecution(v)
    PROVE  ExecutionFields(Encoded(v))
BY DEF GoodExecution, ExecutionFields, Encoded, OmitEmpty, Valid, NewExecutionResult,
       Fields, Names, Optional

LEMMA ReviewIsRead ==
    ASSUME NEW v, GoodReview(v)
    PROVE  ReviewFields(Encoded(v))
BY DEF GoodReview, ReviewFields, Encoded, OmitEmpty, Valid, NewReview, Fields, Names,
       Optional, Required, IsString

LEMMA ObjectFields ==
    ASSUME NEW s \in Stages, NEW doc \in Objects(s)
    PROVE  DOMAIN doc = Fields[s]
BY DEF Objects

LEMMA ObjectIsJSON ==
    ASSUME NEW s \in Stages, NEW doc \in Objects(s)
    PROVE  doc # NotJSON /\ doc # NoOutput
<1>1. DOMAIN doc = Fields[s]
  BY ObjectFields
<1>2. "none" \notin Fields[s] /\ "garbage" \notin Fields[s]
  BY DEF Fields, Stages
<1> QED BY <1>1, <1>2 DEF NotJSON, NoOutput

LEMMA GoodWhenRead ==
    ASSUME NEW s \in Stages, NEW doc \in Objects(s), Readable(s, doc)
    PROVE  /\ s = "planner" => GoodPlan(Value(doc))
           /\ s = "executor" => GoodExecution(Value(doc))
           /\ s = "reviewer" => GoodReview(Value(doc))
<1>1. DOMAIN doc = Fields[s]
  BY ObjectFields
<1> USE DEF Readable, Decodes, Value, Filled, Decoded, Fields
<1>2. CASE s = "planner"
  BY <1>1, <1>2 DEF GoodPlan, Valid, NewPlan
<1>3. CASE s = "executor"
  BY <1>1, <1>3 DEF GoodExecution
<1>4. CASE s = "reviewer"
  BY <1>1, <1>4 DEF GoodReview, Valid, NewReview
<1> QED BY <1>2, <1>3, <1>4

\* What zod lets out, Go takes.
LEMMA ReadWhenParsed ==
    ASSUME NEW s \in Stages, NEW doc \in Objects(s), OutputParses(s, doc)
    PROVE  Stripped(doc) \in Objects(s) /\ Readable(s, Stripped(doc))
<1> DEFINE out == Stripped(doc)
<1>1. out \in Objects(s)
  BY DEF Stripped, Objects, Strings
<1>2. DOMAIN doc = Fields[s] /\ DOMAIN out = Fields[s] /\ out # NotJSON
  BY <1>1, ObjectFields, ObjectIsJSON
<1>3. \A f \in Fields[s] : out[f] = IF f = "created_at" THEN "missing" ELSE doc[f]
  BY <1>2 DEF Stripped
<1> HIDE DEF out
<1> DEFINE v == Value(out)
<1>8. \A f \in Fields[s] :
        v[f] = IF f = "created_at" THEN "time"
               ELSE IF doc[f] \in {"missing", "null"} THEN "empty" ELSE doc[f]
  BY <1>2, <1>3 DEF Value, Filled, Decoded
<1> HIDE DEF v
<1> USE DEF OutputParses, IsString, Required, Optional
<1>4. ASSUME s = "planner" PROVE Readable(s, out)
  <2>1. Fields[s] = {"created_at", "summary", "body"} /\ PlanFields(doc)
    BY <1>4 DEF Fields
  <2>2. Decodes(out)
    BY <1>2, <1>3, <2>1 DEF Decodes, PlanFields
  <2>3. NewPlan(v)
    <3>1. /\ v["created_at"] = "time" /\ v["summary"] = doc["summary"]
          /\ v["body"] = doc["body"]
      BY <1>8, <2>1 DEF PlanFields
    <3> QED BY <2>1, <3>1 DEF NewPlan, PlanFields
  <2> QED BY <1>4, <2>2, <2>3 DEF Readable, Valid, v
<1>5. ASSUME s = "executor" PROVE Readable(s, out)
  <2>1. Fields[s] = {"status", "notes"} /\ ExecutionFields(doc)
    BY <1>5 DEF Fields
  <2>2. Decodes(out)
    BY <1>2, <1>3, <2>1 DEF Decodes, ExecutionFields, Names
  <2>3. NewExecutionResult(v)
    BY <1>8, <2>1 DEF NewExecutionResult, ExecutionFields, Names
  <2> QED BY <1>5, <2>2, <2>3 DEF Readable, Valid, v
<1>6. ASSUME s = "reviewer" PROVE Readable(s, out)
  <2>1. /\ Fields[s] = {"decision", "summary", "feedback"}
        /\ ReviewFields(doc)
        /\ doc.decision = "reject" => doc.feedback \notin {"missing", "empty"}
    BY <1>6 DEF Fields
  <2>2. Decodes(out)
    BY <1>2, <1>3, <2>1 DEF Decodes, ReviewFields, Names
  <2>3. NewReview(v)
    BY <1>8, <2>1 DEF NewReview, ReviewFields, Names
  <2> QED BY <1>6, <2>2, <2>3 DEF Readable, Valid, v
<1>7. out \in Objects(s) /\ Readable(s, out)
  BY <1>1, <1>4, <1>5, <1>6 DEF Stages
<1> QED BY <1>7 DEF out

-----------------------------------------------------------------------------
(* The stages of a run.                                                     *)

\* The output is a document of the stage, and one that Go takes if main ended well.
OutputFollows ==
    /\ stage \in Stages
    /\ output \in Documents(stage) \cup {NoOutput}
    /\ pc = "exit 0" => output \in Objects(stage) /\ Readable(stage, output)
    /\ pc \in {"spec", "input"} => output = NoOutput
    /\ fault # "input"

\* The plan and the histories are what decodeOutput returned, the task was checked.
HistoryFollows ==
    /\ task \in Tasks
    /\ stage # "planner" => GoodPlan(plan)
    /\ \A i \in 1 .. Len(executions) : GoodExecution(executions[i])
    /\ \A i \in 1 .. Len(reviews) : GoodReview(reviews[i])

\* The histories keep step with the attempt, and so does what the agent is told.
AttemptFollows ==
    /\ attempt \in Nat
    /\ executions \in Seq([Fields.executor -> Values])
    /\ reviews \in Seq([Fields.reviewer -> Values])
    /\ stage = "planner" => attempt = 0 /\ Len(executions) = 0 /\ Len(reviews) = 0
    /\ stage # "planner" => attempt >= 1
    /\ stage = "executor" => Len(executions) = attempt - 1 /\ Len(reviews) = attempt - 1
    /\ stage = "reviewer" /\ pc # "done" =>
           Len(executions) = attempt /\ Len(reviews) = attempt - 1
    /\ Inside /\ stage # "planner" => told = attempt

\* Where the stage is follows from what the codex process did.
CodexFollows ==
    /\ pc \in {"spec", "input", "agent"} => child = "none" /\ ends = 0
    /\ pc = "codex" => child = "running" /\ ends = 0
    /\ pc = "message" => child = "zero" /\ ends = 1
    /\ ends \in {0, 1}
    /\ pc = "exit 0" /\ child # "none" => child = "zero" /\ ends = 1
    /\ child = "running" => pc \in {"codex", "exit 1", "left", "failed", "done"}
    /\ child = "error" => pc \in {"thrown", "exit 1", "failed"}

LEMMA ValueType ==
    ASSUME NEW s \in Stages, NEW doc \in Objects(s)
    PROVE  Value(doc) \in [Fields[s] -> Values]
<1>1. doc \in [Fields[s] -> Values]
  <2>1. DOMAIN Names = {"status", "decision", "created_at"}
    BY DEF Names
  <2> QED BY <2>1 DEF Objects, Values
<1>2. "empty" \in Values /\ "time" \in Values
  BY DEF Values, Strings, Names
<1> QED BY <1>1, <1>2 DEF Value, Filled, Decoded

\* An output that could be read is a document.
LEMMA OutputIsDocument ==
    ASSUME OutputFollows, output # NoOutput, Readable(stage, output)
    PROVE  output \in Objects(stage)
BY DEF OutputFollows, Documents, Readable, Decodes

LEMMA AppendGood ==
    ASSUME NEW S, NEW q \in Seq(S), NEW v \in S
    PROVE  /\ Append(q, v) \in Seq(S) /\ Len(Append(q, v)) = Len(q) + 1
           /\ \A i \in 1 .. Len(q) : Append(q, v)[i] = q[i]
           /\ Append(q, v)[Len(q) + 1] = v
OBVIOUS

Inv == OutputFollows /\ HistoryFollows /\ AttemptFollows /\ CodexFollows

LEMMA InvInit == Init => Inv
<1> SUFFICES ASSUME Init PROVE Inv
  OBVIOUS
<1>1. OutputFollows
  BY DEF Init, OutputFollows, Stages
<1>2. HistoryFollows
  BY DEF Init, HistoryFollows
<1>3. AttemptFollows
  BY DEF Init, AttemptFollows, Inside
<1>4. CodexFollows
  BY DEF Init, CodexFollows
<1> QED BY <1>1, <1>2, <1>3, <1>4 DEF Inv

\* Whatever Go has accepted so far, the runtime of this stage can read.
LEMMA InputIsRead == HistoryFollows => InputParses(stage)
<1> SUFFICES ASSUME HistoryFollows PROVE InputParses(stage)
  OBVIOUS
<1>3. TaskFields(Encoded(task))
  BY TaskIsRead DEF HistoryFollows
<1>4. stage # "planner" => PlanFields(Encoded(plan)) /\ IsString(Encoded(plan).created_at)
  BY PlanIsRead DEF HistoryFollows
<1>1. \A i \in DOMAIN reviews : ReviewFields(Encoded(reviews[i]))
  BY ReviewIsRead DEF HistoryFollows
<1>2. \A i \in DOMAIN executions : ExecutionFields(Encoded(executions[i]))
  BY ExecutionIsRead DEF HistoryFollows
<1> QED BY <1>1, <1>2, <1>3, <1>4 DEF InputParses

LEMMA AnswerFollows ==
    ASSUME OutputFollows, NEW doc \in Documents(stage), Answer(doc),
           UNCHANGED <<stage, fault>>, pc \in {"agent", "message"}
    PROVE  OutputFollows'
<1>1. CASE OutputParses(stage, doc)
  <2>1. doc \in Objects(stage) /\ stage \in Stages
    BY <1>1 DEF Documents, OutputParses, OutputFollows
  <2>2. Stripped(doc) \in Objects(stage) /\ Readable(stage, Stripped(doc))
    BY <1>1, <2>1, ReadWhenParsed
  <2> QED BY <1>1, <2>1, <2>2 DEF Answer, OutputFollows, Documents
<1>2. CASE ~OutputParses(stage, doc)
  BY <1>2 DEF Answer, OutputFollows
<1> QED BY <1>1, <1>2

LEMMA OutputStep == Inv /\ [Next]_vars => OutputFollows'
<1> SUFFICES ASSUME Inv, [Next]_vars PROVE OutputFollows'
  OBVIOUS
<1>i. OutputFollows /\ HistoryFollows
  BY DEF Inv
<1> USE DEF configVars, historyVars, codexVars
<1>1. CASE ContainerSpec
  BY <1>i, <1>1 DEF ContainerSpec, Fail, OutputFollows
<1>2. CASE ReadInput
  BY <1>i, <1>2, InputIsRead DEF ReadInput, Fail, OutputFollows
<1>3. CASE AgentReturns
  <2>1. CASE \E doc \in Objects(stage) : Answer(doc)
    <3>1. PICK doc \in Objects(stage) : Answer(doc)
      BY <2>1
    <3> QED BY <1>i, <1>3, <3>1, AnswerFollows DEF AgentReturns, Documents
  <2>2. CASE pc' = "thrown" /\ UNCHANGED output
    BY <1>i, <1>3, <2>2 DEF AgentReturns, OutputFollows
  <2> QED BY <1>3, <2>1, <2>2 DEF AgentReturns
<1>4. CASE CodexAnswers
  <2>1. CASE \E doc \in Documents(stage) : Answer(doc)
    BY <1>i, <1>4, <2>1, AnswerFollows DEF CodexAnswers
  <2>2. CASE pc' = "thrown" /\ UNCHANGED output
    BY <1>i, <1>4, <2>2 DEF CodexAnswers, OutputFollows
  <2> QED BY <1>4, <2>1, <2>2 DEF CodexAnswers
<1>5. CASE AgentWrites
  BY <1>i, <1>5 DEF AgentWrites, OutputFollows, Documents
<1>6. CASE OwnRuntime
  BY <1>i, <1>6 DEF OwnRuntime, OutputFollows
<1>7. CASE RuntimeDies \/ CodexStarts \/ CodexErrors \/ CodexCloses
  BY <1>i, <1>7 DEF RuntimeDies, CodexStarts, CodexErrors, CodexCloses, OutputFollows
<1>11. CASE AgentExits
  BY <1>i, <1>11 DEF AgentExits, OutputFollows
<1>8. CASE Refused
  BY <1>i, <1>8 DEF Refused, Fail, OutputFollows
<1>9. CASE Accepted
  <2>1. CASE \E next \in Stages, n \in {1, attempt, attempt + 1} : Enter(next, n)
    BY <1>i, <1>9, <2>1 DEF Accepted, Enter, OutputFollows
  <2>2. CASE pc' = "done" /\ UNCHANGED <<stage, output>>
    BY <1>i, <1>9, <2>2 DEF Accepted, OutputFollows
  <2> QED BY <1>9, <2>1, <2>2 DEF Accepted, Stages
<1>10. CASE UNCHANGED vars
  BY <1>i, <1>10 DEF vars, OutputFollows
<1> QED BY <1>1, <1>2, <1>3, <1>4, <1>5, <1>6, <1>7, <1>8, <1>9, <1>10, <1>11
        DEF Next, Runtime, Codex

LEMMA HistoryStep == Inv /\ [Next]_vars => HistoryFollows'
<1> SUFFICES ASSUME Inv, [Next]_vars PROVE HistoryFollows'
  OBVIOUS
<1>i. OutputFollows /\ HistoryFollows /\ AttemptFollows
  BY DEF Inv
<1>1. CASE UNCHANGED <<task, stage, plan, executions, reviews>>
  BY <1>i, <1>1 DEF HistoryFollows
<1>2. CASE Accepted
  <2> DEFINE v == Value(output)
  <2>1. output \in Objects(stage) /\ stage \in Stages /\ Readable(stage, output)
    BY <1>i, <1>2, OutputIsDocument DEF Accepted, OutputFollows
  <2>2. v \in [Fields[stage] -> Values]
    BY <2>1, ValueType
  <2>6. UNCHANGED task
    BY <1>2 DEF Accepted, configVars
  <2>3. CASE stage = "planner"
    <3>1. plan' = v /\ UNCHANGED <<executions, reviews>>
      BY <1>2, <2>3 DEF Accepted
    <3>2. GoodPlan(v)
      BY <2>1, <2>3, GoodWhenRead
    <3> HIDE DEF v
    <3> QED BY <1>i, <2>6, <3>1, <3>2 DEF HistoryFollows
  <2>4. CASE stage = "executor"
    <3>1. executions' = Append(executions, v) /\ UNCHANGED <<plan, reviews>>
      BY <1>2, <2>4 DEF Accepted
    <3>2. GoodExecution(v)
      BY <2>1, <2>4, GoodWhenRead
    <3>3. executions \in Seq([Fields.executor -> Values]) /\ v \in [Fields.executor -> Values]
      BY <1>i, <2>2, <2>4 DEF AttemptFollows, Fields
    <3> HIDE DEF v
    <3>4. \A i \in 1 .. Len(executions') : GoodExecution(executions'[i])
      BY <1>i, <3>1, <3>2, <3>3, AppendGood DEF HistoryFollows
    <3> QED BY <1>i, <2>4, <2>6, <3>1, <3>4 DEF HistoryFollows
  <2>5. CASE stage = "reviewer"
    <3>1. reviews' = Append(reviews, v) /\ UNCHANGED <<plan, executions>>
      BY <1>2, <2>5 DEF Accepted
    <3>2. GoodReview(v)
      BY <2>1, <2>5, GoodWhenRead
    <3>3. reviews \in Seq([Fields.reviewer -> Values]) /\ v \in [Fields.reviewer -> Values]
      BY <1>i, <2>2, <2>5 DEF AttemptFollows, Fields
    <3> HIDE DEF v
    <3>4. \A i \in 1 .. Len(reviews') : GoodReview(reviews'[i])
      BY <1>i, <3>1, <3>2, <3>3, AppendGood DEF HistoryFollows
    <3> QED BY <1>i, <2>5, <2>6, <3>1, <3>4 DEF HistoryFollows
  <2> QED BY <2>1, <2>3, <2>4, <2>5 DEF Stages
<1> USE DEF configVars, historyVars, codexVars
<1>3. CASE ContainerSpec \/ Refused \/ UNCHANGED vars
  BY <1>1, <1>3 DEF ContainerSpec, Refused, vars
<1>4. CASE Runtime
  BY <1>1, <1>4
     DEF Runtime, ReadInput, AgentReturns, AgentWrites, RuntimeDies,
         AgentExits, OwnRuntime
<1>5. CASE Codex
  BY <1>1, <1>5 DEF Codex, CodexStarts, CodexErrors, CodexCloses, CodexAnswers
<1> QED BY <1>2, <1>3, <1>4, <1>5 DEF Next

LEMMA AttemptStep == Inv /\ [Next]_vars => AttemptFollows'
<1> SUFFICES ASSUME Inv, [Next]_vars PROVE AttemptFollows'
  OBVIOUS
<1>i. OutputFollows /\ AttemptFollows
  BY DEF Inv
<1> USE DEF configVars, historyVars, codexVars
<1>1. CASE UNCHANGED <<historyVars, told>> /\ (Inside' => Inside) /\ (pc = "done" => pc' = "done")
  BY <1>i, <1>1 DEF AttemptFollows
<1>2. CASE ContainerSpec
  <2>1. stage # "planner" /\ Inside' => "attempt" \notin claims /\ attempt > 0
    BY <1>i, <1>2 DEF ContainerSpec, Fail, Inside, Reserved, Targets, Variables, AttemptFollows
  <2>2. stage # "planner" /\ Inside' => told' = attempt
    BY <1>2, <2>1 DEF ContainerSpec, Fail, Inside, AttemptOf
  <2> QED BY <1>i, <1>2, <2>2 DEF ContainerSpec, AttemptFollows, Inside
<1>3. CASE Accepted
  <2> DEFINE v == Value(output)
  <2>1. output \in Objects(stage) /\ stage \in Stages /\ Success
    BY <1>i, <1>3, OutputIsDocument DEF Accepted, OutputFollows
  <2>2. v \in [Fields[stage] -> Values]
    BY <2>1, ValueType
  <2>3. CASE stage = "planner"
    <3>1. /\ UNCHANGED <<executions, reviews>>
          /\ stage' = "executor" /\ attempt' = 1 /\ pc' = "spec"
      BY <1>3, <2>3 DEF Accepted, Enter
    <3> QED BY <1>i, <2>3, <3>1 DEF AttemptFollows, Inside
  <2>4. CASE stage = "executor"
    <3>1. /\ executions' = Append(executions, v) /\ UNCHANGED reviews
          /\ stage' = "reviewer" /\ attempt' = attempt /\ pc' = "spec"
      BY <1>3, <2>4 DEF Accepted, Enter
    <3>2. executions \in Seq([Fields.executor -> Values]) /\ v \in [Fields.executor -> Values]
      BY <1>i, <2>2, <2>4 DEF AttemptFollows, Fields
    <3> HIDE DEF v
    <3>3. /\ executions' \in Seq([Fields.executor -> Values])
          /\ Len(executions') = Len(executions) + 1
      BY <3>1, <3>2, AppendGood
    <3> QED BY <1>i, <2>4, <3>1, <3>3 DEF AttemptFollows, Inside
  <2>5. CASE stage = "reviewer"
    <3>1. /\ reviews' = Append(reviews, v) /\ UNCHANGED executions
          /\ \/ stage' = "executor" /\ attempt' = attempt + 1 /\ pc' = "spec"
             \/ UNCHANGED <<stage, attempt>> /\ pc' = "done"
      BY <1>3, <2>5 DEF Accepted, Enter
    <3>2. reviews \in Seq([Fields.reviewer -> Values]) /\ v \in [Fields.reviewer -> Values]
      BY <1>i, <2>2, <2>5 DEF AttemptFollows, Fields
    <3> HIDE DEF v
    <3>3. /\ reviews' \in Seq([Fields.reviewer -> Values])
          /\ Len(reviews') = Len(reviews) + 1
      BY <3>1, <3>2, AppendGood
    <3>4. attempt \in Nat /\ attempt >= 1 /\ Len(executions) = attempt
          /\ Len(reviews) = attempt - 1
          /\ executions \in Seq([Fields.executor -> Values])
      BY <1>i, <2>1, <2>5 DEF AttemptFollows, Success
    <3>5. CASE stage' = "executor" /\ attempt' = attempt + 1 /\ pc' = "spec"
      <4>1. Len(reviews') = attempt' - 1 /\ Len(executions') = attempt' - 1 /\ attempt' >= 1
        BY <3>1, <3>3, <3>4, <3>5
      <4> QED BY <3>1, <3>3, <3>4, <3>5, <4>1 DEF AttemptFollows, Inside
    <3>6. CASE UNCHANGED <<stage, attempt>> /\ pc' = "done"
      BY <2>5, <3>1, <3>3, <3>4, <3>6 DEF AttemptFollows, Inside
    <3> QED BY <3>1, <3>5, <3>6
  <2> QED BY <2>1, <2>3, <2>4, <2>5 DEF Stages
<1>4. CASE Refused \/ UNCHANGED vars
  BY <1>1, <1>4 DEF Refused, Success, Fail, vars, Inside
<1>5. CASE Runtime
  BY <1>1, <1>5
     DEF Runtime, ReadInput, Fail, AgentReturns, Answer, AgentWrites, RuntimeDies,
         AgentExits, OwnRuntime, Inside
<1>6. CASE Codex
  BY <1>1, <1>6
     DEF Codex, CodexStarts, CodexErrors, CodexCloses, CodexAnswers, Answer, Inside
<1> QED BY <1>2, <1>3, <1>4, <1>5, <1>6 DEF Next

LEMMA CodexStep == Inv /\ [Next]_vars => CodexFollows'
<1> SUFFICES ASSUME Inv, [Next]_vars PROVE CodexFollows'
  OBVIOUS
<1>i. CodexFollows
  BY DEF Inv
<1> USE DEF configVars, historyVars, codexVars, CodexFollows
<1>1. CASE ContainerSpec \/ Refused \/ UNCHANGED vars
  BY <1>i, <1>1 DEF ContainerSpec, Refused, Success, Fail, vars
<1>2. CASE Accepted
  BY <1>i, <1>2 DEF Accepted, Success, Enter
<1>3. CASE Runtime
  BY <1>i, <1>3
     DEF Runtime, ReadInput, Fail, AgentReturns, Answer, AgentWrites, RuntimeDies,
         AgentExits, OwnRuntime, Inside
<1>4. CASE CodexStarts
  BY <1>i, <1>4 DEF CodexStarts
<1>5. CASE CodexErrors
  <2>1. CASE pc = "codex"
    <3>1. ends' = 1 /\ pc' = "thrown" /\ child' = "error"
      BY <1>i, <1>5, <2>1 DEF CodexErrors
    <3> QED BY <3>1
  <2>2. CASE pc # "codex"
    <3>1. UNCHANGED <<ends, pc>> /\ child = "running" /\ child' = "error" /\ Inside
      BY <1>5, <2>2 DEF CodexErrors
    <3> QED BY <1>i, <2>2, <3>1 DEF Inside
  <2> QED BY <2>1, <2>2
<1>6. CASE CodexCloses
  <2>1. CASE pc = "codex"
    <3>1. /\ ends' = 1 /\ child' \in {"zero", "other", "null"}
          /\ pc' = IF child' = "zero" THEN "message" ELSE "thrown"
      BY <1>i, <1>6, <2>1 DEF CodexCloses
    <3> QED BY <3>1
  <2>2. CASE pc # "codex"
    <3>1. /\ UNCHANGED <<ends, pc>> /\ Inside
          /\ child \in {"running", "error"} /\ child' \in {"zero", "other", "null"}
      BY <1>6, <2>2 DEF CodexCloses
    <3> QED BY <1>i, <2>2, <3>1 DEF Inside
  <2> QED BY <2>1, <2>2
<1>7. CASE CodexAnswers
  BY <1>i, <1>7 DEF CodexAnswers, Answer
<1> QED BY <1>1, <1>2, <1>3, <1>4, <1>5, <1>6, <1>7 DEF Next, Codex

LEMMA Invariant == Spec => []Inv
<1>1. Inv /\ [Next]_vars => Inv'
  BY OutputStep, HistoryStep, AttemptStep, CodexStep DEF Inv
<1> QED BY InvInit, <1>1, PTL DEF Spec

-----------------------------------------------------------------------------
\* What main leaves is a document.
LEMMA OutputOK == OutputFollows /\ pc = "exit 0" => output # NoOutput
BY ObjectIsJSON DEF OutputFollows

\* Whatever agents and images answer, in however many attempts: the runtime can read
\* what Go made of it, and Go accepts what the runtime of the sdk let out.
THEOREM ContractsFit == Spec => []ContractsAgree
<1>1. Inv => ContractsAgree
  BY OutputOK DEF Inv, OutputFollows, ContractsAgree
<1> QED BY <1>1, Invariant, PTL

\* In any order of "error" and "close", a stage is answered by codex only after an exit
\* with code 0, and the end is logged once.
THEOREM CodexSettles == Spec => []CodexSettlesOnce
<1>1. Inv => CodexSettlesOnce
  <2>1. Inv => CodexFollows
    BY DEF Inv
  <2>2. ASSUME CodexFollows PROVE ends <= 1
    <3>1. CASE ends = 0
      BY <3>1
    <3>2. CASE ends = 1
      BY <3>2
    <3> QED BY <2>2, <3>1, <3>2, Zenon DEF CodexFollows
  <2>3. CodexFollows /\ pc = "exit 0" /\ child # "none" => child = "zero" /\ ends = 1
    BY DEF CodexFollows
  <2> QED BY <2>1, <2>2, <2>3 DEF CodexSettlesOnce
<1> QED BY <1>1, Invariant, PTL

\* For any number of attempts, and whatever credentials set, an executor and a reviewer
\* know which attempt they are in, and their histories go with it.
THEOREM AgentsKnow == Spec => []AgentsAreTold
<1>1. Inv => AgentsAreTold
  <2> SUFFICES ASSUME Inv, Inside, stage # "planner"
               PROVE  /\ told = attempt /\ Len(reviews) = told - 1
                      /\ Len(executions) = IF stage = "executor" THEN told - 1 ELSE told
    BY DEF AgentsAreTold
  <2>1. stage \in {"executor", "reviewer"} /\ pc # "done"
    BY DEF Inv, OutputFollows, Stages, Inside
  <2> QED BY <2>1 DEF Inv, AttemptFollows
<1> QED BY <1>1, Invariant, PTL
=============================================================================
