----------------------------- MODULE StageExchange -----------------------------
(***************************************************************************)
(* What crosses /io between the host (internal/stage, internal/types) and  *)
(* the runtime in a stage's container (sdk), for all stages of a run.  Two *)
(* languages each hold one half of the contract: Go decodes, checks and    *)
(* encodes, zod parses; and what Go accepts of one stage is what zod is    *)
(* given in the next.                                                      *)
(*                                                                         *)
(* A document is a function from the fields of the stage to what JSON has  *)
(* there, of a string only whether it is empty, one of the names of an     *)
(* enumeration or a time.  The container and the pipeline's error paths    *)
(* are in StageContainer and Pipeline.                                     *)
(***************************************************************************)
EXTENDS Naturals, Sequences

CONSTANT RetriesMax   \* config.retries.max

ASSUME ExchangeAssumption == RetriesMax \in Nat \ {0}

VARIABLES
    image,       \* the image has the runtime of the sdk, or one of its own
    limited,     \* config.container.token_budget is not 0
    claims,      \* the mounts and the reserved variables credentials ask for too
    task,        \* what the run is about
    stage, attempt,
    plan,        \* what the planner returned
    executions,  \* history.Executions
    reviews,     \* history.Reviews
    pc,          \* where the stage is
    told,        \* attempt in the agent's context
    child,       \* the codex process
    ends,        \* how often its end is logged
    output,      \* output.json
    fault        \* why the run ended

configVars  == <<image, limited, claims, task>>
historyVars == <<stage, attempt, plan, executions, reviews>>
codexVars   == <<child, ends>>
vars == <<configVars, historyVars, codexVars, pc, told, output, fault>>

-----------------------------------------------------------------------------
(* Documents.                                                               *)

Strings == {"missing", "null", "number", "empty", "text"}

Fields == [planner  |-> {"created_at", "summary", "body"},
           executor |-> {"status", "notes"},
           reviewer |-> {"decision", "summary", "feedback"}]

\* The strings that are more than text: names of an enumeration, a time of RFC 3339.
Names == [status |-> {"success", "partial_success", "failed"},
          decision |-> {"accept", "reject"},
          created_at |-> {"time"}]

Objects(s) ==
    LET named == Fields[s] \cap DOMAIN Names
    IN {doc \in [Fields[s] -> Strings \cup UNION {Names[f] : f \in named}] :
          \A f \in Fields[s] : doc[f] \in Strings \/ (f \in named /\ doc[f] \in Names[f])}

\* No file, or text that is not a JSON object.
NoOutput == [none |-> "none"]
NotJSON  == [garbage |-> "text"]
Documents(s) == Objects(s) \cup {NotJSON}

-----------------------------------------------------------------------------
(* Go.                                                                      *)

\* json.Unmarshal into a struct: null and a missing field are the zero value, a
\* value of another type is an error, and so is a string that is not a time where
\* there should be one.
Decodes(doc) ==
    doc # NotJSON /\ \A f \in DOMAIN doc :
        IF f = "created_at" THEN doc[f] \in {"missing", "null", "time"}
                            ELSE doc[f] # "number"

Decoded(doc) ==
    [f \in DOMAIN doc |-> IF doc[f] \in {"missing", "null"} THEN "empty" ELSE doc[f]]

\* NewPlan fills in the time.
Filled(v) == [f \in DOMAIN v |-> IF f = "created_at" THEN "time" ELSE v[f]]

\* Mutant of NewPlan: a check is lost.
NewPlanBodiless(v) == v.created_at # "empty" /\ v.summary # "empty"

\* What each of these takes without an error.
NewTask(v)            == v.description # "empty"
NewPlan(v)            == /\ v.created_at # "empty"
                         /\ v.summary # "empty" /\ v.body # "empty"
NewExecutionResult(v) == v.status \in Names.status
NewReview(v)          == /\ v.decision \in Names.decision /\ v.summary # "empty"
                         /\ v.decision = "reject" => v.feedback # "empty"

Valid(s, v) ==
    CASE s = "planner"  -> NewPlan(v)
      [] s = "executor" -> NewExecutionResult(v)
      [] s = "reviewer" -> NewReview(v)

\* decodeOutput, with the stage's New function.
Value(doc)       == Filled(Decoded(doc))
Readable(s, doc) == Decodes(doc) /\ Valid(s, Value(doc))

\* json.MarshalIndent: these are left out if they are empty, a time is never empty.
OmitEmpty == {"title", "labels", "notes", "feedback"}

Encoded(v) ==
    [f \in DOMAIN v |-> IF f = "created_at" THEN "time"
                       ELSE IF f \in OmitEmpty /\ v[f] = "empty" THEN "missing" ELSE v[f]]

\* The tasks Service.Run makes of a prompt.
Tasks == {t \in [title : {"empty"}, description : {"empty", "text"}, labels : {"empty"}] :
            NewTask(t)}

-----------------------------------------------------------------------------
(* zod.                                                                     *)

IsString(v) == v \notin {"missing", "null", "number"}
Required(v) == IsString(v) /\ v # "empty"
Optional(v) == v \notin {"null", "number"}

\* taskSchema.
TaskFields(doc) ==
    Optional(doc.title) /\ Required(doc.description) /\ Optional(doc.labels)

\* planDataSchema.
PlanFields(doc) == Required(doc.summary) /\ Required(doc.body)

\* reviewFields, as the executor and the reviewer read it.
ReviewFields(doc) ==
    doc.decision \in Names.decision /\ Required(doc.summary) /\ Optional(doc.feedback)

\* executionResultDataSchema.
ExecutionFields(doc) == doc.status \in Names.status /\ Optional(doc.notes)

\* SPECS[stage].output.parse.
OutputParses(s, doc) ==
    /\ doc # NotJSON
    /\ CASE s = "planner"  -> PlanFields(doc)
         [] s = "executor" -> ExecutionFields(doc)
         [] s = "reviewer" -> /\ ReviewFields(doc)
                              /\ doc.decision = "reject" =>
                                     doc.feedback \notin {"missing", "empty"}

\* What main writes of an output that was parsed: fields the schema does not have are
\* gone, as planDataSchema has no time.
Stripped(doc) == [f \in DOMAIN doc |-> IF f = "created_at" THEN "missing" ELSE doc[f]]

\* SPECS[stage].input.parse, of what runStage encodes.  planSchema is planDataSchema
\* and the time; both histories are lists from the start, the patch is a string.
InputParses(s) ==
    /\ s = "planner"  => TaskFields(Encoded(task))
    /\ s # "planner"  => /\ PlanFields(Encoded(plan))
                         /\ IsString(Encoded(plan).created_at)
                         /\ \A i \in DOMAIN reviews : ReviewFields(Encoded(reviews[i]))
    /\ s = "reviewer" =>
           \A i \in DOMAIN executions : ExecutionFields(Encoded(executions[i]))

-----------------------------------------------------------------------------
Init ==
    /\ image \in {"sdk", "own"} /\ limited \in BOOLEAN
    /\ claims \in SUBSET {"attempt", "budget", "workspace"}
    /\ task \in Tasks
    /\ plan = [f \in Fields.planner |-> "empty"]
    /\ stage = "planner" /\ attempt = 0 /\ executions = <<>> /\ reviews = <<>>
    /\ pc = "spec" /\ told = 0 /\ child = "none" /\ ends = 0
    /\ output = NoOutput /\ fault = "none"

Fail(why) == pc' = "failed" /\ fault' = why

\* The paths and variables the host gives a meaning of its own in this container.
Targets   == IF attempt > 0 THEN {"workspace"} ELSE {}
Variables == (IF attempt > 0 THEN {"attempt"} ELSE {})
               \cup (IF limited THEN {"budget"} ELSE {})
Reserved  == Targets \cup Variables

\* parseAttempt: PATCHDOCK_ATTEMPT, 1 if there is none; and what a credential may set.
AttemptOf(env) == IF env > 0 THEN env ELSE 1
Theirs == RetriesMax + 1

\* Mutant of ContainerSpec: a credential's variable wins.
SpecOverridden ==
    /\ pc = "spec"
    /\ \/ "workspace" \in claims \cap Reserved /\ Fail("spec") /\ UNCHANGED told
       \/ /\ "workspace" \notin claims \cap Reserved
          /\ told' = IF "attempt" \in claims THEN Theirs ELSE AttemptOf(attempt)
          /\ pc' = "input" /\ UNCHANGED fault
    /\ UNCHANGED <<configVars, historyVars, codexVars, output>>

\* containerMounts and containerEnv: a credential may not claim what this stage uses,
\* and may set what it leaves alone.
ContainerSpec ==
    /\ pc = "spec"
    /\ \/ claims \cap Reserved # {} /\ Fail("spec") /\ UNCHANGED told
       \/ /\ claims \cap Reserved = {}
          /\ told' = IF "attempt" \in claims THEN Theirs ELSE AttemptOf(attempt)
          /\ pc' = "input" /\ UNCHANGED fault
    /\ UNCHANGED <<configVars, historyVars, codexVars, output>>

-----------------------------------------------------------------------------
(* The runtime in the container.                                            *)

Inside == pc \in {"input", "agent", "codex", "message", "thrown"}

\* main parses the stage, the definition and, in runAgent, the input.
ReadInput ==
    /\ pc = "input" /\ image = "sdk"
    /\ IF InputParses(stage) THEN pc' = "agent" /\ UNCHANGED fault ELSE Fail("input")
    /\ UNCHANGED <<configVars, historyVars, codexVars, told, output>>

\* main: what the agent returned is parsed, then written.
Answer(doc) ==
    IF OutputParses(stage, doc)
    THEN output' = Stripped(doc) /\ pc' = "exit 0"
    ELSE pc' = "thrown" /\ UNCHANGED output

\* An agent of one's own returns anything of its type, or throws.
AgentReturns ==
    /\ pc = "agent"
    /\ \/ \E doc \in Objects(stage) : Answer(doc)
       \/ pc' = "thrown" /\ UNCHANGED output
    /\ UNCHANGED <<configVars, historyVars, codexVars, told, fault>>

\* The agent may write to /io too: at worst what the host would accept.
AgentWrites ==
    /\ pc \in {"agent", "codex"} /\ output = NoOutput
    /\ output' \in {doc \in Objects(stage) : \A f \in Fields[stage] :
                      doc[f] = IF f \in DOMAIN Names THEN CHOOSE n \in Names[f] : TRUE
                               ELSE "text"}
    /\ UNCHANGED <<configVars, historyVars, codexVars, pc, told, fault>>

\* runCodex and stream, for an agent that returns what codex gives it.
CodexStarts ==
    /\ pc = "agent" /\ child = "none"
    /\ pc' = "codex" /\ child' = "running"
    /\ UNCHANGED <<configVars, historyVars, ends, told, output, fault>>

\* once("error"): the process could not be started, or not be killed.
CodexErrors ==
    /\ Inside /\ child = "running"
    /\ child' = "error"
    /\ IF pc = "codex" THEN ends' = ends + 1 /\ pc' = "thrown" ELSE UNCHANGED <<ends, pc>>
    /\ UNCHANGED <<configVars, historyVars, told, output, fault>>

\* Mutant of CodexCloses: a process that was killed by a signal has a null code.
ClosesFalsy ==
    /\ Inside /\ child \in {"running", "error"}
    /\ child' \in {"zero", "other", "null"}
    /\ IF pc = "codex"
       THEN ends' = ends + 1 /\ pc' = IF child' \in {"zero", "null"} THEN "message" ELSE "thrown"
       ELSE UNCHANGED <<ends, pc>>
    /\ UNCHANGED <<configVars, historyVars, told, output, fault>>

\* once("close"), which also comes after an error.
CodexCloses ==
    /\ Inside /\ child \in {"running", "error"}
    /\ child' \in {"zero", "other", "null"}
    /\ IF pc = "codex"
       THEN ends' = ends + 1 /\ pc' = IF child' = "zero" THEN "message" ELSE "thrown"
       ELSE UNCHANGED <<ends, pc>>
    /\ UNCHANGED <<configVars, historyVars, told, output, fault>>

\* The last message, if codex wrote one, is JSON, in a fence or not, or it is not.
CodexAnswers ==
    /\ pc = "message"
    /\ \/ \E doc \in Documents(stage) : Answer(doc)
       \/ pc' = "thrown" /\ UNCHANGED output
    /\ UNCHANGED <<configVars, historyVars, codexVars, told, fault>>

\* main rejects, or the container is stopped.
RuntimeDies ==
    /\ Inside
    /\ pc' = "exit 1"
    /\ UNCHANGED <<configVars, historyVars, codexVars, told, output, fault>>

\* The process ends with code 0 although main has not: the agent calls process.exit,
\* or waits for what never comes while nothing keeps node alive.  It may have written
\* anything itself.
AgentExits ==
    /\ pc \in {"agent", "codex"}
    /\ output' \in {output} \cup Documents(stage)
    /\ pc' = "left"
    /\ UNCHANGED <<configVars, historyVars, codexVars, told, fault>>

\* A program of one's own in place of the runtime.
OwnRuntime ==
    /\ pc = "input" /\ image = "own"
    /\ output' \in Documents(stage) \cup {NoOutput}
    /\ pc' = "left"
    /\ UNCHANGED <<configVars, historyVars, codexVars, told, fault>>

-----------------------------------------------------------------------------
(* The host again.                                                          *)

\* To the host there is the exit code.
Success == pc \in {"exit 0", "left"}

\* runStage and decodeOutput.
Refused ==
    /\ \/ pc = "exit 1" /\ Fail("container")
       \/ Success /\ output = NoOutput /\ Fail("no output")
       \/ Success /\ output # NoOutput /\ ~Readable(stage, output) /\ Fail("output")
    /\ UNCHANGED <<configVars, historyVars, codexVars, told, output>>

\* The next stage has a directory and a container of its own.
Enter(next, n) ==
    /\ stage' = next /\ attempt' = n
    /\ pc' = "spec" /\ told' = 0 /\ child' = "none" /\ ends' = 0 /\ output' = NoOutput

\* What the pipeline does with the value.
Accepted ==
    /\ Success /\ output # NoOutput /\ Readable(stage, output)
    /\ \/ /\ stage = "planner" /\ Enter("executor", 1)
          /\ plan' = Value(output) /\ UNCHANGED <<executions, reviews>>
       \/ /\ stage = "executor" /\ Enter("reviewer", attempt)
          /\ executions' = Append(executions, Value(output))
          /\ UNCHANGED <<plan, reviews>>
       \/ /\ stage = "reviewer"
          /\ reviews' = Append(reviews, Value(output))
          /\ UNCHANGED <<plan, executions>>
          /\ IF output.decision = "reject" /\ attempt < RetriesMax
             THEN Enter("executor", attempt + 1)
             ELSE pc' = "done" /\ UNCHANGED <<stage, attempt, codexVars, told, output>>
    /\ UNCHANGED <<configVars, fault>>

Runtime ==
    \/ ReadInput \/ AgentReturns \/ AgentWrites \/ AgentExits \/ RuntimeDies \/ OwnRuntime
Codex   == CodexStarts \/ CodexErrors \/ CodexCloses \/ CodexAnswers

Next == ContainerSpec \/ Runtime \/ Codex \/ Refused \/ Accepted

Spec == Init /\ [][Next]_vars

-----------------------------------------------------------------------------
(* Properties.                                                              *)

\* The two halves of the contract fit: what Go accepted, of a client or of a stage that
\* wrote what it liked, the runtime of the stage it is given to can read, and what main
\* of the sdk let out, Go accepts.  Otherwise a run would fail for the text of an agent
\* that kept to the contract.
ContractsAgree ==
    /\ fault # "input"
    /\ pc = "exit 0" => output # NoOutput /\ Readable(stage, output)

\* A stage that ran codex is only answered by a process that closed with code 0, and
\* the end of the process is logged once, also if "error" and "close" both come.
CodexSettlesOnce ==
    /\ ends <= 1
    /\ pc = "exit 0" /\ child # "none" => child = "zero" /\ ends = 1

\* An executor and a reviewer are told the attempt they are in, whatever the
\* credentials set, and it goes with their histories: the executor has the review of
\* every earlier attempt, the reviewer the execution of this one too.
AgentsAreTold ==
    Inside /\ stage # "planner" =>
        /\ told = attempt
        /\ Len(reviews) = told - 1
        /\ Len(executions) = IF stage = "executor" THEN told - 1 ELSE told
=============================================================================
