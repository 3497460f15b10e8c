--------------------------- MODULE Pipeline_proofs ---------------------------
(***************************************************************************)
(* Proofs about Pipeline, for any retry limit, any number of edits and of  *)
(* lines, with and without a timeout.                                      *)
(*                                                                         *)
(* The argument has two halves.  StageInv follows the goroutine of         *)
(* docker.run: where it is tells what there is of the container and of the *)
(* result, so that a stage that returned an output had an agent that ended *)
(* well.  RunInv follows the worker: where it is tells how far the history *)
(* has come, which version the patch leads to and what the deferred calls  *)
(* will find.                                                              *)
(***************************************************************************)
EXTENDS Pipeline, TLAPS

\* The goroutine's place fixes the state of the container.
ContainerFollows ==
    /\ docker \in {"none", "creating"} => container = "none"
    /\ docker = "starting" => container = "created"
    /\ docker \in {"attaching", "streaming", "sending"} =>
           container \in {"running", "exited"}
    /\ docker = "waiting" => container = "exited"
    /\ docker = "removing" => container \in {"created", "running", "exited"}
    /\ docker \in {"closing", "ended"} =>
           container \in {"none", "orphan", "removed"} \/ refused
    /\ refused => docker \in {"closing", "ended"}
    /\ exit # "none" => container \in {"exited", "removed"}
    /\ container = "exited" => exit # "none"

\* The goroutine sends one result, and a good one only for an agent that ended well.
ResultFollows ==
    /\ docker \in {"closing", "ended", "removing"} => result # Empty
    /\ docker \notin {"closing", "ended", "removing"} => result = Empty
    /\ result = "success" => exit = "success"

\* runStage returns an output only of an agent that ended well.
VerdictFollows ==
    /\ reader = "idle" => docker = "none"
    /\ reader = "returned" => verdict # "none"
    /\ reader = "returned" /\ logOk => docker \in {"none", "ended"}
    /\ verdict \in {"ok", "raw"} =>
           reader = "returned" /\ docker = "ended" /\ exit = "success"

StageInv == StageTypeOK /\ ContainerFollows /\ ResultFollows /\ VerdictFollows

Early == {"setup", "image", "building", "credentials", "tempdir", "planner", "clone",
          "refused"}
Late  == {"finish", "cleanup", "returned"}

\* The worker's place fixes how far the loop and the history have come.
LoopFollows ==
    /\ pc \in Early =>
           attempt = 0 /\ executions = 0 /\ reviews = 0 /\ tree = 0 /\ patch = 0
    /\ pc \in {"executor", "diff", "reviewer", "publish", "push"} => attempt >= 1
    /\ pc = "executor" => executions = attempt - 1 /\ reviews = attempt - 1
    /\ pc \in {"diff", "reviewer"} => executions = attempt /\ reviews = attempt - 1
    /\ pc \in {"publish", "push"} => executions = attempt /\ reviews = attempt
    /\ reviews \in {executions, executions - 1}
    /\ pc \in {"reviewer", "publish", "push"} => patch = tree
    /\ pc = "push" => tree > 0

\* The worker's place tells what it has decided and published.
OutcomeFollows ==
    /\ accepted => pc \in {"publish", "push"} \cup Late
    /\ pc \in {"publish", "push"} => accepted
    /\ published # {} => pc \in Late /\ accepted /\ patch > 0
    /\ published \subseteq {patch}
    /\ branch => published = {patch} /\ ~err
    /\ err => pc \in Late \cup {"refused"}
    /\ pc \in Late /\ ~err =>
           \/ accepted /\ branch
           \/ ~accepted /\ reviews = RetriesMax

\* The record, once written, agrees with what the function returns.
RecordFollows ==
    /\ failed \in Stages => err
    /\ rawKept => rawFile /\ failed \in Stages
    /\ record # NoRecord => record = RunRecord /\ pc \in {"cleanup", "returned"}

RunInv == TypeOK /\ LoopFollows /\ OutcomeFollows /\ RecordFollows

-----------------------------------------------------------------------------
(* The stage.                                                               *)

\* The invariant of the stage holds at the start.
LEMMA StageInitially == StageInit => StageInv
<1> SUFFICES ASSUME StageInit PROVE StageInv
  OBVIOUS
<1>1. StageTypeOK
  <2>1. /\ ctxDone \in BOOLEAN /\ timeUp \in BOOLEAN /\ logOk \in BOOLEAN
        /\ refused \in BOOLEAN
    BY Zenon DEF StageInit
  <2> QED
    BY <2>1, StageContainerAssumption
       DEF StageInit, StageTypeOK, Empty, StageContainerAssumption
<1>2. ContainerFollows /\ ResultFollows
  BY DEF StageInit, ContainerFollows, ResultFollows, Empty
<1>3. VerdictFollows
  BY DEF StageInit, VerdictFollows
<1> QED BY <1>1, <1>2, <1>3 DEF StageInv

\* What a step can do to the context and to the log.
Outside == ctxDone' \in BOOLEAN /\ (logOk' = logOk \/ logOk' = FALSE)

\* What a write does to the flag, for the solver that is weak on flags.
LEMMA LogWrites ==
    ASSUME logOk \in BOOLEAN
    PROVE  /\ LogWritten => logOk' \in BOOLEAN /\ (logOk' => logOk)
           /\ LogFails => logOk' \in BOOLEAN /\ ~logOk'
<1>1. ASSUME LogWritten PROVE logOk' \in BOOLEAN /\ (logOk' => logOk)
  BY <1>1, Zenon DEF LogWritten
<1>2. ASSUME LogFails PROVE logOk' \in BOOLEAN /\ ~logOk'
  BY <1>2, Zenon DEF LogFails
<1> QED BY <1>1, <1>2

\* A log that is not in order stays so.
LEMMA LogStaysBroken ==
    ASSUME logOk \in BOOLEAN, Outside
    PROVE  ctxDone' \in BOOLEAN /\ logOk' \in BOOLEAN /\ (logOk' => logOk)
<1>1. LogWritten \/ LogFails
  BY DEF Outside, LogWritten, LogFails
<1>2. ctxDone' \in BOOLEAN
  BY DEF Outside
<1> QED BY <1>1, <1>2, LogWrites, Zenon

\* A stage that starts, or fails to, satisfies its invariant, whatever came before.
LEMMA StageStarts ==
    ASSUME StageInv, StartStage, Outside
    PROVE  StageInv'
<1>1. StageTypeOK'
  <2>1. ctxDone' \in BOOLEAN /\ logOk' \in BOOLEAN
    BY LogStaysBroken DEF StageInv, StageTypeOK
  <2>2. timeUp' \in BOOLEAN /\ refused' \in BOOLEAN
    BY Zenon DEF StartStage
  <2> QED
    BY <2>1, <2>2, StageContainerAssumption
       DEF StartStage, StageTypeOK, Empty, StageContainerAssumption
<1>2. ContainerFollows' /\ ResultFollows'
  BY DEF StartStage, ContainerFollows, ResultFollows, Empty
<1>3. VerdictFollows'
  BY DEF StartStage, VerdictFollows
<1> QED BY <1>1, <1>2, <1>3 DEF StageInv

\* The other steps of the run leave the stage alone.
LEMMA StageRests ==
    ASSUME StageInv, UNCHANGED stageVars, Outside
    PROVE  StageInv'
<1>1. ctxDone' \in BOOLEAN /\ logOk' \in BOOLEAN /\ (logOk' => logOk)
  BY LogStaysBroken DEF StageInv, StageTypeOK
<1>2. StageTypeOK'
  BY <1>1 DEF StageInv, StageTypeOK, stageVars, Empty
<1>3. ContainerFollows' /\ ResultFollows'
  BY DEF StageInv, ContainerFollows, ResultFollows, stageVars, Empty
<1>4. VerdictFollows'
  BY <1>1 DEF StageInv, VerdictFollows, stageVars
<1> QED BY <1>2, <1>3, <1>4 DEF StageInv

\* The goroutine's calls.
LEMMA DockerCalls ==
    ASSUME StageInv, DockerStep
    PROVE  StageInv'
<1> USE StageContainerAssumption
    DEF StageInv, StageTypeOK, ContainerFollows, ResultFollows, VerdictFollows, Empty,
        Reply, StageContainerAssumption
<1>1. CASE Create      BY <1>1 DEF Create
<1>2. CASE Start       BY <1>2 DEF Start
<1>3. CASE Attach      BY <1>3 DEF Attach
<1>4. CASE StreamFails BY <1>4 DEF StreamFails
<1>5. CASE StreamEnds  BY <1>5 DEF StreamEnds
<1>6. CASE Wait        BY <1>6 DEF Wait
<1>7. CASE Remove      BY <1>7 DEF Remove
<1>8. CASE Close       BY <1>8 DEF Close
<1>9. CASE NextLine    BY <1>9 DEF NextLine
<1> QED BY <1>1, <1>2, <1>3, <1>4, <1>5, <1>6, <1>7, <1>8, <1>9 DEF DockerStep, DockerCall

\* The container and the clock.
LEMMA AgentAndClock ==
    ASSUME StageInv, ContainerExits \/ TimesOut
    PROVE  StageInv'
<1> USE DEF StageInv, StageTypeOK, ContainerFollows, ResultFollows, VerdictFollows, Empty
<1>1. CASE ContainerExits BY <1>1 DEF ContainerExits
<1>2. CASE TimesOut       BY <1>2 DEF TimesOut
<1> QED BY <1>1, <1>2

\* A stage believes an output only if the goroutine sent an exit code of 0: the
\* channels are closed after the result is sent.
LEMMA ReceivesWhatWasSent ==
    ASSUME StageInv, docker = "ended", Received = "success"
    PROVE  exit = "success"
BY DEF StageInv, ResultFollows, Received

\* runStage.
LEMMA Reads ==
    ASSUME StageInv, ReaderStep
    PROVE  StageInv'
<1> USE DEF Returns
<1>1. /\ LogWritten => logOk' \in BOOLEAN /\ (logOk' => logOk)
      /\ LogFails => logOk' \in BOOLEAN /\ ~logOk'
  BY LogWrites DEF StageInv, StageTypeOK
<1>2. StageTypeOK'
  BY <1>1 DEF StageInv, StageTypeOK, ReaderStep, Started, ReadLine, ReadResult, Empty
<1>3. ContainerFollows' /\ ResultFollows'
  BY DEF StageInv, ContainerFollows, ResultFollows, ReaderStep, Started, ReadLine,
         ReadResult, Empty
<1>4. VerdictFollows'
  <2>1. CASE Started
    BY <1>1, <2>1 DEF StageInv, VerdictFollows, Started
  <2>2. CASE ReadLine
    BY <1>1, <2>2 DEF StageInv, VerdictFollows, ReadLine
  <2>3. CASE ReadResult
    BY <2>3, ReceivesWhatWasSent DEF StageInv, VerdictFollows, ReadResult
  <2> QED BY <2>1, <2>2, <2>3 DEF ReaderStep
<1> QED BY <1>2, <1>3, <1>4 DEF StageInv

-----------------------------------------------------------------------------
(* The run.                                                                 *)

\* Every step of the run preserves the invariant of the stage.
LEMMA StageKept ==
    ASSUME StageInv, [Next]_vars
    PROVE  StageInv'
<1> USE DEF GoOn, FailTo, Fails, Begin, Outside, LogWritten, LogFails, KeepRaw
<1>ctx. ctxDone \in BOOLEAN /\ logOk \in BOOLEAN BY DEF StageInv, StageTypeOK
<1>1. CASE Open            BY <1>1, <1>ctx, StageRests DEF Open
<1>2. CASE Image           BY <1>2, <1>ctx, StageRests DEF Image
<1>3. CASE BuildRead BY <1>3, <1>ctx, StageRests DEF BuildRead
<1>4. CASE BuildResult     BY <1>4, <1>ctx, StageRests DEF BuildResult
<1>5. CASE Credentials     BY <1>5, <1>ctx, StageRests DEF Credentials
<1>6. CASE TempDir         BY <1>6, <1>ctx, StageRests, StageStarts DEF TempDir
<1>7. CASE StageFailed BY <1>7, <1>ctx, StageRests DEF StageFailed
<1>8. CASE PlannerReturns  BY <1>8, <1>ctx, StageRests DEF PlannerReturns
<1>9. CASE Clone           BY <1>9, <1>ctx, StageRests, StageStarts DEF Clone
<1>10. CASE ExecutorReturns BY <1>10, <1>ctx, StageRests DEF ExecutorReturns
<1>11. CASE Diff           BY <1>11, <1>ctx, StageRests, StageStarts DEF Diff
<1>12. CASE ReviewerReturns
  BY <1>12, <1>ctx, StageRests, StageStarts DEF ReviewerReturns
<1>13. CASE Commit         BY <1>13, <1>ctx, StageRests DEF Commit
<1>14. CASE Push           BY <1>14, <1>ctx, StageRests DEF Push
<1>15. CASE Finish BY <1>15, <1>ctx, StageRests DEF Finish
<1>16. CASE Cleanup        BY <1>16, <1>ctx, StageRests DEF Cleanup
<1>17. CASE ReaderStep     BY <1>17, Reads
<1>18. CASE BuildLine      BY <1>18, <1>ctx, StageRests DEF BuildLine
<1>19. CASE BuildEnds      BY <1>19, <1>ctx, StageRests DEF BuildEnds
<1>20. CASE DockerStep     BY <1>20, DockerCalls
<1>21. CASE ContainerExits \/ TimesOut BY <1>21, AgentAndClock
<1>22. CASE Edit           BY <1>22, <1>ctx, StageRests DEF Edit
<1>23. CASE Cancel         BY <1>23, <1>ctx, StageRests DEF Cancel
<1>24. CASE UNCHANGED vars BY <1>24, <1>ctx, StageRests DEF vars
<1>25. CASE ProcessEnds    BY <1>25, <1>ctx, StageRests DEF ProcessEnds
<1> QED
  BY <1>1, <1>2, <1>3, <1>4, <1>5, <1>6, <1>7, <1>8, <1>9, <1>10, <1>11, <1>12, <1>13,
     <1>14, <1>15, <1>16, <1>17, <1>18, <1>19, <1>20, <1>21, <1>22, <1>23, <1>24,
     <1>25
     DEF Next, Lives, WorkerStep, DockerGoes, ContainerGoes, ClockGoes

\* An output is only believed of an agent that ended with exit code 0, and whose
\* container no longer runs.
THEOREM OnlyGoodOutputs == Spec => []OutputAfterExit
<1>1. Init => StageInv BY StageInitially DEF Init
<1>2. StageInv /\ [Next]_vars => StageInv' BY StageKept
<1>3. StageInv => OutputAfterExit
  BY DEF StageInv, StageTypeOK, ContainerFollows, VerdictFollows, OutputAfterExit
<1> QED BY <1>1, <1>2, <1>3, PTL DEF Spec

\* A stage that could write its log leaves no goroutine, a container only where Docker
\* would not remove it or the code never learnt its ID, and an agent at work only if
\* the stage failed.
THEOREM StagesAreOver == Spec => []StageIsOver
<1>1. Init => StageInv BY StageInitially DEF Init
<1>2. StageInv /\ [Next]_vars => StageInv' BY StageKept
<1>3. StageInv => StageIsOver
  BY DEF StageInv, StageTypeOK, ContainerFollows, VerdictFollows, StageIsOver
<1> QED BY <1>1, <1>2, <1>3, PTL DEF Spec

-----------------------------------------------------------------------------
(* The worker.                                                             *)

\* The worker's invariant holds at the start.
LEMMA RunInitially == Init => RunInv
<1> SUFFICES ASSUME Init PROVE RunInv
  OBVIOUS
<1> USE PipelineAssumption DEF PipelineAssumption
<1>1. TypeOK
  <2>1. StageTypeOK BY StageInitially DEF Init, StageInv
  <2>2. /\ accepted \in BOOLEAN /\ branch \in BOOLEAN /\ err \in BOOLEAN
        /\ rawKept \in BOOLEAN /\ rawFile \in BOOLEAN /\ tempdir \in BOOLEAN
    BY Zenon DEF Init
  <2> QED BY <2>1, <2>2 DEF Init, TypeOK, Stages, Ended, Records, Empty
<1>2. LoopFollows BY DEF Init, LoopFollows, Early
<1>3. OutcomeFollows BY DEF Init, OutcomeFollows, Early, Late
<1>4. RecordFollows BY DEF Init, RecordFollows, Stages
<1> QED BY <1>1, <1>2, <1>3, <1>4 DEF RunInv

\* Every step keeps the history in step with the worker.
LEMMA LoopKept ==
    ASSUME StageInv, RunInv, [Next]_vars
    PROVE  LoopFollows'
<1> USE PipelineAssumption
    DEF loopVars, outVars, auditVars, buildVars, GoOn, FailTo, Fails, Begin,
        StageReturned, Stages, Ended,
        RunInv, LoopFollows, TypeOK, Early, Late, PipelineAssumption
<1>1. CASE Open                BY <1>1 DEF Open
<1>2. CASE Image               BY <1>2 DEF Image
<1>3. CASE BuildRead           BY <1>3 DEF BuildRead
<1>4. CASE BuildResult         BY <1>4 DEF BuildResult
<1>5. CASE Credentials         BY <1>5 DEF Credentials
<1>6. CASE TempDir             BY <1>6 DEF TempDir
<1>7. CASE StageFailed         BY <1>7 DEF StageFailed
<1>8. CASE PlannerReturns      BY <1>8 DEF PlannerReturns
<1>9. CASE Clone               BY <1>9 DEF Clone
<1>10. CASE ExecutorReturns    BY <1>10 DEF ExecutorReturns
<1>11. CASE Diff               BY <1>11 DEF Diff
<1>12. CASE ReviewerReturns    BY <1>12 DEF ReviewerReturns
<1>13. CASE Commit             BY <1>13 DEF Commit
<1>14. CASE Push               BY <1>14 DEF Push
<1>15. CASE Finish             BY <1>15 DEF Finish
<1>16. CASE Cleanup            BY <1>16 DEF Cleanup
<1>17. CASE Edit               BY <1>17 DEF Edit, Writers
<1>18. CASE BuildLine           BY <1>18 DEF BuildLine
<1>22. CASE BuildEnds            BY <1>22 DEF BuildEnds
<1>19. CASE UNCHANGED runVars     BY <1>19 DEF runVars
<1>20. CASE Cancel               BY <1>20 DEF Cancel
<1>21. CASE UNCHANGED vars       BY <1>21 DEF vars
<1>23. CASE ProcessEnds          BY <1>23 DEF ProcessEnds, runVars
<1> QED
  BY <1>1, <1>2, <1>3, <1>4, <1>5, <1>6, <1>7, <1>8, <1>9, <1>10, <1>11, <1>12,
     <1>13, <1>14, <1>15, <1>16, <1>17, <1>18, <1>19, <1>20, <1>21, <1>22, <1>23
     DEF Next, Lives, WorkerStep, DockerGoes, ContainerGoes, ClockGoes

\* Every step keeps what is published in step with what is decided.
LEMMA OutcomeKept ==
    ASSUME StageInv, RunInv, [Next]_vars
    PROVE  OutcomeFollows'
<1> USE PipelineAssumption
    DEF loopVars, outVars, auditVars, buildVars, GoOn, FailTo, Fails, Begin,
        StageReturned, Stages, Ended,
        RunInv, LoopFollows, OutcomeFollows, TypeOK, Early, Late, PipelineAssumption
<1>1. CASE Open                BY <1>1 DEF Open
<1>2. CASE Image               BY <1>2 DEF Image
<1>3. CASE BuildRead           BY <1>3 DEF BuildRead
<1>4. CASE BuildResult         BY <1>4 DEF BuildResult
<1>5. CASE Credentials         BY <1>5 DEF Credentials
<1>6. CASE TempDir             BY <1>6 DEF TempDir
<1>7. CASE StageFailed         BY <1>7 DEF StageFailed
<1>8. CASE PlannerReturns      BY <1>8 DEF PlannerReturns
<1>9. CASE Clone               BY <1>9 DEF Clone
<1>10. CASE ExecutorReturns    BY <1>10 DEF ExecutorReturns
<1>11. CASE Diff               BY <1>11 DEF Diff
<1>12. CASE ReviewerReturns    BY <1>12 DEF ReviewerReturns
<1>13. CASE Commit             BY <1>13 DEF Commit
<1>14. CASE Push               BY <1>14 DEF Push
<1>15. CASE Finish             BY <1>15 DEF Finish
<1>16. CASE Cleanup            BY <1>16 DEF Cleanup
<1>17. CASE Edit               BY <1>17 DEF Edit, Writers
<1>18. CASE BuildLine           BY <1>18 DEF BuildLine
<1>22. CASE BuildEnds            BY <1>22 DEF BuildEnds
<1>19. CASE UNCHANGED runVars     BY <1>19 DEF runVars
<1>20. CASE Cancel               BY <1>20 DEF Cancel
<1>21. CASE UNCHANGED vars       BY <1>21 DEF vars
<1>23. CASE ProcessEnds          BY <1>23 DEF ProcessEnds, runVars
<1> QED
  BY <1>1, <1>2, <1>3, <1>4, <1>5, <1>6, <1>7, <1>8, <1>9, <1>10, <1>11, <1>12,
     <1>13, <1>14, <1>15, <1>16, <1>17, <1>18, <1>19, <1>20, <1>21, <1>22, <1>23
     DEF Next, Lives, WorkerStep, DockerGoes, ContainerGoes, ClockGoes

\* Every step keeps the record true.
LEMMA RecordKept ==
    ASSUME StageInv, RunInv, [Next]_vars
    PROVE  RecordFollows'
<1> USE PipelineAssumption
    DEF loopVars, outVars, auditVars, buildVars, GoOn, FailTo, Fails, Begin,
        StageReturned, Stages, Ended,
        RunInv, RecordFollows, TypeOK, OutcomeFollows, Early, Late, PipelineAssumption,
        RunRecord, RecordWith, KeepRaw, NoRecord
<1>1. CASE Open                BY <1>1 DEF Open
<1>2. CASE Image               BY <1>2 DEF Image
<1>3. CASE BuildRead           BY <1>3 DEF BuildRead
<1>4. CASE BuildResult         BY <1>4 DEF BuildResult
<1>5. CASE Credentials         BY <1>5 DEF Credentials
<1>6. CASE TempDir             BY <1>6 DEF TempDir
<1>7. CASE StageFailed         BY <1>7 DEF StageFailed
<1>8. CASE PlannerReturns      BY <1>8 DEF PlannerReturns
<1>9. CASE Clone               BY <1>9 DEF Clone
<1>10. CASE ExecutorReturns    BY <1>10 DEF ExecutorReturns
<1>11. CASE Diff               BY <1>11 DEF Diff
<1>12. CASE ReviewerReturns    BY <1>12 DEF ReviewerReturns
<1>13. CASE Commit
  <2>1. record = NoRecord /\ UNCHANGED record
    BY <1>13 DEF Commit
  <2>2. CASE err' = TRUE /\ UNCHANGED <<rawKept, rawFile>> /\ failed' = "reviewer"
    BY <2>1, <2>2
  <2>3. CASE UNCHANGED <<err, auditVars>>
    BY <2>1, <2>3
  <2> QED BY <1>13, <2>2, <2>3 DEF Commit
<1>14. CASE Push
  <2>1. record = NoRecord /\ UNCHANGED record
    BY <1>14 DEF Push
  <2>2. CASE err' = TRUE /\ UNCHANGED <<rawKept, rawFile>> /\ failed' = "reviewer"
    BY <2>1, <2>2
  <2>3. CASE UNCHANGED <<err, auditVars>>
    BY <2>1, <2>3
  <2> QED BY <1>14, <2>2, <2>3 DEF Push
<1>15. CASE Finish             BY <1>15 DEF Finish
<1>16. CASE Cleanup            BY <1>16 DEF Cleanup
<1>17. CASE Edit               BY <1>17 DEF Edit, Writers
<1>18. CASE BuildLine           BY <1>18 DEF BuildLine
<1>22. CASE BuildEnds            BY <1>22 DEF BuildEnds
<1>19. CASE UNCHANGED runVars     BY <1>19 DEF runVars
<1>20. CASE Cancel               BY <1>20 DEF Cancel
<1>21. CASE UNCHANGED vars       BY <1>21 DEF vars
<1>23. CASE ProcessEnds          BY <1>23 DEF ProcessEnds, runVars
<1> QED
  BY <1>1, <1>2, <1>3, <1>4, <1>5, <1>6, <1>7, <1>8, <1>9, <1>10, <1>11, <1>12,
     <1>13, <1>14, <1>15, <1>16, <1>17, <1>18, <1>19, <1>20, <1>21, <1>22, <1>23
     DEF Next, Lives, WorkerStep, DockerGoes, ContainerGoes, ClockGoes

\* The variables that are flags, for the solver that deals with them best.
FlagsOK ==
    /\ err \in BOOLEAN /\ accepted \in BOOLEAN /\ branch \in BOOLEAN
    /\ rawKept \in BOOLEAN /\ rawFile \in BOOLEAN /\ tempdir \in BOOLEAN

\* Every step keeps the types; the loop's counters stay within retries.max.
LEMMA TypeKept ==
    ASSUME StageInv, RunInv, [Next]_vars
    PROVE  TypeOK'
<1> USE PipelineAssumption
    DEF loopVars, outVars, auditVars, buildVars, GoOn, FailTo, Fails, Begin,
        StageReturned, Stages, Ended,
        RunInv, LoopFollows, TypeOK, Early, Late, PipelineAssumption
<1>0. StageTypeOK' BY StageKept DEF StageInv
<1>al. alive' \in BOOLEAN
  BY Zenon DEF Next, Lives, ProcessEnds, vars
<1>1. CASE Open
  <2>1. FlagsOK'
    BY <1>1, Zenon DEF Open, FlagsOK, KeepRaw
  <2> QED BY <1>0, <1>al, <1>1, <2>1 DEF Open, FlagsOK, KeepRaw
<1>2. CASE Image
  <2>1. FlagsOK'
    BY <1>2, Zenon DEF Image, FlagsOK, KeepRaw
  <2> QED BY <1>0, <1>al, <1>2, <2>1 DEF Image, FlagsOK, KeepRaw
<1>3. CASE BuildRead           BY <1>0, <1>al, <1>3 DEF BuildRead
<1>4. CASE BuildResult         BY <1>0, <1>al, <1>4 DEF BuildResult
<1>5. CASE Credentials
  <2>1. FlagsOK'
    BY <1>5, Zenon DEF Credentials, FlagsOK, KeepRaw
  <2> QED BY <1>0, <1>al, <1>5, <2>1 DEF Credentials, FlagsOK, KeepRaw
<1>6. CASE TempDir
  <2>1. FlagsOK'
    BY <1>6, Zenon DEF TempDir, FlagsOK, KeepRaw
  <2> QED BY <1>0, <1>al, <1>6, <2>1 DEF TempDir, FlagsOK, KeepRaw
<1>7. CASE StageFailed
  <2>1. FlagsOK'
    BY <1>7, Zenon DEF StageFailed, FlagsOK, KeepRaw
  <2> QED BY <1>0, <1>al, <1>7, <2>1 DEF StageFailed, FlagsOK, KeepRaw
<1>8. CASE PlannerReturns      BY <1>0, <1>al, <1>8 DEF PlannerReturns
<1>9. CASE Clone
  <2>1. FlagsOK'
    BY <1>9, Zenon DEF Clone, FlagsOK, KeepRaw
  <2> QED BY <1>0, <1>al, <1>9, <2>1 DEF Clone, FlagsOK, KeepRaw
<1>10. CASE ExecutorReturns    BY <1>0, <1>al, <1>10 DEF ExecutorReturns
<1>11. CASE Diff
  <2>1. FlagsOK'
    BY <1>11, Zenon DEF Diff, FlagsOK, KeepRaw
  <2> QED BY <1>0, <1>al, <1>11, <2>1 DEF Diff, FlagsOK, KeepRaw
<1>12. CASE ReviewerReturns
  <2>1. FlagsOK'
    BY <1>12, Zenon DEF ReviewerReturns, FlagsOK, KeepRaw
  <2> QED BY <1>0, <1>al, <1>12, <2>1 DEF ReviewerReturns, FlagsOK, KeepRaw
<1>13. CASE Commit
  <2>1. FlagsOK'
    BY <1>13, Zenon DEF Commit, FlagsOK, KeepRaw
  <2> QED BY <1>0, <1>al, <1>13, <2>1 DEF Commit, FlagsOK, KeepRaw
<1>14. CASE Push
  <2>1. FlagsOK'
    BY <1>14, Zenon DEF Push, FlagsOK, KeepRaw
  <2> QED BY <1>0, <1>al, <1>14, <2>1 DEF Push, FlagsOK, KeepRaw
<1>15. CASE Finish
  <2>1. FlagsOK'
    BY <1>15, Zenon DEF Finish, FlagsOK, KeepRaw
  <2>2. RunRecord \in Records
    BY DEF RunRecord, RecordWith, Records
  <2> QED BY <1>0, <1>al, <1>15, <2>1, <2>2 DEF Finish, FlagsOK
<1>16. CASE Cleanup            BY <1>0, <1>al, <1>16 DEF Cleanup
<1>17. CASE Edit               BY <1>0, <1>al, <1>17 DEF Edit, Writers
<1>18. CASE BuildLine           BY <1>0, <1>al, <1>18 DEF BuildLine
<1>22. CASE BuildEnds            BY <1>0, <1>al, <1>22 DEF BuildEnds
<1>19. CASE UNCHANGED runVars     BY <1>0, <1>al, <1>19 DEF runVars
<1>20. CASE Cancel               BY <1>0, <1>al, <1>20 DEF Cancel
<1>21. CASE UNCHANGED vars       BY <1>0, <1>al, <1>21 DEF vars
<1>23. CASE ProcessEnds          BY <1>0, <1>al, <1>23 DEF ProcessEnds, runVars
<1> QED
  BY <1>0, <1>1, <1>2, <1>3, <1>4, <1>5, <1>6, <1>7, <1>8, <1>9, <1>10, <1>11, <1>12,
     <1>13, <1>14, <1>15, <1>16, <1>17, <1>18, <1>19, <1>20, <1>21, <1>22, <1>23
     DEF Next, Lives, WorkerStep, DockerGoes, ContainerGoes, ClockGoes

\* Both invariants together are inductive.
LEMMA Invariance == Spec => [](StageInv /\ RunInv)
<1>1. Init => StageInv /\ RunInv
  BY StageInitially, RunInitially DEF Init
<1>2. StageInv /\ RunInv /\ [Next]_vars => (StageInv /\ RunInv)'
  BY StageKept, TypeKept, LoopKept, OutcomeKept, RecordKept DEF RunInv
<1> QED BY <1>1, <1>2, PTL DEF Spec

\* The type invariant, for any retry limit: the counters never pass it.
THEOREM TypeCorrect == Spec => []TypeOK
BY Invariance, PTL DEF RunInv

\* Executions and reviews keep step, and a reviewer always has an execution.
THEOREM HistoryKeepsStep == Spec => []HistoryInStep
<1>1. RunInv => HistoryInStep
  BY DEF RunInv, LoopFollows, HistoryInStep
<1> QED BY <1>1, Invariance, PTL

\* Nothing is pushed but the tree whose patch the reviewer accepted.
THEOREM OnlyReviewedIsPublished == Spec => []PublishedIsReviewed
<1>1. RunInv => PublishedIsReviewed
  BY DEF RunInv, OutcomeFollows, PublishedIsReviewed
<1> QED BY <1>1, Invariance, PTL

\* A run that returns no error is on its branch, or used all its retries.
THEOREM OutcomeHolds == Spec => []OutcomeIsTrue
<1>1. RunInv => OutcomeIsTrue
  BY DEF RunInv, OutcomeFollows, OutcomeIsTrue, Late
<1> QED BY <1>1, Invariance, PTL

\* The record agrees with what the run returns.
THEOREM RecordHolds == Spec => []RecordIsTrue
<1>1. RunInv => RecordIsTrue
  <2> SUFFICES ASSUME RunInv, record # NoRecord
               PROVE  /\ (record.failure = "none") = ~err
                      /\ record.branch = branch
                      /\ branch => record.accepted /\ published = {record.patch}
                      /\ record.raw => rawFile /\ record.failure \in Stages
    BY DEF RecordIsTrue
  <2> QED
    BY DEF RunInv, TypeOK, OutcomeFollows, RecordFollows, RunRecord, RecordWith, Stages
<1> QED BY <1>1, Invariance, PTL
=============================================================================
