------------------------- MODULE PublishedTable_proofs -------------------------
(***************************************************************************)
(* That the last snapshot is the table whenever no publish is due, and     *)
(* that it shows no run waiting beside a free slot.                        *)
(***************************************************************************)
EXTENDS PublishedTable, RunLifecycle_proofs

\* What the queue does, watched or not, is a behaviour of the queue.
LEMMA WatchedIsSpec == WatchSpec => Spec
<1>1. WatchInit => Init
  BY DEF WatchInit
<1>2. [WatchNext]_watchVars => [Next]_vars
  BY DEF WatchNext, watchVars
<1>3. QED
  BY <1>1, <1>2, PTL DEF WatchSpec, Spec

\* Each handler that writes the table sets q.dirty; one that finds nothing to write
\* leaves it alone.
LEMMA HandlersMark ==
    ASSUME Handle
    PROVE  dirty' = TRUE \/ UNCHANGED <<runs, dirty>>
<1>1. CASE HandleAdd
  BY <1>1 DEF HandleAdd
<1>2. CASE HandleCancel
  BY <1>2 DEF HandleCancel, CancelRefused, CancelAccepted, Done
<1>3. CASE HandleStage
  BY <1>3 DEF HandleStage
<1>4. CASE HandleActivity
  BY <1>4 DEF HandleActivity
<1>5. CASE HandleSummary
  BY <1>5 DEF HandleSummary
<1>6. CASE HandleDone
  BY <1>6 DEF HandleDone, Done
<1>7. QED
  BY <1>1, <1>2, <1>3, <1>4, <1>5, <1>6 DEF Handle

\* A step marks the table, leaves it as it is, or is the end of a tick.
LEMMA StepsMark ==
    ASSUME TypeOK, [Next]_vars
    PROVE  \/ dirty' = TRUE /\ ~Publishes
           \/ UNCHANGED <<runs, dirty>> /\ ~Publishes
           \/ TickPublish
<1> USE DEF loopVars, pipeVars, callerVars, Publishes
<1>1. CASE CallerNext \/ PipelineNext \/ Shutdown \/ UNCHANGED vars
  BY <1>1
  DEF CallerNext, AddSend, AddStopped, CancelSend, CancelLeft, PipelineNext,
      BeginPlanner, BeginExecutor, BeginReviewer, BeginStage, EndPlanner,
      EndReviewer, EndStage, ReportActivity, PushBranch, RunnerReturn, SendDone,
      Shutdown, vars
<1>2. CASE Handle
  <2>1. loop = "select"
    BY <1>2 DEF Handle, HandleAdd, HandleCancel, HandleStage, HandleActivity,
                HandleSummary, HandleDone, Receive
  <2>2. QED
    BY <1>2, <2>1, HandlersMark
<1>3. ASSUME NEW S \in SUBSET FinishedRuns, TickEvict(S)
      PROVE  dirty' = TRUE \/ UNCHANGED <<runs, dirty>>
  <2>1. CASE S = {}
    BY <1>3, <2>1 DEF TickEvict, TypeOK
  <2>2. CASE S # {}
    BY <1>3, <2>2, Zenon DEF TickEvict
  <2>3. QED
    BY <2>1, <2>2
<1>4. ASSUME NEW S \in SUBSET FinishedRuns, TickEvict(S)
      PROVE  ~Publishes
  BY <1>4 DEF TickEvict
<1>5. CASE ScheduleSkip \/ ScheduleRetire \/ ScheduleStart \/ LoopStop
  BY <1>5 DEF ScheduleSkip, ScheduleRetire, ScheduleStart, LoopStop, Done
<1>6. QED
  BY <1>1, <1>2, <1>3, <1>4, <1>5 DEF Next, LoopNext, Terminated

\* A table in which the loop has admitted whoever it can: a run waits only when
\* every slot is taken.
LEMMA AdmittedTable ==
    ASSUME IndInv, CourseInv, ~MoreToSchedule, NEW r \in Runs, Waiting(r)
    PROVE  ActiveCount = MaxContainers
<1>1. tickets # <<>>
  BY DEF CourseInv, WaitingTicketed
<1>2. ActiveCount \in Nat
  BY RunQueueAssumption, FS_Subset, FS_CardinalityType DEF ActiveCount, ActiveRuns
<1>3. ActiveCount <= MaxContainers /\ ~(ActiveCount < MaxContainers)
  BY <1>1 DEF IndInv, ActiveBound, MoreToSchedule
<1>4. QED
  BY <1>2, <1>3, ConstantTypes

\* Nothing waits in the table that is published first.
LEMMA WatchStart == WatchInit => WatchersSeeTable
<1> SUFFICES ASSUME WatchInit PROVE WatchersSeeTable
  OBVIOUS
<1>1. runs \in [Runs -> Entry] /\ shown = runs
  BY TypeInit DEF WatchInit, TypeOK
<1>2. \A r \in Runs : shown[r].status # "queued"
  BY <1>1, AbsentEntry DEF WatchInit, Init
<1>3. QED
  BY <1>1, <1>2 DEF WatchersSeeTable

LEMMA WatchStep ==
    ASSUME IndInv, CourseInv, WatchersSeeTable, [WatchNext]_watchVars
    PROVE  WatchersSeeTable'
<1>1. TypeOK /\ [Next]_vars
  BY DEF IndInv, TypeInv, WatchNext, watchVars
<1>2. shown' = IF Publishes THEN runs ELSE shown
  BY DEF WatchNext, watchVars, Publishes, vars, loopVars
<1>3. CASE Publishes
  <2>1. TickPublish
    BY <1>1, <1>3, StepsMark
  <2>2. shown' = runs /\ runs' = runs /\ ~MoreToSchedule
    BY <1>2, <1>3, <2>1 DEF TickPublish
  <2>3. ShownActive' = ActiveRuns
    BY <2>2 DEF ShownActive, ActiveRuns, Active
  <2>4. (\E r \in Runs : shown'[r].status = "queued")
          => Cardinality(ShownActive') = MaxContainers
    BY <2>2, <2>3, AdmittedTable DEF Waiting, ActiveCount
  <2>5. QED
    BY <1>1, <2>2, <2>4 DEF WatchersSeeTable, TypeOK
<1>4. CASE ~Publishes
  <2>1. shown' = shown
    BY <1>2, <1>4
  <2>2. ShownActive' = ShownActive
    BY <2>1 DEF ShownActive
  <2>3. dirty' \/ shown' = runs'
    <3>1. CASE TickPublish
      BY <1>4, <2>1, <3>1 DEF TickPublish, Publishes, WatchersSeeTable
    <3>2. CASE ~TickPublish
      BY <1>1, <2>1, <3>2, StepsMark DEF WatchersSeeTable
    <3>3. QED
      BY <3>1, <3>2
  <2>4. QED
    BY <2>1, <2>2, <2>3 DEF WatchersSeeTable
<1>5. QED
  BY <1>3, <1>4

\* Whoever changes the table, watchers are behind it only while a publish is due,
\* and no snapshot shows a run waiting beside a free slot.
THEOREM WatchersUpToDate == WatchSpec => []WatchersSeeTable
<1>1. Init => CourseInv
  BY CourseInit
<1>2. Spec => [](IndInv /\ CourseInv)
  BY <1>1, IndInit, IndStep, CourseStep, PTL DEF Spec
<1>3. QED
  BY <1>2, WatchedIsSpec, WatchStart, WatchStep, PTL DEF WatchSpec
=============================================================================
