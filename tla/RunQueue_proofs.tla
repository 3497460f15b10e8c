--------------------------- MODULE RunQueue_proofs ---------------------------
(***************************************************************************)
(* Proofs about RunQueue for every set of runs and calls, every inbox      *)
(* size, number of slots and retry limit.                                  *)
(***************************************************************************)
EXTENDS RunQueue, FiniteSetTheorems, TLAPS

-----------------------------------------------------------------------------
(* Type correctness.                                                        *)

LEMMA ConstantTypes ==
    MaxContainers \in Nat /\ InboxSize \in Nat /\ RetriesMax \in Nat
BY RunQueueAssumption

\* A record of each event type is an event.
LEMMA EventTypes ==
    /\ AddEvents \subseteq Events /\ CancelEvents \subseteq Events
    /\ StageEvents \subseteq Events /\ ActivityEvents \subseteq Events
    /\ SummaryEvents \subseteq Events /\ DoneEvents \subseteq Events
BY DEF Events

\* What is sent into an inbox with room keeps the inbox typed and bounded.
LEMMA AppendTyped ==
    ASSUME TypeOK, HasRoom, NEW ev \in Events, inbox' = Append(inbox, ev)
    PROVE  inbox' \in Seq(Events) /\ Len(inbox') <= InboxSize
<1>1. inbox \in Seq(Events) /\ InboxSize \in Nat
  BY ConstantTypes DEF TypeOK
<1>2. Append(inbox, ev) \in Seq(Events) /\ Len(Append(inbox, ev)) = Len(inbox) + 1
  BY <1>1
<1>3. Len(inbox) \in Nat
  BY <1>1
<1>4. QED
  BY <1>1, <1>2, <1>3 DEF HasRoom

LEMMA SendTyped ==
    ASSUME TypeOK, NEW ev \in Events, SendOrAbandon(ev)
    PROVE  inbox' \in Seq(Events) /\ Len(inbox') <= InboxSize
BY AppendTyped DEF SendOrAbandon, TypeOK

\* Receiving takes the head, an event of the type asked for.
LEMMA ReceiveTyped ==
    ASSUME TypeOK, NEW type, Receive(type)
    PROVE  /\ inbox' \in Seq(Events) /\ Len(inbox') <= InboxSize
           /\ Head(inbox) \in Events /\ Head(inbox).type = type
           /\ Len(inbox) \in Nat \ {0} /\ Head(inbox) = inbox[1]
<1>1. inbox \in Seq(Events) /\ Len(inbox) <= InboxSize /\ InboxSize \in Nat
  BY ConstantTypes DEF TypeOK
<1>2. inbox # <<>> /\ inbox' = Tail(inbox) /\ Head(inbox).type = type
  BY DEF Receive
<1>3. /\ Len(inbox) \in Nat \ {0}
      /\ Head(inbox) = inbox[1] /\ Head(inbox) \in Events
      /\ Tail(inbox) \in Seq(Events) /\ Len(Tail(inbox)) = Len(inbox) - 1
  BY <1>1, <1>2
<1>4. QED
  BY <1>1, <1>2, <1>3

LEMMA EntryTyped ==
    /\ \A s \in Statuses : NewEntry(s) \in Entry
    /\ Absent \in Entry
    /\ \A e \in Entry, o \in Outcomes, b \in BOOLEAN : DoneEntry(e, o, b) \in Entry
<1>0. 0 \in 0 .. RetriesMax
  BY ConstantTypes
<1>1. \A s \in Statuses : NewEntry(s) \in Entry
  BY <1>0 DEF NewEntry, Entry, Summaries
<1>2. Absent \in Entry
  BY <1>1 DEF Absent, Statuses
<1>3. ASSUME NEW e \in Entry, NEW o \in Outcomes, NEW b \in BOOLEAN
      PROVE  DoneEntry(e, o, b) \in Entry
  <2>1. DoneStatus(o, b) \in Statuses
    BY DEF DoneStatus, Statuses, Terminal, Outcomes
  <2>2. QED
    BY <2>1 DEF DoneEntry, Entry, Summaries
<1>4. QED
  BY <1>1, <1>2, <1>3

\* What the handlers of reports write into an entry.
LEMMA EntryUpdated ==
    ASSUME NEW e \in Entry
    PROVE  /\ \A s \in Statuses, a \in 0 .. RetriesMax :
                [e EXCEPT !.status = s, !.attempt = a, !.activity = ""] \in Entry
           /\ \A text \in Activities \cup {""} :
                [e EXCEPT !.activity = text] \in Entry
           /\ \A text \in Summaries : [e EXCEPT !.summary = text] \in Entry
           /\ \A s \in Statuses :
                [e EXCEPT !.status = s, !.started = TRUE] \in Entry
BY DEF Entry

\* What one change of a run's entry leaves typed.
LEMMA ChangeTyped ==
    ASSUME TypeOK, NEW r \in Runs, NEW e \in Entry, Change(r, e), dirty' = TRUE
    PROVE  runs' \in [Runs -> Entry] /\ dirty' \in BOOLEAN
BY DEF TypeOK, Change

LEMMA DoneTyped ==
    ASSUME TypeOK, NEW r \in Runs, NEW o \in Outcomes, NEW b \in BOOLEAN,
           Done(r, o, b)
    PROVE  /\ runs' \in [Runs -> Entry] /\ dirty' \in BOOLEAN
           /\ cancels' \subseteq Runs /\ cancelled' \subseteq Runs
<1>1. DoneEntry(runs[r], o, b) \in Entry
  BY EntryTyped DEF TypeOK
<1>2. runs' \in [Runs -> Entry] /\ dirty' \in BOOLEAN
  BY <1>1, ChangeTyped DEF Done
<1>3. QED
  BY <1>2 DEF Done, TypeOK

\* The initial state is typed.
LEMMA TypeInit == Init => TypeOK
<1> SUFFICES ASSUME Init PROVE TypeOK
  OBVIOUS
<1>1. inbox \in Seq(Events) /\ Len(inbox) <= InboxSize /\ tickets \in Seq(Runs)
  BY ConstantTypes DEF Init
<1>2. runs \in [Runs -> Entry]
  BY EntryTyped DEF Init
<1>3. try \in [Runs -> 0 .. RetriesMax]
  BY ConstantTypes DEF Init
<1>4. QED
  BY <1>1, <1>2, <1>3 DEF Init, TypeOK, Phases

\* The callers' steps.
LEMMA TypeCaller == TypeOK /\ CallerNext => TypeOK'
<1> SUFFICES ASSUME TypeOK, CallerNext PROVE TypeOK'
  OBVIOUS
<1> USE DEF loopVars, pipeVars, callerVars
<1>1. ASSUME NEW r \in Runs, AddSend(r) PROVE TypeOK'
  <2>1. [type |-> "add", run |-> r] \in Events
    BY EventTypes DEF AddEvents
  <2>2. inbox' \in Seq(Events) /\ Len(inbox') <= InboxSize
    BY <1>1, <2>1, AppendTyped DEF AddSend
  <2>3. QED
    BY <1>1, <2>2 DEF AddSend, TypeOK
<1>2. ASSUME NEW r \in Runs, AddStopped(r) PROVE TypeOK'
  BY <1>2 DEF AddStopped, TypeOK
<1>3. ASSUME NEW c \in CancelCalls, CancelSend(c) PROVE TypeOK'
  <2>1. [type |-> "cancel", run |-> target[c], call |-> c] \in Events
    BY EventTypes DEF CancelEvents, TypeOK
  <2>2. inbox' \in Seq(Events) /\ Len(inbox') <= InboxSize
    BY <1>3, <2>1, AppendTyped DEF CancelSend
  <2>3. QED
    BY <1>3, <2>2 DEF CancelSend, TypeOK
<1>4. ASSUME NEW c \in CancelCalls, CancelLeft(c) PROVE TypeOK'
  BY <1>4 DEF CancelLeft, TypeOK
<1>5. QED
  BY <1>1, <1>2, <1>3, <1>4 DEF CallerNext

\* Until its first executor stage a pipeline is at no attempt, so that the number
\* of the next one never exceeds RetriesMax.
FirstAttempt == \A r \in Runs : phase[r] \in {"planner", "planned"} => try[r] = 0

\* A goroutine about to send its done event has one, its own.
ReportReady ==
    \A r \in Runs : phase[r] = "reporting"
                      => report[r] \in DoneEvents /\ report[r].run = r

TypeInv == TypeOK /\ FirstAttempt /\ ReportReady

\* A reporter call or a done event of one pipeline, and its next phase.
LEMMA BeginStageTyped ==
    ASSUME TypeInv, NEW r \in Runs, NEW s \in Stages,
           NEW a \in 0 .. RetriesMax, s = "planner" => a = 0, BeginStage(r, s, a)
    PROVE  TypeInv'
<1>1. [type |-> "stage", run |-> r, stage |-> s, attempt |-> a] \in Events
  BY EventTypes DEF StageEvents
<1>2. inbox' \in Seq(Events) /\ Len(inbox') <= InboxSize
  BY <1>1, SendTyped DEF BeginStage, TypeInv
<1>3. phase' \in [Runs -> Phases]
  BY DEF BeginStage, TypeInv, TypeOK, Phases, Stages
<1>4. try' \in [Runs -> 0 .. RetriesMax]
  BY DEF BeginStage, TypeInv, TypeOK
<1>5. FirstAttempt' /\ ReportReady'
  BY DEF BeginStage, TypeInv, TypeOK, FirstAttempt, ReportReady, Stages
<1>6. UNCHANGED <<loopVars, ctxDone, cancelled, pushed, report, callerVars>>
  BY DEF BeginStage
<1>7. QED
  BY <1>2, <1>3, <1>4, <1>5, <1>6
  DEF TypeInv, TypeOK, loopVars, callerVars

LEMMA EndStageTyped ==
    ASSUME TypeInv, NEW r \in Runs, NEW text \in {"plan", "review"},
           NEW next \in Phases \ {"reporting"}, next \in {"planner", "planned"} => try[r] = 0,
           EndStage(r, text, next)
    PROVE  TypeInv'
<1>1. [type |-> "summary", run |-> r, text |-> text] \in Events
  BY EventTypes DEF SummaryEvents
<1>2. inbox' \in Seq(Events) /\ Len(inbox') <= InboxSize
  BY <1>1, SendTyped DEF EndStage, TypeInv
<1>3. phase' \in [Runs -> Phases] /\ FirstAttempt' /\ ReportReady'
  BY DEF EndStage, TypeInv, TypeOK, FirstAttempt, ReportReady
<1>4. QED
  BY <1>2, <1>3 DEF EndStage, TypeInv, TypeOK, loopVars, callerVars

\* The steps of the execute goroutines.
LEMMA TypePipeline == TypeInv /\ PipelineNext => TypeInv'
<1> SUFFICES ASSUME TypeInv, NEW r \in Runs,
                    \/ BeginPlanner(r) \/ BeginExecutor(r) \/ BeginReviewer(r)
                    \/ EndPlanner(r) \/ EndReviewer(r) \/ ReportActivity(r)
                    \/ PushBranch(r) \/ RunnerReturn(r) \/ SendDone(r)
             PROVE  TypeInv'
  BY DEF PipelineNext
<1> USE DEF loopVars, pipeVars, callerVars
<1>1. CASE BeginPlanner(r)
  <2>1. 0 \in 0 .. RetriesMax /\ "planner" \in Stages
    BY ConstantTypes DEF Stages
  <2>2. QED
    BY <1>1, <2>1, BeginStageTyped DEF BeginPlanner
<1>2. CASE BeginExecutor(r)
  <2>1. try[r] \in 0 .. RetriesMax /\ RetriesMax \in Nat \ {0}
    BY RunQueueAssumption DEF TypeInv, TypeOK
  <2>2. phase[r] = "planned" => try[r] = 0
    BY DEF TypeInv, FirstAttempt
  <2>3. try[r] + 1 \in 0 .. RetriesMax
    BY <1>2, <2>1, <2>2 DEF BeginExecutor
  <2>4. "executor" \in Stages /\ "executor" # "planner"
    BY DEF Stages
  <2>5. QED
    BY <1>2, <2>3, <2>4, BeginStageTyped DEF BeginExecutor
<1>3. CASE BeginReviewer(r)
  <2>1. try[r] \in 0 .. RetriesMax
    BY DEF TypeInv, TypeOK
  <2>2. "reviewer" \in Stages /\ "reviewer" # "planner"
    BY DEF Stages
  <2>3. QED
    BY <1>3, <2>1, <2>2, BeginStageTyped DEF BeginReviewer
<1>4. CASE EndPlanner(r)
  <2>1. "planned" \in Phases \ {"reporting"} /\ try[r] = 0
    BY <1>4 DEF EndPlanner, TypeInv, FirstAttempt, Phases
  <2>2. QED
    BY <1>4, <2>1, EndStageTyped DEF EndPlanner
<1>5. CASE EndReviewer(r)
  <2>1. PICK decision \in {"accepted", "declined"} :
          EndStage(r, "review", decision)
    BY <1>5 DEF EndReviewer
  <2>2. decision \in Phases \ {"reporting"} /\ decision \notin {"planner", "planned"}
    BY DEF Phases
  <2>3. QED
    BY <2>1, <2>2, EndStageTyped
<1>6. CASE ReportActivity(r)
  <2>1. PICK text \in Activities :
          inbox' = Append(inbox, [type |-> "activity", run |-> r, text |-> text])
    BY <1>6 DEF ReportActivity
  <2>2. [type |-> "activity", run |-> r, text |-> text] \in Events
    BY EventTypes DEF ActivityEvents
  <2>3. inbox' \in Seq(Events) /\ Len(inbox') <= InboxSize
    BY <1>6, <2>1, <2>2, AppendTyped DEF ReportActivity, TypeInv
  <2>4. QED
    BY <1>6, <2>3 DEF ReportActivity, TypeInv, TypeOK, FirstAttempt, ReportReady
<1>7. CASE PushBranch(r)
  BY <1>7 DEF PushBranch, TypeInv, TypeOK, FirstAttempt, ReportReady, Phases
<1>8. CASE RunnerReturn(r)
  <2>1. PICK outcome \in Outcomes :
          report' = [report EXCEPT ![r] =
                       [type |-> "done", run |-> r, outcome |-> outcome,
                        cancelled |-> CtxErr(r)]]
    BY <1>8 DEF RunnerReturn
  <2>2. CtxErr(r) \in BOOLEAN
    BY DEF CtxErr, TypeInv, TypeOK
  <2>3. [type |-> "done", run |-> r, outcome |-> outcome,
         cancelled |-> CtxErr(r)] \in DoneEvents
    BY <2>2 DEF DoneEvents
  <2>4. report' \in [Runs -> DoneEvents \cup {NoReport}] /\ ReportReady'
    BY <1>8, <2>1, <2>3 DEF RunnerReturn, TypeInv, TypeOK, ReportReady
  <2>5. phase' \in [Runs -> Phases] /\ FirstAttempt'
    BY <1>8 DEF RunnerReturn, TypeInv, TypeOK, FirstAttempt, Phases
  <2>6. QED
    BY <1>8, <2>4, <2>5 DEF RunnerReturn, TypeInv, TypeOK
<1>9. CASE SendDone(r)
  <2>1. report[r] \in Events
    BY <1>9, EventTypes DEF SendDone, TypeInv, ReportReady
  <2>2. inbox' \in Seq(Events) /\ Len(inbox') <= InboxSize
    BY <1>9, <2>1, SendTyped DEF SendDone, TypeInv
  <2>3. /\ phase' \in [Runs -> Phases]
        /\ report' \in [Runs -> DoneEvents \cup {NoReport}]
        /\ FirstAttempt' /\ ReportReady'
    BY <1>9 DEF SendDone, TypeInv, TypeOK, FirstAttempt, ReportReady, Phases
  <2>4. QED
    BY <1>9, <2>2, <2>3 DEF SendDone, TypeInv, TypeOK
<1>10. QED
  BY <1>1, <1>2, <1>3, <1>4, <1>5, <1>6, <1>7, <1>8, <1>9

\* The steps of the loop.
LEMMA TypeLoop == TypeInv /\ LoopNext => TypeInv'
<1> SUFFICES ASSUME TypeInv, LoopNext PROVE TypeInv'
  OBVIOUS
<1> DEFINE r == Head(inbox).run
<1> USE DEF loopVars, pipeVars, callerVars
<1>0. TypeOK /\ FirstAttempt /\ ReportReady
  BY DEF TypeInv
<1>1. CASE HandleAdd
  <2>1. /\ inbox' \in Seq(Events) /\ Len(inbox') <= InboxSize
        /\ Head(inbox) \in Events /\ Head(inbox).type = "add"
    BY <1>0, <1>1, ReceiveTyped DEF HandleAdd
  <2>2. r \in Runs
    BY <2>1 DEF Events, AddEvents, CancelEvents, StageEvents, ActivityEvents,
                SummaryEvents, DoneEvents
  <2>3. NewEntry("queued") \in Entry
    BY EntryTyped DEF Statuses
  <2>4. runs' \in [Runs -> Entry] /\ dirty' \in BOOLEAN
    BY <1>0, <1>1, <2>2, <2>3, ChangeTyped DEF HandleAdd
  <2>5. tickets' \in Seq(Runs) /\ cancels' \subseteq Runs
    BY <1>0, <1>1, <2>2 DEF HandleAdd, TypeOK
  <2>6. adder' \in [Runs -> {"sending", "waiting", "added", "stopped"}]
    BY <1>0, <1>1, <2>2 DEF HandleAdd, TypeOK
  <2>7. QED
    BY <1>0, <1>1, <2>1, <2>4, <2>5, <2>6
    DEF HandleAdd, TypeInv, TypeOK, FirstAttempt, ReportReady
<1>2. CASE HandleCancel
  <2>1. /\ inbox' \in Seq(Events) /\ Len(inbox') <= InboxSize
        /\ Head(inbox) \in Events /\ Head(inbox).type = "cancel"
    BY <1>0, <1>2, ReceiveTyped DEF HandleCancel
  <2>2. r \in Runs /\ Head(inbox).call \in CancelCalls
    BY <2>1 DEF Events, AddEvents, CancelEvents, StageEvents, ActivityEvents,
                SummaryEvents, DoneEvents
  <2>3. reply' \in [CancelCalls -> {"none", "ok", "notFound", "finished"}]
    BY <1>0, <1>2, <2>2
    DEF HandleCancel, CancelRefused, CancelAccepted, Answer, TypeOK
  <2>4. /\ runs' \in [Runs -> Entry] /\ dirty' \in BOOLEAN
        /\ cancels' \subseteq Runs /\ cancelled' \subseteq Runs
    <3>1. CASE Done(r, "error", TRUE)
      BY <1>0, <2>2, <3>1, DoneTyped DEF Outcomes
    <3>2. CASE UNCHANGED <<runs, cancels, dirty>>
               /\ (cancelled' = cancelled \/ cancelled' = cancelled \cup ({r} \cap cancels))
      BY <1>0, <3>2 DEF TypeOK
    <3>3. QED
      BY <1>2, <3>1, <3>2 DEF HandleCancel, CancelRefused, CancelAccepted
  <2>5. QED
    BY <1>0, <1>2, <2>1, <2>3, <2>4
    DEF HandleCancel, TypeInv, TypeOK, FirstAttempt, ReportReady
<1>3. CASE HandleStage
  <2>1. /\ inbox' \in Seq(Events) /\ Len(inbox') <= InboxSize
        /\ Head(inbox) \in Events /\ Head(inbox).type = "stage"
    BY <1>0, <1>3, ReceiveTyped DEF HandleStage
  <2>2. Head(inbox) \in StageEvents
    BY <2>1 DEF Events, AddEvents, CancelEvents, StageEvents, ActivityEvents,
                SummaryEvents, DoneEvents
  <2>3. r \in Runs /\ StatusForStage(Head(inbox).stage) \in Statuses
        /\ Head(inbox).attempt \in 0 .. RetriesMax
    BY <2>2 DEF StageEvents, StatusForStage, Stages, Statuses, Running
  <2>4. runs' \in [Runs -> Entry] /\ dirty' \in BOOLEAN
    <3>1. CASE Known(r)
      <4>1. [runs[r] EXCEPT
               !.status   = StatusForStage(Head(inbox).stage),
               !.attempt  = IF Head(inbox).attempt > 0 THEN Head(inbox).attempt
                                                       ELSE @,
               !.activity = ""] \in Entry
        <5>1. runs[r] \in Entry
          BY <1>0, <2>3 DEF TypeOK
        <5>2. runs[r].attempt \in 0 .. RetriesMax
          BY <5>1 DEF Entry
        <5>3. QED
          BY <2>3, <5>1, <5>2, EntryUpdated
      <4>2. QED
        BY <1>0, <1>3, <2>3, <3>1, <4>1, ChangeTyped DEF HandleStage
    <3>2. CASE ~Known(r)
      BY <1>0, <1>3, <3>2 DEF HandleStage, TypeOK
    <3>3. QED
      BY <3>1, <3>2
  <2>5. QED
    BY <1>0, <1>3, <2>1, <2>4
    DEF HandleStage, TypeInv, TypeOK, FirstAttempt, ReportReady
<1>4. CASE HandleActivity
  <2>1. /\ inbox' \in Seq(Events) /\ Len(inbox') <= InboxSize
        /\ Head(inbox) \in Events /\ Head(inbox).type = "activity"
    BY <1>0, <1>4, ReceiveTyped DEF HandleActivity
  <2>2. Head(inbox) \in ActivityEvents
    BY <2>1 DEF Events, AddEvents, CancelEvents, StageEvents, ActivityEvents,
                SummaryEvents, DoneEvents
  <2>3. r \in Runs /\ [runs[r] EXCEPT !.activity = Head(inbox).text] \in Entry
    <3>1. r \in Runs /\ Head(inbox).text \in Activities
      BY <2>2 DEF ActivityEvents
    <3>2. runs[r] \in Entry
      BY <1>0, <3>1 DEF TypeOK
    <3>3. QED
      BY <3>1, <3>2, EntryUpdated
  <2>4. runs' \in [Runs -> Entry] /\ dirty' \in BOOLEAN
    <3>1. CASE UNCHANGED <<runs, dirty>>
      BY <1>0, <3>1 DEF TypeOK
    <3>2. CASE Change(r, [runs[r] EXCEPT !.activity = Head(inbox).text])
               /\ dirty' = TRUE
      BY <1>0, <2>3, <3>2, ChangeTyped
    <3>3. QED
      BY <1>4, <3>1, <3>2 DEF HandleActivity
  <2>5. QED
    BY <1>0, <1>4, <2>1, <2>4
    DEF HandleActivity, TypeInv, TypeOK, FirstAttempt, ReportReady
<1>5. CASE HandleSummary
  <2>1. /\ inbox' \in Seq(Events) /\ Len(inbox') <= InboxSize
        /\ Head(inbox) \in Events /\ Head(inbox).type = "summary"
    BY <1>0, <1>5, ReceiveTyped DEF HandleSummary
  <2>2. Head(inbox) \in SummaryEvents
    BY <2>1 DEF Events, AddEvents, CancelEvents, StageEvents, ActivityEvents,
                SummaryEvents, DoneEvents
  <2>3. r \in Runs /\ [runs[r] EXCEPT !.summary = Head(inbox).text] \in Entry
    <3>1. r \in Runs /\ Head(inbox).text \in {"plan", "review"}
      BY <2>2, \A ev \in SummaryEvents :
                 ev.run \in Runs /\ ev.text \in {"plan", "review"}
      DEF SummaryEvents
    <3>2. Head(inbox).text \in Summaries
      BY <3>1 DEF Summaries
    <3>3. runs[r] \in Entry
      BY <1>0, <3>1 DEF TypeOK
    <3>4. QED
      BY <3>1, <3>2, <3>3, EntryUpdated
  <2>4. runs' \in [Runs -> Entry] /\ dirty' \in BOOLEAN
    <3>1. CASE UNCHANGED <<runs, dirty>>
      BY <1>0, <3>1 DEF TypeOK
    <3>2. CASE Change(r, [runs[r] EXCEPT !.summary = Head(inbox).text])
               /\ dirty' = TRUE
      BY <1>0, <2>3, <3>2, ChangeTyped
    <3>3. QED
      BY <1>5, <3>1, <3>2 DEF HandleSummary
  <2>5. QED
    BY <1>0, <1>5, <2>1, <2>4
    DEF HandleSummary, TypeInv, TypeOK, FirstAttempt, ReportReady
<1>6. CASE HandleDone
  <2>1. /\ inbox' \in Seq(Events) /\ Len(inbox') <= InboxSize
        /\ Head(inbox) \in Events /\ Head(inbox).type = "done"
    BY <1>0, <1>6, ReceiveTyped DEF HandleDone
  <2>2. Head(inbox) \in DoneEvents
    BY <2>1 DEF Events, AddEvents, CancelEvents, StageEvents, ActivityEvents,
                SummaryEvents, DoneEvents
  <2>3. r \in Runs /\ Head(inbox).outcome \in Outcomes
        /\ Head(inbox).cancelled \in BOOLEAN
    BY <2>2 DEF DoneEvents
  <2>4. /\ runs' \in [Runs -> Entry] /\ dirty' \in BOOLEAN
        /\ cancels' \subseteq Runs /\ cancelled' \subseteq Runs
    <3>1. CASE Done(r, Head(inbox).outcome, Head(inbox).cancelled)
      BY <1>0, <2>3, <3>1, DoneTyped
    <3>2. CASE UNCHANGED <<runs, cancels, dirty, cancelled>>
      BY <1>0, <3>2 DEF TypeOK
    <3>3. QED
      BY <1>6, <3>1, <3>2 DEF HandleDone
  <2>5. QED
    BY <1>0, <1>6, <2>1, <2>4
    DEF HandleDone, TypeInv, TypeOK, FirstAttempt, ReportReady
<1>7. ASSUME NEW S \in SUBSET FinishedRuns, TickEvict(S) PROVE TypeInv'
  <2>1. runs' \in [Runs -> Entry]
    BY <1>0, <1>7, EntryTyped DEF TickEvict, TypeOK
  <2>2. QED
    BY <1>0, <1>7, <2>1 DEF TickEvict, TypeInv, TypeOK, FirstAttempt, ReportReady
<1>8. ASSUME tickets # <<>> PROVE Head(tickets) \in Runs /\ Tail(tickets) \in Seq(Runs)
  BY <1>0, <1>8 DEF TypeOK
<1>9. CASE ScheduleSkip
  BY <1>0, <1>8, <1>9
  DEF ScheduleSkip, MoreToSchedule, TypeInv, TypeOK, FirstAttempt, ReportReady
<1>10. CASE ScheduleRetire
  <2>1. /\ Head(tickets) \in Runs /\ tickets' \in Seq(Runs)
        /\ Done(Head(tickets), "error", TRUE)
    BY <1>8, <1>10 DEF ScheduleRetire, MoreToSchedule
  <2>2. /\ runs' \in [Runs -> Entry] /\ dirty' \in BOOLEAN
        /\ cancels' \subseteq Runs /\ cancelled' \subseteq Runs
    BY <1>0, <2>1, DoneTyped DEF Outcomes
  <2>3. QED
    BY <1>0, <1>10, <2>1, <2>2
    DEF ScheduleRetire, TypeInv, TypeOK, FirstAttempt, ReportReady
<1>11. CASE ScheduleStart
  <2> DEFINE s == Head(tickets)
             e == [runs[s] EXCEPT !.status = "started", !.started = TRUE]
  <2>1. s \in Runs /\ tickets' \in Seq(Runs) /\ Change(s, e) /\ dirty' = TRUE
    BY <1>8, <1>11 DEF ScheduleStart, MoreToSchedule
  <2>2. e \in Entry
    BY <1>0, <2>1, EntryUpdated DEF TypeOK, Statuses, Running
  <2>3. runs' \in [Runs -> Entry] /\ dirty' \in BOOLEAN
    BY <1>0, <2>1, <2>2, ChangeTyped
  <2>4. phase' \in [Runs -> Phases] /\ FirstAttempt' /\ ReportReady'
    BY <1>0, <1>11, <2>1
    DEF ScheduleStart, TypeOK, FirstAttempt, ReportReady, Phases
  <2>5. QED
    BY <1>0, <1>11, <2>1, <2>3, <2>4 DEF ScheduleStart, TypeInv, TypeOK
<1>12. CASE TickPublish
  BY <1>0, <1>12 DEF TickPublish, TypeInv, TypeOK, FirstAttempt, ReportReady
<1>13. CASE LoopStop
  BY <1>0, <1>13 DEF LoopStop, TypeInv, TypeOK, FirstAttempt, ReportReady
<1>14. QED
  BY <1>1, <1>2, <1>3, <1>4, <1>5, <1>6, <1>7, <1>9, <1>10, <1>11, <1>12, <1>13
  DEF LoopNext, Handle

LEMMA TypeStep == TypeInv /\ [Next]_vars => TypeInv'
<1> SUFFICES ASSUME TypeInv, [Next]_vars PROVE TypeInv'
  OBVIOUS
<1> USE DEF loopVars, pipeVars, callerVars
<1>1. CASE CallerNext
  <2>1. TypeOK'
    BY <1>1, TypeCaller DEF TypeInv
  <2>2. UNCHANGED <<phase, try, report>>
    BY <1>1 DEF CallerNext, AddSend, AddStopped, CancelSend, CancelLeft
  <2>3. QED
    BY <2>1, <2>2 DEF TypeInv, FirstAttempt, ReportReady
<1>2. CASE PipelineNext
  BY <1>2, TypePipeline
<1>3. CASE LoopNext
  BY <1>3, TypeLoop
<1>4. CASE Shutdown
  BY <1>4 DEF Shutdown, TypeInv, TypeOK, FirstAttempt, ReportReady
<1>5. CASE UNCHANGED vars
  BY <1>5 DEF vars, TypeInv, TypeOK, FirstAttempt, ReportReady
<1>6. QED
  BY <1>1, <1>2, <1>3, <1>4, <1>5 DEF Next, Terminated

\* Every variable keeps its type: the inbox is a sequence of at most InboxSize
\* well-formed events, the table a function of runs to entries, and no pipeline
\* counts past its last attempt.
THEOREM TypeCorrect == Spec => []TypeOK
<1>1. Init => TypeInv
  BY TypeInit DEF Init, TypeInv, FirstAttempt, ReportReady
<1>2. TypeInv => TypeOK
  BY DEF TypeInv
<1>3. QED
  BY <1>1, <1>2, TypeStep, PTL DEF Spec

-----------------------------------------------------------------------------
(* The inductive invariant.  The properties relate the table to goroutines  *)
(* the loop cannot see; between them stands the inbox.  What makes them     *)
(* inductive is the fate of a run's events: a report in the inbox belongs   *)
(* to an active run, and its done event is the last of them.                *)

ReportTypes == {"stage", "activity", "summary", "done"}

\* FinishedAt and the terminal statuses go together, a waiting or absent run was
\* not started, and a run at a stage was.
TableShape ==
    \A r \in Runs :
        /\ runs[r].finished <=> IsFinilised(runs[r].status)
        /\ runs[r].started => runs[r].status \notin {"none", "queued"}
        /\ runs[r].status \in Running => runs[r].started

ExecLive == \A r \in Runs : Executing(r) => Active(r)

ReportsLive ==
    \A i \in 1 .. Len(inbox) :
        inbox[i].type \in ReportTypes => Active(inbox[i].run)

DoneIsLast ==
    \A i \in 1 .. Len(inbox) :
        inbox[i].type = "done" =>
            /\ phase[inbox[i].run] = "ended"
            /\ \A j \in 1 .. Len(inbox) :
                 inbox[j].type \in ReportTypes /\ inbox[j].run = inbox[i].run
                   => j <= i

\* A ticket is for a run that has not executed, and there is one for each.
TicketsIdle ==
    \A i \in 1 .. Len(tickets) :
        /\ phase[tickets[i]] = "none"
        /\ ~runs[tickets[i]].started
        /\ \A j \in 1 .. Len(tickets) : tickets[j] = tickets[i] => j = i

\* A run whose add event has not been handled has left no trace.
Untouched(r) ==
    /\ ~Known(r)
    /\ phase[r] = "none"
    /\ \A k \in 1 .. Len(tickets) : tickets[k] # r

SendersUntouched == \A r \in Runs : adder[r] = "sending" => Untouched(r)

AddsUntouched ==
    \A i \in 1 .. Len(inbox) : \A r \in Runs :
        inbox[i].type = "add" /\ inbox[i].run = r
          => Untouched(r) /\ adder[r] # "sending"

AddsDistinct ==
    \A i \in 1 .. Len(inbox) : \A j \in 1 .. Len(inbox) :
        inbox[i].type = "add" /\ inbox[j].type = "add" /\ i # j
          => inbox[i].run # inbox[j].run

AddsOnce == SendersUntouched /\ AddsUntouched /\ AddsDistinct

WaitingIdle == \A r \in Runs : Known(r) /\ ~runs[r].started => phase[r] = "none"

ActiveBound == ActiveCount <= MaxContainers

IndInv ==
    /\ TypeInv
    /\ TableShape
    /\ CancelsAreLive
    /\ ExecLive
    /\ ReportsLive
    /\ DoneIsLast
    /\ TicketsIdle
    /\ AddsOnce
    /\ WaitingIdle
    /\ ActiveBound

LEMMA AppendedAt ==
    ASSUME TypeOK, NEW ev, inbox' = Append(inbox, ev)
    PROVE  /\ Len(inbox') = Len(inbox) + 1 /\ Len(inbox) \in Nat
           /\ \A i \in 1 .. Len(inbox) : inbox'[i] = inbox[i]
           /\ inbox'[Len(inbox) + 1] = ev
BY DEF TypeOK

LEMMA PoppedAt ==
    ASSUME TypeOK, inbox # <<>>, inbox' = Tail(inbox)
    PROVE  /\ Len(inbox') = Len(inbox) - 1 /\ Len(inbox) \in Nat \ {0}
           /\ \A i \in 1 .. Len(inbox') :
                inbox'[i] = inbox[i + 1] /\ i + 1 \in 1 .. Len(inbox)
           /\ Head(inbox) = inbox[1]
BY DEF TypeOK

LEMMA EventRuns ==
    \A ev \in Events : ev.run \in Runs
BY DEF Events, AddEvents, CancelEvents, StageEvents, ActivityEvents,
       SummaryEvents, DoneEvents

LEMMA InboxAt ==
    ASSUME TypeOK
    PROVE  /\ Len(inbox) \in Nat
           /\ \A i \in 1 .. Len(inbox) : inbox[i] \in Events /\ inbox[i].run \in Runs
<1>1. inbox \in Seq(Events)
  BY DEF TypeOK
<1>2. Len(inbox) \in Nat /\ \A i \in 1 .. Len(inbox) : inbox[i] \in Events
  BY <1>1
<1>3. QED
  BY <1>2, EventRuns

\* A step that leaves the table, the tickets, every phase and the inbox alone, and
\* lets no Add call go back to sending.
LEMMA IndQuiet ==
    ASSUME IndInv, TypeInv', UNCHANGED <<runs, cancels, tickets, phase>>,
           \A r \in Runs : adder'[r] = "sending" => adder[r] = "sending",
           inbox' = inbox
    PROVE  IndInv'
<1> USE DEF IndInv
<1>1. TableShape' /\ CancelsAreLive' /\ ExecLive' /\ WaitingIdle' /\ ActiveBound'
  BY DEF TableShape, CancelsAreLive, ExecLive, WaitingIdle, ActiveBound,
         Known, Active, Executing, ActiveCount, ActiveRuns
<1>2. ReportsLive' /\ DoneIsLast' /\ TicketsIdle'
  BY DEF ReportsLive, DoneIsLast, TicketsIdle, Active
<1>3. \A i \in 1 .. Len(inbox) : inbox[i].run \in Runs
  BY InboxAt DEF TypeInv
<1>4. AddsOnce'
  BY <1>3 DEF AddsOnce, SendersUntouched, AddsUntouched, AddsDistinct, Untouched, Known
<1>5. QED
  BY <1>1, <1>2, <1>4

\* A goroutine's step: it reports on its own run, or not at all, and stays active.
LEMMA IndReport ==
    ASSUME IndInv, TypeInv', NEW r \in Runs, Executing(r), NEW ev \in Events,
           ev.run = r, ev.type \in ReportTypes,
           inbox' = Append(inbox, ev) \/ inbox' = inbox,
           NEW next \in Phases \ {"none"},
           phase' = [phase EXCEPT ![r] = next],
           ev.type = "done" => next = "ended",
           UNCHANGED <<runs, cancels, tickets, adder>>
    PROVE  IndInv'
<1> USE DEF IndInv
<1>0. TypeOK /\ phase \in [Runs -> Phases] /\ Active(r) /\ phase[r] \notin {"none", "ended"}
  BY DEF TypeInv, TypeOK, ExecLive, Executing
<1>1. \A s \in Runs : s # r => phase'[s] = phase[s]
  BY <1>0
<1>2. phase'[r] = next /\ next # "none"
  BY <1>0
<1>3. TableShape' /\ CancelsAreLive' /\ ActiveBound'
  BY DEF TableShape, CancelsAreLive, ActiveBound, ActiveCount, ActiveRuns,
         Known, Active
<1>4. ExecLive'
  BY <1>0, <1>1 DEF ExecLive, Executing, Active
<1>5. WaitingIdle'
  BY <1>0, <1>1 DEF WaitingIdle, Known, Active
<1>6. /\ Len(inbox) \in Nat
      /\ \A i \in 1 .. Len(inbox) : inbox[i] \in Events /\ inbox[i].run \in Runs
  BY <1>0, InboxAt
<1>7. \A i \in 1 .. Len(tickets) : tickets[i] \in Runs /\ tickets[i] # r
  BY <1>0 DEF TicketsIdle, TypeOK
<1>8. TicketsIdle'
  BY <1>1, <1>7 DEF TicketsIdle
<1>9. \A i \in 1 .. Len(inbox) : inbox[i].type = "done" => inbox[i].run # r
  BY <1>0 DEF DoneIsLast
<1>10. \A s \in Runs : Untouched(s) => Untouched(s)' /\ s # r
  BY <1>0, <1>1 DEF Untouched, Known
<1>11. CASE inbox' = inbox
  <2>1. ReportsLive'
    BY <1>11 DEF ReportsLive, Active
  <2>2. DoneIsLast'
    BY <1>1, <1>6, <1>9, <1>11 DEF DoneIsLast
  <2>3. AddsOnce'
    BY <1>6, <1>10, <1>11 DEF AddsOnce, SendersUntouched, AddsUntouched, AddsDistinct
  <2>4. QED
    BY <1>3, <1>4, <1>5, <1>8, <2>1, <2>2, <2>3
<1>12. CASE inbox' = Append(inbox, ev)
  <2>1. /\ Len(inbox') = Len(inbox) + 1
        /\ \A i \in 1 .. Len(inbox) : inbox'[i] = inbox[i]
        /\ inbox'[Len(inbox) + 1] = ev
    BY <1>0, <1>12, AppendedAt
  <2>2. \A i \in 1 .. Len(inbox') : i \in 1 .. Len(inbox) \/ i = Len(inbox) + 1
    BY <1>6, <2>1
  <2>3. ReportsLive'
    BY <1>0, <1>6, <2>1, <2>2 DEF ReportsLive, Active
  <2>4. DoneIsLast'
    <3> SUFFICES ASSUME NEW i \in 1 .. Len(inbox'), inbox'[i].type = "done",
                        NEW j \in 1 .. Len(inbox'),
                        inbox'[j].type \in ReportTypes,
                        inbox'[j].run = inbox'[i].run
                 PROVE  phase'[inbox'[i].run] = "ended" /\ j <= i
      BY <1>0, <1>1, <1>2, <1>6, <1>9, <2>1, <2>2 DEF DoneIsLast, ReportTypes
    <3>1. CASE i \in 1 .. Len(inbox)
      <4>1. inbox'[i] = inbox[i] /\ inbox[i].run # r /\ inbox[i].run \in Runs
        BY <1>6, <1>9, <2>1, <3>1
      <4>2. j \in 1 .. Len(inbox) /\ inbox'[j] = inbox[j]
        BY <2>1, <2>2, <4>1
      <4>3. QED
        BY <1>1, <3>1, <4>1, <4>2 DEF DoneIsLast
    <3>2. CASE i = Len(inbox) + 1
      BY <1>2, <1>6, <2>1, <2>2, <3>2
    <3>3. QED
      BY <2>2, <3>1, <3>2
  <2>5. AddsOnce'
    <3>1. \A i \in 1 .. Len(inbox') :
            inbox'[i].type = "add" => i \in 1 .. Len(inbox) /\ inbox'[i] = inbox[i]
      BY <2>1, <2>2 DEF ReportTypes
    <3>2. \A s \in Runs : adder'[s] = "sending" => Untouched(s)'
      BY <1>10 DEF AddsOnce, SendersUntouched, AddsUntouched, AddsDistinct
    <3>3. \A i \in 1 .. Len(inbox'), s \in Runs :
            inbox'[i].type = "add" /\ inbox'[i].run = s
              => Untouched(s)' /\ adder'[s] # "sending"
      BY <1>10, <3>1 DEF AddsOnce, SendersUntouched, AddsUntouched, AddsDistinct
    <3>4. ASSUME NEW i \in 1 .. Len(inbox'), NEW j \in 1 .. Len(inbox'),
                 inbox'[i].type = "add", inbox'[j].type = "add", i # j
          PROVE  inbox'[i].run # inbox'[j].run
      BY <3>1, <3>4 DEF AddsOnce, SendersUntouched, AddsUntouched, AddsDistinct
    <3>5. SendersUntouched'
      BY <3>2 DEF SendersUntouched
    <3>6. AddsUntouched'
      BY <3>3 DEF AddsUntouched
    <3>7. AddsDistinct'
      BY <3>4 DEF AddsDistinct
    <3>8. QED
      BY <3>5, <3>6, <3>7 DEF AddsOnce
  <2>6. QED
    BY <1>3, <1>4, <1>5, <1>8, <2>3, <2>4, <2>5
<1>13. QED
  BY <1>11, <1>12

\* A caller's event enters the inbox: it is no report, and an add only once.
LEMMA IndCallerSend ==
    ASSUME IndInv, TypeInv', NEW ev \in Events, ev.type \in {"add", "cancel"},
           inbox' = Append(inbox, ev),
           ev.type = "add" => adder[ev.run] = "sending" /\ adder'[ev.run] # "sending",
           \A r \in Runs : adder'[r] = "sending" => adder[r] = "sending",
           UNCHANGED <<runs, cancels, tickets, phase>>
    PROVE  IndInv'
<1> USE DEF IndInv
<1>1. TableShape' /\ CancelsAreLive' /\ ExecLive' /\ WaitingIdle' /\ ActiveBound'
  BY DEF TableShape, CancelsAreLive, ExecLive, WaitingIdle, ActiveBound,
         Known, Active, Executing, ActiveCount, ActiveRuns
<1>2. TypeOK /\ ev.run \in Runs
  BY EventRuns DEF TypeInv
<1>3. /\ Len(inbox) \in Nat
      /\ \A i \in 1 .. Len(inbox) : inbox[i] \in Events /\ inbox[i].run \in Runs
  BY <1>2, InboxAt
<1>4. /\ Len(inbox') = Len(inbox) + 1
      /\ \A i \in 1 .. Len(inbox) : inbox'[i] = inbox[i]
      /\ inbox'[Len(inbox) + 1] = ev
  BY <1>2, AppendedAt
<1>5. \A i \in 1 .. Len(inbox') : i \in 1 .. Len(inbox) \/ i = Len(inbox) + 1
  BY <1>3, <1>4
<1>6. ReportsLive' /\ DoneIsLast'
  BY <1>3, <1>4, <1>5 DEF ReportsLive, DoneIsLast, ReportTypes, Active
<1>7. TicketsIdle'
  BY DEF TicketsIdle
<1>8. \A r \in Runs : Untouched(r) => Untouched(r)'
  BY DEF Untouched, Known
<1>9. AddsOnce'
  <2>1. \A r \in Runs : adder'[r] = "sending" => Untouched(r)'
    BY <1>8 DEF AddsOnce, SendersUntouched, AddsUntouched, AddsDistinct
  <2>2. ASSUME NEW i \in 1 .. Len(inbox'), NEW r \in Runs,
               inbox'[i].type = "add", inbox'[i].run = r
        PROVE  Untouched(r)' /\ adder'[r] # "sending"
    <3>1. CASE i \in 1 .. Len(inbox)
      BY <1>4, <1>8, <2>2, <3>1 DEF AddsOnce, SendersUntouched, AddsUntouched, AddsDistinct
    <3>2. CASE i = Len(inbox) + 1
      BY <1>2, <1>4, <1>8, <2>2, <3>2 DEF AddsOnce, SendersUntouched, AddsUntouched, AddsDistinct
    <3>3. QED
      BY <1>5, <3>1, <3>2
  <2>3. \A i \in 1 .. Len(inbox) :
          inbox[i].type = "add" /\ ev.type = "add" => inbox[i].run # ev.run
    BY <1>2 DEF AddsOnce, SendersUntouched, AddsUntouched, AddsDistinct
  <2>4. ASSUME NEW i \in 1 .. Len(inbox'), NEW j \in 1 .. Len(inbox'),
               inbox'[i].type = "add", inbox'[j].type = "add", i # j
        PROVE  inbox'[i].run # inbox'[j].run
    <3>1. CASE i \in 1 .. Len(inbox) /\ j \in 1 .. Len(inbox)
      BY <1>4, <2>4, <3>1 DEF AddsOnce, SendersUntouched, AddsUntouched, AddsDistinct
    <3>2. CASE i = Len(inbox) + 1 \/ j = Len(inbox) + 1
      BY <1>4, <1>5, <2>3, <2>4, <3>2
    <3>3. QED
      BY <1>5, <3>1, <3>2
  <2>5. SendersUntouched'
    BY <2>1 DEF SendersUntouched
  <2>6. AddsUntouched'
    BY <2>2 DEF AddsUntouched
  <2>7. AddsDistinct'
    BY <2>4 DEF AddsDistinct
  <2>8. QED
    BY <2>5, <2>6, <2>7 DEF AddsOnce
<1>10. QED
  BY <1>1, <1>6, <1>7, <1>9

LEMMA IndCaller == IndInv /\ TypeInv' /\ CallerNext => IndInv'
<1> SUFFICES ASSUME IndInv, TypeInv', CallerNext PROVE IndInv'
  OBVIOUS
<1> USE DEF loopVars, pipeVars, callerVars
<1>0. TypeOK
  BY DEF IndInv, TypeInv
<1>1. ASSUME NEW r \in Runs, AddSend(r) PROVE IndInv'
  <2> DEFINE ev == [type |-> "add", run |-> r]
  <2>1. ev \in Events /\ ev.type = "add" /\ ev.run = r
    BY EventTypes DEF AddEvents
  <2>2. \A s \in Runs : adder'[s] = "sending" => adder[s] = "sending"
    BY <1>0, <1>1 DEF AddSend, TypeOK
  <2>3. adder[r] = "sending" /\ adder'[r] # "sending"
    BY <1>0, <1>1 DEF AddSend, TypeOK
  <2>4. inbox' = Append(inbox, ev) /\ UNCHANGED <<runs, cancels, tickets, phase>>
    BY <1>1 DEF AddSend
  <2>5. QED
    BY <2>1, <2>2, <2>3, <2>4, IndCallerSend
<1>2. ASSUME NEW r \in Runs, AddStopped(r) PROVE IndInv'
  <2>1. \A s \in Runs : adder'[s] = "sending" => adder[s] = "sending"
    BY <1>0, <1>2 DEF AddStopped, TypeOK
  <2>2. QED
    BY <1>2, <2>1, IndQuiet DEF AddStopped
<1>3. ASSUME NEW c \in CancelCalls, CancelSend(c) PROVE IndInv'
  <2> DEFINE ev == [type |-> "cancel", run |-> target[c], call |-> c]
  <2>1. ev \in Events /\ ev.type = "cancel"
    BY <1>0, EventTypes DEF CancelEvents, TypeOK
  <2>2. inbox' = Append(inbox, ev) /\ UNCHANGED <<runs, cancels, tickets, phase, adder>>
    BY <1>3 DEF CancelSend
  <2>3. QED
    BY <2>1, <2>2, IndCallerSend
<1>4. ASSUME NEW c \in CancelCalls, CancelLeft(c) PROVE IndInv'
  BY <1>4, IndQuiet DEF CancelLeft
<1>5. QED
  BY <1>1, <1>2, <1>3, <1>4 DEF CallerNext

LEMMA IndPipeline == IndInv /\ TypeInv' /\ PipelineNext => IndInv'
<1> SUFFICES ASSUME IndInv, TypeInv', NEW r \in Runs,
                    \/ BeginPlanner(r) \/ BeginExecutor(r) \/ BeginReviewer(r)
                    \/ EndPlanner(r) \/ EndReviewer(r) \/ ReportActivity(r)
                    \/ PushBranch(r) \/ RunnerReturn(r) \/ SendDone(r)
             PROVE  IndInv'
  BY DEF PipelineNext
<1> USE DEF loopVars, pipeVars, callerVars
<1>0. TypeInv /\ TypeOK
  BY DEF IndInv, TypeInv
<1>1. ASSUME NEW s \in Stages, NEW a \in 0 .. RetriesMax, Executing(r),
             BeginStage(r, s, a)
      PROVE  IndInv'
  <2> DEFINE ev == [type |-> "stage", run |-> r, stage |-> s, attempt |-> a]
             next == IF CtxErr(r) THEN "doomed" ELSE s
  <2>1. ev \in Events /\ ev.run = r /\ ev.type \in ReportTypes /\ ev.type # "done"
    BY EventTypes DEF StageEvents, ReportTypes
  <2>2. next \in Phases \ {"none"}
    BY DEF Phases, Stages
  <2>3. /\ inbox' = Append(inbox, ev) \/ inbox' = inbox
        /\ phase' = [phase EXCEPT ![r] = next]
        /\ UNCHANGED <<runs, cancels, tickets, adder>>
    BY <1>1 DEF BeginStage, SendOrAbandon
  <2> HIDE DEF ev, next
  <2>4. QED
    BY <1>1, <2>1, <2>2, <2>3, IndReport
<1>2. ASSUME NEW text \in {"plan", "review"}, NEW next \in Phases \ {"none"},
             Executing(r), EndStage(r, text, next)
      PROVE  IndInv'
  <2> DEFINE ev == [type |-> "summary", run |-> r, text |-> text]
  <2>1. ev \in Events /\ ev.run = r /\ ev.type \in ReportTypes /\ ev.type # "done"
    BY EventTypes DEF SummaryEvents, ReportTypes
  <2>2. /\ inbox' = Append(inbox, ev) \/ inbox' = inbox
        /\ phase' = [phase EXCEPT ![r] = next]
        /\ UNCHANGED <<runs, cancels, tickets, adder>>
    BY <1>2 DEF EndStage, SendOrAbandon
  <2> HIDE DEF ev
  <2>3. QED
    BY <1>2, <2>1, <2>2, IndReport
<1>3. CASE BeginPlanner(r)
  <2>1. 0 \in 0 .. RetriesMax /\ "planner" \in Stages
    BY ConstantTypes DEF Stages
  <2>2. Executing(r)
    BY <1>3 DEF BeginPlanner, Executing
  <2>3. QED
    BY <1>1, <1>3, <2>1, <2>2 DEF BeginPlanner
<1>4. CASE BeginExecutor(r)
  <2>1. Executing(r) /\ "executor" \in Stages /\ BeginStage(r, "executor", try[r] + 1)
    BY <1>4 DEF BeginExecutor, Executing, Stages
  <2>2. try[r] \in 0 .. RetriesMax /\ RetriesMax \in Nat \ {0}
    BY <1>0, RunQueueAssumption DEF TypeOK
  <2>3. phase[r] = "planned" => try[r] = 0
    BY <1>0 DEF TypeInv, FirstAttempt
  <2>4. try[r] + 1 \in 0 .. RetriesMax
    BY <1>4, <2>2, <2>3 DEF BeginExecutor
  <2>5. QED
    BY <1>1, <2>1, <2>4
<1>5. CASE BeginReviewer(r)
  <2>1. Executing(r) /\ "reviewer" \in Stages /\ try[r] \in 0 .. RetriesMax
    BY <1>0, <1>5 DEF BeginReviewer, Executing, Stages, TypeOK
  <2>2. QED
    BY <1>1, <1>5, <2>1 DEF BeginReviewer
<1>6. CASE EndPlanner(r)
  <2>1. Executing(r) /\ "planned" \in Phases \ {"none"}
    BY <1>6 DEF EndPlanner, Executing, Phases
  <2>2. QED
    BY <1>2, <1>6, <2>1 DEF EndPlanner
<1>7. CASE EndReviewer(r)
  <2>1. PICK decision \in {"accepted", "declined"} :
          EndStage(r, "review", decision)
    BY <1>7 DEF EndReviewer
  <2>2. Executing(r) /\ decision \in Phases \ {"none"}
    BY <1>7 DEF EndReviewer, Executing, Phases
  <2>3. QED
    BY <1>2, <2>1, <2>2
<1>8. CASE ReportActivity(r)
  <2>1. PICK text \in Activities :
          inbox' = Append(inbox, [type |-> "activity", run |-> r, text |-> text])
    BY <1>8 DEF ReportActivity
  <2> DEFINE ev == [type |-> "activity", run |-> r, text |-> text]
  <2>2. ev \in Events /\ ev.run = r /\ ev.type \in ReportTypes /\ ev.type # "done"
    BY EventTypes DEF ActivityEvents, ReportTypes
  <2>3. Executing(r) /\ phase[r] \in Phases \ {"none"}
    BY <1>8 DEF ReportActivity, Executing, Phases, Stages
  <2>4. /\ phase' = [phase EXCEPT ![r] = phase[r]]
        /\ UNCHANGED <<runs, cancels, tickets, adder>>
    BY <1>0, <1>8 DEF ReportActivity, TypeOK
  <2>5. inbox' = Append(inbox, ev)
    BY <2>1
  <2> HIDE DEF ev
  <2>6. QED
    BY <2>2, <2>3, <2>4, <2>5, IndReport
<1>9. CASE PushBranch(r) \/ RunnerReturn(r)
  <2> DEFINE next == IF PushBranch(r) THEN "pushed" ELSE "reporting"
             ev == [type |-> "summary", run |-> r, text |-> "plan"]
  <2>1. Executing(r) /\ next \in Phases \ {"none"}
    BY <1>9 DEF PushBranch, RunnerReturn, MayReturn, Working, Executing, Phases
  <2>2. /\ inbox' = inbox
        /\ UNCHANGED <<runs, cancels, tickets, adder>>
    BY <1>9 DEF PushBranch, RunnerReturn
  <2>3. phase' = [phase EXCEPT ![r] = next]
    BY <1>9 DEF PushBranch, RunnerReturn
  <2>4. ev \in Events /\ ev.run = r /\ ev.type \in ReportTypes /\ ev.type # "done"
    BY EventTypes DEF SummaryEvents, ReportTypes
  <2> HIDE DEF ev, next
  <2>5. QED
    BY <2>1, <2>2, <2>3, <2>4, IndReport
<1>10. CASE SendDone(r)
  <2>1. report[r] \in Events /\ report[r].run = r /\ report[r].type = "done"
    BY <1>0, <1>10, EventTypes DEF SendDone, TypeInv, ReportReady, DoneEvents
  <2>2. Executing(r) /\ "ended" \in Phases \ {"none"} /\ report[r].type \in ReportTypes
    BY <1>10, <2>1 DEF SendDone, Executing, Phases, ReportTypes
  <2>3. /\ inbox' = Append(inbox, report[r]) \/ inbox' = inbox
        /\ phase' = [phase EXCEPT ![r] = "ended"]
        /\ UNCHANGED <<runs, cancels, tickets, adder>>
    BY <1>10 DEF SendDone, SendOrAbandon
  <2>4. QED
    BY <2>1, <2>2, <2>3, IndReport
<1>11. QED
  BY <1>3, <1>4, <1>5, <1>6, <1>7, <1>8, <1>9, <1>10

-----------------------------------------------------------------------------
(* The loop only takes events and tickets from the front, so what it does   *)
(* to the inbox, the tickets and the table is treated once for each.        *)

Popped(s, t) == t = s \/ (s # <<>> /\ t = Tail(s))

LEMMA PoppedShift ==
    ASSUME NEW S, NEW s \in Seq(S), NEW t, Popped(s, t)
    PROVE  \E k \in {0, 1} :
             /\ Len(s) = Len(t) + k /\ Len(t) \in Nat /\ Len(s) \in Nat
             /\ \A i \in 1 .. Len(t) : i + k \in 1 .. Len(s) /\ t[i] = s[i + k]
<1>1. CASE t = s
  BY <1>1
<1>2. CASE s # <<>> /\ t = Tail(s)
  BY <1>2
<1>3. QED
  BY <1>1, <1>2 DEF Popped

\* A run that stops being active has no report left in the inbox.
LEMMA ReportsShrink ==
    ASSUME IndInv, Popped(inbox, inbox'),
           \A s \in Runs : Active(s) =>
             \/ Active(s)'
             \/ \A i \in 1 .. Len(inbox') :
                  inbox'[i].type \in ReportTypes => inbox'[i].run # s,
           \A s \in Runs : phase[s] = "ended" => phase'[s] = "ended"
    PROVE  ReportsLive' /\ DoneIsLast'
<1>1. TypeOK /\ inbox \in Seq(Events)
  BY DEF IndInv, TypeInv, TypeOK
<1>2. PICK k \in {0, 1} :
        /\ Len(inbox) = Len(inbox') + k /\ Len(inbox') \in Nat
        /\ \A i \in 1 .. Len(inbox') :
             i + k \in 1 .. Len(inbox) /\ inbox'[i] = inbox[i + k]
  BY <1>1, PoppedShift
<1>3. \A i \in 1 .. Len(inbox) : inbox[i].run \in Runs
  BY <1>1, InboxAt
<1>4. ASSUME NEW i \in 1 .. Len(inbox'), inbox'[i].type \in ReportTypes
      PROVE  /\ runs'[inbox'[i].run].started
             /\ ~IsFinilised(runs'[inbox'[i].run].status)
  <2> DEFINE s == inbox[i + k].run
  <2>1. s \in Runs /\ inbox'[i].run = s /\ i + k \in 1 .. Len(inbox)
    BY <1>2, <1>3
  <2>2. Active(s)
    BY <1>2, <1>4, <2>1 DEF IndInv, ReportsLive
  <2> HIDE DEF s
  <2>3. runs'[s].started /\ ~IsFinilised(runs'[s].status)
    BY <1>4, <2>1, <2>2 DEF Active
  <2>4. QED
    BY <2>1, <2>3
<1>5. ReportsLive'
  BY <1>4 DEF ReportsLive, Active
<1>6. ASSUME NEW i \in 1 .. Len(inbox'), inbox'[i].type = "done"
      PROVE  /\ phase'[inbox'[i].run] = "ended"
             /\ \A j \in 1 .. Len(inbox') :
                  inbox'[j].type \in ReportTypes /\ inbox'[j].run = inbox'[i].run
                    => j <= i
  <2>1. inbox'[i] = inbox[i + k] /\ i + k \in 1 .. Len(inbox) /\ inbox[i + k].run \in Runs
    BY <1>2, <1>3
  <2>2. /\ phase[inbox[i + k].run] = "ended"
        /\ \A j \in 1 .. Len(inbox) :
             inbox[j].type \in ReportTypes /\ inbox[j].run = inbox[i + k].run
               => j <= i + k
    BY <1>6, <2>1 DEF IndInv, DoneIsLast
  <2>3. ASSUME NEW j \in 1 .. Len(inbox'),
               inbox'[j].type \in ReportTypes, inbox'[j].run = inbox'[i].run
        PROVE  j <= i
    <3>1. j + k \in 1 .. Len(inbox) /\ inbox'[j] = inbox[j + k]
      BY <1>2
    <3>2. j + k <= i + k
      BY <2>1, <2>2, <2>3, <3>1
    <3>3. QED
      BY <1>2, <3>2
  <2>4. QED
    BY <2>1, <2>2, <2>3
<1>7. DoneIsLast'
  BY <1>6 DEF DoneIsLast
<1>8. QED
  BY <1>5, <1>7

LEMMA TicketsShrink ==
    ASSUME IndInv, Popped(tickets, tickets'),
           \A i \in 1 .. Len(tickets') :
             /\ phase'[tickets'[i]] = phase[tickets'[i]]
             /\ runs'[tickets'[i]].started => runs[tickets'[i]].started
    PROVE  TicketsIdle'
<1>1. tickets \in Seq(Runs)
  BY DEF IndInv, TypeInv, TypeOK
<1>2. PICK k \in {0, 1} :
        /\ Len(tickets) = Len(tickets') + k /\ Len(tickets') \in Nat
        /\ \A i \in 1 .. Len(tickets') :
             i + k \in 1 .. Len(tickets) /\ tickets'[i] = tickets[i + k]
  BY <1>1, PoppedShift
<1>3. ASSUME NEW i \in 1 .. Len(tickets')
      PROVE  /\ phase'[tickets'[i]] = "none"
             /\ ~runs'[tickets'[i]].started
             /\ \A j \in 1 .. Len(tickets') : tickets'[j] = tickets'[i] => j = i
  <2>1. /\ i + k \in 1 .. Len(tickets) /\ tickets'[i] = tickets[i + k]
    BY <1>2
  <2>2. /\ phase[tickets[i + k]] = "none" /\ ~runs[tickets[i + k]].started
        /\ \A j \in 1 .. Len(tickets) : tickets[j] = tickets[i + k] => j = i + k
    BY <2>1 DEF IndInv, TicketsIdle
  <2>3. \A j \in 1 .. Len(tickets') : tickets'[j] = tickets'[i] => j + k = i + k
    BY <1>2, <2>1, <2>2
  <2>4. \A j \in 1 .. Len(tickets') : tickets'[j] = tickets'[i] => j = i
    BY <1>2, <2>3
  <2>5. QED
    BY <2>1, <2>2, <2>4
<1>4. QED
  BY <1>3 DEF TicketsIdle

\* A run that leaves a trace has no add event left and no caller that sends one.
LEMMA AddsShrink ==
    ASSUME IndInv, Popped(inbox, inbox'),
           \A s \in Runs : adder'[s] = "sending" => adder[s] = "sending",
           \A s \in Runs : Untouched(s) =>
             \/ Untouched(s)'
             \/ /\ adder'[s] # "sending"
                /\ \A i \in 1 .. Len(inbox') :
                     inbox'[i].type = "add" => inbox'[i].run # s
    PROVE  AddsOnce'
<1>1. inbox \in Seq(Events)
  BY DEF IndInv, TypeInv, TypeOK
<1>2. PICK k \in {0, 1} :
        /\ Len(inbox) = Len(inbox') + k /\ Len(inbox') \in Nat
        /\ \A i \in 1 .. Len(inbox') :
             i + k \in 1 .. Len(inbox) /\ inbox'[i] = inbox[i + k]
  BY <1>1, PoppedShift
<1>3. SendersUntouched'
  <2>1. ASSUME NEW s \in Runs, adder'[s] = "sending" PROVE Untouched(s)'
    BY <2>1 DEF IndInv, AddsOnce, SendersUntouched
  <2>2. QED
    BY <2>1 DEF SendersUntouched
<1>4. AddsUntouched'
  <2>1. ASSUME NEW i \in 1 .. Len(inbox'), NEW s \in Runs,
               inbox'[i].type = "add", inbox'[i].run = s
        PROVE  Untouched(s)' /\ adder'[s] # "sending"
    <3>1. inbox'[i] = inbox[i + k] /\ i + k \in 1 .. Len(inbox)
      BY <1>2
    <3>2. Untouched(s) /\ adder[s] # "sending"
      BY <2>1, <3>1 DEF IndInv, AddsOnce, AddsUntouched
    <3>3. QED
      BY <2>1, <3>2
  <2>2. QED
    BY <2>1 DEF AddsUntouched
<1>5. AddsDistinct'
  <2>1. ASSUME NEW i \in 1 .. Len(inbox'), NEW j \in 1 .. Len(inbox'),
               inbox'[i].type = "add", inbox'[j].type = "add", i # j
        PROVE  inbox'[i].run # inbox'[j].run
    <3>1. /\ inbox'[i] = inbox[i + k] /\ i + k \in 1 .. Len(inbox)
          /\ inbox'[j] = inbox[j + k] /\ j + k \in 1 .. Len(inbox)
          /\ i + k # j + k
      BY <1>2, <2>1
    <3>2. QED
      BY <2>1, <3>1 DEF IndInv, AddsOnce, AddsDistinct
  <2>2. QED
    BY <2>1 DEF AddsDistinct
<1>6. QED
  BY <1>3, <1>4, <1>5 DEF AddsOnce

LEMMA UntouchedStays ==
    ASSUME IndInv, Popped(tickets, tickets'), NEW s \in Runs, Untouched(s),
           ~Known(s)', phase'[s] = phase[s]
    PROVE  Untouched(s)'
<1>1. tickets \in Seq(Runs)
  BY DEF IndInv, TypeInv, TypeOK
<1>2. \A k \in 1 .. Len(tickets') : tickets'[k] # s
  BY <1>1, PoppedShift DEF Untouched
<1>3. QED
  BY <1>2 DEF Untouched

\* The active runs stay within the bound if no run becomes active.
LEMMA ActiveShrinks ==
    ASSUME IndInv, \A s \in Runs : Active(s)' => Active(s)
    PROVE  ActiveBound'
<1>1. IsFiniteSet(ActiveRuns)
  BY RunQueueAssumption, FS_Subset DEF ActiveRuns
<1>2. ActiveRuns' \subseteq ActiveRuns
  BY DEF ActiveRuns
<1>3. /\ Cardinality(ActiveRuns') <= Cardinality(ActiveRuns)
      /\ Cardinality(ActiveRuns') \in Nat /\ Cardinality(ActiveRuns) \in Nat
  BY <1>1, <1>2, FS_Subset, FS_CardinalityType
<1>4. QED
  BY <1>3, ConstantTypes DEF IndInv, ActiveBound, ActiveCount

\* A step that only takes from the inbox or the tickets.
LEMMA IndPop ==
    ASSUME IndInv, TypeInv', Popped(inbox, inbox'), Popped(tickets, tickets'),
           UNCHANGED <<runs, cancels, phase, adder>>
    PROVE  IndInv'
<1>1. TableShape' /\ CancelsAreLive' /\ ExecLive' /\ WaitingIdle' /\ ActiveBound'
  BY DEF IndInv, TableShape, CancelsAreLive, ExecLive, WaitingIdle, ActiveBound,
         Known, Active, Executing, ActiveCount, ActiveRuns
<1>2. \A s \in Runs : Active(s) => Active(s)'
  BY DEF Active
<1>3. \A s \in Runs : Untouched(s) => Untouched(s)'
  <2> SUFFICES ASSUME NEW s \in Runs, Untouched(s) PROVE Untouched(s)'
    OBVIOUS
  <2>1. ~Known(s)' /\ phase'[s] = phase[s]
    BY DEF Untouched, Known
  <2>2. QED
    BY <2>1, UntouchedStays
<1>4. ReportsLive' /\ DoneIsLast'
  BY <1>2, ReportsShrink
<1>5. TicketsIdle'
  BY TicketsShrink
<1>6. AddsOnce'
  BY <1>3, AddsShrink
<1>7. QED
  BY <1>1, <1>4, <1>5, <1>6 DEF IndInv

\* A report updates the entry of an active run, which stays active.
LEMMA IndUpdate ==
    ASSUME IndInv, TypeInv', NEW r \in Runs, Active(r),
           NEW e \in Entry, e.started, ~e.finished, e.status \in Running,
           Popped(inbox, inbox'), runs' = [runs EXCEPT ![r] = e],
           UNCHANGED <<cancels, tickets, phase, adder>>
    PROVE  IndInv'
<1>0. runs \in [Runs -> Entry]
  BY DEF IndInv, TypeInv, TypeOK
<1>1. runs'[r] = e /\ \A s \in Runs : s # r => runs'[s] = runs[s]
  BY <1>0
<1>2. e.status # "none" /\ e.status # "queued" /\ ~IsFinilised(e.status)
  BY DEF Running, IsFinilised, Terminal
<1>3. runs[r].started /\ ~IsFinilised(runs[r].status) /\ runs[r].status # "none"
  BY DEF Active, IndInv, TableShape
<1>4. \A s \in Runs : /\ Known(s)' <=> Known(s)
                      /\ Active(s)' <=> Active(s)
                      /\ runs'[s].started <=> runs[s].started
                      /\ IsFinilised(runs'[s].status) <=> IsFinilised(runs[s].status)
  BY <1>1, <1>2, <1>3 DEF Known, Active
<1>5. TableShape'
  BY <1>1, <1>2 DEF IndInv, TableShape
<1>6. CancelsAreLive'
  BY <1>4 DEF IndInv, CancelsAreLive
<1>7. ExecLive' /\ WaitingIdle'
  BY <1>4 DEF IndInv, ExecLive, WaitingIdle, Executing
<1>8. ActiveBound'
  BY <1>4, ActiveShrinks
<1>9. ReportsLive' /\ DoneIsLast'
  BY <1>4, ReportsShrink
<1>10. TicketsIdle'
  <2>1. \A i \in 1 .. Len(tickets) : tickets[i] \in Runs
    BY DEF IndInv, TypeInv, TypeOK
  <2>2. QED
    BY <1>4, <2>1, TicketsShrink DEF Popped
<1>11. \A s \in Runs : Untouched(s) => Untouched(s)'
  <2> SUFFICES ASSUME NEW s \in Runs, Untouched(s) PROVE Untouched(s)'
    OBVIOUS
  <2>1. ~Known(s)' /\ phase'[s] = phase[s]
    BY <1>4 DEF Untouched
  <2>2. QED
    BY <2>1, UntouchedStays DEF Popped
<1>12. AddsOnce'
  BY <1>11, AddsShrink
<1>13. QED
  BY <1>5, <1>6, <1>7, <1>8, <1>9, <1>10, <1>12 DEF IndInv

\* Queue.done of a run that does not execute and has no other report left.
LEMMA IndRetire ==
    ASSUME IndInv, TypeInv', NEW r \in Runs, Known(r), ~Executing(r),
           NEW o \in Outcomes, NEW b \in BOOLEAN, Done(r, o, b),
           Popped(inbox, inbox'), Popped(tickets, tickets'),
           \A i \in 1 .. Len(inbox') :
             inbox'[i].type \in ReportTypes => inbox'[i].run # r,
           UNCHANGED <<phase, adder>>
    PROVE  IndInv'
<1>0. runs \in [Runs -> Entry] /\ tickets \in Seq(Runs)
  BY DEF IndInv, TypeInv, TypeOK
<1>1. /\ runs'[r] = DoneEntry(runs[r], o, b)
      /\ \A s \in Runs : s # r => runs'[s] = runs[s]
      /\ cancels' = cancels \ {r}
  BY <1>0 DEF Done, Change
<1>2. IsFinilised(DoneStatus(o, b))
  BY DEF DoneStatus, IsFinilised, Terminal, Outcomes
<1>3. /\ runs'[r].finished = TRUE
      /\ runs'[r].started = runs[r].started
      /\ runs'[r].status = DoneStatus(o, b)
  <2> DEFINE text == IF ~b /\ o = "error" THEN "error" ELSE runs[r].summary
  <2>1. runs'[r] = [runs[r] EXCEPT !.finished = TRUE, !.activity = "",
                                   !.status = DoneStatus(o, b), !.summary = text]
    BY <1>1, Zenon DEF DoneEntry
  <2>2. runs[r] \in Entry
    BY <1>0
  <2> HIDE DEF text
  <2>3. QED
    BY <2>1, <2>2 DEF Entry
<1>4. IsFinilised(runs'[r].status) /\ Known(r)' /\ ~Active(r)'
  BY <1>2, <1>3 DEF Known, Active, IsFinilised, Terminal
<1>5. \A s \in Runs : /\ Known(s)' <=> Known(s)
                      /\ runs'[s].started <=> runs[s].started
                      /\ Active(s)' => Active(s)
                      /\ s # r => (Active(s)' <=> Active(s))
  BY <1>1, <1>3, <1>4 DEF Known, Active
<1>6. TableShape'
  <2>1. /\ runs'[r].finished <=> IsFinilised(runs'[r].status)
        /\ runs'[r].status \notin {"none", "queued"}
        /\ runs'[r].status \notin Running
    BY <1>3, <1>4 DEF IsFinilised, Terminal, Running
  <2>2. QED
    BY <1>1, <2>1 DEF IndInv, TableShape
<1>7. CancelsAreLive'
  BY <1>1, <1>4, <1>5 DEF IndInv, CancelsAreLive
<1>8. ExecLive' /\ WaitingIdle'
  BY <1>5 DEF IndInv, ExecLive, WaitingIdle, Executing
<1>9. ActiveBound'
  BY <1>5, ActiveShrinks
<1>10. ReportsLive' /\ DoneIsLast'
  BY <1>5, ReportsShrink
<1>11. TicketsIdle'
  <2>1. \A i \in 1 .. Len(tickets') : tickets'[i] \in Runs
    BY DEF TypeInv, TypeOK
  <2>2. QED
    BY <1>5, <2>1, TicketsShrink
<1>12. \A s \in Runs : Untouched(s) => Untouched(s)'
  <2> SUFFICES ASSUME NEW s \in Runs, Untouched(s) PROVE Untouched(s)'
    OBVIOUS
  <2>1. ~Known(s)' /\ phase'[s] = phase[s]
    BY <1>5 DEF Untouched
  <2>2. QED
    BY <2>1, UntouchedStays
<1>13. AddsOnce'
  BY <1>12, AddsShrink
<1>14. QED
  BY <1>6, <1>7, <1>8, <1>9, <1>10, <1>11, <1>13 DEF IndInv

LEMMA AbsentEntry ==
    Absent.status = "none" /\ Absent.started = FALSE /\ Absent.finished = FALSE
BY DEF Absent, NewEntry

LEMMA QueuedEntry ==
    /\ NewEntry("queued").status = "queued"
    /\ NewEntry("queued").started = FALSE
    /\ NewEntry("queued").finished = FALSE
BY DEF NewEntry

\* The run of an add event is new: nothing is known of it and nothing is left.
LEMMA IndAdd == IndInv /\ TypeInv' /\ HandleAdd => IndInv'
<1> SUFFICES ASSUME IndInv, TypeInv', HandleAdd PROVE IndInv'
  OBVIOUS
<1> USE DEF loopVars, pipeVars, callerVars
<1>0. /\ TypeOK /\ runs \in [Runs -> Entry] /\ tickets \in Seq(Runs)
      /\ adder \in [Runs -> {"sending", "waiting", "added", "stopped"}]
  BY DEF IndInv, TypeInv, TypeOK
<1>1. /\ inbox # <<>> /\ inbox' = Tail(inbox) /\ Popped(inbox, inbox')
      /\ Head(inbox).type = "add"
  BY DEF HandleAdd, Receive, Popped
<1>2. /\ Len(inbox') = Len(inbox) - 1 /\ Len(inbox) \in Nat \ {0}
      /\ \A i \in 1 .. Len(inbox') :
           inbox'[i] = inbox[i + 1] /\ i + 1 \in 1 .. Len(inbox)
      /\ Head(inbox) = inbox[1]
  BY <1>0, <1>1, PoppedAt
<1>3. PICK r \in Runs : r = Head(inbox).run
  BY <1>0, <1>2, InboxAt
<1>4. /\ runs' = [runs EXCEPT ![r] = NewEntry("queued")]
      /\ cancels' = cancels \cup {r}
      /\ tickets' = Append(tickets, r)
      /\ adder' = [adder EXCEPT ![r] = IF @ = "waiting" THEN "added" ELSE @]
      /\ UNCHANGED phase
  BY <1>3 DEF HandleAdd, Change
<1>5. Untouched(r) /\ adder[r] # "sending"
  BY <1>1, <1>2, <1>3 DEF IndInv, AddsOnce, AddsUntouched
<1>6. \A i \in 1 .. Len(inbox') : inbox'[i].type = "add" => inbox'[i].run # r
  <2> SUFFICES ASSUME NEW i \in 1 .. Len(inbox'), inbox'[i].type = "add"
               PROVE  inbox'[i].run # r
    OBVIOUS
  <2>1. inbox'[i] = inbox[i + 1] /\ i + 1 \in 1 .. Len(inbox) /\ i + 1 # 1
    BY <1>2
  <2>2. QED
    BY <1>1, <1>2, <1>3, <2>1 DEF IndInv, AddsOnce, AddsDistinct
<1>7. /\ runs'[r] = NewEntry("queued")
      /\ \A s \in Runs : s # r => runs'[s] = runs[s]
  BY <1>0, <1>3, <1>4
<1>8. ~Known(r) /\ phase[r] = "none" /\ ~runs[r].started
  BY <1>3, <1>5 DEF Untouched, Known, IndInv, TableShape
<1>9. \A s \in Runs : Active(s)' <=> Active(s)
  BY <1>7, <1>8, QueuedEntry DEF Active
<1>10. TableShape'
  BY <1>7, QueuedEntry DEF IndInv, TableShape, IsFinilised, Terminal, Running
<1>11. CancelsAreLive'
  <2>1. \A s \in Runs : s # r => (Known(s)' <=> Known(s))
    BY <1>7 DEF Known
  <2>2. Known(r)' /\ ~IsFinilised(runs'[r].status)
    BY <1>7, QueuedEntry DEF Known, IsFinilised, Terminal
  <2>3. QED
    BY <1>3, <1>4, <1>7, <2>1, <2>2 DEF IndInv, CancelsAreLive
<1>12. ExecLive' /\ WaitingIdle'
  BY <1>4, <1>7, <1>8, <1>9
  DEF IndInv, ExecLive, WaitingIdle, Executing, Known
<1>13. ActiveBound'
  BY <1>9, ActiveShrinks
<1>14. ReportsLive' /\ DoneIsLast'
  BY <1>1, <1>4, <1>9, ReportsShrink
<1>15. TicketsIdle'
  <2>1. /\ Len(tickets') = Len(tickets) + 1 /\ Len(tickets) \in Nat
        /\ \A i \in 1 .. Len(tickets) : tickets'[i] = tickets[i] /\ tickets[i] \in Runs
        /\ tickets'[Len(tickets) + 1] = r
    BY <1>0, <1>3, <1>4
  <2>2. \A i \in 1 .. Len(tickets) : tickets[i] # r
    BY <1>5 DEF Untouched
  <2>3. ASSUME NEW i \in 1 .. Len(tickets')
        PROVE  /\ phase'[tickets'[i]] = "none" /\ ~runs'[tickets'[i]].started
               /\ \A j \in 1 .. Len(tickets') : tickets'[j] = tickets'[i] => j = i
    <3>1. CASE i \in 1 .. Len(tickets)
      <4>1. phase'[tickets'[i]] = "none" /\ ~runs'[tickets'[i]].started
        BY <1>4, <1>7, <2>1, <2>2, <3>1 DEF IndInv, TicketsIdle
      <4>2. QED
        BY <2>1, <2>2, <3>1, <4>1 DEF IndInv, TicketsIdle
    <3>2. CASE i = Len(tickets) + 1
      <4>1. phase'[tickets'[i]] = "none" /\ ~runs'[tickets'[i]].started
        BY <1>4, <1>7, <1>8, <2>1, <3>2, QueuedEntry
      <4>2. QED
        BY <2>1, <2>2, <3>2, <4>1
    <3>3. QED
      BY <2>1, <3>1, <3>2
  <2>4. QED
    BY <2>3 DEF TicketsIdle
<1>16. AddsOnce'
  <2>1. \A s \in Runs : adder'[s] = "sending" => adder[s] = "sending"
    BY <1>0, <1>3, <1>4
  <2>2. adder'[r] # "sending"
    BY <1>3, <1>5, <2>1
  <2>3. ASSUME NEW s \in Runs, s # r, Untouched(s) PROVE Untouched(s)'
    <3>1. \A k \in 1 .. Len(tickets') : tickets'[k] # s
      BY <1>0, <1>3, <1>4, <2>3 DEF Untouched
    <3>2. QED
      BY <1>4, <1>7, <2>3, <3>1 DEF Untouched, Known
  <2>4. QED
    BY <1>1, <1>6, <2>1, <2>2, <2>3, AddsShrink
<1>17. QED
  BY <1>10, <1>11, <1>12, <1>13, <1>14, <1>15, <1>16 DEF IndInv

\* Eviction takes only runs that are neither active nor cancellable.
LEMMA IndEvict ==
    ASSUME IndInv, TypeInv', NEW expired \in SUBSET FinishedRuns, TickEvict(expired)
    PROVE  IndInv'
<1> USE DEF pipeVars, callerVars
<1>0. runs \in [Runs -> Entry] /\ tickets \in Seq(Runs)
  BY DEF IndInv, TypeInv, TypeOK
<1>1. /\ \A s \in Runs : runs'[s] = IF s \in expired THEN Absent ELSE runs[s]
      /\ UNCHANGED <<inbox, cancels, tickets, phase, adder>>
  BY DEF TickEvict
<1>2. \A s \in expired : s \in Runs /\ IsFinilised(runs[s].status)
  BY DEF FinishedRuns, IndInv, TableShape
<1>3. \A s \in Runs : /\ Active(s)' <=> Active(s)
                      /\ Known(s)' => Known(s)
                      /\ runs'[s].started => runs[s].started
  BY <1>1, <1>2, AbsentEntry DEF Active, Known
<1>4. TableShape'
  BY <1>1, AbsentEntry DEF IndInv, TableShape, IsFinilised, Terminal, Running
<1>5. CancelsAreLive'
  <2>1. \A s \in Runs : Known(s)' /\ ~IsFinilised(runs'[s].status)
                          <=> Known(s) /\ ~IsFinilised(runs[s].status)
    BY <1>1, <1>2, AbsentEntry DEF Known
  <2>2. QED
    BY <1>1, <2>1 DEF IndInv, CancelsAreLive
<1>6. ExecLive'
  BY <1>1, <1>3 DEF IndInv, ExecLive, Executing
<1>7. WaitingIdle'
  BY <1>1, AbsentEntry DEF IndInv, WaitingIdle, Known
<1>8. ActiveBound'
  BY <1>3, ActiveShrinks
<1>9. ReportsLive' /\ DoneIsLast'
  BY <1>1, <1>3, ReportsShrink DEF Popped
<1>10. TicketsIdle'
  <2>1. \A i \in 1 .. Len(tickets) : tickets[i] \in Runs
    BY <1>0
  <2>2. QED
    BY <1>1, <1>3, <2>1, TicketsShrink DEF Popped
<1>11. \A s \in Runs : Untouched(s) => Untouched(s)'
  <2> SUFFICES ASSUME NEW s \in Runs, Untouched(s) PROVE Untouched(s)'
    OBVIOUS
  <2>1. ~Known(s)' /\ phase'[s] = phase[s]
    BY <1>1, <1>3 DEF Untouched
  <2>2. QED
    BY <1>1, <2>1, UntouchedStays DEF Popped
<1>12. AddsOnce'
  BY <1>1, <1>11, AddsShrink DEF Popped
<1>13. QED
  BY <1>4, <1>5, <1>6, <1>7, <1>8, <1>9, <1>10, <1>12 DEF IndInv

\* The run of the first ticket has never been started.
LEMMA FirstTicket ==
    ASSUME IndInv, tickets # <<>>
    PROVE  \E r \in Runs :
             /\ r = Head(tickets) /\ phase[r] = "none" /\ ~runs[r].started
             /\ \A i \in 1 .. Len(Tail(tickets)) : Tail(tickets)[i] # r
<1>1. tickets \in Seq(Runs) /\ Len(tickets) \in Nat \ {0} /\ Head(tickets) = tickets[1]
      /\ 1 \in 1 .. Len(tickets) /\ tickets[1] \in Runs
  BY DEF IndInv, TypeInv, TypeOK
<1>2. \A i \in 1 .. Len(Tail(tickets)) :
        Tail(tickets)[i] = tickets[i + 1] /\ i + 1 \in 1 .. Len(tickets) /\ i + 1 # 1
  BY <1>1
<1>3. phase[tickets[1]] = "none" /\ ~runs[tickets[1]].started
  BY <1>1 DEF IndInv, TicketsIdle
<1>4. \A i \in 1 .. Len(Tail(tickets)) : Tail(tickets)[i] # tickets[1]
  BY <1>1, <1>2 DEF IndInv, TicketsIdle
<1>5. QED
  BY <1>1, <1>3, <1>4

\* An admitted run takes a slot that is free.
LEMMA IndStart == IndInv /\ TypeInv' /\ ScheduleStart => IndInv'
<1> SUFFICES ASSUME IndInv, TypeInv', ScheduleStart PROVE IndInv'
  OBVIOUS
<1> USE DEF callerVars
<1>0. runs \in [Runs -> Entry] /\ tickets \in Seq(Runs) /\ phase \in [Runs -> Phases]
  BY DEF IndInv, TypeInv, TypeOK
<1>1. tickets # <<>> /\ ActiveCount < MaxContainers
  BY DEF ScheduleStart, MoreToSchedule
<1>2. PICK r \in Runs :
        /\ r = Head(tickets) /\ phase[r] = "none" /\ ~runs[r].started
        /\ \A i \in 1 .. Len(Tail(tickets)) : Tail(tickets)[i] # r
  BY <1>1, FirstTicket
<1>3. /\ Known(r) /\ ~IsFinilised(runs[r].status)
      /\ runs' = [runs EXCEPT ![r] = [runs[r] EXCEPT !.status = "started",
                                                     !.started = TRUE]]
      /\ phase' = [phase EXCEPT ![r] = "starting"]
      /\ tickets' = Tail(tickets)
      /\ UNCHANGED <<inbox, cancels, adder>>
  BY <1>2 DEF ScheduleStart, Change
<1>4. /\ runs'[r].status = "started" /\ runs'[r].started = TRUE
      /\ runs'[r].finished = runs[r].finished
      /\ \A s \in Runs : s # r => runs'[s] = runs[s]
  BY <1>0, <1>2, <1>3 DEF Entry
<1>5. phase'[r] = "starting" /\ \A s \in Runs : s # r => phase'[s] = phase[s]
  BY <1>0, <1>2, <1>3
<1>6. Popped(inbox, inbox') /\ Popped(tickets, tickets')
  BY <1>1, <1>3 DEF Popped
<1>7. /\ ~Active(r) /\ Active(r)' /\ Known(r)' /\ ~IsFinilised(runs'[r].status)
      /\ \A s \in Runs : s # r => (Active(s)' <=> Active(s))
  BY <1>2, <1>4 DEF Active, Known, IsFinilised, Terminal
<1>8. TableShape'
  <2>1. ~runs'[r].finished
    BY <1>3, <1>4 DEF IndInv, TableShape
  <2>2. QED
    BY <1>4, <1>7, <2>1 DEF IndInv, TableShape
<1>9. CancelsAreLive'
  <2>1. \A s \in Runs : s # r => (Known(s)' <=> Known(s))
    BY <1>4 DEF Known
  <2>2. QED
    BY <1>3, <1>4, <1>7, <2>1 DEF IndInv, CancelsAreLive
<1>10. ExecLive'
  BY <1>5, <1>7 DEF IndInv, ExecLive, Executing
<1>11. WaitingIdle'
  BY <1>4, <1>5 DEF IndInv, WaitingIdle, Known
<1>12. ActiveBound'
  <2>1. IsFiniteSet(ActiveRuns)
    BY RunQueueAssumption, FS_Subset DEF ActiveRuns
  <2>2. ActiveRuns' = ActiveRuns \cup {r} /\ r \notin ActiveRuns
    BY <1>7 DEF ActiveRuns
  <2>3. Cardinality(ActiveRuns') = Cardinality(ActiveRuns) + 1
    BY <2>1, <2>2, FS_AddElement
  <2>4. Cardinality(ActiveRuns) \in Nat
    BY <2>1, FS_CardinalityType
  <2>5. QED
    BY <1>1, <2>3, <2>4, ConstantTypes DEF ActiveBound, ActiveCount
<1>13. ReportsLive' /\ DoneIsLast'
  <2>1. \A s \in Runs : phase[s] = "ended" => phase'[s] = "ended"
    BY <1>2, <1>5
  <2>2. \A s \in Runs : Active(s) => Active(s)'
    BY <1>7
  <2>3. QED
    BY <1>6, <2>1, <2>2, ReportsShrink
<1>14. TicketsIdle'
  <2>1. \A i \in 1 .. Len(tickets') : tickets'[i] \in Runs /\ tickets'[i] # r
    BY <1>2, <1>3 DEF TypeInv, TypeOK
  <2>2. QED
    BY <1>4, <1>5, <1>6, <2>1, TicketsShrink
<1>15. AddsOnce'
  <2>1. ASSUME NEW s \in Runs, Untouched(s) PROVE Untouched(s)'
    <3>1. s # r /\ ~Known(s)
      BY <1>3, <2>1 DEF Untouched
    <3>2. ~Known(s)' /\ phase'[s] = phase[s]
      BY <1>4, <1>5, <3>1 DEF Known
    <3>3. QED
      BY <1>6, <2>1, <3>2, UntouchedStays
  <2>2. QED
    BY <1>3, <1>6, <2>1, AddsShrink
<1>16. QED
  BY <1>8, <1>9, <1>10, <1>11, <1>12, <1>13, <1>14, <1>15 DEF IndInv

\* The event at the head, with what the invariant says of it.
LEMMA HeadReport ==
    ASSUME IndInv, NEW type, Receive(type)
    PROVE  /\ Popped(inbox, inbox')
           /\ Head(inbox) \in Events /\ Head(inbox).type = type
           /\ Head(inbox).run \in Runs
           /\ type \in ReportTypes => Active(Head(inbox).run)
           /\ type = "done" =>
                /\ phase[Head(inbox).run] = "ended"
                /\ \A i \in 1 .. Len(inbox') :
                     inbox'[i].type \in ReportTypes
                       => inbox'[i].run # Head(inbox).run
<1>1. TypeOK
  BY DEF IndInv, TypeInv
<1>2. /\ Head(inbox) \in Events /\ Head(inbox).type = type
      /\ Len(inbox) \in Nat \ {0} /\ Head(inbox) = inbox[1]
  BY <1>1, ReceiveTyped
<1>3. inbox # <<>> /\ inbox' = Tail(inbox)
  BY DEF Receive
<1>4. /\ Len(inbox') = Len(inbox) - 1
      /\ \A i \in 1 .. Len(inbox') :
           inbox'[i] = inbox[i + 1] /\ i + 1 \in 1 .. Len(inbox)
  BY <1>1, <1>3, PoppedAt
<1>5. Head(inbox).run \in Runs /\ 1 \in 1 .. Len(inbox)
  BY <1>2, EventRuns
<1>6. type \in ReportTypes => Active(Head(inbox).run)
  BY <1>2, <1>5 DEF IndInv, ReportsLive
<1>7. ASSUME type = "done"
      PROVE  /\ phase[Head(inbox).run] = "ended"
             /\ \A i \in 1 .. Len(inbox') :
                  inbox'[i].type \in ReportTypes => inbox'[i].run # Head(inbox).run
  <2>1. /\ phase[inbox[1].run] = "ended"
        /\ \A j \in 1 .. Len(inbox) :
             inbox[j].type \in ReportTypes /\ inbox[j].run = inbox[1].run => j <= 1
    BY <1>2, <1>5, <1>7 DEF IndInv, DoneIsLast
  <2>2. ASSUME NEW i \in 1 .. Len(inbox'), inbox'[i].type \in ReportTypes
        PROVE  inbox'[i].run # inbox[1].run
    <3>1. inbox'[i] = inbox[i + 1] /\ i + 1 \in 1 .. Len(inbox) /\ ~(i + 1 <= 1)
      BY <1>4
    <3>2. QED
      BY <2>1, <2>2, <3>1
  <2>3. QED
    BY <1>2, <2>1, <2>2
<1>8. QED
  BY <1>2, <1>3, <1>5, <1>6, <1>7 DEF Popped

\* What an entry of an active run looks like.
LEMMA ActiveEntry ==
    ASSUME IndInv, NEW r \in Runs, Active(r)
    PROVE  /\ runs[r] \in Entry /\ runs[r].started = TRUE /\ runs[r].finished = FALSE
           /\ runs[r].status \in Running
           /\ Known(r) /\ ~IsFinilised(runs[r].status)
<1>1. runs[r] \in Entry
  BY DEF IndInv, TypeInv, TypeOK
<1>2. /\ runs[r].status \in Statuses /\ runs[r].finished \in BOOLEAN
      /\ runs[r].started \in BOOLEAN
  BY <1>1 DEF Entry
<1>3. runs[r].started /\ ~IsFinilised(runs[r].status) /\ ~runs[r].finished
  BY DEF Active, IndInv, TableShape
<1>4. runs[r].status \notin {"none", "queued"}
  BY <1>3 DEF IndInv, TableShape
<1>5. QED
  BY <1>1, <1>2, <1>3, <1>4 DEF Statuses, IsFinilised, Known

\* The handlers of a run's reports.
LEMMA IndHandleReport ==
    IndInv /\ TypeInv' /\ (HandleStage \/ HandleActivity \/ HandleSummary \/ HandleDone)
      => IndInv'
<1> SUFFICES ASSUME IndInv, TypeInv',
                    HandleStage \/ HandleActivity \/ HandleSummary \/ HandleDone
             PROVE  IndInv'
  OBVIOUS
<1> USE DEF pipeVars, callerVars
<1>1. ASSUME NEW type \in ReportTypes, Receive(type)
      PROVE  \E r \in Runs :
               /\ r = Head(inbox).run /\ Active(r) /\ Popped(inbox, inbox')
               /\ Head(inbox) \in Events /\ Head(inbox).type = type
               /\ runs[r] \in Entry /\ runs[r].started = TRUE
               /\ runs[r].finished = FALSE /\ runs[r].status \in Running
               /\ Known(r) /\ ~IsFinilised(runs[r].status)
  BY <1>1, HeadReport, ActiveEntry
<1>2. CASE HandleStage
  <2>1. PICK r \in Runs :
          /\ r = Head(inbox).run /\ Active(r) /\ Popped(inbox, inbox')
          /\ Head(inbox) \in Events /\ Head(inbox).type = "stage"
          /\ runs[r] \in Entry /\ runs[r].started = TRUE
          /\ runs[r].finished = FALSE /\ Known(r)
    BY <1>1, <1>2 DEF HandleStage, ReportTypes
  <2> DEFINE s == StatusForStage(Head(inbox).stage)
             a == IF Head(inbox).attempt > 0 THEN Head(inbox).attempt
                                             ELSE runs[r].attempt
             e == [runs[r] EXCEPT !.status = s, !.attempt = a, !.activity = ""]
  <2>2. Head(inbox).stage \in Stages /\ Head(inbox).attempt \in 0 .. RetriesMax
    BY <2>1 DEF Events, AddEvents, CancelEvents, StageEvents, ActivityEvents,
                SummaryEvents, DoneEvents
  <2>3. s \in Running /\ s \in Statuses
    BY <2>2 DEF StatusForStage, Stages, Running, Statuses
  <2>4. a \in 0 .. RetriesMax
    BY <2>1, <2>2 DEF Entry
  <2>5. runs' = [runs EXCEPT ![r] = e] /\ UNCHANGED <<cancels, tickets, phase, adder>>
    BY <1>2, <2>1 DEF HandleStage, Change
  <2> HIDE DEF s, a
  <2>6. e \in Entry /\ e.started /\ ~e.finished /\ e.status \in Running
    BY <2>1, <2>3, <2>4, EntryUpdated DEF Entry
  <2> HIDE DEF e
  <2>7. QED
    BY <2>1, <2>5, <2>6, IndUpdate
<1>3. CASE HandleActivity
  <2>1. PICK r \in Runs :
          /\ r = Head(inbox).run /\ Active(r) /\ Popped(inbox, inbox')
          /\ Head(inbox) \in Events /\ Head(inbox).type = "activity"
          /\ runs[r] \in Entry /\ runs[r].started = TRUE
          /\ runs[r].finished = FALSE /\ runs[r].status \in Running
    BY <1>1, <1>3 DEF HandleActivity, ReportTypes
  <2> DEFINE e == [runs[r] EXCEPT !.activity = Head(inbox).text]
  <2>2. Head(inbox).text \in Activities \cup {""}
    BY <2>1 DEF Events, AddEvents, CancelEvents, StageEvents, ActivityEvents,
                SummaryEvents, DoneEvents
  <2>3. UNCHANGED <<cancels, tickets, phase, adder>>
    BY <1>3 DEF HandleActivity
  <2>4. e \in Entry /\ e.started /\ ~e.finished /\ e.status \in Running
    BY <2>1, <2>2, EntryUpdated DEF Entry
  <2>5. CASE runs' = [runs EXCEPT ![r] = e]
    <3> HIDE DEF e
    <3>1. QED
      BY <2>1, <2>3, <2>4, <2>5, IndUpdate
  <2>6. CASE UNCHANGED runs
    BY <2>1, <2>3, <2>6, IndPop DEF Popped
  <2>7. QED
    BY <1>3, <2>1, <2>5, <2>6 DEF HandleActivity, Change
<1>4. CASE HandleSummary
  <2>1. PICK r \in Runs :
          /\ r = Head(inbox).run /\ Active(r) /\ Popped(inbox, inbox')
          /\ Head(inbox) \in Events /\ Head(inbox).type = "summary"
          /\ runs[r] \in Entry /\ runs[r].started = TRUE
          /\ runs[r].finished = FALSE /\ runs[r].status \in Running
    BY <1>1, <1>4 DEF HandleSummary, ReportTypes
  <2> DEFINE e == [runs[r] EXCEPT !.summary = Head(inbox).text]
  <2>2. Head(inbox).text \in Summaries
    BY <2>1 DEF Events, AddEvents, CancelEvents, StageEvents, ActivityEvents,
                SummaryEvents, DoneEvents, Summaries
  <2>3. UNCHANGED <<cancels, tickets, phase, adder>>
    BY <1>4 DEF HandleSummary
  <2>4. e \in Entry /\ e.started /\ ~e.finished /\ e.status \in Running
    BY <2>1, <2>2, EntryUpdated DEF Entry
  <2>5. CASE runs' = [runs EXCEPT ![r] = e]
    <3> HIDE DEF e
    <3>1. QED
      BY <2>1, <2>3, <2>4, <2>5, IndUpdate
  <2>6. CASE UNCHANGED runs
    BY <2>1, <2>3, <2>6, IndPop DEF Popped
  <2>7. QED
    BY <1>4, <2>1, <2>5, <2>6 DEF HandleSummary, Change
<1>5. CASE HandleDone
  <2>0. Receive("done") /\ "done" \in ReportTypes
    BY <1>5 DEF HandleDone, ReportTypes
  <2>1. PICK r \in Runs :
          /\ r = Head(inbox).run /\ Known(r) /\ Popped(inbox, inbox')
          /\ Head(inbox) \in Events /\ Head(inbox).type = "done"
    BY <1>1, <2>0
  <2>2. /\ phase[r] = "ended"
        /\ \A i \in 1 .. Len(inbox') :
             inbox'[i].type \in ReportTypes => inbox'[i].run # r
    BY <2>0, <2>1, HeadReport
  <2>3. Head(inbox).outcome \in Outcomes /\ Head(inbox).cancelled \in BOOLEAN
    BY <2>1 DEF Events, AddEvents, CancelEvents, StageEvents, ActivityEvents,
                SummaryEvents, DoneEvents
  <2>4. PICK o \in Outcomes, b \in BOOLEAN : Done(r, o, b)
    BY <1>5, <2>1, <2>3 DEF HandleDone
  <2>5. ~Executing(r)
    BY <2>2 DEF Executing
  <2>6. UNCHANGED <<tickets, phase, adder>>
    BY <1>5 DEF HandleDone
  <2>7. Popped(tickets, tickets')
    BY <2>6 DEF Popped
  <2>8. QED
    BY <2>1, <2>2, <2>4, <2>5, <2>6, <2>7, IndRetire
<1>6. QED
  BY <1>2, <1>3, <1>4, <1>5

LEMMA NoReportsOfIdle ==
    ASSUME IndInv, NEW r \in Runs, ~runs[r].started, Popped(inbox, inbox')
    PROVE  \A i \in 1 .. Len(inbox') :
             inbox'[i].type \in ReportTypes => inbox'[i].run # r
<1>1. inbox \in Seq(Events)
  BY DEF IndInv, TypeInv, TypeOK
<1>2. PICK k \in {0, 1} :
        \A i \in 1 .. Len(inbox') :
          i + k \in 1 .. Len(inbox) /\ inbox'[i] = inbox[i + k]
  BY <1>1, PoppedShift
<1>3. \A i \in 1 .. Len(inbox) : inbox[i].type \in ReportTypes => inbox[i].run # r
  BY DEF IndInv, ReportsLive, Active
<1>4. QED
  BY <1>2, <1>3

LEMMA IndCancel == IndInv /\ TypeInv' /\ HandleCancel => IndInv'
<1> SUFFICES ASSUME IndInv, TypeInv', HandleCancel PROVE IndInv'
  OBVIOUS
<1> USE DEF pipeVars
<1>1. PICK r \in Runs : r = Head(inbox).run /\ Popped(inbox, inbox')
  BY HeadReport DEF HandleCancel
<1>2. UNCHANGED <<tickets, phase, adder>> /\ Popped(tickets, tickets')
  BY DEF HandleCancel, Popped
<1>3. CASE UNCHANGED <<runs, cancels>>
  BY <1>1, <1>2, <1>3, IndPop
<1>4. CASE Known(r) /\ Retires(r) /\ Done(r, "error", TRUE)
  <2>1. ~runs[r].started /\ phase[r] = "none"
    BY <1>4 DEF Retires, IndInv, WaitingIdle
  <2>2. ~Executing(r) /\ "error" \in Outcomes
    BY <2>1 DEF Executing, Outcomes
  <2>3. QED
    BY <1>1, <1>2, <1>4, <2>1, <2>2, NoReportsOfIdle, IndRetire
<1>5. QED
  BY <1>1, <1>3, <1>4 DEF HandleCancel, CancelRefused, CancelAccepted

LEMMA IndLoop == IndInv /\ TypeInv' /\ LoopNext => IndInv'
<1> SUFFICES ASSUME IndInv, TypeInv', LoopNext PROVE IndInv'
  OBVIOUS
<1> USE DEF pipeVars, callerVars
<1>1. CASE ScheduleSkip
  <2>1. /\ Popped(inbox, inbox') /\ Popped(tickets, tickets')
        /\ UNCHANGED <<runs, cancels, phase, adder>>
    BY <1>1 DEF ScheduleSkip, MoreToSchedule, Popped
  <2>2. QED
    BY <2>1, IndPop
<1>2. CASE ScheduleRetire
  <2>1. PICK r \in Runs : r = Head(tickets) /\ phase[r] = "none" /\ ~runs[r].started
    BY <1>2, FirstTicket DEF ScheduleRetire, MoreToSchedule
  <2>2. /\ Popped(inbox, inbox') /\ Popped(tickets, tickets')
        /\ Known(r) /\ Done(r, "error", TRUE) /\ UNCHANGED <<phase, adder>>
    BY <1>2, <2>1 DEF ScheduleRetire, MoreToSchedule, Popped
  <2>3. ~Executing(r) /\ "error" \in Outcomes
    BY <2>1 DEF Executing, Outcomes
  <2>4. QED
    BY <2>1, <2>2, <2>3, NoReportsOfIdle, IndRetire
<1>3. CASE TickPublish \/ LoopStop
  <2>1. /\ Popped(inbox, inbox') /\ Popped(tickets, tickets')
        /\ UNCHANGED <<runs, cancels, phase, adder>>
    BY <1>3 DEF TickPublish, LoopStop, Popped
  <2>2. QED
    BY <2>1, IndPop
<1>4. QED
  BY <1>1, <1>2, <1>3, IndAdd, IndCancel, IndHandleReport, IndEvict, IndStart
  DEF LoopNext, Handle

LEMMA IndInit == Init => IndInv
<1> SUFFICES ASSUME Init PROVE IndInv
  OBVIOUS
<1>1. TypeInv
  BY TypeInit DEF Init, TypeInv, FirstAttempt, ReportReady
<1>2. /\ \A r \in Runs : runs[r] = Absent /\ phase[r] = "none"
      /\ inbox = <<>> /\ tickets = <<>> /\ cancels = {}
  BY DEF Init
<1>3. TableShape /\ WaitingIdle
  BY <1>2, AbsentEntry DEF TableShape, WaitingIdle, IsFinilised, Terminal, Running
<1>4. CancelsAreLive /\ ExecLive
  BY <1>2, AbsentEntry DEF CancelsAreLive, ExecLive, Known, Executing
<1>5. ReportsLive /\ DoneIsLast /\ TicketsIdle
  BY <1>2 DEF ReportsLive, DoneIsLast, TicketsIdle
<1>6. AddsOnce
  BY <1>2, AbsentEntry
  DEF AddsOnce, SendersUntouched, AddsUntouched, AddsDistinct, Untouched, Known
<1>7. ActiveBound
  <2>1. ActiveRuns = {}
    BY <1>2, AbsentEntry DEF ActiveRuns, Active
  <2>2. QED
    BY <2>1, FS_EmptySet, ConstantTypes DEF ActiveBound, ActiveCount
<1>8. QED
  BY <1>1, <1>3, <1>4, <1>5, <1>6, <1>7 DEF IndInv

LEMMA IndStep == IndInv /\ [Next]_vars => IndInv'
<1> SUFFICES ASSUME IndInv, [Next]_vars PROVE IndInv'
  OBVIOUS
<1>1. TypeInv'
  BY TypeStep DEF IndInv
<1>2. CASE UNCHANGED vars \/ Shutdown
  BY <1>1, <1>2, IndQuiet DEF vars, loopVars, pipeVars, callerVars, Shutdown
<1>3. QED
  BY <1>1, <1>2, IndCaller, IndPipeline, IndLoop DEF Next, Terminated

LEMMA IndCorrect == Spec => []IndInv
BY IndInit, IndStep, PTL DEF Spec

-----------------------------------------------------------------------------
(* The safety properties of RunQueue.                                       *)

\* No step leads to more goroutines than slots: while its goroutine executes, a run
\* keeps its entry, its slot and its cancel function, and schedule counts the slots.
THEOREM SlotsRespected == Spec => []SlotBound
<1>1. ASSUME IndInv PROVE SlotBound
  <2>1. IsFiniteSet(ActiveRuns)
    BY RunQueueAssumption, FS_Subset DEF ActiveRuns
  <2>2. {r \in Runs : Executing(r)} \subseteq ActiveRuns
    BY <1>1 DEF IndInv, ExecLive, ActiveRuns
  <2>3. /\ Cardinality({r \in Runs : Executing(r)}) <= Cardinality(ActiveRuns)
        /\ Cardinality({r \in Runs : Executing(r)}) \in Nat
        /\ Cardinality(ActiveRuns) \in Nat
    BY <2>1, <2>2, FS_Subset, FS_CardinalityType
  <2>4. Cardinality({r \in Runs : Executing(r)}) <= MaxContainers
    BY <1>1, <2>3, ConstantTypes DEF IndInv, ActiveBound, ActiveCount
  <2>5. \A r \in Runs : Executing(r) => Active(r)
    BY <1>1 DEF IndInv, ExecLive
  <2>6. \A r \in Runs : Active(r) => Known(r) /\ ~IsFinilised(runs[r].status)
    BY <1>1, ActiveEntry
  <2>7. \A r \in Runs : Executing(r) => r \in cancels
    BY <1>1, <2>5, <2>6 DEF IndInv, CancelsAreLive
  <2>8. QED
    BY <2>4, <2>5, <2>7 DEF SlotBound
<1>2. QED
  BY <1>1, IndCorrect, PTL

\* A cancel function is kept for the live runs and for no other.
THEOREM CancelsExact == Spec => []CancelsAreLive
<1>1. IndInv => CancelsAreLive
  BY DEF IndInv
<1>2. QED
  BY <1>1, IndCorrect, PTL

\* The only steps that write the table change the entry of one run that has not
\* ended, or evict.
LEMMA WhoWrites ==
    ASSUME IndInv, [Next]_vars
    PROVE  \/ UNCHANGED runs
           \/ \E r \in Runs :
                /\ ~IsFinilised(runs[r].status)
                /\ \A s \in Runs : s # r => runs'[s] = runs[s]
           \/ \E expired \in SUBSET FinishedRuns : TickEvict(expired)
<1> USE DEF loopVars, pipeVars, callerVars
<1>0. runs \in [Runs -> Entry] /\ TypeOK
  BY DEF IndInv, TypeInv, TypeOK
<1>1. ASSUME NEW r \in Runs, NEW e, Change(r, e)
      PROVE  \A s \in Runs : s # r => runs'[s] = runs[s]
  BY <1>0, <1>1 DEF Change
<1>2. CASE CallerNext \/ PipelineNext \/ Shutdown \/ UNCHANGED vars
  BY <1>2
  DEF CallerNext, AddSend, AddStopped, CancelSend, CancelLeft, PipelineNext,
      BeginPlanner, BeginExecutor, BeginReviewer, BeginStage, EndPlanner,
      EndReviewer, EndStage, ReportActivity, PushBranch, RunnerReturn, SendDone,
      Shutdown, vars
<1>3. CASE HandleAdd
  <2>1. Receive("add") /\ Change(Head(inbox).run, NewEntry("queued"))
    BY <1>3 DEF HandleAdd
  <2>2. /\ Head(inbox).run \in Runs /\ Head(inbox).type = "add"
        /\ Head(inbox) = inbox[1] /\ 1 \in 1 .. Len(inbox)
    BY <1>0, <2>1, HeadReport, ReceiveTyped
  <2>3. Untouched(Head(inbox).run)
    BY <2>2 DEF IndInv, AddsOnce, AddsUntouched
  <2>4. ~IsFinilised(runs[Head(inbox).run].status)
    BY <2>3 DEF Untouched, Known, IsFinilised, Terminal
  <2>5. QED
    BY <1>1, <2>1, <2>2, <2>4
<1>4. CASE HandleCancel
  <2>1. Head(inbox).run \in Runs
    BY <1>4, HeadReport DEF HandleCancel
  <2>2. CASE UNCHANGED runs
    BY <2>2
  <2>3. CASE CancelAccepted(Head(inbox).run, Head(inbox).call) /\ ~UNCHANGED runs
    <3>1. /\ ~IsFinilised(runs[Head(inbox).run].status)
          /\ Change(Head(inbox).run, DoneEntry(runs[Head(inbox).run], "error", TRUE))
      BY <2>3 DEF CancelAccepted, Done
    <3>2. QED
      BY <1>1, <2>1, <3>1
  <2>4. QED
    BY <1>4, <2>2, <2>3 DEF HandleCancel, CancelRefused
<1>5. CASE HandleStage \/ HandleActivity \/ HandleSummary \/ HandleDone
  <2>1. \E type \in ReportTypes : Receive(type)
    BY <1>5 DEF HandleStage, HandleActivity, HandleSummary, HandleDone, ReportTypes
  <2>2. PICK r \in Runs : r = Head(inbox).run /\ ~IsFinilised(runs[r].status)
    BY <2>1, HeadReport DEF Active
  <2>3. UNCHANGED runs \/ \E e : Change(r, e)
    BY <1>5, <2>2
    DEF HandleStage, HandleActivity, HandleSummary, HandleDone, Done
  <2>4. QED
    BY <1>1, <2>2, <2>3
<1>6. CASE ScheduleRetire \/ ScheduleStart
  <2>1. PICK r \in Runs : r = Head(tickets)
    BY <1>6, FirstTicket DEF ScheduleRetire, ScheduleStart, MoreToSchedule
  <2>2. ~IsFinilised(runs[r].status) /\ \E e : Change(r, e)
    BY <1>6, <2>1 DEF ScheduleRetire, ScheduleStart, Done
  <2>3. QED
    BY <1>1, <2>2
<1>7. CASE ScheduleSkip \/ TickPublish \/ LoopStop
  BY <1>7 DEF ScheduleSkip, TickPublish, LoopStop
<1>8. QED
  BY <1>2, <1>3, <1>4, <1>5, <1>6, <1>7 DEF Next, LoopNext, Handle, Terminated

\* Once a run has ended, its entry stays as it is until it is evicted.
THEOREM TerminalIsFinal == Spec => TerminalFrozen
<1>1. ASSUME IndInv, [Next]_vars
      PROVE  \A r \in Runs : IsFinilised(runs[r].status)
               => runs'[r] = runs[r] \/ runs'[r] = Absent
  <2>1. CASE \E S \in SUBSET FinishedRuns : TickEvict(S)
    BY <2>1 DEF TickEvict
  <2>2. QED
    BY <1>1, <2>1, WhoWrites
<1>2. QED
  BY <1>1, IndCorrect, PTL DEF Spec, TerminalFrozen
=============================================================================
